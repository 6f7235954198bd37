---------------------------- MODULE MCSqliteCache ----------------------------
(* Instances of SqliteCache for TLC.  Each thread refers to two files at   *)
(* most; with one file more there is always one to stand for a new one.    *)
EXTENDS SqliteCache, FiniteSets

ASSUME EnoughFiles == Cardinality(File) >= 2 * Cardinality(Thread) + 1
=============================================================================
