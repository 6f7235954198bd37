----------------------------- MODULE MCQaRunner -----------------------------
(* Instances of QaRunner for TLC.                                          *)
EXTENDS QaRunner
=============================================================================
