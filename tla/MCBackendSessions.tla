------------------------- MODULE MCBackendSessions -------------------------
(* Instances of BackendSessions for TLC.  Routers only meet in sessions of *)
(* one name, where another router is a start that fails or a session that  *)
(* is there already, so that one router on a machine with sessions of an   *)
(* earlier one shows every interleaving of its threads and signals.        *)
EXTENDS BackendSessions

CONSTANTS r1, a, b, c, d

(* A router of three GPUs; session d belongs to somebody else.             *)
Gpus == [r \in Router |-> {a, b, c}]
=============================================================================
