----------------------------- MODULE ResultStore -----------------------------
(***************************************************************************)
(* What the result directory of run_qa_agent promises to whoever reads it  *)
(* (a later run, print_qa_benchmark_md_table).  A run first goes through   *)
(* the results that are there: each is noted, or discarded if it cannot be *)
(* read.  Then it fills the gaps: results only appear, whole, and none is  *)
(* replaced or removed any more.  Between runs results may be damaged from *)
(* outside.                                                                *)
(***************************************************************************)
CONSTANTS Item, Result, None

VARIABLES
  result,   \* the valid result of an item, or None
  phase,    \* what the run in the directory does: "idle" if there is none
  noted     \* the items whose result the run has noted or made

vars == <<result, phase, noted>>

Init == result = [i \in Item |-> None] /\ phase = "idle" /\ noted = {}

Start == phase = "idle" /\ phase' = "reading" /\ UNCHANGED <<result, noted>>

Note(i) ==
  /\ phase = "reading"
  /\ result[i] # None
  /\ noted' = noted \cup {i}
  /\ UNCHANGED <<result, phase>>

Discard(i) ==
  /\ phase = "reading"
  /\ i \notin noted
  /\ result' = [result EXCEPT ![i] = None]
  /\ UNCHANGED <<phase, noted>>

(* No result is left that the run does not know of.                        *)
Fill ==
  /\ phase = "reading"
  /\ \A i \in Item : result[i] # None => i \in noted
  /\ phase' = "filling"
  /\ UNCHANGED <<result, noted>>

Publish(i, s) ==
  /\ phase = "filling"
  /\ result[i] = None
  /\ result' = [result EXCEPT ![i] = s]
  /\ noted' = noted \cup {i}
  /\ UNCHANGED phase

Stop == phase # "idle" /\ phase' = "idle" /\ noted' = {} /\ UNCHANGED result

Damage(i) ==
  /\ phase = "idle"
  /\ result' = [result EXCEPT ![i] = None]
  /\ UNCHANGED <<phase, noted>>

Next ==
  \/ Start
  \/ Fill
  \/ Stop
  \/ \E i \in Item : \/ Note(i) \/ Discard(i) \/ Damage(i)
                     \/ \E s \in Result : Publish(i, s)

Spec == Init /\ [][Next]_vars

=============================================================================
