------------------------------- MODULE Episode -------------------------------
(***************************************************************************)
(* What one question costs and how it ends, as the callers of              *)
(* BaseToolAgent.run see it: a bounded number of model rounds, of which at *)
(* most the last submits an answer, or an exception.                       *)
(***************************************************************************)
EXTENDS Naturals

CONSTANT MaxRound

VARIABLES
  status,   \* "running", then "submitted", "exhausted" or "failed"
  rounds    \* model rounds completed

Init == status = "running" /\ rounds = 0

(* One round of the loop, which may end the episode with an answer.        *)
Round ==
  /\ status = "running"
  /\ rounds < MaxRound
  /\ rounds' = rounds + 1
  /\ status' \in {"running", "submitted"}

(* The rounds are used up without an accepted answer.                      *)
Exhaust ==
  /\ status = "running"
  /\ rounds = MaxRound
  /\ status' = "exhausted"
  /\ UNCHANGED rounds

(* run() raises in the middle of a round.                                  *)
Fail ==
  /\ status = "running"
  /\ rounds < MaxRound
  /\ status' = "failed"
  /\ UNCHANGED rounds

Next == Round \/ Exhaust \/ Fail

Spec == Init /\ [][Next]_<<status, rounds>>

=============================================================================
