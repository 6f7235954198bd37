------------------------------ MODULE MCJudging ------------------------------
(* An instance of Judging for TLC: all items ask the same question.        *)
EXTENDS Judging

CONSTANT q1

SameQuestion == [i \in ResultFile |-> q1]
=============================================================================
