---------------------------- MODULE MCToolSlots ----------------------------
(* Instances of ToolSlots for TLC.                                         *)
EXTENDS ToolSlots, TLC

CONSTANTS r1, r2, r3

(* A search of each kind, for one search slot, one text worker and one     *)
(* thread of the vector pool: one may hold the slot, or leave its work     *)
(* behind, while two wait.                                                 *)
Searches   == {r1, r2, r3}
SearchKind == r1 :> "rrf" @@ r2 :> "vector" @@ r3 :> "keywords"

OnePermit  == [s \in Sems |-> 1]
=============================================================================
