--------------------------- MODULE QaRunnerProofs ---------------------------
(* Proofs about QaRunner, for any dataset, scores and numbers of workers,  *)
(* and, at the end, about Judging, whose names are all different.          *)
EXTENDS QaRunner, Judging, FiniteSetTheorems, WellFoundedInduction, TLAPS

(* What the position of an item in a run says about its files.             *)
FilesFollowState ==
  \A i \in Item :
    /\ Active /\ st[i] \in Busy \cup {"pending", "error", "lost"}
         => out[i] = None
    /\ Active /\ st[i] \in Known \cup {"ok"} => out[i] \in Result
    /\ st[i] = "replacing" => tmp[i] = rec[i]
    /\ Active /\ st[i] = "ok" => out[i] = rec[i]
    /\ mode = "scan" => st[i] \in {"unseen", "pending", "cached"}
    /\ mode = "run" => st[i] # "unseen"

FilesInv == TypeOK /\ FilesFollowState /\ NoLitter

-----------------------------------------------------------------------------
LEMMA ContentFacts ==
  /\ {None, Torn, Garbled} \cap Result = {}
  /\ Unscored \notin Score /\ None \notin {Torn, Garbled}
  BY ContentAssumption DEF Result

LEMMA InitTypeOK == Init => TypeOK
<1> SUFFICES ASSUME Init PROVE TypeOK
  OBVIOUS
<1>1. out \in [Item -> Content] /\ tmp \in [Item -> Content]
  BY DEF Init, Content
<1>2. st \in [Item -> States] /\ rec \in [Item -> Result \cup {None}]
  BY DEF Init, States
<1>. QED
  BY <1>1, <1>2 DEF Init, TypeOK, Modes

LEMMA FreshMemoryType ==
  ASSUME FreshMemory
  PROVE  /\ st' \in [Item -> States]
         /\ rec' \in [Item -> Result \cup {None}]
         /\ {total', count', failures'} \subseteq Nat
         /\ \A i \in Item : st'[i] = "unseen"
  BY DEF FreshMemory, States

LEMMA AccumulateType ==
  ASSUME TypeOK, NEW s \in Result, Accumulate(s)
  PROVE  {total', count', failures'} \subseteq Nat
<1>1. total \in Nat /\ count \in Nat /\ failures \in Nat
  BY DEF TypeOK
<1>2. CASE s = Unscored /\ UNCHANGED <<total, count>>
  BY <1>1, <1>2 DEF Accumulate
<1>3. CASE s \in Score /\ total' = total + s /\ count' = count + 1
  BY <1>1, <1>3, ContentAssumption DEF Accumulate
<1>. QED
  BY <1>2, <1>3 DEF Accumulate

LEMMA NextTypeOK == TypeOK /\ [Next]_vars => TypeOK'
<1> SUFFICES ASSUME TypeOK, [Next]_vars PROVE TypeOK'
  OBVIOUS
<1> USE DEF disk, sums
<1>1. CASE StartRun
  BY <1>1, FreshMemoryType DEF StartRun, TypeOK, Modes
<1>2. ASSUME NEW i \in Item, Scan(i) PROVE TypeOK'
  <2>1. CASE out[i] \in Result /\ MoveTo(i, "cached") /\ Accumulate(out[i])
             /\ UNCHANGED out
    BY <1>2, <2>1, AccumulateType
    DEF Scan, MoveTo, TypeOK, States, Known
  <2>2. CASE MoveTo(i, "pending") /\ out' = [out EXCEPT ![i] = None]
             /\ UNCHANGED sums
    BY <1>2, <2>2 DEF Scan, MoveTo, TypeOK, States, Content
  <2>. QED
    BY <1>2, <2>1, <2>2 DEF Scan
<1>3. CASE EndScan
  BY <1>3 DEF EndScan, TypeOK, Modes
<1>4. ASSUME NEW i \in Item, StartItem(i) PROVE TypeOK'
  BY <1>4 DEF StartItem, MoveTo, TypeOK, States, Busy
<1>5. ASSUME NEW i \in Item, AnswerFails(i) PROVE TypeOK'
  BY <1>5 DEF AnswerFails, MoveTo, TypeOK, States
<1>6. ASSUME NEW i \in Item, NEW s \in Result, Answered(i, s) PROVE TypeOK'
  BY <1>6, ContentFacts
  DEF Answered, MoveTo, TypeOK, States, Busy, Content
<1>7. ASSUME NEW i \in Item, WriteTmp(i) PROVE TypeOK'
  BY <1>7 DEF WriteTmp, MoveTo, TypeOK, States, Busy, Content
<1>8. ASSUME NEW i \in Item, Replace(i) PROVE TypeOK'
  BY <1>8 DEF Replace, MoveTo, TypeOK, States, Content
<1>9. ASSUME NEW i \in Item, WriteFails(i) PROVE TypeOK'
  BY <1>9 DEF WriteFails, MoveTo, TypeOK, States
<1>10. ASSUME NEW i \in Item, Collect(i) PROVE TypeOK'
  <2>1. rec[i] \in Result
    BY <1>10 DEF Collect, TypeOK
  <2>. QED
    BY <1>10, <2>1, AccumulateType
    DEF Collect, MoveTo, TypeOK, States, Known
<1>11. ASSUME NEW i \in Item, CollectFailure(i) PROVE TypeOK'
  BY <1>11 DEF CollectFailure, MoveTo, TypeOK, States, Modes
<1>12. CASE EndRun
  BY <1>12 DEF EndRun, TypeOK, Modes
<1>13. CASE Crash
  BY <1>13, FreshMemoryType DEF Crash, TypeOK, Modes
<1>14. ASSUME NEW i \in Item, Damage(i) PROVE TypeOK'
  BY <1>14 DEF Damage, TypeOK, Content
<1>15. ASSUME NEW i \in Item, ReadFails(i) \/ Repair(i) PROVE TypeOK'
  BY <1>15 DEF ReadFails, Repair, MoveTo, TypeOK, States, Content
<1>16. ASSUME NEW i \in Item, ScanRaises(i) PROVE TypeOK'
  BY <1>16 DEF ScanRaises, TypeOK, Modes
<1>17. CASE UNCHANGED vars
  BY <1>17 DEF vars, TypeOK
<1>. QED
  BY <1>1, <1>2, <1>3, <1>4, <1>5, <1>6, <1>7, <1>8, <1>9, <1>10, <1>11,
     <1>12, <1>13, <1>14, <1>15, <1>16, <1>17 DEF Next, Main, Work

(* Type correctness of a benchmark run; a worker that writes has a record. *)
THEOREM TypeCorrect == Spec => []TypeOK
<1>. QED
  BY InitTypeOK, NextTypeOK, PTL DEF Spec

-----------------------------------------------------------------------------
LEMMA NextFiles == FilesInv /\ [Next]_vars => FilesFollowState'
<1> SUFFICES ASSUME FilesInv, [Next]_vars PROVE FilesFollowState'
  OBVIOUS
<1> USE ContentFacts DEF FilesInv, FilesFollowState, TypeOK, Active, Busy, Known
<1>1. CASE StartRun
  BY <1>1, FreshMemoryType DEF StartRun
<1>2. ASSUME NEW i \in Item, Scan(i) PROVE FilesFollowState'
  BY <1>2 DEF Scan, MoveTo
<1>3. CASE EndScan
  BY <1>3 DEF EndScan, disk
<1>4. ASSUME NEW i \in Item, StartItem(i) PROVE FilesFollowState'
  BY <1>4 DEF StartItem, MoveTo, disk
<1>5. ASSUME NEW i \in Item, AnswerFails(i) PROVE FilesFollowState'
  BY <1>5 DEF AnswerFails, MoveTo, disk
<1>6. ASSUME NEW i \in Item, NEW s \in Result, Answered(i, s)
      PROVE  FilesFollowState'
  BY <1>6 DEF Answered, MoveTo
<1>7. ASSUME NEW i \in Item, WriteTmp(i) PROVE FilesFollowState'
  BY <1>7 DEF WriteTmp, MoveTo
<1>8. ASSUME NEW i \in Item, Replace(i) PROVE FilesFollowState'
  BY <1>8 DEF Replace, MoveTo
<1>9. ASSUME NEW i \in Item, WriteFails(i) PROVE FilesFollowState'
  BY <1>9 DEF WriteFails, MoveTo, disk
<1>10. ASSUME NEW i \in Item, Collect(i) PROVE FilesFollowState'
  BY <1>10 DEF Collect, MoveTo, disk
<1>11. ASSUME NEW i \in Item, CollectFailure(i) PROVE FilesFollowState'
  BY <1>11 DEF CollectFailure, MoveTo, disk
<1>12. CASE EndRun
  BY <1>12 DEF EndRun, disk
<1>13. CASE Crash
  BY <1>13, FreshMemoryType DEF Crash
<1>14. ASSUME NEW i \in Item, Damage(i) PROVE FilesFollowState'
  BY <1>14 DEF Damage
<1>15. ASSUME NEW i \in Item, ReadFails(i) \/ Repair(i)
       PROVE  FilesFollowState'
  BY <1>15 DEF ReadFails, Repair, MoveTo
<1>16. ASSUME NEW i \in Item, ScanRaises(i) PROVE FilesFollowState'
  BY <1>16 DEF ScanRaises, disk
<1>17. CASE UNCHANGED vars
  BY <1>17 DEF vars, disk
<1>. QED
  BY <1>1, <1>2, <1>3, <1>4, <1>5, <1>6, <1>7, <1>8, <1>9, <1>10, <1>11,
     <1>12, <1>13, <1>14, <1>15, <1>16, <1>17 DEF Next, Main, Work

LEMMA NextNoLitter == FilesInv /\ [Next]_vars => NoLitter'
<1> SUFFICES ASSUME FilesInv, [Next]_vars, NEW j \in Item,
                    tmp'[j] # None
             PROVE  out'[j] \notin Result
  BY DEF NoLitter
<1>1. tmp[j] # None => out[j] \notin Result
  BY DEF FilesInv, NoLitter
<1> USE ContentFacts DEF FilesInv, TypeOK
<1>2. CASE UNCHANGED disk
  BY <1>1, <1>2 DEF disk
<1>3. ASSUME NEW i \in Item, Scan(i) PROVE out'[j] \notin Result
  BY <1>1, <1>3 DEF Scan
<1>4. ASSUME NEW i \in Item, NEW s \in Result, Answered(i, s)
      PROVE  out'[j] \notin Result
  BY <1>1, <1>4 DEF Answered, FilesFollowState, Active, Busy
<1>5. ASSUME NEW i \in Item, WriteTmp(i) PROVE out'[j] \notin Result
  BY <1>1, <1>5 DEF WriteTmp, FilesFollowState, Active, Busy
<1>6. ASSUME NEW i \in Item, Replace(i) PROVE out'[j] \notin Result
  BY <1>1, <1>6 DEF Replace
<1>7. ASSUME NEW i \in Item, Damage(i) \/ Repair(i) \/ ReadFails(i)
      PROVE  out'[j] \notin Result
  BY <1>1, <1>7 DEF Damage, Repair, ReadFails
<1>. QED
  BY <1>2, <1>3, <1>4, <1>5, <1>6, <1>7
  DEF Next, Main, Work, vars, StartRun, EndScan, StartItem, AnswerFails,
      WriteFails, Collect, CollectFailure, EndRun, Crash, ScanRaises

LEMMA FilesInvariance == Spec => []FilesInv
<1>1. Init => FilesInv
  BY InitTypeOK DEF Init, FilesInv, FilesFollowState, NoLitter, Active, Busy,
                    Known
<1>2. FilesInv /\ [Next]_vars => FilesInv'
  BY NextTypeOK, NextFiles, NextNoLitter DEF FilesInv
<1>. QED
  BY <1>1, <1>2, PTL DEF Spec

(* No file under a result's name is incomplete while items are answered.   *)
THEOREM NoPartialResult == Spec => []WholeResults
<1>1. FilesInv => WholeResults
  BY ContentFacts
  DEF FilesInv, FilesFollowState, WholeResults, TypeOK, States, Active, Busy,
      Known
<1>. QED
  BY <1>1, FilesInvariance, PTL

(* No temporary file lies beside a valid result.                           *)
THEOREM TemporaryFilesGo == Spec => []NoLitter
<1>1. FilesInv => NoLitter
  BY DEF FilesInv
<1>. QED
  BY <1>1, FilesInvariance, PTL

-----------------------------------------------------------------------------
(* What the store sees: valid results, the phase and what was noted.       *)
Valid(o) == [i \in Item |-> IF o[i] \in Result THEN o[i] ELSE None]
PhaseOf(m) == IF m = "scan" THEN "reading"
              ELSE IF m = "run" THEN "filling" ELSE "idle"
Noted == IF Active THEN In(Known \cup {"ok"}) ELSE {}

(* Steps within a phase that neither touch a result nor note one.          *)
LEMMA StutterStep ==
  ASSUME UNCHANGED <<out, mode>>, Active => In(Known \cup {"ok"})' = In(Known \cup {"ok"})
  PROVE  UNCHANGED <<Valid(out), PhaseOf(mode), Noted>>
  BY DEF Valid, PhaseOf, Noted, Active

LEMMA RefineStep ==
  ASSUME FilesInv, [Next]_vars
  PROVE  [Store!Next]_(Store!vars)
<1> USE ContentFacts
<1> DEFINE Same == UNCHANGED <<Valid(out), PhaseOf(mode), Noted>>
<1>0. /\ Same => UNCHANGED Store!vars
      /\ out \in [Item -> Content] /\ st \in [Item -> States]
  BY DEF Valid, PhaseOf, Noted, Store!vars, FilesInv, TypeOK
<1>1. CASE StartRun
  <2>1. Store!Start
    BY <1>1, FreshMemoryType DEF StartRun, Store!Start, Active, In, Known, disk
  <2> QED
    BY <2>1 DEF Store!Next
<1>2. CASE Crash \/ EndRun \/ \E i \in Item : ScanRaises(i)
  <2>1. Store!Stop
    BY <1>2 DEF Crash, EndRun, ScanRaises, Store!Stop, Active, disk
  <2> QED
    BY <2>1 DEF Store!Next
<1>3. CASE EndScan
  <2>1. CASE mode' = "ended"
    <3>1. Store!Stop
      BY <1>3, <2>1 DEF EndScan, Store!Stop, Active, disk
    <3> QED
      BY <3>1 DEF Store!Next
  <2>2. CASE mode' = "run"
    <3>1. \A i \in Item : out[i] \in Result => i \in In(Known \cup {"ok"})
      BY <1>3 DEF EndScan, FilesInv, FilesFollowState, In, Known, Active
    <3>2. Store!Fill
      BY <1>3, <2>2, <3>1 DEF EndScan, Store!Fill, Active, In, disk
    <3> QED
      BY <3>2 DEF Store!Next
  <2> QED
    BY <1>3, <2>1, <2>2 DEF EndScan
<1>4. ASSUME NEW i \in Item, Scan(i) PROVE [Store!Next]_(Store!vars)
  <2>1. CASE out[i] \in Result /\ MoveTo(i, "cached") /\ UNCHANGED out
    <3>1. In(Known \cup {"ok"})' = In(Known \cup {"ok"}) \cup {i}
      BY <1>0, <2>1 DEF MoveTo, In, Known
    <3>2. Store!Note(i)
      BY <1>4, <2>1, <3>1 DEF Scan, Store!Note, Active
    <3> QED
      BY <3>2 DEF Store!Next
  <2>2. CASE out[i] \in {None, Torn} /\ MoveTo(i, "pending")
             /\ out' = [out EXCEPT ![i] = None]
    <3>1. In(Known \cup {"ok"})' = In(Known \cup {"ok"})
      BY <1>0, <1>4, <2>2 DEF Scan, MoveTo, In, Known
    <3>2. Valid(out') = Valid(out)
      BY <1>0, <2>2 DEF Valid
    <3>3. Same
      BY <1>4, <3>1, <3>2 DEF Scan, PhaseOf, Noted, Active, Valid
    <3> QED
      BY <1>0, <3>3
  <2> QED
    BY <1>4, <2>1, <2>2 DEF Scan
<1>5. ASSUME NEW i \in Item, ReadFails(i) PROVE [Store!Next]_(Store!vars)
  <2>1. In(Known \cup {"ok"})' = In(Known \cup {"ok"})
        /\ i \notin In(Known \cup {"ok"})
    BY <1>0, <1>5 DEF ReadFails, MoveTo, In, Known
  <2>2. Valid(out') = [Valid(out) EXCEPT ![i] = None]
    BY <1>0, <1>5 DEF ReadFails, Valid
  <2>3. Store!Discard(i)
    BY <1>5, <2>1, <2>2 DEF ReadFails, Store!Discard, Active, Valid
  <2> QED
    BY <2>3 DEF Store!Next
<1>6. ASSUME NEW i \in Item, Replace(i) PROVE [Store!Next]_(Store!vars)
  <2>1. /\ out[i] = None
        /\ tmp[i] \in Result
    BY <1>6 DEF Replace, FilesInv, FilesFollowState, TypeOK, Busy, Active
  <2>2. Valid(out') = [Valid(out) EXCEPT ![i] = tmp[i]]
    BY <1>0, <1>6, <2>1 DEF Replace, Valid
  <2>3. In(Known \cup {"ok"})' = In(Known \cup {"ok"}) \cup {i}
    BY <1>0, <1>6 DEF Replace, MoveTo, In, Known
  <2>4. PICK s \in Result : s = tmp[i]
    BY <2>1
  <2>5. Store!Publish(i, s)
    BY <1>6, <2>1, <2>2, <2>3, <2>4 DEF Replace, Store!Publish, Active, Valid
  <2> QED
    BY <2>5 DEF Store!Next
<1>7. ASSUME NEW i \in Item, Damage(i) PROVE [Store!Next]_(Store!vars)
  <2>1. Valid(out') = [Valid(out) EXCEPT ![i] = None]
    BY <1>0, <1>7 DEF Damage, Valid
  <2>2. Store!Damage(i)
    BY <1>7, <2>1 DEF Damage, Store!Damage, Active, Valid
  <2> QED
    BY <2>2 DEF Store!Next
<1>8. ASSUME NEW i \in Item, Repair(i) PROVE [Store!Next]_(Store!vars)
  <2>1. Valid(out') = Valid(out)
    BY <1>0, <1>8 DEF Repair, Valid
  <2>2. Same
    BY <1>8, <2>1 DEF Repair, PhaseOf, Noted, Active, Valid
  <2> QED
    BY <1>0, <2>2
<1>9. ASSUME NEW i \in Item,
             \/ StartItem(i) \/ AnswerFails(i) \/ WriteFails(i) \/ WriteTmp(i)
             \/ Collect(i) \/ \E s \in Result : Answered(i, s)
      PROVE  [Store!Next]_(Store!vars)
  <2>1. In(Known \cup {"ok"})' = In(Known \cup {"ok"})
    BY <1>0, <1>9 DEF StartItem, AnswerFails, WriteFails, WriteTmp, Collect,
                      Answered, MoveTo, In, Known
  <2>2. UNCHANGED <<out, mode>>
    BY <1>9 DEF StartItem, AnswerFails, WriteFails, WriteTmp, Collect,
                Answered, disk
  <2> QED
    BY <1>0, <2>1, <2>2, StutterStep
<1>10. ASSUME NEW i \in Item, CollectFailure(i) PROVE [Store!Next]_(Store!vars)
  <2>1. CASE MoveTo(i, "lost") /\ UNCHANGED mode
    <3>1. In(Known \cup {"ok"})' = In(Known \cup {"ok"})
      BY <1>0, <1>10, <2>1 DEF CollectFailure, MoveTo, In, Known
    <3> QED
      BY <1>0, <1>10, <2>1, <3>1, StutterStep DEF CollectFailure, disk
  <2>2. CASE mode' = "aborted"
    <3>1. Store!Stop
      BY <1>10, <2>2 DEF CollectFailure, Store!Stop, Active, disk
    <3> QED
      BY <3>1 DEF Store!Next
  <2> QED
    BY <1>10, <2>1, <2>2 DEF CollectFailure
<1>11. CASE UNCHANGED vars
  BY <1>0, <1>11, StutterStep DEF vars, disk, In
<1>. QED
  BY <1>1, <1>2, <1>3, <1>4, <1>5, <1>6, <1>7, <1>8, <1>9, <1>10, <1>11
  DEF Next, Main, Work

(* Through crashes, failed reads and writes, and re-runs the directory     *)
(* behaves like the abstract store: a result can only be lost while a run  *)
(* reads it, and once the run answers items results are only added.        *)
THEOREM StoreRefined == Spec => ImplementsStore
<1>1. Init => Store!Init
  BY ContentFacts DEF Init, Store!Init, Active
<1>2. FilesInv /\ [Next]_vars => [Store!Next]_(Store!vars)
  BY RefineStep
<1>. QED
  BY <1>1, <1>2, FilesInvariance, PTL DEF Spec, ImplementsStore, Store!Spec

-----------------------------------------------------------------------------
(* The counters of main() count items.                                     *)
CountersFollowState ==
  Active => /\ count = Cardinality(ScoredKnown)
            /\ failures = Cardinality(In({"lost"}))

LEMMA FiniteParts ==
  IsFiniteSet(ScoredKnown) /\ IsFiniteSet(In({"lost"}))
  BY ItemAssumption, FS_Subset DEF ScoredKnown, In

(* Adding one item to a set of items makes a counter of it grow by one.    *)
LEMMA OneMore ==
  ASSUME NEW S \in SUBSET Item, NEW i \in Item, i \notin S
  PROVE  Cardinality(S \cup {i}) = Cardinality(S) + 1
  BY ItemAssumption, FS_Subset, FS_AddElement

(* An item becomes known with the score of the result that lies on disk.   *)
LEMMA KnownStep ==
  ASSUME FilesInv, CountersFollowState, Active, Active',
         NEW i \in Item, NEW s \in Known,
         st[i] \notin Known, st[i] # "lost", MoveTo(i, s),
         out[i] \in Result, Accumulate(out[i]), UNCHANGED out
  PROVE  CountersFollowState'
<1>1. In({"lost"})' = In({"lost"})
  BY DEF In, MoveTo, FilesInv, TypeOK, Known
<1>2. CASE out[i] = Unscored /\ UNCHANGED <<total, count>>
  <2>1. ScoredKnown' = ScoredKnown
    BY <1>2, ContentFacts DEF ScoredKnown, In, MoveTo, FilesInv, TypeOK
  <2>. QED
    BY <1>1, <1>2, <2>1 DEF CountersFollowState, Accumulate
<1>3. CASE out[i] \in Score /\ total' = total + out[i] /\ count' = count + 1
  <2>1. ScoredKnown' = ScoredKnown \cup {i}
    BY <1>3 DEF ScoredKnown, In, MoveTo, FilesInv, TypeOK
  <2>2. i \notin ScoredKnown /\ ScoredKnown \in SUBSET Item
    BY DEF ScoredKnown, In
  <2>3. Cardinality(ScoredKnown \cup {i}) = Cardinality(ScoredKnown) + 1
    BY <2>2, OneMore
  <2>. QED
    BY <1>1, <1>3, <2>1, <2>3 DEF CountersFollowState, Accumulate
<1>. QED
  BY <1>2, <1>3 DEF Accumulate

(* A step that moves no item into or out of the counted states.            *)
LEMMA NeutralStep ==
  ASSUME CountersFollowState, Active, UNCHANGED <<count, failures>>,
         ScoredKnown' = ScoredKnown, In({"lost"})' = In({"lost"})
  PROVE  CountersFollowState'
  BY DEF CountersFollowState

LEMMA NextCounters ==
  FilesInv /\ CountersFollowState /\ [Next]_vars => CountersFollowState'
<1> SUFFICES ASSUME FilesInv, CountersFollowState, [Next]_vars
             PROVE  CountersFollowState'
  OBVIOUS
<1>1. CASE StartRun \/ Crash
  <2>1. FreshMemory
    BY <1>1 DEF StartRun, Crash
  <2>2. ScoredKnown' = {} /\ In({"lost"})' = {}
    BY <2>1, FreshMemoryType DEF ScoredKnown, In, Known
  <2>. QED
    BY <2>1, <2>2, FS_EmptySet DEF CountersFollowState, FreshMemory
<1>2. ASSUME NEW i \in Item, Scan(i) PROVE CountersFollowState'
  <2>1. CASE out[i] \in Result /\ MoveTo(i, "cached") /\ Accumulate(out[i])
             /\ UNCHANGED out
    BY <1>2, <2>1, KnownStep DEF Scan, Active, Known
  <2>2. CASE out[i] \in {None, Torn} /\ MoveTo(i, "pending")
             /\ out' = [out EXCEPT ![i] = None] /\ UNCHANGED sums
    <3>1. ScoredKnown' = ScoredKnown /\ In({"lost"})' = In({"lost"})
      BY <1>2, <2>2 DEF Scan, MoveTo, ScoredKnown, In, Known, FilesInv, TypeOK
    <3>. QED
      BY <1>2, <2>2, <3>1, NeutralStep DEF Scan, Active, sums
  <2>. QED
    BY <1>2, <2>1, <2>2 DEF Scan
<1>3. ASSUME NEW i \in Item, Collect(i) PROVE CountersFollowState'
  <2>1. out[i] = rec[i]
    BY <1>3 DEF Collect, FilesInv, FilesFollowState, Active
  <2>. QED
    BY <1>3, <2>1, KnownStep
    DEF Collect, Active, Known, FilesInv, FilesFollowState, disk
<1>4. ASSUME NEW i \in Item, CollectFailure(i) PROVE CountersFollowState'
  <2>1. CASE mode' = "aborted"
    BY <2>1 DEF CountersFollowState, Active
  <2>2. CASE MoveTo(i, "lost") /\ failures' = failures + 1
    <3>1. ScoredKnown' = ScoredKnown /\ In({"lost"})' = In({"lost"}) \cup {i}
      BY <1>4, <2>2
      DEF CollectFailure, MoveTo, ScoredKnown, In, Known, FilesInv, TypeOK,
          disk
    <3>2. i \notin In({"lost"}) /\ In({"lost"}) \in SUBSET Item
      BY <1>4 DEF CollectFailure, In
    <3>3. Cardinality(In({"lost"}) \cup {i}) = Cardinality(In({"lost"})) + 1
      BY <3>2, OneMore
    <3>. QED
      BY <1>4, <2>2, <3>1, <3>3
      DEF CollectFailure, CountersFollowState, Active
  <2>. QED
    BY <1>4, <2>1, <2>2 DEF CollectFailure
<1>5. ASSUME NEW i \in Item,
             \/ StartItem(i) \/ AnswerFails(i) \/ WriteTmp(i)
             \/ WriteFails(i) \/ Replace(i)
             \/ \E s \in Result : Answered(i, s)
      PROVE  CountersFollowState'
  <2>1. ScoredKnown' = ScoredKnown /\ In({"lost"})' = In({"lost"})
    BY <1>5 DEF StartItem, AnswerFails, WriteTmp, WriteFails, Replace,
                Answered, MoveTo, ScoredKnown, In, Known, FilesInv, TypeOK,
                disk
  <2>. QED
    BY <1>5, <2>1, NeutralStep
    DEF StartItem, AnswerFails, WriteTmp, WriteFails, Replace, Answered,
        Active, sums
<1>6. CASE EndScan \/ EndRun \/ UNCHANGED vars
  <2>1. ScoredKnown' = ScoredKnown /\ In({"lost"})' = In({"lost"})
    BY <1>6 DEF EndScan, EndRun, vars, ScoredKnown, In, disk
  <2>2. UNCHANGED <<count, failures>> /\ (Active' => Active)
    BY <1>6 DEF EndScan, EndRun, vars, sums, Active
  <2>. QED
    BY <2>1, <2>2 DEF CountersFollowState
<1>7. ASSUME NEW i \in Item, Damage(i) \/ Repair(i) \/ ScanRaises(i)
      PROVE  CountersFollowState'
  BY <1>7 DEF Damage, Repair, ScanRaises, CountersFollowState, Active
<1>8. ASSUME NEW i \in Item, ReadFails(i) PROVE CountersFollowState'
  <2>1. ScoredKnown' = ScoredKnown /\ In({"lost"})' = In({"lost"})
    BY <1>8 DEF ReadFails, MoveTo, ScoredKnown, In, Known, FilesInv, TypeOK
  <2>. QED
    BY <1>8, <2>1, NeutralStep DEF ReadFails, Active, sums
<1>. QED
  BY <1>1, <1>2, <1>3, <1>4, <1>5, <1>6, <1>7, <1>8 DEF Next, Main, Work

(* A run that ends reports exactly the missing results as failures, and    *)
(* has counted every scored result there is.                               *)
THEOREM FailuresAreReported == Spec => MissingReported
<1> DEFINE P == mode # "ended" /\ mode' = "ended" =>
                  /\ failures' = Cardinality({i \in Item : out'[i] \notin Result})
                  /\ count' = Cardinality({i \in Item : out'[i] \in Score})
<1>1. Init => CountersFollowState
  BY DEF Init, CountersFollowState, Active
<1>2. FilesInv /\ CountersFollowState /\ [Next]_vars => CountersFollowState'
  BY NextCounters
<1>3. ASSUME FilesInv, CountersFollowState, [Next]_vars PROVE [P]_vars
  <2> SUFFICES ASSUME mode # "ended", mode' = "ended"
               PROVE  /\ failures' = Cardinality({i \in Item : out'[i] \notin Result})
                      /\ count' = Cardinality({i \in Item : out'[i] \in Score})
    OBVIOUS
  <2>1. Active /\ UNCHANGED <<out, count, failures>>
        /\ In(Known \cup {"lost"}) = Item
    <3>1. CASE EndScan
      <4>1. \A i \in Item : st[i] = "cached"
        BY <1>3, <3>1 DEF EndScan, FilesInv, FilesFollowState
      <4>. QED
        BY <3>1, <4>1 DEF EndScan, Active, disk, sums, In, Known
    <3>2. CASE EndRun
      BY <3>2 DEF EndRun, Active, disk, sums
    <3>. QED
      BY <1>3, <3>1, <3>2
      DEF Next, Main, Work, vars, StartRun, Scan, StartItem, AnswerFails,
          Answered, WriteTmp, Replace, WriteFails, Collect, CollectFailure,
          Crash, Damage, Repair, ReadFails, ScanRaises
  <2>2. \A i \in Item : st[i] \in Known \cup {"lost"}
    BY <2>1 DEF In
  <2>3. {i \in Item : out'[i] \notin Result} = In({"lost"})
    BY <1>3, <2>1, <2>2, ContentFacts
    DEF FilesInv, FilesFollowState, Known, In
  <2>4. {i \in Item : out'[i] \in Score} = ScoredKnown
    BY <1>3, <2>1, <2>2, ContentFacts, ContentAssumption
    DEF FilesInv, FilesFollowState, Known, In, ScoredKnown, Result
  <2>. QED
    BY <1>3, <2>1, <2>3, <2>4 DEF CountersFollowState
<1>. QED
  BY <1>1, <1>2, <1>3, FilesInvariance, PTL DEF Spec, MissingReported

-----------------------------------------------------------------------------
(* Sums.  What MapThenSumSet adds up is the size of a pile with f[i] things *)
(* for each i in S; that is shown on the smallest set for which it were    *)
(* false, and needs no induction.                                          *)
Pile(f, S) == {p \in S \X Nat : p[2] < f[p[1]]}

Column(i, n) == {i} \X (0 .. n - 1)

LEMMA ColumnCounted ==
  ASSUME NEW i, NEW n \in Nat
  PROVE  IsFiniteSet(Column(i, n)) /\ Cardinality(Column(i, n)) = n
<1>1. IsFiniteSet({i}) /\ Cardinality({i}) = 1
  BY FS_Singleton
<1>2. IsFiniteSet(0 .. n - 1) /\ Cardinality(0 .. n - 1) = n
  BY FS_Interval
<1>3. /\ IsFiniteSet(Column(i, n))
      /\ Cardinality(Column(i, n)) = Cardinality({i}) * Cardinality(0 .. n - 1)
  BY <1>1, <1>2, FS_Product DEF Column
<1> QED
  BY <1>1, <1>2, <1>3

LEMMA PileMore ==
  ASSUME NEW f, NEW S, NEW i, i \notin S, f[i] \in Nat,
         IsFiniteSet(Pile(f, S))
  PROVE  /\ IsFiniteSet(Pile(f, S \cup {i}))
         /\ Cardinality(Pile(f, S \cup {i})) = Cardinality(Pile(f, S)) + f[i]
<1> DEFINE A == Pile(f, S)
           B == Column(i, f[i])
<1>1. Pile(f, S \cup {i}) = A \cup B
  <2>1. ASSUME NEW p \in Pile(f, S \cup {i}) PROVE p \in A \cup B
    BY DEF Pile, Column
  <2>2. ASSUME NEW p \in A PROVE p \in Pile(f, S \cup {i})
    BY DEF Pile
  <2>3. ASSUME NEW p \in B PROVE p \in Pile(f, S \cup {i})
    BY DEF Pile, Column
  <2> QED
    BY <2>1, <2>2, <2>3
<1>2. A \cap B = {}
  BY DEF Pile, Column
<1>3. IsFiniteSet(B) /\ Cardinality(B) = f[i]
  BY ColumnCounted
<1>4. IsFiniteSet(A) /\ Cardinality(A) \in Nat
  BY FS_CardinalityType
<1> HIDE DEF A, B
<1>5. /\ IsFiniteSet(A \cup B)
      /\ Cardinality(A \cup B)
           = Cardinality(A) + Cardinality(B) - Cardinality(A \cap B)
  BY <1>3, <1>4, FS_Union
<1>6. Cardinality(A \cap B) = 0
  BY <1>2, FS_EmptySet
<1>7. Cardinality(A \cup B) = Cardinality(A) + f[i]
  BY <1>3, <1>4, <1>5, <1>6
<1> QED
  BY <1>1, <1>5, <1>7 DEF A

LEMMA PileOfNone ==
  ASSUME NEW f
  PROVE  IsFiniteSet(Pile(f, {})) /\ Cardinality(Pile(f, {})) = 0
<1>1. Pile(f, {}) = {}
  BY DEF Pile
<1> QED
  BY <1>1, FS_EmptySet

LEMMA PileFinite ==
  ASSUME NEW S, IsFiniteSet(S), NEW f, \A i \in S : f[i] \in Nat
  PROVE  \A R \in SUBSET S : IsFiniteSet(Pile(f, R))
<1> DEFINE T == {R \in SUBSET S : ~IsFiniteSet(Pile(f, R))}
<1>1. SUFFICES ASSUME T # {} PROVE FALSE
  OBVIOUS
<1>2. T \subseteq FiniteSubsetsOf(S)
  BY FS_Subset DEF FiniteSubsetsOf
<1> HIDE DEF T
<1>3. PICK R \in T : \A y \in T : ~(<<y, R>> \in StrictSubsetOrdering(S))
  BY <1>1, <1>2, WFMin, FS_StrictSubsetOrderingWellFounded
<1>4. R \in SUBSET S /\ ~IsFiniteSet(Pile(f, R))
  BY DEF T
<1>5. R # {}
  BY <1>4, PileOfNone
<1>6. PICK i \in R : TRUE
  BY <1>5
<1>7. R \ {i} \in SUBSET S /\ <<R \ {i}, R>> \in StrictSubsetOrdering(S)
  BY <1>4, <1>6 DEF StrictSubsetOrdering
<1>8. IsFiniteSet(Pile(f, R \ {i}))
  BY <1>3, <1>7 DEF T
<1>9. R = (R \ {i}) \cup {i} /\ i \notin R \ {i} /\ f[i] \in Nat
  BY <1>4, <1>6
<1>10. IsFiniteSet(Pile(f, (R \ {i}) \cup {i}))
  BY <1>8, <1>9, PileMore
<1> QED
  BY <1>4, <1>9, <1>10

(* A step of the recursion of MapThenSumSet.                               *)
Rest(g, f, R) ==
  IF R = {} THEN 0
  ELSE LET i == CHOOSE i \in R : TRUE IN f[i] + g[R \ {i}]

Adding(g, f, S) == [R \in SUBSET S |-> Rest(g, f, R)]

LEMMA SumIs ==
  ASSUME NEW S, IsFiniteSet(S), NEW f, \A i \in S : f[i] \in Nat
  PROVE  MapThenSumSet(LAMBDA i : f[i], S) = Cardinality(Pile(f, S))
<1> DEFINE h == CHOOSE g : g = Adding(g, f, S)
           g == [R \in SUBSET S |-> Cardinality(Pile(f, R))]
<1>1. MapThenSumSet(LAMBDA i : f[i], S) = h[S]
  BY DEF MapThenSumSet, MapThenFoldSet, Adding, Rest
<1>2. \A R \in SUBSET S : g[R] = Rest(g, f, R)
  <2> TAKE R \in SUBSET S
  <2>1. CASE R = {}
    BY <2>1, PileOfNone DEF Rest
  <2>2. CASE R # {}
    <3> DEFINE i == CHOOSE i \in R : TRUE
    <3>1. i \in R
      BY <2>2
    <3> HIDE DEF i
    <3>2. /\ R = (R \ {i}) \cup {i} /\ i \notin R \ {i} /\ f[i] \in Nat
          /\ R \ {i} \in SUBSET S
      BY <3>1
    <3>3. IsFiniteSet(Pile(f, R \ {i}))
      BY <3>2, PileFinite
    <3>4. Cardinality(Pile(f, (R \ {i}) \cup {i}))
            = Cardinality(Pile(f, R \ {i})) + f[i]
      BY <3>2, <3>3, PileMore
    <3>5. Cardinality(Pile(f, R \ {i})) \in Nat
      BY <3>3, FS_CardinalityType
    <3>6. g[R] = Cardinality(Pile(f, R))
          /\ g[R \ {i}] = Cardinality(Pile(f, R \ {i}))
      BY <3>2
    <3> HIDE DEF g
    <3>7. Cardinality(Pile(f, R)) = Cardinality(Pile(f, R \ {i})) + f[i]
      <4> DEFINE Q == (R \ {i}) \cup {i}
      <4>1. R = Q /\ Cardinality(Pile(f, Q)) = Cardinality(Pile(f, R \ {i})) + f[i]
        BY <3>2, <3>4
      <4> HIDE DEF Q
      <4> QED
        BY <4>1
    <3>8. g[R] = f[i] + g[R \ {i}]
      BY <3>2, <3>5, <3>6, <3>7
    <3> QED
      BY <2>2, <3>8 DEF Rest, i
  <2> QED
    BY <2>1, <2>2
<1>3. g = [R \in SUBSET S |-> g[R]] /\ g[S] = Cardinality(Pile(f, S))
  OBVIOUS
<1> HIDE DEF g
<1>4. g = Adding(g, f, S)
  BY <1>2, <1>3 DEF Adding
<1>5. h = Adding(h, f, S)
  BY <1>4
<1> HIDE DEF h
<1>6. \A R \in SUBSET S : h[R] = Rest(h, f, R)
  BY <1>5 DEF Adding
<1> DEFINE T == {R \in SUBSET S : h[R] # g[R]}
<1>7. ASSUME T # {} PROVE FALSE
  <2>1. T \subseteq FiniteSubsetsOf(S)
    BY FS_Subset DEF FiniteSubsetsOf
  <2> HIDE DEF T
  <2>2. PICK R \in T : \A y \in T : ~(<<y, R>> \in StrictSubsetOrdering(S))
    BY <1>7, <2>1, WFMin, FS_StrictSubsetOrderingWellFounded
  <2>3. R \in SUBSET S /\ h[R] # g[R]
    BY DEF T
  <2>4. CASE R = {}
    BY <1>2, <1>6, <2>3, <2>4 DEF Rest
  <2>5. CASE R # {}
    <3> DEFINE i == CHOOSE i \in R : TRUE
    <3>1. i \in R
      BY <2>5
    <3>2. h[R] = f[i] + h[R \ {i}] /\ g[R] = f[i] + g[R \ {i}]
      BY <1>2, <1>6, <2>3, <2>5 DEF Rest
    <3> HIDE DEF i
    <3>3. R \ {i} \in SUBSET S /\ <<R \ {i}, R>> \in StrictSubsetOrdering(S)
      BY <2>3, <3>1 DEF StrictSubsetOrdering
    <3>4. h[R \ {i}] = g[R \ {i}]
      BY <2>2, <3>3 DEF T
    <3> QED
      BY <2>3, <3>2, <3>4
  <2> QED
    BY <2>4, <2>5
<1>8. h[S] = g[S]
  BY <1>7
<1> QED
  BY <1>1, <1>3, <1>8

(* Of a pile only the summands matter.                                    *)
LEMMA PileSame ==
  ASSUME NEW S, NEW f, NEW g, \A i \in S : f[i] = g[i]
  PROVE  Pile(f, S) = Pile(g, S)
<1>1. \A p \in S \X Nat : f[p[1]] = g[p[1]]
  OBVIOUS
<1> QED
  BY <1>1 DEF Pile

-----------------------------------------------------------------------------
(* The average of main() is over the scores on disk.                       *)
ScoredSum == Active => total = Cardinality(Pile(out, ScoredKnown))

LEMMA ScoresTyped ==
  ASSUME FilesInv
  PROVE  /\ IsFiniteSet(ScoredKnown)
         /\ \A i \in ScoredKnown : out[i] \in Nat
         /\ IsFiniteSet(Pile(out, ScoredKnown))
<1>1. IsFiniteSet(ScoredKnown) /\ \A i \in ScoredKnown : out[i] \in Nat
  BY FiniteParts, ContentAssumption DEF ScoredKnown
<1> QED
  BY <1>1, PileFinite

(* The same results counted, with the same scores.                         *)
LEMMA SumStays ==
  ASSUME ScoredSum, Active, UNCHANGED total, ScoredKnown' = ScoredKnown,
         \A i \in ScoredKnown : out'[i] = out[i]
  PROVE  ScoredSum'
<1>1. Pile(out', ScoredKnown) = Pile(out, ScoredKnown)
  BY PileSame
<1> QED
  BY <1>1 DEF ScoredSum

LEMMA SumGrows ==
  ASSUME FilesInv, ScoredSum, Active,
         NEW i \in Item, NEW s \in Known,
         st[i] \notin Known, MoveTo(i, s),
         out[i] \in Result, Accumulate(out[i]), UNCHANGED out
  PROVE  ScoredSum'
<1>1. CASE out[i] = Unscored /\ UNCHANGED <<total, count>>
  <2>1. ScoredKnown' = ScoredKnown
    BY <1>1, ContentFacts DEF ScoredKnown, In, MoveTo, FilesInv, TypeOK
  <2> QED
    BY <1>1, <2>1, SumStays
<1>2. CASE out[i] \in Score /\ total' = total + out[i] /\ count' = count + 1
  <2>1. ScoredKnown' = ScoredKnown \cup {i}
    BY <1>2 DEF ScoredKnown, In, MoveTo, FilesInv, TypeOK
  <2>2. i \notin ScoredKnown /\ out[i] \in Nat
    BY <1>2, ContentAssumption DEF ScoredKnown, In
  <2>3. Cardinality(Pile(out, ScoredKnown \cup {i}))
          = Cardinality(Pile(out, ScoredKnown)) + out[i]
    BY <2>2, ScoresTyped, PileMore
  <2> QED
    BY <1>2, <2>1, <2>3 DEF ScoredSum
<1> QED
  BY <1>1, <1>2 DEF Accumulate

LEMMA NextSum == FilesInv /\ ScoredSum /\ [Next]_vars => ScoredSum'
<1> SUFFICES ASSUME FilesInv, ScoredSum, [Next]_vars
             PROVE  ScoredSum'
  OBVIOUS
<1>1. CASE StartRun \/ Crash
  <2>1. FreshMemory
    BY <1>1 DEF StartRun, Crash
  <2>2. ScoredKnown' = {}
    BY <2>1, FreshMemoryType DEF ScoredKnown, In, Known
  <2> QED
    BY <2>1, <2>2, PileOfNone DEF ScoredSum, FreshMemory
<1>2. ASSUME NEW i \in Item, Scan(i) PROVE ScoredSum'
  <2>1. CASE out[i] \in Result /\ MoveTo(i, "cached") /\ Accumulate(out[i])
             /\ UNCHANGED out
    BY <1>2, <2>1, SumGrows DEF Scan, Active, Known
  <2>2. CASE out[i] \in {None, Torn} /\ MoveTo(i, "pending")
             /\ out' = [out EXCEPT ![i] = None] /\ UNCHANGED sums
    <3>1. /\ ScoredKnown' = ScoredKnown
          /\ \A j \in ScoredKnown : out'[j] = out[j]
      BY <1>2, <2>2 DEF Scan, MoveTo, ScoredKnown, In, Known, FilesInv, TypeOK
    <3> QED
      BY <1>2, <2>2, <3>1, SumStays DEF Scan, Active, sums
  <2> QED
    BY <1>2, <2>1, <2>2 DEF Scan
<1>3. ASSUME NEW i \in Item, Collect(i) PROVE ScoredSum'
  <2>1. out[i] = rec[i]
    BY <1>3 DEF Collect, FilesInv, FilesFollowState, Active
  <2> QED
    BY <1>3, <2>1, SumGrows
    DEF Collect, Active, Known, FilesInv, FilesFollowState, disk
<1>4. ASSUME NEW i \in Item,
             \/ StartItem(i) \/ AnswerFails(i) \/ WriteTmp(i)
             \/ WriteFails(i) \/ Replace(i) \/ CollectFailure(i)
             \/ \E s \in Result : Answered(i, s)
      PROVE  ScoredSum'
  <2>1. /\ ScoredKnown' = ScoredKnown
        /\ \A j \in ScoredKnown : out'[j] = out[j]
    BY <1>4 DEF StartItem, AnswerFails, WriteTmp, WriteFails, Replace,
                Answered, CollectFailure, MoveTo, ScoredKnown, In, Known,
                FilesInv, TypeOK, disk
  <2>2. Active /\ UNCHANGED total
    BY <1>4 DEF StartItem, AnswerFails, WriteTmp, WriteFails, Replace,
                Answered, CollectFailure, Active, sums
  <2> QED
    BY <2>1, <2>2, SumStays
<1>5. CASE EndScan \/ EndRun \/ UNCHANGED vars
  <2>1. ScoredKnown' = ScoredKnown /\ UNCHANGED <<out, total>>
    BY <1>5 DEF EndScan, EndRun, vars, ScoredKnown, In, disk, sums
  <2>2. Active' => Active
    BY <1>5 DEF EndScan, EndRun, vars, Active
  <2> QED
    BY <2>1, <2>2 DEF ScoredSum
<1>6. ASSUME NEW i \in Item, Damage(i) \/ Repair(i) \/ ScanRaises(i)
      PROVE  ScoredSum'
  BY <1>6 DEF Damage, Repair, ScanRaises, ScoredSum, Active
<1>7. ASSUME NEW i \in Item, ReadFails(i) PROVE ScoredSum'
  <2>1. /\ ScoredKnown' = ScoredKnown
        /\ \A j \in ScoredKnown : out'[j] = out[j]
    BY <1>7 DEF ReadFails, MoveTo, ScoredKnown, In, Known, FilesInv, TypeOK
  <2> QED
    BY <1>7, <2>1, SumStays DEF ReadFails, Active, sums
<1> QED
  BY <1>1, <1>2, <1>3, <1>4, <1>5, <1>6, <1>7 DEF Next, Main, Work

(* The running averages are those of the results on disk that main() knows,*)
(* whatever was found, answered, lost or damaged, in this run or before.   *)
THEOREM AveragesAreOfTheDisk == Spec => []AveragesMatchDisk
<1>1. Init => CountersFollowState /\ ScoredSum
  BY DEF Init, CountersFollowState, ScoredSum, Active
<1>2. FilesInv /\ CountersFollowState /\ ScoredSum /\ [Next]_vars
        => CountersFollowState' /\ ScoredSum'
  BY NextCounters, NextSum
<1>3. FilesInv /\ CountersFollowState /\ ScoredSum => AveragesMatchDisk
  <2> SUFFICES ASSUME FilesInv, CountersFollowState, ScoredSum, Active
               PROVE  /\ \A i \in In(Known) : out[i] \in Result
                      /\ count = Cardinality(ScoredKnown)
                      /\ total = MapThenSumSet(LAMBDA i : out[i], ScoredKnown)
    BY DEF AveragesMatchDisk
  <2>1. \A i \in In(Known) : out[i] \in Result
    BY DEF In, FilesInv, FilesFollowState
  <2>2. MapThenSumSet(LAMBDA i : out[i], ScoredKnown)
          = Cardinality(Pile(out, ScoredKnown))
    BY ScoresTyped, SumIs
  <2> QED
    BY <2>1, <2>2 DEF CountersFollowState, ScoredSum
<1> QED
  BY <1>1, <1>2, <1>3, FilesInvariance, PTL DEF Spec

-----------------------------------------------------------------------------
(* A single worker has one item at a time, until main() has its outcome.   *)
Current == Busy \cup {"ok", "error"}

OneAtATime ==
  \A i \in Item :
    /\ st[i] \in Current \cup Known \cup {"pending"}
    /\ \A j \in Item : st[i] \in Current /\ st[j] \in Current => i = j

(* An exception comes out of the work of a single worker, or of the scan.  *)
AbortInv ==
  /\ mode = "run" /\ workers = 1 => OneAtATime
  /\ mode = "aborted" =>
       \/ OneAtATime /\ \E i \in Item : st[i] = "error"
       \/ /\ \A i \in Item : st[i] \in {"unseen", "pending", "cached"}
          /\ \E i \in Item : st[i] = "unseen"

(* Without workers at work a single worker starts an item.                 *)
LEMMA StartsAlone ==
  ASSUME NEW i \in Item, StartItem(i), workers = 1
  PROVE  \A j \in Item : st[j] \notin Current
<1>1. In(Busy) = {}
  <2>1. In(Busy) \in SUBSET Item
    BY DEF In
  <2>2. IsFiniteSet(In(Busy))
    BY <2>1, ItemAssumption, FS_Subset
  <2>3. Cardinality(In(Busy)) \in Nat /\ Cardinality(In(Busy)) < 1
    BY <2>2, FS_CardinalityType DEF StartItem
  <2>4. Cardinality(In(Busy)) = 0
    BY <2>3
  <2> QED
    BY <2>2, <2>4, FS_EmptySet
<1>2. In({"ok", "error"}) = {}
  BY DEF StartItem
<1> QED
  BY <1>1, <1>2 DEF In, Current

LEMMA NextAbort == FilesInv /\ AbortInv /\ [Next]_vars => AbortInv'
<1> SUFFICES ASSUME FilesInv, AbortInv, [Next]_vars PROVE AbortInv'
  OBVIOUS
<1> USE DEF AbortInv, OneAtATime, Current, Busy, Known
<1>1. CASE StartRun
  BY <1>1 DEF StartRun
<1>2. CASE \/ EndScan \/ Crash \/ \E i \in Item : Scan(i) \/ ReadFails(i)
  BY <1>2 DEF EndScan, Crash, Scan, ReadFails, FilesInv, FilesFollowState
<1>3. CASE EndRun
  BY <1>3 DEF EndRun
<1>4. ASSUME NEW i \in Item, StartItem(i) PROVE AbortInv'
  <2>1. workers = 1 => \A j \in Item : st[j] \notin Current
    BY <1>4, StartsAlone
  <2> QED
    BY <1>4, <2>1 DEF StartItem, MoveTo, FilesInv, TypeOK
<1>5. ASSUME NEW i \in Item, Work(i) PROVE AbortInv'
  BY <1>5 DEF Work, AnswerFails, Answered, WriteTmp, Replace, WriteFails, MoveTo,
              FilesInv, TypeOK
<1>6. ASSUME NEW i \in Item, Collect(i) PROVE AbortInv'
  BY <1>6 DEF Collect, MoveTo, FilesInv, TypeOK
<1>7. ASSUME NEW i \in Item, CollectFailure(i) PROVE AbortInv'
  BY <1>7 DEF CollectFailure, MoveTo, FilesInv, TypeOK
<1>8. ASSUME NEW i \in Item, Damage(i) \/ Repair(i) \/ ScanRaises(i)
      PROVE  AbortInv'
  BY <1>8 DEF Damage, Repair, ScanRaises, FilesInv, FilesFollowState
<1>9. CASE UNCHANGED vars
  BY <1>9 DEF vars
<1>. QED
  BY <1>1, <1>2, <1>3, <1>4, <1>5, <1>6, <1>7, <1>8, <1>9 DEF Next, Main

(* An exception that leaves main() leaves no item half done: in the scan   *)
(* none was begun, and a sequential run has one item failed.               *)
THEOREM AbortsAreClean == Spec => []AbortIsClean
<1>1. Init => AbortInv
  BY DEF Init, AbortInv, OneAtATime
<1>2. AbortInv => AbortIsClean
  <2> SUFFICES ASSUME AbortInv, mode = "aborted" PROVE AbortIsClean
    BY DEF AbortIsClean
  <2>1. CASE OneAtATime /\ \E i \in Item : st[i] = "error"
    <3>1. PICK i \in Item : st[i] = "error"
      BY <2>1
    <3>2. In({"error"}) = {i}
      BY <2>1, <3>1 DEF OneAtATime, Current, In
    <3>3. \A j \in Item : st[j] \in Known \cup {"pending", "error"}
      BY <2>1, <3>1 DEF OneAtATime, Current, Busy, Known
    <3>4. In(Known \cup {"unseen", "pending", "error"}) = Item
      BY <3>3 DEF In
    <3>5. In({"unseen"}) = {}
      BY <3>3 DEF In, Known
    <3> QED
      BY <3>2, <3>4, <3>5, FS_Singleton DEF AbortIsClean
  <2>2. CASE /\ \A i \in Item : st[i] \in {"unseen", "pending", "cached"}
             /\ \E i \in Item : st[i] = "unseen"
    <3>1. In(Known \cup {"unseen", "pending", "error"}) = Item
          /\ In({"unseen"}) # {} /\ In({"error"}) = {}
      BY <2>2 DEF In, Known
    <3> QED
      BY <3>1 DEF AbortIsClean
  <2> QED
    BY <2>1, <2>2 DEF AbortInv
<1>. QED
  BY <1>1, <1>2, NextAbort, FilesInvariance, PTL DEF Spec

-----------------------------------------------------------------------------
(* The judge (Judging), whose scores the runner adds up, for any questions *)
(* and predictions, and whatever the judge replies.                        *)

(* Whoever is on the way to a verdict has an answer that needs one.        *)
LEMMA JudgeKeys ==
  ASSUME JudgeTypeOK, NEW i \in ResultFile,
         pc[i] \in {"reading", "asking", "replied", "opened"}
  PROVE  /\ KeyNow(i) \in Key
         /\ answer[i] \in Prediction /\ answer[i] \notin {"match", "blank"}
         /\ KeyNow(i) = <<QuestionOf[i], answer[i]>>
<1>1. answer[i] \in Prediction /\ QuestionOf[i] \in Question
  BY ConstantsAssumption DEF JudgeTypeOK
<1>. QED
  BY <1>1, ConstantsAssumption DEF KeyNow, KeyOf, Key

LEMMA VerdictFacts ==
  /\ \A text \in Texts \cup {"", Nothing} :
       Verdict(text) \in Verdicts \cup {Nothing}
  /\ \A text : Verdict(text) \in Verdicts => text \in Texts
  /\ Nothing \notin Texts /\ Nothing \notin Verdicts
  /\ "" \notin Texts /\ Nothing # "" /\ Nothing # "none"
  /\ "none" \notin Verdicts
  BY ConstantsAssumption DEF Verdict, Texts, Verdicts

LEMMA JudgeInitTypeOK == JudgeInit => JudgeTypeOK
<1> SUFFICES ASSUME JudgeInit PROVE JudgeTypeOK
  OBVIOUS
<1>1. file \in [Key -> Texts \cup {"", Nothing}]
  BY DEF JudgeInit
<1>2. said \in [Key -> SUBSET Texts]
  BY DEF JudgeInit
<1>3. /\ reply \in [ResultFile -> Texts \cup {Nothing}]
      /\ score \in [ResultFile -> Verdicts \cup {Nothing}]
      /\ record \in [ResultFile -> Verdicts \cup {Nothing, "none"}]
  BY DEF JudgeInit
<1>4. /\ answer \in [ResultFile -> Prediction \cup {"match", "blank", "none"}]
      /\ pc \in [ResultFile -> {"idle", "reading", "asking", "replied",
                                "opened", "scored", "done"}]
      /\ \A i \in ResultFile : pc[i] = "idle"
  BY DEF JudgeInit
<1>. QED
  BY <1>1, <1>2, <1>3, <1>4 DEF JudgeTypeOK

LEMMA JudgeNextTypeOK ==
  ASSUME JudgeTypeOK, [JudgeNext]_judgeVars
  PROVE  JudgeTypeOK'
<1> USE DEF JudgeTypeOK
<1>1. ASSUME NEW i \in ResultFile, Evaluate(i) PROVE JudgeTypeOK'
  <2> USE VerdictFacts DEF Scored, GoTo
  <2>1. UNCHANGED <<file, reply, record, said>>
    BY <1>1 DEF Evaluate
  <2>2. PICK a, p, s :
          /\ a \in Prediction \cup {"match", "blank"}
          /\ answer' = [answer EXCEPT ![i] = a]
          /\ pc' = [pc EXCEPT ![i] = p]
          /\ score' = [score EXCEPT ![i] = s]
          /\ s \in Verdicts \cup {Nothing}
          /\ p \in {"scored", "reading", "asking"}
          /\ p # "scored" => a \in Prediction
    <3>1. CASE \E p \in Prediction :
                 /\ answer' = [answer EXCEPT ![i] = p]
                 /\ GoTo(i, IF file[KeyOf(i, p)] # Nothing
                                      THEN "reading" ELSE "asking")
                 /\ UNCHANGED score
      <4>1. score' = [score EXCEPT ![i] = score[i]]
        BY <3>1
      <4> QED
        BY <3>1, <4>1
    <3>2. CASE \E a \in Prediction \cup {"match", "blank"} :
               \E s \in Verdicts \cup {Nothing} :
                 /\ answer' = [answer EXCEPT ![i] = a]
                 /\ Scored(i, s)
      BY <3>2
    <3> QED
      BY <1>1, <3>1, <3>2 DEF Evaluate, Verdicts
  <2> QED
    BY <2>1, <2>2
<1>2. ASSUME NEW i \in ResultFile, Read(i) PROVE JudgeTypeOK'
  <2>1. Verdict(file[KeyNow(i)]) \in Verdicts \cup {Nothing}
    BY <1>2, JudgeKeys, VerdictFacts DEF Read
  <2> QED
    BY <1>2, <2>1 DEF Read, Scored, GoTo
<1>3. ASSUME NEW i \in ResultFile, Ask(i) PROVE JudgeTypeOK'
  <2>1. KeyNow(i) \in Key /\ answer[i] \in Prediction
    BY <1>3, JudgeKeys DEF Ask
  <2>2. \A r \in Replies : r \in Texts
    BY ConstantsAssumption
  <2>3. CASE Scored(i, Nothing) /\ UNCHANGED <<reply, said>>
    BY <1>3, <2>3 DEF Ask, Scored, GoTo
  <2>4. ASSUME NEW r \in Replies,
               /\ reply' = [reply EXCEPT ![i] = r]
               /\ said' = [said EXCEPT ![KeyNow(i)] = @ \cup {r}]
               /\ GoTo(i, "replied")
               /\ UNCHANGED score
        PROVE  JudgeTypeOK'
    <3>1. said' \in [Key -> SUBSET Texts]
      BY <2>1, <2>2, <2>4
    <3>2. reply' \in [ResultFile -> Texts \cup {Nothing}]
      BY <2>2, <2>4
    <3> QED
      BY <1>3, <2>1, <2>4, <3>1, <3>2 DEF Ask, GoTo
  <2> QED
    BY <1>3, <2>3, <2>4 DEF Ask
<1>4. ASSUME NEW i \in ResultFile, Open(i) PROVE JudgeTypeOK'
  BY <1>4, JudgeKeys DEF Open, GoTo
<1>5. ASSUME NEW i \in ResultFile, Write(i) PROVE JudgeTypeOK'
  <2>1. KeyNow(i) \in Key
    BY <1>5, JudgeKeys DEF Write
  <2>2. Verdict(reply[i]) \in Verdicts \cup {Nothing}
    BY VerdictFacts
  <2>3. PICK text \in {reply[i], file[KeyNow(i)]} \ {""} :
          file' = [file EXCEPT ![KeyNow(i)] = text]
    BY <1>5 DEF Write
  <2>4. file' \in [Key -> Texts \cup {"", Nothing}]
    BY <2>1, <2>3
  <2> QED
    BY <1>5, <2>2, <2>4 DEF Write, Scored, GoTo
<1>6. ASSUME NEW i \in ResultFile, Publish(i) PROVE JudgeTypeOK'
  BY <1>6 DEF Publish, GoTo
<1>7. ASSUME NEW i \in ResultFile, Lose(i) PROVE JudgeTypeOK'
  BY <1>7 DEF Lose, GoTo
<1>8. CASE UNCHANGED judgeVars
  BY <1>8 DEF judgeVars
<1>. QED
  BY <1>1, <1>2, <1>3, <1>4, <1>5, <1>6, <1>7, <1>8 DEF JudgeNext, WorkOn

(* Only answers that need a judge are put to it or looked up.              *)
THEOREM OnlyAnswersAreJudged == JudgeSpec => []JudgeTypeOK
<1>1. JudgeInit => JudgeTypeOK
  BY JudgeInitTypeOK
<1>2. JudgeTypeOK /\ [JudgeNext]_judgeVars => JudgeTypeOK'
  BY JudgeNextTypeOK
<1>. QED
  BY <1>1, <1>2, PTL DEF JudgeSpec

(* A score is the verdict of a reply about this very answer, or needed     *)
(* none.                                                                   *)
Fits(i, s) ==
  s \in Verdicts =>
    CASE answer[i] = "match" -> s = "correct"
      [] answer[i] = "blank" -> s = "wrong"
      [] OTHER -> \E r \in said[<<QuestionOf[i], answer[i]>>] :
                    Verdict(r) = s

(* Files and hands hold only what the judge said about their key, and a    *)
(* record comes once, with the score of its answer.                        *)
RepliesFollowKeys ==
  /\ \A k \in Key : file[k] \in Texts => file[k] \in said[k]
  /\ \A i \in ResultFile :
       /\ pc[i] \in {"replied", "opened"} => reply[i] \in said[KeyNow(i)]
       /\ pc[i] = "scored" => Fits(i, score[i])
       /\ pc[i] = "done" => Fits(i, record[i])
       /\ pc[i] # "done" => record[i] = "none"
       /\ pc[i] \in {"scored", "done"} =>
            answer[i] \in Prediction \cup {"match", "blank"}

(* What an item holds stays right as long as its worker does not move.     *)
LEMMA OthersKeepTheirReplies ==
  ASSUME JudgeTypeOK, RepliesFollowKeys,
         NEW i \in ResultFile, NEW p,
         pc' = [pc EXCEPT ![i] = p],
         \A j \in ResultFile \ {i} :
           /\ answer'[j] = answer[j] /\ reply'[j] = reply[j]
           /\ score'[j] = score[j] /\ record'[j] = record[j],
         \A k \in Key : said[k] \subseteq said'[k]
  PROVE  \A j \in ResultFile \ {i} :
           /\ pc'[j] \in {"replied", "opened"} => reply'[j] \in said'[KeyNow(j)']
           /\ pc'[j] = "scored" => Fits(j, score[j])'
           /\ pc'[j] = "done" => Fits(j, record[j])'
           /\ pc'[j] # "done" => record'[j] = "none"
           /\ pc'[j] \in {"scored", "done"} =>
                answer'[j] \in Prediction \cup {"match", "blank"}
<1> TAKE j \in ResultFile \ {i}
<1>1. /\ pc'[j] = pc[j] /\ answer'[j] = answer[j] /\ reply'[j] = reply[j]
      /\ score'[j] = score[j] /\ record'[j] = record[j]
  BY DEF JudgeTypeOK
<1>2. KeyNow(j)' = KeyNow(j)
  BY <1>1 DEF KeyNow, KeyOf
<1>3. pc[j] \in {"replied", "opened"} => KeyNow(j) \in Key
  BY JudgeKeys
<1>4. pc[j] \in {"scored", "done"} =>
        /\ answer[j] \in Prediction \cup {"match", "blank"}
        /\ answer[j] \in Prediction => <<QuestionOf[j], answer[j]>> \in Key
  BY ConstantsAssumption DEF RepliesFollowKeys, Key
<1>5. pc[j] = "scored" => Fits(j, score[j])'
  BY <1>1, <1>4 DEF RepliesFollowKeys, Fits
<1>6. pc[j] = "done" => Fits(j, record[j])'
  BY <1>1, <1>4 DEF RepliesFollowKeys, Fits
<1>7. pc[j] \in {"replied", "opened"} => reply[j] \in said'[KeyNow(j)]
  BY <1>3 DEF RepliesFollowKeys
<1>8. /\ pc[j] # "done" => record[j] = "none"
      /\ pc[j] \in {"scored", "done"} =>
           answer[j] \in Prediction \cup {"match", "blank"}
  BY DEF RepliesFollowKeys
<1>. QED
  BY <1>1, <1>2, <1>5, <1>6, <1>7, <1>8

(* A step of item i keeps the replies with their keys when the file and    *)
(* the hands of i do.                                                      *)
LEMMA ItemStep ==
  ASSUME JudgeTypeOK, RepliesFollowKeys,
         NEW i \in ResultFile, NEW p,
         pc' = [pc EXCEPT ![i] = p],
         \A j \in ResultFile \ {i} :
           /\ answer'[j] = answer[j] /\ reply'[j] = reply[j]
           /\ score'[j] = score[j] /\ record'[j] = record[j],
         \A k \in Key : said[k] \subseteq said'[k],
         \A k \in Key : file'[k] \in Texts => file'[k] \in said'[k],
         p \in {"replied", "opened"} => reply'[i] \in said'[KeyNow(i)'],
         p = "scored" => Fits(i, score[i])',
         p = "done" => Fits(i, record[i])',
         p # "done" => record'[i] = "none",
         p \in {"scored", "done"} => answer'[i] \in Prediction \cup {"match", "blank"}
  PROVE  RepliesFollowKeys'
<1>1. pc'[i] = p
  BY DEF JudgeTypeOK
<1>2. \A j \in ResultFile \ {i} :
        /\ pc'[j] \in {"replied", "opened"} => reply'[j] \in said'[KeyNow(j)']
        /\ pc'[j] = "scored" => Fits(j, score[j])'
        /\ pc'[j] = "done" => Fits(j, record[j])'
        /\ pc'[j] # "done" => record'[j] = "none"
        /\ pc'[j] \in {"scored", "done"} =>
             answer'[j] \in Prediction \cup {"match", "blank"}
  BY OthersKeepTheirReplies
<1>. QED
  BY <1>1, <1>2 DEF RepliesFollowKeys

LEMMA EvaluateKeepsReplies ==
  ASSUME JudgeTypeOK, RepliesFollowKeys,
         NEW i \in ResultFile, Evaluate(i)
  PROVE  RepliesFollowKeys'
<1>1. /\ pc[i] = "idle" /\ record[i] = "none"
      /\ UNCHANGED <<file, reply, record, said>>
  BY DEF Evaluate, RepliesFollowKeys
<1>2. PICK a, p, s :
        /\ a \in Prediction \cup {"match", "blank"}
        /\ answer' = [answer EXCEPT ![i] = a]
        /\ pc' = [pc EXCEPT ![i] = p]
        /\ score' = [score EXCEPT ![i] = s]
        /\ p \in {"scored", "reading", "asking"}
        /\ p = "scored" => \/ s = Nothing
                           \/ a = "match" /\ s = "correct"
                           \/ a = "blank" /\ s = "wrong"
  <2>1. CASE \E q \in Prediction :
               /\ answer' = [answer EXCEPT ![i] = q]
               /\ GoTo(i, IF file[KeyOf(i, q)] # Nothing
                                    THEN "reading" ELSE "asking")
               /\ UNCHANGED score
    <3>1. score' = [score EXCEPT ![i] = score[i]]
      BY <2>1 DEF JudgeTypeOK
    <3>2. PICK q \in Prediction, p \in {"reading", "asking"} :
            /\ answer' = [answer EXCEPT ![i] = q]
            /\ pc' = [pc EXCEPT ![i] = p]
      BY <2>1 DEF GoTo
    <3> QED
      BY <3>1, <3>2
  <2>2. CASE \E a \in Prediction \cup {"match", "blank"} : \E s :
               /\ answer' = [answer EXCEPT ![i] = a]
               /\ Scored(i, s)
               /\ \/ s = Nothing
                  \/ a = "match" /\ s = "correct"
                  \/ a = "blank" /\ s = "wrong"
    BY <2>2 DEF Scored, GoTo
  <2> QED
    BY <2>1, <2>2 DEF Evaluate
<1>3. answer'[i] = a /\ score'[i] = s
  BY <1>2 DEF JudgeTypeOK
<1>4. p = "scored" => Fits(i, score[i])'
  <2> SUFFICES ASSUME p = "scored" PROVE Fits(i, score[i])'
    OBVIOUS
  <2>1. s = Nothing => s \notin Verdicts
    BY VerdictFacts
  <2> QED
    BY <1>2, <1>3, <2>1 DEF Fits
<1>5. \A j \in ResultFile \ {i} :
        /\ answer'[j] = answer[j] /\ reply'[j] = reply[j]
        /\ score'[j] = score[j] /\ record'[j] = record[j]
  BY <1>1, <1>2 DEF JudgeTypeOK
<1>6. \A k \in Key : /\ said[k] \subseteq said'[k]
                           /\ file'[k] \in Texts => file'[k] \in said'[k]
  BY <1>1 DEF RepliesFollowKeys
<1>. QED
  BY <1>1, <1>2, <1>3, <1>4, <1>5, <1>6, ItemStep

LEMMA ReadKeepsReplies ==
  ASSUME JudgeTypeOK, RepliesFollowKeys,
         NEW i \in ResultFile, Read(i)
  PROVE  RepliesFollowKeys'
<1> DEFINE k == KeyNow(i)
<1>1. /\ pc[i] = "reading" /\ record[i] = "none"
      /\ pc' = [pc EXCEPT ![i] = "scored"]
      /\ score' = [score EXCEPT ![i] = Verdict(file[k])]
      /\ UNCHANGED <<file, answer, reply, record, said>>
  BY DEF Read, Scored, GoTo, RepliesFollowKeys
<1>2. /\ k \in Key /\ k = <<QuestionOf[i], answer[i]>>
      /\ answer[i] \in Prediction /\ answer[i] \notin {"match", "blank"}
  BY <1>1, JudgeKeys
<1>3. score'[i] = Verdict(file[k])
  BY <1>1 DEF JudgeTypeOK
<1>4. score'[i] \in Verdicts => file[k] \in said[k]
  BY <1>2, <1>3, VerdictFacts DEF RepliesFollowKeys
<1>5. Fits(i, score[i])'
  BY <1>1, <1>2, <1>3, <1>4 DEF Fits
<1>6. \A j \in ResultFile \ {i} :
        /\ answer'[j] = answer[j] /\ reply'[j] = reply[j]
        /\ score'[j] = score[j] /\ record'[j] = record[j]
  BY <1>1 DEF JudgeTypeOK
<1>7. \A key \in Key :
        /\ said[key] \subseteq said'[key]
        /\ file'[key] \in Texts => file'[key] \in said'[key]
  BY <1>1 DEF RepliesFollowKeys
<1>. QED
  BY <1>1, <1>2, <1>5, <1>6, <1>7, ItemStep

LEMMA AskKeepsReplies ==
  ASSUME JudgeTypeOK, RepliesFollowKeys,
         NEW i \in ResultFile, Ask(i)
  PROVE  RepliesFollowKeys'
<1> DEFINE k == KeyNow(i)
<1>1. /\ pc[i] = "asking" /\ record[i] = "none"
      /\ UNCHANGED <<file, answer, record>>
  BY DEF Ask, RepliesFollowKeys
<1>2. k \in Key /\ answer[i] \in Prediction /\ KeyNow(i)' = k
  BY <1>1, JudgeKeys DEF KeyNow, KeyOf
<1>3. CASE Scored(i, Nothing) /\ UNCHANGED <<reply, said>>
  <2>1. /\ pc' = [pc EXCEPT ![i] = "scored"]
        /\ score' = [score EXCEPT ![i] = Nothing]
    BY <1>3 DEF Scored, GoTo
  <2>2. Fits(i, score[i])'
    BY <2>1, VerdictFacts DEF Fits, JudgeTypeOK
  <2>3. \A j \in ResultFile \ {i} :
          /\ answer'[j] = answer[j] /\ reply'[j] = reply[j]
          /\ score'[j] = score[j] /\ record'[j] = record[j]
    BY <1>1, <1>3, <2>1 DEF JudgeTypeOK
  <2>4. \A key \in Key :
          /\ said[key] \subseteq said'[key]
          /\ file'[key] \in Texts => file'[key] \in said'[key]
    BY <1>1, <1>3 DEF RepliesFollowKeys
  <2> QED
    BY <1>1, <1>2, <2>1, <2>2, <2>3, <2>4, ItemStep
<1>4. ASSUME NEW r \in Replies,
             /\ reply' = [reply EXCEPT ![i] = r]
             /\ said' = [said EXCEPT ![k] = @ \cup {r}]
             /\ GoTo(i, "replied")
             /\ UNCHANGED score
      PROVE  RepliesFollowKeys'
  <2>1. pc' = [pc EXCEPT ![i] = "replied"] /\ reply'[i] = r /\ r \in said'[k]
    BY <1>2, <1>4 DEF GoTo, JudgeTypeOK
  <2>2. \A j \in ResultFile \ {i} :
          /\ answer'[j] = answer[j] /\ reply'[j] = reply[j]
          /\ score'[j] = score[j] /\ record'[j] = record[j]
    BY <1>1, <1>4 DEF JudgeTypeOK
  <2>3. \A key \in Key : said[key] \subseteq said'[key]
    BY <1>2, <1>4 DEF JudgeTypeOK
  <2>4. \A key \in Key : file'[key] \in Texts => file'[key] \in said'[key]
    BY <1>1, <2>3 DEF RepliesFollowKeys
  <2> QED
    BY <1>1, <1>2, <2>1, <2>2, <2>3, <2>4, ItemStep
<1>. QED
  BY <1>3, <1>4 DEF Ask

LEMMA OpenKeepsReplies ==
  ASSUME JudgeTypeOK, RepliesFollowKeys,
         NEW i \in ResultFile, Open(i)
  PROVE  RepliesFollowKeys'
<1> DEFINE k == KeyNow(i)
<1>1. /\ pc[i] = "replied" /\ record[i] = "none"
      /\ file' = [file EXCEPT ![k] = ""]
      /\ pc' = [pc EXCEPT ![i] = "opened"]
      /\ UNCHANGED <<answer, reply, score, record, said>>
  BY DEF Open, GoTo, RepliesFollowKeys
<1>2. KeyNow(i)' = k /\ reply[i] \in said[k]
  BY <1>1 DEF KeyNow, KeyOf, RepliesFollowKeys
<1>3. \A key \in Key :
        /\ said[key] \subseteq said'[key]
        /\ file'[key] \in Texts => file'[key] \in said'[key]
  BY <1>1, VerdictFacts DEF RepliesFollowKeys, JudgeTypeOK
<1>4. \A j \in ResultFile \ {i} :
        /\ answer'[j] = answer[j] /\ reply'[j] = reply[j]
        /\ score'[j] = score[j] /\ record'[j] = record[j]
  BY <1>1
<1>. QED
  BY <1>1, <1>2, <1>3, <1>4, ItemStep

LEMMA WriteKeepsReplies ==
  ASSUME JudgeTypeOK, RepliesFollowKeys,
         NEW i \in ResultFile, Write(i)
  PROVE  RepliesFollowKeys'
<1> DEFINE k == KeyNow(i)
<1>1. /\ pc[i] = "opened" /\ record[i] = "none"
      /\ pc' = [pc EXCEPT ![i] = "scored"]
      /\ score' = [score EXCEPT ![i] = Verdict(reply[i])]
      /\ reply' = [reply EXCEPT ![i] = Nothing]
      /\ UNCHANGED <<answer, record, said>>
  BY DEF Write, Scored, GoTo, RepliesFollowKeys
<1>2. PICK text \in {reply[i], file[k]} \ {""} : file' = [file EXCEPT ![k] = text]
  BY DEF Write
<1>3. /\ k \in Key /\ k = <<QuestionOf[i], answer[i]>>
      /\ answer[i] \in Prediction /\ answer[i] \notin {"match", "blank"}
  BY <1>1, JudgeKeys
<1>4. reply[i] \in said[k]
  BY <1>1 DEF RepliesFollowKeys
<1>5. score'[i] = Verdict(reply[i]) /\ answer'[i] = answer[i]
  BY <1>1 DEF JudgeTypeOK
<1>6. Fits(i, score[i])'
  BY <1>1, <1>3, <1>4, <1>5 DEF Fits
<1>7. \A key \in Key :
        /\ said[key] \subseteq said'[key]
        /\ file'[key] \in Texts => file'[key] \in said'[key]
  <2> TAKE key \in Key
  <2>1. CASE key = k
    BY <1>1, <1>2, <1>3, <1>4, <2>1 DEF RepliesFollowKeys, JudgeTypeOK
  <2>2. CASE key # k
    BY <1>1, <1>2, <2>2 DEF RepliesFollowKeys, JudgeTypeOK
  <2> QED
    BY <2>1, <2>2
<1>8. \A j \in ResultFile \ {i} :
        /\ answer'[j] = answer[j] /\ reply'[j] = reply[j]
        /\ score'[j] = score[j] /\ record'[j] = record[j]
  BY <1>1 DEF JudgeTypeOK
<1>. QED
  BY <1>1, <1>3, <1>5, <1>6, <1>7, <1>8, ItemStep

LEMMA PublishKeepsReplies ==
  ASSUME JudgeTypeOK, RepliesFollowKeys,
         NEW i \in ResultFile, Publish(i)
  PROVE  RepliesFollowKeys'
<1>1. /\ pc[i] = "scored" /\ Fits(i, score[i])
      /\ answer[i] \in Prediction \cup {"match", "blank"}
      /\ record' = [record EXCEPT ![i] = score[i]]
      /\ pc' = [pc EXCEPT ![i] = "done"]
      /\ score' = [score EXCEPT ![i] = Nothing]
      /\ UNCHANGED <<file, answer, reply, said>>
  BY DEF Publish, GoTo, RepliesFollowKeys
<1>2. record'[i] = score[i]
  BY <1>1 DEF JudgeTypeOK
<1>3. Fits(i, record[i])'
  BY <1>1, <1>2 DEF Fits
<1>4. \A key \in Key :
        /\ said[key] \subseteq said'[key]
        /\ file'[key] \in Texts => file'[key] \in said'[key]
  BY <1>1 DEF RepliesFollowKeys
<1>5. \A j \in ResultFile \ {i} :
        /\ answer'[j] = answer[j] /\ reply'[j] = reply[j]
        /\ score'[j] = score[j] /\ record'[j] = record[j]
  BY <1>1 DEF JudgeTypeOK
<1>. QED
  BY <1>1, <1>3, <1>4, <1>5, ItemStep

LEMMA LoseKeepsReplies ==
  ASSUME JudgeTypeOK, RepliesFollowKeys,
         NEW i \in ResultFile, Lose(i)
  PROVE  RepliesFollowKeys'
<1>1. /\ record[i] = "none"
      /\ pc' = [pc EXCEPT ![i] = "idle"]
      /\ answer' = [answer EXCEPT ![i] = "none"]
      /\ reply' = [reply EXCEPT ![i] = Nothing]
      /\ score' = [score EXCEPT ![i] = Nothing]
      /\ UNCHANGED <<file, record, said>>
  BY DEF Lose, GoTo, RepliesFollowKeys
<1>2. \A key \in Key :
        /\ said[key] \subseteq said'[key]
        /\ file'[key] \in Texts => file'[key] \in said'[key]
  BY <1>1 DEF RepliesFollowKeys
<1>3. \A j \in ResultFile \ {i} :
        /\ answer'[j] = answer[j] /\ reply'[j] = reply[j]
        /\ score'[j] = score[j] /\ record'[j] = record[j]
  BY <1>1 DEF JudgeTypeOK
<1>. QED
  BY <1>1, <1>2, <1>3, ItemStep

LEMMA NextKeepsReplies ==
  ASSUME JudgeTypeOK, RepliesFollowKeys,
         [JudgeNext]_judgeVars
  PROVE  RepliesFollowKeys'
<1>1. ASSUME NEW i \in ResultFile, WorkOn(i) PROVE RepliesFollowKeys'
  BY <1>1, EvaluateKeepsReplies, ReadKeepsReplies, AskKeepsReplies,
     OpenKeepsReplies, WriteKeepsReplies, PublishKeepsReplies DEF WorkOn
<1>2. ASSUME NEW i \in ResultFile, Lose(i) PROVE RepliesFollowKeys'
  BY <1>2, LoseKeepsReplies
<1>3. CASE UNCHANGED judgeVars
  BY <1>3 DEF judgeVars, RepliesFollowKeys, Fits, KeyNow, KeyOf
<1>. QED
  BY <1>1, <1>2, <1>3 DEF JudgeNext

(* The score in a result file is the judge's verdict about this answer to  *)
(* this question, or needed none.                                          *)
THEOREM RecordsHoldVerdicts == JudgeSpec => []ScoresAreVerdicts
<1>1. JudgeInit => JudgeTypeOK /\ RepliesFollowKeys
  BY JudgeInitTypeOK, VerdictFacts DEF JudgeInit, RepliesFollowKeys
<1>2. JudgeTypeOK /\ RepliesFollowKeys /\ [JudgeNext]_judgeVars
        => (JudgeTypeOK /\ RepliesFollowKeys)'
  BY JudgeNextTypeOK, NextKeepsReplies
<1>3. RepliesFollowKeys => ScoresAreVerdicts
  <2> SUFFICES ASSUME RepliesFollowKeys, NEW i \in ResultFile,
                      record[i] \in Verdicts
               PROVE  Fits(i, record[i])
    BY DEF Fits, ScoresAreVerdicts
  <2>1. pc[i] = "done"
    BY VerdictFacts DEF RepliesFollowKeys
  <2> QED
    BY <2>1 DEF RepliesFollowKeys
<1>. QED
  BY <1>1, <1>2, <1>3, PTL DEF JudgeSpec

(* No step takes a settled verdict away, has a worker ask about it again,  *)
(* or gives an item that reads it another score.                           *)
LEMMA SettledStep ==
  ASSUME JudgeTypeOK, [JudgeNext]_judgeVars,
         NEW k \in Key, Settled(k)
  PROVE  /\ file'[k] = file[k] /\ Settled(k)'
         /\ \A i \in ResultFile :
              /\ pc[i] = "reading" /\ pc'[i] = "scored" /\ KeyNow(i) = k
              => score'[i] = Verdict(file[k])
<1> DEFINE Kept == /\ file'[k] = file[k] /\ Settled(k)'
                   /\ \A i \in ResultFile :
                        /\ pc[i] = "reading" /\ pc'[i] = "scored"
                        /\ KeyNow(i) = k
                        => score'[i] = Verdict(file[k])
<1>1. file[k] # Nothing
  BY VerdictFacts DEF Settled
<1>2. ASSUME NEW i \in ResultFile, NEW p, pc' = [pc EXCEPT ![i] = p],
             file'[k] = file[k],
             \A j \in ResultFile \ {i} : answer'[j] = answer[j],
             p \in {"asking", "replied", "opened"} => KeyNow(i)' # k,
             pc[i] = "reading" /\ p = "scored" /\ KeyNow(i) = k
               => score'[i] = Verdict(file[k])
      PROVE  Kept
  <2>1. pc'[i] = p /\ \A j \in ResultFile \ {i} : pc'[j] = pc[j]
    BY <1>2 DEF JudgeTypeOK
  <2>2. \A j \in ResultFile \ {i} : KeyNow(j)' = KeyNow(j)
    BY <1>2 DEF KeyNow, KeyOf
  <2>3. \A j \in ResultFile : pc'[j] \in {"asking", "replied", "opened"}
                         => KeyNow(j)' # k
    BY <1>2, <2>1, <2>2 DEF Settled
  <2>4. Verdict(file'[k]) \in Verdicts
    BY <1>2 DEF Settled
  <2> QED
    BY <1>2, <2>1, <2>3, <2>4 DEF Settled
<1>3. ASSUME NEW i \in ResultFile, Evaluate(i) PROVE Kept
  <2>1. PICK a \in Prediction \cup {"match", "blank"},
             p \in {"scored", "reading", "asking"} :
          /\ answer' = [answer EXCEPT ![i] = a]
          /\ pc' = [pc EXCEPT ![i] = p]
          /\ p = "asking" => file[KeyOf(i, a)] = Nothing
    BY <1>3 DEF Evaluate, Scored, GoTo
  <2>2. answer'[i] = a /\ \A j \in ResultFile \ {i} : answer'[j] = answer[j]
    BY <2>1 DEF JudgeTypeOK
  <2>3. KeyNow(i)' = KeyOf(i, a)
    BY <2>2 DEF KeyNow, KeyOf
  <2>4. file' = file /\ pc[i] = "idle"
    BY <1>3 DEF Evaluate
  <2> QED
    BY <1>1, <1>2, <2>1, <2>2, <2>3, <2>4
<1>4. ASSUME NEW i \in ResultFile, Read(i) PROVE Kept
  <2>1. /\ pc' = [pc EXCEPT ![i] = "scored"] /\ UNCHANGED <<file, answer>>
        /\ score'[i] = Verdict(file[KeyNow(i)])
    BY <1>4 DEF Read, Scored, GoTo, JudgeTypeOK
  <2> QED
    BY <1>2, <2>1
<1>5. ASSUME NEW i \in ResultFile, Ask(i) PROVE Kept
  <2>1. PICK p \in {"scored", "replied"} : pc' = [pc EXCEPT ![i] = p]
    BY <1>5 DEF Ask, Scored, GoTo
  <2>2. pc[i] = "asking" /\ UNCHANGED <<file, answer>>
    BY <1>5 DEF Ask
  <2>3. KeyNow(i) # k /\ KeyNow(i)' = KeyNow(i)
    BY <2>2 DEF Settled, KeyNow, KeyOf
  <2> QED
    BY <1>2, <2>1, <2>2, <2>3
<1>6. ASSUME NEW i \in ResultFile, Open(i) \/ Write(i) PROVE Kept
  <2>1. /\ pc[i] \in {"replied", "opened"} /\ answer' = answer
        /\ \E p \in {"opened", "scored"} : pc' = [pc EXCEPT ![i] = p]
        /\ \E text : file' = [file EXCEPT ![KeyNow(i)] = text]
    BY <1>6 DEF Open, Write, Scored, GoTo
  <2>2. KeyNow(i) # k /\ KeyNow(i)' = KeyNow(i)
    BY <2>1 DEF Settled, KeyNow, KeyOf
  <2>3. file'[k] = file[k]
    BY <2>1, <2>2 DEF JudgeTypeOK
  <2> QED
    BY <1>2, <2>1, <2>2, <2>3
<1>7. ASSUME NEW i \in ResultFile, Publish(i) PROVE Kept
  <2>1. /\ pc' = [pc EXCEPT ![i] = "done"] /\ UNCHANGED <<file, answer>>
    BY <1>7 DEF Publish, GoTo
  <2> QED
    BY <1>2, <2>1
<1>8. ASSUME NEW i \in ResultFile, Lose(i) PROVE Kept
  <2>1. /\ pc' = [pc EXCEPT ![i] = "idle"] /\ file' = file
        /\ \A j \in ResultFile \ {i} : answer'[j] = answer[j]
    BY <1>8 DEF Lose, GoTo, JudgeTypeOK
  <2> QED
    BY <1>2, <2>1
<1>9. CASE UNCHANGED judgeVars
  BY <1>9 DEF judgeVars, Settled, KeyNow, KeyOf
<1>. QED
  BY <1>3, <1>4, <1>5, <1>6, <1>7, <1>8, <1>9 DEF JudgeNext, WorkOn

(* A verdict that is once settled is final, whatever is killed: the same   *)
(* answer is not judged again and gets the same score in every later run.  *)
THEOREM SettledVerdictsAreFinal == JudgeSpec => SettledIsFinal
<1>1. JudgeInit => JudgeTypeOK
  BY JudgeInitTypeOK
<1>2. JudgeTypeOK /\ [JudgeNext]_judgeVars => JudgeTypeOK'
  BY JudgeNextTypeOK
<1>3. JudgeTypeOK /\ [JudgeNext]_judgeVars =>
        [\A k \in Key : Settled(k) =>
           /\ file'[k] = file[k] /\ Settled(k)'
           /\ \A i \in ResultFile :
                /\ pc[i] = "reading" /\ pc'[i] = "scored" /\ KeyNow(i) = k
                => score'[i] = Verdict(file[k])]_judgeVars
  BY SettledStep
<1>. QED
  BY <1>1, <1>2, <1>3, PTL DEF JudgeSpec, SettledIsFinal
=============================================================================
