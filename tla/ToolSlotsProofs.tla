--------------------------- MODULE ToolSlotsProofs ---------------------------
(* Proofs about ToolSlots, for any set of requests and any concurrency.    *)
EXTENDS ToolSlots, FiniteSetTheorems, TLAPS

(* A handler that does not run yet holds nothing.                          *)
NotHeldBeforeRunning ==
  \A r \in Request : pc[r] \in {"new", "waiting", "granted"} => ~held[r]

-----------------------------------------------------------------------------
(* What a hand-over of the semaphore may change: handler positions only    *)
(* from waiting to granted, and the count only to a natural number.        *)
LEMMA WakeUpNextType ==
  ASSUME TypeOK, NEW s \in Sems, NEW p \in [Request -> Pcs], NEW v \in Nat,
         WakeUpNext(s, p, v)
  PROVE  /\ value' \in [Sems -> Nat]
         /\ pc' \in [Request -> Pcs]
         /\ \A x \in Request : \/ pc'[x] = p[x]
                               \/ p[x] = "waiting" /\ pc'[x] = "granted"
<1>1. CASE pc' = p /\ value' = [value EXCEPT ![s] = v]
  BY <1>1 DEF TypeOK
<1>2. CASE v > 0 /\ \E w \in Waiting(s, p) :
                      /\ pc' = [p EXCEPT ![w] = "granted"]
                      /\ value' = [value EXCEPT ![s] = v - 1]
  <2>1. PICK w \in Waiting(s, p) : /\ pc' = [p EXCEPT ![w] = "granted"]
                                   /\ value' = [value EXCEPT ![s] = v - 1]
    BY <1>2
  <2>2. v - 1 \in Nat
    BY <1>2
  <2>3. w \in Request /\ p[w] = "waiting"
    BY DEF Waiting
  <2>. QED
    BY <2>1, <2>2, <2>3 DEF TypeOK, Pcs
<1>. QED
  BY <1>1, <1>2 DEF WakeUpNext

LEMMA SemOfType == ASSUME NEW r \in Request PROVE SemOf(r) \in Sems
  BY ConstantsAssumption DEF SemOf, Sems, Kinds

(* TypeOK holds initially. *)
LEMMA InitTypeOK == Init => TypeOK
<1> SUFFICES ASSUME Init PROVE TypeOK
  OBVIOUS
<1>1. value \in [Sems -> Nat]
  BY ConstantsAssumption DEF Init
<1>. QED
  BY <1>1 DEF Init, TypeOK, Pcs, Replies

LEMMA StartWorkType ==
  ASSUME TypeOK, NEW r \in Request, StartWork(r)
  PROVE  /\ held' \in [Request -> BOOLEAN]
         /\ task' \in [Request -> {"none", "started", "hydrating"} \cup Outcomes]
         /\ job' \in [Job -> {"none", "queued", "running"} \cup Outcomes]
  BY DEF TypeOK, StartWork, Submitted, Outcomes, Failures

LEMMA ReleaseOnceType ==
  ASSUME TypeOK, NEW r \in Request, NEW p \in [Request -> Pcs],
         ReleaseOnce(r, p)
  PROVE  /\ value' \in [Sems -> Nat]
         /\ pc' \in [Request -> Pcs]
         /\ held' \in [Request -> BOOLEAN]
<1>1. CASE held[r]
  <2>1. value[SemOf(r)] + 1 \in Nat
    BY SemOfType DEF TypeOK
  <2>. QED
    BY <1>1, <2>1, SemOfType, WakeUpNextType DEF ReleaseOnce, TypeOK
<1>2. CASE ~held[r]
  BY <1>2 DEF ReleaseOnce, TypeOK
<1>. QED
  BY <1>1, <1>2

LEMMA NextTypeOK == TypeOK /\ [Next]_vars => TypeOK'
<1> SUFFICES ASSUME TypeOK, [Next]_vars PROVE TypeOK'
  OBVIOUS
<1>1. ASSUME NEW r \in Request, Arrive(r) PROVE TypeOK'
  <2>1. CASE ~Locked(SemOf(r)) /\ StartWork(r) /\ UNCHANGED ahead
             /\ value' = [value EXCEPT ![SemOf(r)] = @ - 1]
             /\ pc' = [pc EXCEPT ![r] = "running"]
    <3>1. value[SemOf(r)] - 1 \in Nat
      BY <2>1, SemOfType DEF Locked, TypeOK
    <3>. QED
      BY <1>1, <2>1, <3>1, SemOfType, StartWorkType DEF Arrive, TypeOK, Pcs
  <2>2. CASE /\ pc' = [pc EXCEPT ![r] = "waiting"]
             /\ ahead' = [ahead EXCEPT ![r] = Waiting(SemOf(r), pc)]
             /\ UNCHANGED <<value, held, task, job>>
    BY <1>1, <2>2 DEF Arrive, TypeOK, Pcs, Waiting
  <2>. QED
    BY <1>1, <2>1, <2>2 DEF Arrive
<1>2. ASSUME NEW r \in Request, Resume(r) PROVE TypeOK'
  <2>1. [pc EXCEPT ![r] = "running"] \in [Request -> Pcs]
    BY DEF TypeOK, Pcs
  <2>2. value[SemOf(r)] \in Nat
    BY SemOfType DEF TypeOK
  <2>. QED
    BY <1>2, <2>1, <2>2, SemOfType, WakeUpNextType, StartWorkType
    DEF Resume, TypeOK
<1>3. ASSUME NEW r \in Request, AcquireTimeout(r) PROVE TypeOK'
  <2>1. [pc EXCEPT ![r] = "replied"] \in [Request -> Pcs]
    BY DEF TypeOK, Pcs
  <2>2. value[SemOf(r)] + 1 \in Nat
    BY SemOfType DEF TypeOK
  <2>3. value' \in [Sems -> Nat] /\ pc' \in [Request -> Pcs]
    BY <1>3, <2>1, <2>2, SemOfType, WakeUpNextType DEF AcquireTimeout, TypeOK
  <2>. QED
    BY <1>3, <2>3 DEF AcquireTimeout, TypeOK, Replies
<1>4. ASSUME NEW r \in Request, Advance(r) PROVE TypeOK'
  <2>1. \A j \in Job : Submitted(j) \in {"queued"} \cup Outcomes
    BY DEF Submitted, Outcomes, Failures
  <2>2. <<r, "hydrate">> \in Job
    BY DEF Job, JobNames
  <2>. QED
    BY <1>4, <2>1, <2>2 DEF Advance, TypeOK, Outcomes, Failures, FirstJobs
<1>5. ASSUME NEW r \in Request, Deliver(r) PROVE TypeOK'
  <2>1. [pc EXCEPT ![r] = "replied"] \in [Request -> Pcs]
    BY DEF TypeOK, Pcs
  <2>2. RepliesTo(task[r]) \subseteq Replies
    BY <1>5 DEF Deliver, TaskDone, RepliesTo, Replies, Outcomes, Failures
  <2>3. /\ value' \in [Sems -> Nat] /\ pc' \in [Request -> Pcs]
        /\ held' \in [Request -> BOOLEAN] /\ callback' \in [Request -> BOOLEAN]
    BY <1>5, <2>1, ReleaseOnceType, ConstantsAssumption DEF Deliver, TypeOK
  <2>. QED
    BY <1>5, <2>2, <2>3 DEF Deliver, TypeOK
<1>6. ASSUME NEW r \in Request, DeadlinePasses(r) PROVE TypeOK'
  BY <1>6 DEF DeadlinePasses, TypeOK, Pcs, Replies
<1>7. ASSUME NEW r \in Request, RunCallback(r) PROVE TypeOK'
  <2>1. pc \in [Request -> Pcs]
    BY DEF TypeOK
  <2>. QED
    BY <1>7, <2>1, ReleaseOnceType DEF RunCallback, TypeOK
<1>8. ASSUME NEW j \in Job, StartJob(j) \/ FinishJob(j) PROVE TypeOK'
  BY <1>8, ConstantsAssumption DEF StartJob, FinishJob, TypeOK
<1>9. CASE BreakTextPool
  BY <1>9 DEF BreakTextPool, TypeOK, Outcomes, Failures
<1>10. CASE UNCHANGED vars
  BY <1>10 DEF vars, TypeOK
<1>. QED
  BY <1>1, <1>2, <1>3, <1>4, <1>5, <1>6, <1>7, <1>8, <1>9, <1>10
  DEF Next, Loop, Timer

(* Type correctness of the request path: in particular no semaphore count  *)
(* ever goes below zero.                                                   *)
THEOREM TypeCorrect == Spec => []TypeOK
  BY InitTypeOK, NextTypeOK, PTL DEF Spec

-----------------------------------------------------------------------------
(* Conservation of permits.                                                *)

(* The owners of permits of s when handlers are at p and flags are h.      *)
OwnersAt(s, p, h) ==
  {r \in Request : SemOf(r) = s /\ (p[r] = "granted" \/ h[r])}

LEMMA OwnersOfFinite == \A s : IsFiniteSet(Owners(s))
  BY ConstantsAssumption, FS_Subset DEF Owners

LEMMA OwnersFinite ==
  ASSUME NEW s, NEW p, NEW h
  PROVE  /\ IsFiniteSet(OwnersAt(s, p, h))
         /\ Cardinality(OwnersAt(s, p, h)) \in Nat
  BY ConstantsAssumption, FS_Subset, FS_CardinalityType DEF OwnersAt

(* The semaphore's hand-over neither loses nor mints a permit.             *)
LEMMA WakeUpNextConserves ==
  ASSUME TypeOK, NEW s \in Sems, NEW p \in [Request -> Pcs], NEW v \in Nat,
         NEW h \in [Request -> BOOLEAN],
         \A r \in Request : p[r] = "waiting" => ~h[r],
         v + Cardinality(OwnersAt(s, p, h)) = Permits[s],
         \A t \in Sems \ {s} :
           value[t] + Cardinality(OwnersAt(t, p, h)) = Permits[t],
         WakeUpNext(s, p, v)
  PROVE  \A t \in Sems :
           value'[t] + Cardinality(OwnersAt(t, pc', h)) = Permits[t]
<1>1. CASE pc' = p /\ value' = [value EXCEPT ![s] = v]
  BY <1>1 DEF TypeOK
<1>2. CASE v > 0 /\ \E w \in Waiting(s, p) :
                      /\ pc' = [p EXCEPT ![w] = "granted"]
                      /\ value' = [value EXCEPT ![s] = v - 1]
  <2>1. PICK w \in Waiting(s, p) : /\ pc' = [p EXCEPT ![w] = "granted"]
                                   /\ value' = [value EXCEPT ![s] = v - 1]
    BY <1>2
  <2>2. w \in Request /\ SemOf(w) = s /\ p[w] = "waiting" /\ ~h[w]
    BY DEF Waiting
  <2>3. OwnersAt(s, pc', h) = OwnersAt(s, p, h) \cup {w}
    BY <2>1, <2>2 DEF OwnersAt
  <2>4. w \notin OwnersAt(s, p, h)
    BY <2>2 DEF OwnersAt
  <2>5. Cardinality(OwnersAt(s, pc', h)) = Cardinality(OwnersAt(s, p, h)) + 1
    BY <2>3, <2>4, OwnersFinite, FS_AddElement
  <2>6. value'[s] = v - 1
    BY <2>1 DEF TypeOK
  <2>7. value'[s] + Cardinality(OwnersAt(s, pc', h)) = Permits[s]
    BY <2>5, <2>6, OwnersFinite
  <2>8. ASSUME NEW t \in Sems \ {s}
        PROVE  value'[t] + Cardinality(OwnersAt(t, pc', h)) = Permits[t]
    <3>1. OwnersAt(t, pc', h) = OwnersAt(t, p, h)
      BY <2>1, <2>2 DEF OwnersAt
    <3>2. value'[t] = value[t]
      BY <2>1 DEF TypeOK
    <3>. QED
      BY <3>1, <3>2
  <2>. QED
    BY <2>7, <2>8
<1>. QED
  BY <1>1, <1>2 DEF WakeUpNext

(* release_once by a handler or callback that is not itself waiting.       *)
LEMMA ReleaseOnceConserves ==
  ASSUME TypeOK, NotHeldBeforeRunning, SlotConservation,
         NEW r \in Request, NEW p \in [Request -> Pcs],
         p = pc \/ p = [pc EXCEPT ![r] = "replied"],
         pc[r] # "granted",
         ReleaseOnce(r, p)
  PROVE  SlotConservation'
<1>1. \A t \in Sems : OwnersAt(t, p, held) = Owners(t)
  BY DEF TypeOK, OwnersAt, Owners
<1>2. \A x \in Request : p[x] = "waiting" => ~held[x]
  BY DEF TypeOK, NotHeldBeforeRunning
<1>3. CASE held[r]
  <2> DEFINE h == [held EXCEPT ![r] = FALSE]
             s == SemOf(r)
             v == value[s] + 1
  <2>1. s \in Sems /\ v \in Nat /\ h \in [Request -> BOOLEAN]
    BY SemOfType DEF TypeOK
  <2>2. OwnersAt(s, p, h) = OwnersAt(s, p, held) \ {r}
    BY DEF OwnersAt, TypeOK, NotHeldBeforeRunning
  <2>3. r \in OwnersAt(s, p, held)
    BY <1>3 DEF OwnersAt
  <2>4. Cardinality(OwnersAt(s, p, h)) = Cardinality(OwnersAt(s, p, held)) - 1
    BY <2>2, <2>3, OwnersFinite, FS_RemoveElement
  <2>5. v + Cardinality(OwnersAt(s, p, h)) = Permits[s]
    BY <1>1, <2>1, <2>4, OwnersFinite DEF SlotConservation, TypeOK
  <2>6. \A t \in Sems \ {s} : OwnersAt(t, p, h) = OwnersAt(t, p, held)
    BY DEF OwnersAt, TypeOK
  <2>7. \A t \in Sems \ {s} :
           value[t] + Cardinality(OwnersAt(t, p, h)) = Permits[t]
    BY <1>1, <2>6 DEF SlotConservation
  <2>8. held' = h /\ WakeUpNext(s, p, v)
    BY <1>3 DEF ReleaseOnce
  <2>9. \A x \in Request : p[x] = "waiting" => ~h[x]
    BY <1>2 DEF TypeOK
  <2>10. \A t \in Sems :
           value'[t] + Cardinality(OwnersAt(t, pc', h)) = Permits[t]
    <3> HIDE DEF h, s, v
    <3>. QED
      BY <2>1, <2>5, <2>7, <2>8, <2>9, WakeUpNextConserves
  <2>. QED
    BY <2>8, <2>10 DEF SlotConservation, Owners, OwnersAt
<1>4. CASE ~held[r]
  <2>1. pc' = p /\ held' = held /\ value' = value
    BY <1>4 DEF ReleaseOnce
  <2>2. \A t \in Sems : Owners(t)' = Owners(t)
    BY <1>1, <2>1 DEF Owners, OwnersAt
  <2>. QED
    BY <2>1, <2>2 DEF SlotConservation
<1>. QED
  BY <1>3, <1>4


LEMMA NextNotHeld ==
  TypeOK /\ NotHeldBeforeRunning /\ [Next]_vars => NotHeldBeforeRunning'
<1> SUFFICES ASSUME TypeOK, NotHeldBeforeRunning, [Next]_vars
             PROVE  NotHeldBeforeRunning'
  OBVIOUS
<1> USE DEF NotHeldBeforeRunning
<1>1. ASSUME NEW r \in Request, Arrive(r) PROVE NotHeldBeforeRunning'
  BY <1>1 DEF Arrive, StartWork, TypeOK
<1>2. ASSUME NEW r \in Request, NEW p \in [Request -> Pcs], NEW v \in Nat,
             p[r] \in {"running", "replied"},
             \A x \in Request \ {r} : p[x] = pc[x],
             WakeUpNext(SemOf(r), p, v),
             held' \in [Request -> BOOLEAN],
             \A x \in Request \ {r} : held'[x] = held[x]
      PROVE  NotHeldBeforeRunning'
  <2>1. \A x \in Request : \/ pc'[x] = p[x]
                           \/ p[x] = "waiting" /\ pc'[x] = "granted"
    BY <1>2, WakeUpNextType, SemOfType
  <2>. QED
    BY <1>2, <2>1
<1>3. ASSUME NEW r \in Request, Resume(r) PROVE NotHeldBeforeRunning'
  <2>1. [pc EXCEPT ![r] = "running"] \in [Request -> Pcs]
    BY DEF TypeOK, Pcs
  <2>2. value[SemOf(r)] \in Nat
    BY SemOfType DEF TypeOK
  <2>. QED
    BY <1>2, <1>3, <2>1, <2>2 DEF Resume, StartWork, TypeOK
<1>4. ASSUME NEW r \in Request, AcquireTimeout(r) PROVE NotHeldBeforeRunning'
  <2>1. [pc EXCEPT ![r] = "replied"] \in [Request -> Pcs]
    BY DEF TypeOK, Pcs
  <2>2. value[SemOf(r)] + 1 \in Nat
    BY SemOfType DEF TypeOK
  <2>3. CASE pc' = [pc EXCEPT ![r] = "replied"]
    BY <1>4, <2>3 DEF AcquireTimeout, TypeOK
  <2>4. CASE WakeUpNext(SemOf(r), [pc EXCEPT ![r] = "replied"],
                        value[SemOf(r)] + 1)
    BY <1>2, <1>4, <2>1, <2>2, <2>4 DEF AcquireTimeout, TypeOK
  <2>. QED
    BY <1>4, <2>3, <2>4 DEF AcquireTimeout
<1>5. ASSUME NEW r \in Request, Deliver(r) \/ RunCallback(r)
      PROVE  NotHeldBeforeRunning'
  <2>1. [pc EXCEPT ![r] = "replied"] \in [Request -> Pcs] /\ pc \in [Request -> Pcs]
    BY DEF TypeOK, Pcs
  <2>2. value[SemOf(r)] + 1 \in Nat
    BY SemOfType DEF TypeOK
  <2>3. CASE /\ \A x \in Request : pc'[x] = pc[x] \/ pc'[x] = "replied"
             /\ UNCHANGED held
    BY <2>3
  <2>4. ASSUME NEW q \in {pc, [pc EXCEPT ![r] = "replied"]}, ReleaseOnce(r, q)
        PROVE  NotHeldBeforeRunning'
    <3>1. CASE held[r]
      <4>1. pc[r] \in {"running", "replied"} /\ r \in DOMAIN pc
        BY <3>1 DEF TypeOK, Pcs
      <4>2. q[r] \in {"running", "replied"}
        BY <4>1, <2>4
      <4>3. /\ WakeUpNext(SemOf(r), q, value[SemOf(r)] + 1)
            /\ held' = [held EXCEPT ![r] = FALSE]
        BY <2>4, <3>1 DEF ReleaseOnce
      <4>4. /\ held' \in [Request -> BOOLEAN]
            /\ \A x \in Request \ {r} : held'[x] = held[x]
        BY <4>3 DEF TypeOK
      <4>5. q \in [Request -> Pcs] /\ \A x \in Request \ {r} : q[x] = pc[x]
        BY <2>1, <2>4 DEF TypeOK
      <4>. QED
        BY <1>2, <2>2, <4>2, <4>3, <4>4, <4>5
    <3>2. CASE ~held[r]
      BY <2>4, <3>2 DEF ReleaseOnce, TypeOK
    <3>. QED
      BY <3>1, <3>2
  <2>. QED
    BY <1>5, <2>1, <2>3, <2>4 DEF Deliver, RunCallback
<1>6. ASSUME NEW r \in Request, DeadlinePasses(r) PROVE NotHeldBeforeRunning'
  BY <1>6 DEF DeadlinePasses, TypeOK
<1>7. ASSUME UNCHANGED <<pc, held>> PROVE NotHeldBeforeRunning'
  BY <1>7
<1>. QED
  BY <1>1, <1>3, <1>4, <1>5, <1>6, <1>7
  DEF Next, Loop, Timer, Advance, StartJob, FinishJob, BreakTextPool, vars

LEMMA NextConserves ==
  TypeOK /\ NotHeldBeforeRunning /\ SlotConservation /\ [Next]_vars
    => SlotConservation'
<1> SUFFICES ASSUME TypeOK, NotHeldBeforeRunning, SlotConservation, [Next]_vars
             PROVE  SlotConservation'
  OBVIOUS
<1>1. \A t \in Sems : OwnersAt(t, pc, held) = Owners(t)
  BY DEF OwnersAt, Owners
<1>2. ASSUME NEW r \in Request, Arrive(r) PROVE SlotConservation'
  <2> DEFINE s == SemOf(r)
  <2>1. CASE ~Locked(s) /\ StartWork(r)
             /\ value' = [value EXCEPT ![s] = @ - 1]
             /\ pc' = [pc EXCEPT ![r] = "running"]
    <3>1. r \notin Owners(s)
      BY <1>2 DEF Arrive, Owners, NotHeldBeforeRunning
    <3>2. Owners(s)' = Owners(s) \cup {r}
      BY <1>2, <2>1 DEF Arrive, StartWork, Owners, TypeOK
    <3>3. Cardinality(Owners(s)') = Cardinality(Owners(s)) + 1
      BY <3>1, <3>2, OwnersOfFinite, FS_AddElement
    <3>4. value'[s] = value[s] - 1 /\ value[s] \in Nat /\ s \in Sems
      BY <2>1, SemOfType DEF TypeOK
    <3>5. value'[s] + Cardinality(Owners(s)') = Permits[s]
      BY <1>1, <3>3, <3>4, OwnersFinite DEF SlotConservation
    <3>6. \A t \in Sems \ {s} : Owners(t)' = Owners(t) /\ value'[t] = value[t]
      BY <1>2, <2>1 DEF Arrive, StartWork, Owners, TypeOK
    <3>. QED
      BY <3>5, <3>6 DEF SlotConservation
  <2>2. CASE /\ pc' = [pc EXCEPT ![r] = "waiting"]
             /\ UNCHANGED <<value, held, task, job>>
    <3>1. \A t \in Sems : Owners(t)' = Owners(t)
      BY <1>2, <2>2 DEF Arrive, Owners, TypeOK
    <3>. QED
      BY <2>2, <3>1 DEF SlotConservation
  <2>. QED
    BY <1>2, <2>1, <2>2 DEF Arrive
<1>3. ASSUME NEW r \in Request, Resume(r) PROVE SlotConservation'
  <2> DEFINE p == [pc EXCEPT ![r] = "running"]
             h == [held EXCEPT ![r] = TRUE]
  <2>1. p \in [Request -> Pcs] /\ h \in [Request -> BOOLEAN]
    BY DEF TypeOK, Pcs
  <2>2. value[SemOf(r)] \in Nat /\ SemOf(r) \in Sems
    BY SemOfType DEF TypeOK
  <2>3. \A t \in Sems : OwnersAt(t, p, h) = Owners(t)
    BY <1>3 DEF Resume, OwnersAt, Owners, TypeOK
  <2>4. \A x \in Request : p[x] = "waiting" => ~h[x]
    BY DEF TypeOK, NotHeldBeforeRunning
  <2>5. \A t \in Sems : value[t] + Cardinality(OwnersAt(t, p, h)) = Permits[t]
    BY <2>3 DEF SlotConservation
  <2>6. held' = h /\ WakeUpNext(SemOf(r), p, value[SemOf(r)])
    BY <1>3 DEF Resume, StartWork
  <2>7. \A t \in Sems :
          value'[t] + Cardinality(OwnersAt(t, pc', h)) = Permits[t]
    <3> HIDE DEF p, h
    <3>. QED
      BY <2>1, <2>2, <2>4, <2>5, <2>6, WakeUpNextConserves
  <2>. QED
    BY <2>6, <2>7 DEF SlotConservation, Owners, OwnersAt
<1>4. ASSUME NEW r \in Request, AcquireTimeout(r) PROVE SlotConservation'
  <2> DEFINE p == [pc EXCEPT ![r] = "replied"]
             s == SemOf(r)
             v == value[s] + 1
  <2>1. p \in [Request -> Pcs] /\ held \in [Request -> BOOLEAN]
    BY DEF TypeOK, Pcs
  <2>2. value[s] \in Nat /\ s \in Sems /\ v \in Nat
    BY SemOfType DEF TypeOK
  <2>3. CASE pc[r] = "waiting" /\ pc' = p /\ UNCHANGED value
    <3>1. \A t \in Sems : Owners(t)' = Owners(t)
      BY <1>4, <2>3 DEF AcquireTimeout, Owners, TypeOK
    <3>. QED
      BY <2>3, <3>1 DEF SlotConservation
  <2>4. CASE pc[r] = "granted" /\ WakeUpNext(s, p, v)
    <3>1. ~held[r] /\ r \in Owners(s)
      BY <2>4 DEF NotHeldBeforeRunning, Owners
    <3>2. OwnersAt(s, p, held) = Owners(s) \ {r}
      BY <3>1 DEF OwnersAt, Owners, TypeOK
    <3>3. Cardinality(OwnersAt(s, p, held)) = Cardinality(Owners(s)) - 1
      BY <3>1, <3>2, OwnersOfFinite, FS_RemoveElement
    <3>4. v + Cardinality(OwnersAt(s, p, held)) = Permits[s]
      BY <1>1, <2>2, <3>3, OwnersFinite DEF SlotConservation
    <3>5. \A t \in Sems \ {s} : OwnersAt(t, p, held) = Owners(t)
      BY DEF OwnersAt, Owners, TypeOK
    <3>6. \A t \in Sems \ {s} :
            value[t] + Cardinality(OwnersAt(t, p, held)) = Permits[t]
      BY <3>5 DEF SlotConservation
    <3>7. \A x \in Request : p[x] = "waiting" => ~held[x]
      BY DEF TypeOK, NotHeldBeforeRunning
    <3>8. \A t \in Sems :
            value'[t] + Cardinality(OwnersAt(t, pc', held)) = Permits[t]
      <4> HIDE DEF p, s, v
      <4>. QED
        BY <2>1, <2>2, <2>4, <3>4, <3>6, <3>7, WakeUpNextConserves
    <3>9. held' = held
      BY <1>4 DEF AcquireTimeout
    <3>. QED
      BY <3>8, <3>9 DEF SlotConservation, Owners, OwnersAt
  <2>. QED
    BY <1>4, <2>3, <2>4 DEF AcquireTimeout
<1>5. ASSUME NEW r \in Request, DeadlinePasses(r) \/
               (Deliver(r) /\ UNCHANGED <<value, held>> /\
                pc' = [pc EXCEPT ![r] = "replied"])
      PROVE  SlotConservation'
  <2>1. \A t \in Sems : Owners(t)' = Owners(t)
    BY <1>5 DEF DeadlinePasses, Deliver, Owners, TypeOK
  <2>. QED
    BY <1>5, <2>1 DEF DeadlinePasses, SlotConservation
<1>6. ASSUME NEW r \in Request, Deliver(r), task[r] # "TimeoutError"
      PROVE  SlotConservation'
  <2>1. [pc EXCEPT ![r] = "replied"] \in [Request -> Pcs]
    BY DEF TypeOK, Pcs
  <2>. QED
    BY <1>6, <2>1, ReleaseOnceConserves DEF Deliver
<1>7. ASSUME NEW r \in Request, RunCallback(r) PROVE SlotConservation'
  <2>1. CASE held[r]
    <3>1. pc[r] # "granted" /\ pc \in [Request -> Pcs]
      BY <2>1 DEF NotHeldBeforeRunning, TypeOK
    <3>. QED
      BY <1>7, <3>1, ReleaseOnceConserves DEF RunCallback
  <2>2. CASE ~held[r]
    BY <1>7, <2>2 DEF RunCallback, ReleaseOnce, SlotConservation, Owners
  <2>. QED
    BY <2>1, <2>2
<1>8. ASSUME UNCHANGED <<value, pc, held>> PROVE SlotConservation'
  BY <1>8 DEF SlotConservation, Owners
<1>. QED
  BY <1>2, <1>3, <1>4, <1>5, <1>6, <1>7, <1>8
  DEF Next, Loop, Timer, Deliver, Advance, StartJob, FinishJob, BreakTextPool,
      vars

LEMMA InitConserves == Init => NotHeldBeforeRunning /\ SlotConservation
<1> SUFFICES ASSUME Init PROVE NotHeldBeforeRunning /\ SlotConservation
  OBVIOUS
<1>1. \A s \in Sems : Owners(s) = {}
  BY DEF Init, Owners
<1>2. \A s \in Sems : Permits[s] \in Nat
  BY ConstantsAssumption
<1>3. \A s \in Sems : value[s] + Cardinality(Owners(s)) = Permits[s]
  <2>1. Cardinality({}) = 0
    BY FS_EmptySet
  <2>. QED
    BY <1>1, <1>2, <2>1 DEF Init
<1>. QED
  BY <1>3 DEF Init, NotHeldBeforeRunning, SlotConservation

(* Permits are conserved, for any number of requests, any concurrency and  *)
(* any way jobs end: free permits and permit owners of a semaphore always  *)
(* add up to its configured concurrency.                                   *)
THEOREM PermitsConserved == Spec => []SlotConservation
<1>1. TypeOK /\ NotHeldBeforeRunning /\ SlotConservation /\ [Next]_vars
        => (NotHeldBeforeRunning /\ SlotConservation)'
  BY NextNotHeld, NextConserves
<1>. QED
  BY TypeCorrect, InitConserves, <1>1, PTL DEF Spec


-----------------------------------------------------------------------------
(* A permit held after the answer always has a releaser.                   *)

(* What release_once changes, seen from the handlers.                      *)
LEMMA ReleaseOnceEffect ==
  ASSUME TypeOK, NEW r \in Request, NEW p \in [Request -> Pcs],
         ReleaseOnce(r, p)
  PROVE  /\ ~held'[r]
         /\ \A x \in Request \ {r} : held'[x] = held[x]
         /\ \A x \in Request : pc'[x] # p[x] => pc'[x] = "granted"
<1>1. value[SemOf(r)] + 1 \in Nat
  BY SemOfType DEF TypeOK
<1>2. CASE held[r]
  BY <1>1, <1>2, SemOfType, WakeUpNextType DEF ReleaseOnce, TypeOK
<1>3. CASE ~held[r]
  BY <1>3 DEF ReleaseOnce, TypeOK
<1>. QED
  BY <1>2, <1>3

LEMMA NextHeldHasReleaser ==
  TypeOK /\ NotHeldBeforeRunning /\ HeldHasReleaser /\ Deadline /\ [Next]_vars
    => HeldHasReleaser'
<1> SUFFICES ASSUME TypeOK, NotHeldBeforeRunning, HeldHasReleaser, Deadline,
                    [Next]_vars
             PROVE  HeldHasReleaser'
  OBVIOUS
<1> USE DEF HeldHasReleaser
<1>1. ASSUME NEW r \in Request, Arrive(r) PROVE HeldHasReleaser'
  BY <1>1 DEF Arrive, StartWork, TypeOK
<1>2. ASSUME NEW r \in Request, Resume(r) PROVE HeldHasReleaser'
  <2>1. [pc EXCEPT ![r] = "running"] \in [Request -> Pcs]
    BY DEF TypeOK, Pcs
  <2>2. value[SemOf(r)] \in Nat
    BY SemOfType DEF TypeOK
  <2>3. \A x \in Request : pc'[x] # [pc EXCEPT ![r] = "running"][x]
                             => pc'[x] = "granted"
    BY <1>2, <2>1, <2>2, SemOfType, WakeUpNextType DEF Resume
  <2>. QED
    BY <1>2, <2>3 DEF Resume, StartWork, TypeOK
<1>3. ASSUME NEW r \in Request, AcquireTimeout(r) PROVE HeldHasReleaser'
  <2>1. [pc EXCEPT ![r] = "replied"] \in [Request -> Pcs]
    BY DEF TypeOK, Pcs
  <2>2. value[SemOf(r)] + 1 \in Nat
    BY SemOfType DEF TypeOK
  <2>3. \A x \in Request : pc'[x] # [pc EXCEPT ![r] = "replied"][x]
                             => pc'[x] = "granted"
    BY <1>3, <2>1, <2>2, SemOfType, WakeUpNextType DEF AcquireTimeout
  <2>4. ~held[r] /\ UNCHANGED <<held, callback>>
    BY <1>3 DEF AcquireTimeout, NotHeldBeforeRunning
  <2>. QED
    BY <2>3, <2>4 DEF TypeOK
<1>4. ASSUME NEW r \in Request, Deliver(r) PROVE HeldHasReleaser'
  <2>1. [pc EXCEPT ![r] = "replied"] \in [Request -> Pcs]
    BY DEF TypeOK, Pcs
  <2>2. CASE task[r] = "TimeoutError"
    BY <1>4, <2>2 DEF Deliver, TypeOK
  <2>3. CASE task[r] # "TimeoutError"
    <3>1. /\ ReleaseOnce(r, [pc EXCEPT ![r] = "replied"])
          /\ UNCHANGED callback
      BY <1>4, <2>3 DEF Deliver
    <3>2. /\ ~held'[r]
          /\ \A x \in Request \ {r} : held'[x] = held[x]
          /\ \A x \in Request :
               pc'[x] # [pc EXCEPT ![r] = "replied"][x] => pc'[x] = "granted"
      BY <2>1, <3>1, ReleaseOnceEffect
    <3>. QED
      BY <3>1, <3>2 DEF TypeOK
  <2>. QED
    BY <2>2, <2>3
<1>5. ASSUME NEW r \in Request, DeadlinePasses(r) PROVE HeldHasReleaser'
  BY <1>5 DEF DeadlinePasses, TypeOK
<1>6. ASSUME NEW r \in Request, RunCallback(r) PROVE HeldHasReleaser'
  <2>1. ReleaseOnce(r, pc) /\ pc \in [Request -> Pcs]
    BY <1>6 DEF RunCallback, TypeOK
  <2>2. /\ ~held'[r]
        /\ \A x \in Request \ {r} : held'[x] = held[x]
        /\ \A x \in Request : pc'[x] # pc[x] => pc'[x] = "granted"
    BY <2>1, ReleaseOnceEffect
  <2>. QED
    BY <1>6, <2>2 DEF RunCallback, TypeOK
<1>7. ASSUME UNCHANGED <<pc, held, callback>> PROVE HeldHasReleaser'
  BY <1>7
<1>. QED
  BY <1>1, <1>2, <1>3, <1>4, <1>5, <1>6, <1>7
  DEF Next, Loop, Timer, Advance, StartJob, FinishJob, BreakTextPool, vars

(* With endpoint deadlines configured, no path through _run_limited        *)
(* forgets its permit.                                                     *)
THEOREM NoForgottenPermit == Deadline /\ Spec => []HeldHasReleaser
<1>1. Init => NotHeldBeforeRunning /\ HeldHasReleaser
  BY DEF Init, NotHeldBeforeRunning, HeldHasReleaser
<1>2. Deadline /\ TypeOK /\ NotHeldBeforeRunning /\ HeldHasReleaser /\ [Next]_vars
        => (NotHeldBeforeRunning /\ HeldHasReleaser)'
  BY NextNotHeld, NextHeldHasReleaser
<1>3. SUFFICES ASSUME Deadline PROVE Spec => []HeldHasReleaser
  OBVIOUS
<1>4. TypeOK /\ NotHeldBeforeRunning /\ HeldHasReleaser /\ [Next]_vars
        => (NotHeldBeforeRunning /\ HeldHasReleaser)'
  BY <1>2, <1>3
<1>. QED
  BY TypeCorrect, <1>1, <1>4, PTL DEF Spec

-----------------------------------------------------------------------------
(* Slots cover pool work, up to the orphans of gather().                   *)

JobsFollowTask ==
  \A r \in Request :
    /\ pc[r] \in {"new", "waiting", "granted"} => task[r] = "none"
    /\ task[r] = "none" => \A j \in Job : j[1] = r => job[j] = "none"
    /\ task[r] \in {"started", "hydrating"} => held[r]
    /\ task[r] = "started" =>
         \A j \in Job : j[1] = r /\ j[2] = "hydrate" => job[j] = "none"
    /\ task[r] = "hydrating" => \A j \in FirstJobs(r) : job[j] = "ok"
    /\ \A j \in Job : j[1] = r /\ j[2] # "hydrate" /\ job[j] # "none"
                        => j \in FirstJobs(r)

OrphanInv ==
  \A j \in Job : Unfinished(j) /\ TaskDone(j[1]) =>
    /\ Kind[j[1]] = "rrf"
    /\ \E k \in FirstJobs(j[1]) \ {j} : job[k] \in Failures

(* A request with two first jobs is an rrf search.                         *)
LEMMA TwoFirstJobs ==
  ASSUME NEW r \in Request, NEW j \in FirstJobs(r), NEW k \in FirstJobs(r),
         j # k
  PROVE  Kind[r] = "rrf"
<1>1. j = <<r, j[2]>> /\ k = <<r, k[2]>> /\ j[2] # k[2]
  BY DEF FirstJobs, Job
<1>2. UsesText(r) /\ UsesVector(r)
  BY <1>1 DEF FirstJobs
<1>. QED
  BY <1>2 DEF UsesText, UsesVector


LEMMA JobParts ==
  /\ \A r \in Request, n \in JobNames :
       /\ <<r, n>> \in Job /\ <<r, n>>[1] = r /\ <<r, n>>[2] = n
       /\ \A j \in Job : j[1] = r /\ j[2] = n => j = <<r, n>>
  /\ \A j \in Job : j[1] \in Request /\ j[2] \in JobNames
  /\ \A r \in Request : \A j \in FirstJobs(r) :
       j \in Job /\ j[1] = r /\ j[2] # "hydrate"
  BY DEF Job, FirstJobs

(* The request's own StartWork, with handler positions changed from        *)
(* waiting to granted elsewhere.                                           *)
LEMMA StartWorkFollows ==
  ASSUME TypeOK, JobsFollowTask, OrphanInv, NEW r \in Request,
         task[r] = "none", StartWork(r),
         pc'[r] = "running",
         \A x \in Request \ {r} :
           pc'[x] \in {"new", "waiting", "granted"}
             => pc[x] \in {"new", "waiting", "granted"}
  PROVE  JobsFollowTask' /\ OrphanInv'
<1>1. /\ task'[r] = "started" /\ held'[r]
      /\ \A x \in Request \ {r} : task'[x] = task[x] /\ held'[x] = held[x]
  BY DEF StartWork, TypeOK
<1>2. \A j \in Job : j[1] # r => job'[j] = job[j]
  BY JobParts DEF StartWork
<1>3. \A j \in Job : j[1] = r /\ job'[j] # "none" => j \in FirstJobs(r)
  BY JobParts DEF StartWork, JobsFollowTask
<1>4. \A x \in Request : FirstJobs(x)' = FirstJobs(x)
  BY DEF FirstJobs, UsesText, UsesVector
<1>5. JobsFollowTask'
  BY <1>1, <1>2, <1>3, <1>4, JobParts DEF JobsFollowTask, JobNames
<1>6. ASSUME NEW j \in Job, Unfinished(j)', TaskDone(j[1])'
      PROVE  /\ Kind[j[1]] = "rrf"
             /\ \E k \in FirstJobs(j[1]) \ {j} : job'[k] \in Failures
  <2>1. j[1] # r
    BY <1>1, <1>6 DEF TaskDone, Outcomes, Failures
  <2>2. Unfinished(j) /\ TaskDone(j[1])
    BY <1>1, <1>2, <1>6, <2>1, JobParts DEF Unfinished, TaskDone
  <2>3. PICK k \in FirstJobs(j[1]) \ {j} : job[k] \in Failures
    BY <2>2 DEF OrphanInv
  <2>. QED
    BY <1>2, <2>1, <2>2, <2>3, JobParts DEF OrphanInv
<1>. QED
  BY <1>4, <1>5, <1>6 DEF OrphanInv

(* A step that leaves tasks and jobs alone and releases a permit only of a *)
(* finished task.                                                          *)
LEMMA PcStepFollows ==
  ASSUME TypeOK, JobsFollowTask, OrphanInv,
         UNCHANGED <<task, job>>,
         \A x \in Request : held'[x] = held[x] \/ TaskDone(x),
         \A x \in Request :
           pc'[x] \in {"new", "waiting", "granted"}
             => pc[x] \in {"new", "waiting", "granted"}
  PROVE  JobsFollowTask' /\ OrphanInv'
<1>1. \A x \in Request : FirstJobs(x)' = FirstJobs(x)
  BY DEF FirstJobs, UsesText, UsesVector
<1>2. JobsFollowTask'
  BY <1>1 DEF JobsFollowTask, TaskDone, Outcomes, Failures
<1>3. OrphanInv'
  BY <1>1, JobParts DEF OrphanInv, Unfinished, TaskDone
<1>. QED
  BY <1>2, <1>3

(* A pool step: jobs only move from queued or running on, and no job that  *)
(* had an outcome changes it.                                              *)
LEMMA PoolStepFollows ==
  ASSUME TypeOK, JobsFollowTask, OrphanInv,
         UNCHANGED <<task, held, pc>>,
         job' \in [Job -> {"none", "queued", "running"} \cup Outcomes],
         \A j \in Job : ~Unfinished(j) => job'[j] = job[j],
         \A j \in Job : Unfinished(j) => job'[j] # "none"
  PROVE  JobsFollowTask' /\ OrphanInv'
<1>1. \A x \in Request : FirstJobs(x)' = FirstJobs(x)
  BY DEF FirstJobs, UsesText, UsesVector
<1>2. \A j \in Job : /\ job'[j] = "none" <=> job[j] = "none"
                     /\ job[j] = "ok" => job'[j] = "ok"
                     /\ job[j] \in Failures => job'[j] = job[j]
                     /\ Unfinished(j)' => Unfinished(j)
  BY DEF Unfinished, Failures
<1>3. JobsFollowTask'
  BY <1>1, <1>2, JobParts DEF JobsFollowTask
<1>4. OrphanInv'
  <2> SUFFICES ASSUME NEW j \in Job, Unfinished(j)', TaskDone(j[1])'
               PROVE  /\ Kind[j[1]] = "rrf"
                      /\ \E k \in FirstJobs(j[1]) \ {j} : job'[k] \in Failures
    BY <1>1 DEF OrphanInv
  <2>1. Unfinished(j) /\ TaskDone(j[1])
    BY <1>2 DEF TaskDone
  <2>. QED
    BY <1>2, <2>1, JobParts DEF OrphanInv
<1>. QED
  BY <1>3, <1>4

LEMMA AdvanceFollows ==
  ASSUME TypeOK, JobsFollowTask, OrphanInv, NEW r \in Request, Advance(r)
  PROVE  JobsFollowTask' /\ OrphanInv'
<1>1. \A x \in Request : FirstJobs(x)' = FirstJobs(x)
  BY DEF FirstJobs, UsesText, UsesVector
<1>2. task[r] \in {"started", "hydrating"} /\ UNCHANGED <<pc, held>>
  BY DEF Advance
<1>3. ~(pc[r] \in {"new", "waiting", "granted"}) /\ held[r]
  BY <1>2 DEF JobsFollowTask
<1>4. CASE /\ task[r] = "started"
           /\ \A j \in FirstJobs(r) : job[j] = "ok"
           /\ Kind[r] = "rrf"
           /\ task' = [task EXCEPT ![r] = "hydrating"]
           /\ job' = [job EXCEPT ![<<r, "hydrate">>] =
                                    Submitted(<<r, "hydrate">>)]
  <2>1. /\ task' = [task EXCEPT ![r] = "hydrating"]
        /\ job' = [job EXCEPT ![<<r, "hydrate">>] = Submitted(<<r, "hydrate">>)]
    BY <1>4
  <2>2. \A j \in Job : j # <<r, "hydrate">> => job'[j] = job[j]
    BY <2>1 DEF TypeOK
  <2>3. /\ task'[r] = "hydrating"
        /\ \A x \in Request \ {r} : task'[x] = task[x]
    BY <2>1 DEF TypeOK
  <2>4. /\ <<r, "hydrate">> \in Job
        /\ \A j \in Job : j = <<r, "hydrate">> <=> j[1] = r /\ j[2] = "hydrate"
    BY JobParts DEF JobNames
  <2>5. JobsFollowTask'
    BY <1>1, <1>2, <1>3, <1>4, <2>2, <2>3, <2>4, JobParts
    DEF JobsFollowTask
  <2>6. OrphanInv'
    <3> SUFFICES ASSUME NEW j \in Job, Unfinished(j)', TaskDone(j[1])'
                 PROVE  /\ Kind[j[1]] = "rrf"
                        /\ \E k \in FirstJobs(j[1]) \ {j} : job'[k] \in Failures
      BY <1>1 DEF OrphanInv
    <3>0. j[1] \in Request
      BY JobParts
    <3>1. j[1] # r
      BY <2>3 DEF TaskDone, Outcomes, Failures
    <3>2. Unfinished(j) /\ TaskDone(j[1])
      BY <2>2, <2>3, <2>4, <3>1, <3>0, JobParts DEF Unfinished, TaskDone
    <3>3. PICK k \in FirstJobs(j[1]) \ {j} : job[k] \in Failures
      BY <3>2 DEF OrphanInv
    <3>4. job'[k] = job[k]
      BY <2>2, <2>4, <3>0, <3>1, <3>3, JobParts
    <3>. QED
      BY <3>2, <3>3, <3>4 DEF OrphanInv
  <2>. QED
    BY <2>5, <2>6
<1>5. ASSUME UNCHANGED job, NEW o \in Outcomes, task' = [task EXCEPT ![r] = o],
             \A j \in Job : j[1] = r /\ Unfinished(j) =>
               /\ Kind[r] = "rrf"
               /\ \E k \in FirstJobs(r) \ {j} : job[k] \in Failures
      PROVE  JobsFollowTask' /\ OrphanInv'
  <2>1. task'[r] \in Outcomes /\ \A x \in Request \ {r} : task'[x] = task[x]
    BY <1>5 DEF TypeOK
  <2>2. JobsFollowTask'
    BY <1>1, <1>2, <1>3, <1>5, <2>1 DEF JobsFollowTask, Outcomes, Failures
  <2>3. OrphanInv'
    BY <1>1, <1>5, <2>1, JobParts DEF OrphanInv, Unfinished, TaskDone
  <2>. QED
    BY <2>2, <2>3
<1>6. CASE /\ task[r] = "started"
           /\ \A j \in FirstJobs(r) : job[j] = "ok"
           /\ Kind[r] # "rrf"
           /\ task' = [task EXCEPT ![r] = "ok"]
           /\ UNCHANGED job
  <2>1. task' = [task EXCEPT ![r] = "ok"] /\ UNCHANGED job
    BY <1>6
  <2>2. \A j \in Job : j[1] = r => ~Unfinished(j)
    BY <1>6, JobParts DEF JobsFollowTask, Unfinished
  <2>. QED
    BY <1>5, <2>1, <2>2 DEF Outcomes
<1>7. CASE task[r] = "started" /\ \E j \in FirstJobs(r) :
                /\ job[j] \in Failures
                /\ task' = [task EXCEPT ![r] = job[j]]
                /\ UNCHANGED job
  <2>1. PICK f \in FirstJobs(r) : /\ job[f] \in Failures
                                  /\ task' = [task EXCEPT ![r] = job[f]]
                                  /\ UNCHANGED job
    BY <1>7
  <2>2. ASSUME NEW j \in Job, j[1] = r, Unfinished(j)
        PROVE  /\ Kind[r] = "rrf"
               /\ \E k \in FirstJobs(r) \ {j} : job[k] \in Failures
    <3>1. j \in FirstJobs(r)
      BY <1>7, <2>2, JobParts DEF JobsFollowTask, Unfinished
    <3>2. j # f
      BY <2>1, <2>2 DEF Unfinished, Failures
    <3>. QED
      BY <2>1, <3>1, <3>2, TwoFirstJobs
  <2>. QED
    BY <1>5, <2>1, <2>2 DEF Outcomes
<1>8. CASE task[r] = "hydrating"
  <2>1. /\ task' = [task EXCEPT ![r] = job[<<r, "hydrate">>]] /\ UNCHANGED job
        /\ job[<<r, "hydrate">>] \in Outcomes
    BY <1>8 DEF Advance
  <2>2. \A j \in Job : j[1] = r => ~Unfinished(j)
    <3> SUFFICES ASSUME NEW j \in Job, j[1] = r PROVE ~Unfinished(j)
      OBVIOUS
    <3>1. CASE j[2] = "hydrate"
      <4>1. j = <<r, "hydrate">>
        BY <3>1, JobParts DEF JobNames
      <4>. QED
        BY <2>1, <4>1 DEF Unfinished, Outcomes, Failures
    <3>2. CASE j[2] # "hydrate"
      BY <1>8, <3>2 DEF JobsFollowTask, Unfinished
    <3>. QED
      BY <3>1, <3>2
  <2>. QED
    BY <1>5, <2>1, <2>2
<1>. QED
  BY <1>4, <1>6, <1>7, <1>8 DEF Advance


LEMMA NextFollows ==
  TypeOK /\ NotHeldBeforeRunning /\ JobsFollowTask /\ OrphanInv /\ [Next]_vars
    => JobsFollowTask' /\ OrphanInv'
<1> SUFFICES ASSUME TypeOK, NotHeldBeforeRunning, JobsFollowTask, OrphanInv,
                    [Next]_vars
             PROVE  JobsFollowTask' /\ OrphanInv'
  OBVIOUS
<1> DEFINE Early == {"new", "waiting", "granted"}
<1>1. ASSUME NEW r \in Request, Arrive(r)
      PROVE  JobsFollowTask' /\ OrphanInv'
  <2>1. CASE StartWork(r) /\ pc' = [pc EXCEPT ![r] = "running"]
    <3>1. task[r] = "none"
      BY <1>1 DEF Arrive, JobsFollowTask
    <3>2. /\ pc'[r] = "running"
          /\ \A x \in Request \ {r} : pc'[x] = pc[x]
      BY <2>1 DEF TypeOK
    <3>. QED
      BY <2>1, <3>1, <3>2, StartWorkFollows
  <2>2. CASE /\ pc' = [pc EXCEPT ![r] = "waiting"]
             /\ UNCHANGED <<value, held, task, job>>
    <3>1. \A x \in Request : pc'[x] \in Early => pc[x] \in Early
      BY <1>1, <2>2 DEF Arrive, TypeOK
    <3>. QED
      BY <2>2, <3>1, PcStepFollows
  <2>. QED
    BY <1>1, <2>1, <2>2 DEF Arrive
<1>2. ASSUME NEW r \in Request, Resume(r)
      PROVE  JobsFollowTask' /\ OrphanInv'
  <2>1. [pc EXCEPT ![r] = "running"] \in [Request -> Pcs]
    BY DEF TypeOK, Pcs
  <2>2. value[SemOf(r)] \in Nat
    BY SemOfType DEF TypeOK
  <2>3. \A x \in Request :
          LET p == [pc EXCEPT ![r] = "running"]
          IN  \/ pc'[x] = p[x]
              \/ p[x] = "waiting" /\ pc'[x] = "granted"
    BY <1>2, <2>1, <2>2, SemOfType, WakeUpNextType DEF Resume
  <2>4. /\ pc'[r] = "running"
        /\ \A x \in Request \ {r} : pc'[x] \in Early => pc[x] \in Early
    BY <2>3 DEF TypeOK
  <2>5. task[r] = "none" /\ StartWork(r)
    BY <1>2 DEF Resume, JobsFollowTask
  <2>. QED
    BY <2>4, <2>5, StartWorkFollows
<1>3. ASSUME NEW r \in Request, AcquireTimeout(r)
      PROVE  JobsFollowTask' /\ OrphanInv'
  <2>1. [pc EXCEPT ![r] = "replied"] \in [Request -> Pcs]
    BY DEF TypeOK, Pcs
  <2>2. value[SemOf(r)] + 1 \in Nat
    BY SemOfType DEF TypeOK
  <2>3. \A x \in Request :
          LET p == [pc EXCEPT ![r] = "replied"]
          IN  \/ pc'[x] = p[x]
              \/ p[x] = "waiting" /\ pc'[x] = "granted"
    BY <1>3, <2>1, <2>2, SemOfType, WakeUpNextType DEF AcquireTimeout
  <2>4. \A x \in Request : pc'[x] \in Early => pc[x] \in Early
    BY <2>3 DEF TypeOK
  <2>. QED
    BY <1>3, <2>4, PcStepFollows DEF AcquireTimeout
<1>4. ASSUME NEW r \in Request, NEW q \in {pc, [pc EXCEPT ![r] = "replied"]},
             ReleaseOnce(r, q), TaskDone(r), UNCHANGED <<task, job>>
      PROVE  JobsFollowTask' /\ OrphanInv'
  <2>1. q \in [Request -> Pcs]
    BY <1>4 DEF TypeOK, Pcs
  <2>2. value[SemOf(r)] + 1 \in Nat
    BY SemOfType DEF TypeOK
  <2>3. \A x \in Request : \/ pc'[x] = q[x]
                           \/ q[x] = "waiting" /\ pc'[x] = "granted"
    BY <1>4, <2>1, <2>2, SemOfType, WakeUpNextType DEF ReleaseOnce
  <2>4. \A x \in Request : pc'[x] \in Early => pc[x] \in Early
    BY <1>4, <2>3 DEF TypeOK
  <2>5. \A x \in Request : held'[x] = held[x] \/ TaskDone(x)
    BY <1>4, <2>1, ReleaseOnceEffect
  <2>. QED
    BY <1>4, <2>4, <2>5, PcStepFollows
<1>5. ASSUME NEW r \in Request, Deliver(r)
      PROVE  JobsFollowTask' /\ OrphanInv'
  <2>1. CASE task[r] = "TimeoutError"
    <3>1. /\ \A x \in Request : pc'[x] \in Early => pc[x] \in Early
          /\ UNCHANGED <<task, job, held>>
      BY <1>5, <2>1 DEF Deliver, TypeOK
    <3>. QED
      BY <3>1, PcStepFollows
  <2>2. CASE task[r] # "TimeoutError"
    BY <1>4, <1>5, <2>2 DEF Deliver
  <2>. QED
    BY <2>1, <2>2
<1>6. ASSUME NEW r \in Request, DeadlinePasses(r)
      PROVE  JobsFollowTask' /\ OrphanInv'
  <2>1. /\ \A x \in Request : pc'[x] \in Early => pc[x] \in Early
        /\ UNCHANGED <<task, job, held>>
    BY <1>6 DEF DeadlinePasses, TypeOK
  <2>. QED
    BY <2>1, PcStepFollows
<1>7. ASSUME NEW r \in Request, RunCallback(r)
      PROVE  JobsFollowTask' /\ OrphanInv'
  BY <1>4, <1>7 DEF RunCallback
<1>8. ASSUME NEW j \in Job, StartJob(j) \/ FinishJob(j)
      PROVE  JobsFollowTask' /\ OrphanInv'
  <2>1. PICK o \in {"running"} \cup Outcomes :
          /\ job' = [job EXCEPT ![j] = o]
          /\ Unfinished(j)
          /\ UNCHANGED <<task, held, pc>>
    BY <1>8, ConstantsAssumption DEF StartJob, FinishJob, Unfinished
  <2>2. o # "none"
    BY DEF Outcomes, Failures
  <2>3. /\ job' \in [Job -> {"none", "queued", "running"} \cup Outcomes]
        /\ \A k \in Job : ~Unfinished(k) => job'[k] = job[k]
        /\ \A k \in Job : Unfinished(k) => job'[k] # "none"
    BY <2>1, <2>2 DEF TypeOK, Unfinished
  <2>. QED
    BY <2>1, <2>3, PoolStepFollows
<1>9. CASE BreakTextPool
  <2>1. /\ UNCHANGED <<task, held, pc>>
        /\ job' \in [Job -> {"none", "queued", "running"} \cup Outcomes]
        /\ \A k \in Job : ~Unfinished(k) => job'[k] = job[k]
        /\ \A k \in Job : Unfinished(k) => job'[k] # "none"
    BY <1>9 DEF BreakTextPool, TypeOK, Unfinished, Outcomes, Failures
  <2>. QED
    BY <2>1, PoolStepFollows
<1>10. CASE UNCHANGED vars
  BY <1>10, PcStepFollows DEF vars
<1>. QED
  BY <1>1, <1>2, <1>3, <1>5, <1>6, <1>7, <1>8, <1>9, <1>10, AdvanceFollows
  DEF Next, Loop, Timer

LEMMA FollowsImpliesOrphans ==
  TypeOK /\ JobsFollowTask /\ OrphanInv => OnlyGatherOrphans
<1> SUFFICES ASSUME TypeOK, JobsFollowTask, OrphanInv,
                    NEW j \in Job, Unfinished(j), ~held[j[1]]
             PROVE  TaskDone(j[1])
  BY DEF OnlyGatherOrphans, OrphanInv
<1>1. j[1] \in Request
  BY JobParts
<1>2. task[j[1]] \notin {"none", "started", "hydrating"}
  BY <1>1 DEF JobsFollowTask, Unfinished
<1>. QED
  BY <1>1, <1>2 DEF TypeOK, TaskDone

(* For any load and concurrency, the only pool work that runs without a    *)
(* slot is the sibling of a failed candidate job of an rrf search.         *)
THEOREM WorkWithoutSlot == Spec => []OnlyGatherOrphans
<1>1. Init => NotHeldBeforeRunning /\ JobsFollowTask /\ OrphanInv
  BY JobParts DEF Init, NotHeldBeforeRunning, JobsFollowTask, OrphanInv,
                  Unfinished, TaskDone, Outcomes, Failures
<1>2. TypeOK /\ NotHeldBeforeRunning /\ JobsFollowTask /\ OrphanInv /\ [Next]_vars
        => (NotHeldBeforeRunning /\ JobsFollowTask /\ OrphanInv)'
  BY NextNotHeld, NextFollows
<1>. QED
  BY TypeCorrect, <1>1, <1>2, FollowsImpliesOrphans, PTL DEF Spec

(* Hence the promise of the comment in _run_limited holds for every server *)
(* load without rrf searches: slots cover all pool work.                   *)
THEOREM SlotCoversWorkWithoutRrf ==
  (\A r \in Request : Kind[r] # "rrf") /\ Spec => []SlotCoversWork
<1>1. SUFFICES ASSUME \A r \in Request : Kind[r] # "rrf"
               PROVE  Spec => []SlotCoversWork
  OBVIOUS
<1>2. OnlyGatherOrphans => SlotCoversWork
  BY <1>1, JobParts DEF OnlyGatherOrphans, SlotCoversWork
<1>. QED
  BY <1>2, WorkWithoutSlot, PTL

-----------------------------------------------------------------------------
(* No wake-up of the semaphore is lost.                                    *)

LEMMA WakeUpNextLosesNone ==
  ASSUME TypeOK, NoLostWakeup, NEW s \in Sems, NEW p \in [Request -> Pcs],
         NEW v \in Nat, WakeUpNext(s, p, v),
         \A x \in Request : SemOf(x) # s => p[x] = pc[x]
  PROVE  NoLostWakeup'
<1> SUFFICES ASSUME NEW s2 \in Sems, value'[s2] > 0, Waiting(s2, pc') # {}
             PROVE  \E r \in Request : SemOf(r) = s2 /\ pc'[r] = "granted"
  BY DEF NoLostWakeup, Waiting, SemOf
<1>1. CASE /\ v = 0 \/ Waiting(s, p) = {}
           /\ pc' = p
           /\ value' = [value EXCEPT ![s] = v]
  <2>1. s2 # s
    BY <1>1 DEF TypeOK
  <2>2. value[s2] > 0 /\ Waiting(s2, pc) # {}
    BY <1>1, <2>1 DEF TypeOK, Waiting
  <2>3. PICK r \in Request : SemOf(r) = s2 /\ pc[r] = "granted"
    BY <2>2 DEF NoLostWakeup
  <2> QED
    BY <1>1, <2>1, <2>3
<1>2. CASE v > 0 /\ \E w \in Waiting(s, p) :
                      /\ pc' = [p EXCEPT ![w] = "granted"]
                      /\ value' = [value EXCEPT ![s] = v - 1]
  <2>1. PICK w \in Waiting(s, p) : /\ pc' = [p EXCEPT ![w] = "granted"]
                                   /\ value' = [value EXCEPT ![s] = v - 1]
    BY <1>2
  <2>2. w \in Request /\ SemOf(w) = s
    BY DEF Waiting
  <2>3. CASE s2 = s
    BY <2>1, <2>2, <2>3
  <2>4. CASE s2 # s
    <3>1. value[s2] > 0 /\ Waiting(s2, pc) # {}
      BY <2>1, <2>2, <2>4 DEF TypeOK, Waiting
    <3>2. PICK r \in Request : SemOf(r) = s2 /\ pc[r] = "granted"
      BY <3>1 DEF NoLostWakeup
    <3> QED
      BY <2>1, <2>2, <2>4, <3>2
  <2> QED
    BY <2>3, <2>4
<1> QED
  BY <1>1, <1>2 DEF WakeUpNext

LEMMA ReleaseOnceLosesNone ==
  ASSUME TypeOK, NoLostWakeup, NEW r \in Request, pc[r] # "granted",
         NEW p \in {pc, [pc EXCEPT ![r] = "replied"]}, ReleaseOnce(r, p),
         p = pc \/ pc[r] = "running"
  PROVE  NoLostWakeup'
<1>1. p \in [Request -> Pcs] /\ value[SemOf(r)] + 1 \in Nat
  BY SemOfType DEF TypeOK, Pcs
<1>2. CASE held[r]
  BY <1>1, <1>2, SemOfType, WakeUpNextLosesNone DEF ReleaseOnce
<1>3. CASE ~held[r]
  BY <1>3 DEF ReleaseOnce, NoLostWakeup, Waiting, SemOf, TypeOK
<1> QED
  BY <1>2, <1>3

LEMMA NextLosesNone ==
  TypeOK /\ NotHeldBeforeRunning /\ NoLostWakeup /\ [Next]_vars
    => NoLostWakeup'
<1> SUFFICES ASSUME TypeOK, NotHeldBeforeRunning, NoLostWakeup, [Next]_vars
             PROVE  NoLostWakeup'
  OBVIOUS
<1>1. ASSUME NEW r \in Request, Arrive(r) PROVE NoLostWakeup'
  <2>1. SemOf(r) \in Sems
    BY SemOfType
  <2>2. CASE /\ ~Locked(SemOf(r))
             /\ value' = [value EXCEPT ![SemOf(r)] = @ - 1]
             /\ pc' = [pc EXCEPT ![r] = "running"]
    BY <2>1, <2>2 DEF NoLostWakeup, Waiting, Locked, SemOf, TypeOK
  <2>3. CASE /\ Locked(SemOf(r))
             /\ pc' = [pc EXCEPT ![r] = "waiting"]
             /\ UNCHANGED value
    <3> SUFFICES ASSUME NEW s \in Sems, value[s] > 0, Waiting(s, pc') # {}
                 PROVE  \E x \in Request : SemOf(x) = s /\ pc'[x] = "granted"
      BY <2>3 DEF NoLostWakeup, Waiting, SemOf
    <3>1. \E x \in Request : SemOf(x) = s /\ pc[x] = "granted"
      <4>1. Waiting(s, pc) # {} \/ SemOf(r) = s
        BY <2>3 DEF Waiting, TypeOK
      <4> QED
        BY <2>1, <2>3, <4>1 DEF NoLostWakeup, Locked, Waiting, TypeOK
    <3> QED
      BY <1>1, <2>3, <3>1 DEF Arrive, TypeOK
  <2> QED
    BY <1>1, <2>2, <2>3 DEF Arrive
<1>2. ASSUME NEW r \in Request, Resume(r) PROVE NoLostWakeup'
  <2>1. [pc EXCEPT ![r] = "running"] \in [Request -> Pcs]
    BY DEF TypeOK, Pcs
  <2>2. value[SemOf(r)] \in Nat
    BY SemOfType DEF TypeOK
  <2>3. WakeUpNext(SemOf(r), [pc EXCEPT ![r] = "running"], value[SemOf(r)])
    BY <1>2 DEF Resume
  <2> QED
    BY <2>1, <2>2, <2>3, SemOfType, WakeUpNextLosesNone DEF TypeOK
<1>3. ASSUME NEW r \in Request, AcquireTimeout(r) PROVE NoLostWakeup'
  <2>1. [pc EXCEPT ![r] = "replied"] \in [Request -> Pcs]
    BY DEF TypeOK, Pcs
  <2>2. value[SemOf(r)] + 1 \in Nat
    BY SemOfType DEF TypeOK
  <2>3. CASE pc[r] = "waiting" /\ pc' = [pc EXCEPT ![r] = "replied"]
             /\ UNCHANGED value
    BY <2>3 DEF NoLostWakeup, Waiting, SemOf, TypeOK
  <2>4. CASE WakeUpNext(SemOf(r), [pc EXCEPT ![r] = "replied"],
                        value[SemOf(r)] + 1)
    BY <2>1, <2>2, <2>4, SemOfType, WakeUpNextLosesNone DEF TypeOK
  <2> QED
    BY <1>3, <2>3, <2>4 DEF AcquireTimeout
<1>4. ASSUME NEW r \in Request, Deliver(r) PROVE NoLostWakeup'
  <2>1. CASE task[r] = "TimeoutError"
    BY <1>4, <2>1 DEF Deliver, NoLostWakeup, Waiting, SemOf, TypeOK
  <2>2. CASE task[r] # "TimeoutError"
    BY <1>4, <2>2, ReleaseOnceLosesNone DEF Deliver
  <2> QED
    BY <2>1, <2>2
<1>5. ASSUME NEW r \in Request, DeadlinePasses(r) PROVE NoLostWakeup'
  BY <1>5 DEF DeadlinePasses, NoLostWakeup, Waiting, SemOf, TypeOK
<1>6. ASSUME NEW r \in Request, RunCallback(r) PROVE NoLostWakeup'
  <2>1. CASE held[r]
    BY <1>6, <2>1, ReleaseOnceLosesNone DEF RunCallback, NotHeldBeforeRunning
  <2>2. CASE ~held[r]
    BY <1>6, <2>2 DEF RunCallback, ReleaseOnce, NoLostWakeup, Waiting, SemOf
  <2> QED
    BY <2>1, <2>2
<1>7. ASSUME UNCHANGED <<pc, value>> PROVE NoLostWakeup'
  BY <1>7 DEF NoLostWakeup, Waiting, SemOf
<1> QED
  BY <1>1, <1>2, <1>3, <1>4, <1>5, <1>6, <1>7
  DEF Next, Loop, Timer, Advance, StartJob, FinishJob, BreakTextPool, vars

(* While a permit is free, nobody waits whom no woken waiter will reach:   *)
(* for any load, timeouts and deadlines included.                          *)
THEOREM WakeUpsReach == Spec => []NoLostWakeup
<1>1. Init => NotHeldBeforeRunning /\ NoLostWakeup
  BY DEF Init, NotHeldBeforeRunning, NoLostWakeup, Waiting
<1>2. TypeOK /\ NotHeldBeforeRunning /\ NoLostWakeup /\ [Next]_vars
        => (NotHeldBeforeRunning /\ NoLostWakeup)'
  BY NextNotHeld, NextLosesNone
<1> QED
  BY TypeCorrect, <1>1, <1>2, PTL DEF Spec

-----------------------------------------------------------------------------
(* An answer tells what became of the work.                                *)

(* What the statuses 503 and 200 say of the task, and what the end of a    *)
(* task says of its jobs: "ok" of all of them, a failure of one.           *)
AnswerInv ==
  \A r \in Request :
    /\ reply[r] = "overloaded" =>
         pc[r] = "replied" /\ (task[r] = "none" \/ KeepsText(task[r]))
    /\ reply[r] = "ok" => pc[r] = "replied" /\ task[r] = "ok"
    /\ task[r] = "ok" => \A j \in Job : j[1] = r => job[j] \in {"none", "ok"}
    /\ task[r] \in Failures => \E j \in Job : j[1] = r /\ job[j] = task[r]

LEMMA StartWorkAnswers ==
  ASSUME TypeOK, AnswerInv, NEW r \in Request, pc[r] # "replied",
         StartWork(r), UNCHANGED reply,
         \A x \in Request : pc[x] = "replied" => pc'[x] = "replied"
  PROVE  AnswerInv'
<1>1. /\ task'[r] = "started"
      /\ \A x \in Request \ {r} : task'[x] = task[x]
  BY DEF StartWork, TypeOK
<1>2. \A j \in Job : j[1] # r => job'[j] = job[j]
  BY JobParts DEF StartWork
<1>3. task'[r] \notin {"ok"} \cup Failures
  BY <1>1 DEF Failures
<1> QED
  BY <1>1, <1>2, <1>3 DEF AnswerInv, KeepsText

(* A handler's step that leaves tasks and jobs alone.                      *)
LEMMA ReplyAnswers ==
  ASSUME TypeOK, AnswerInv, NEW r \in Request, UNCHANGED <<task, job>>,
         \A x \in Request \ {r} : reply'[x] = reply[x],
         \A x \in Request : pc[x] = "replied" => pc'[x] = "replied",
         reply'[r] \in {"ok", "overloaded"} => pc'[r] = "replied",
         reply'[r] = "ok" => task[r] = "ok",
         reply'[r] = "overloaded" => task[r] = "none" \/ KeepsText(task[r])
  PROVE  AnswerInv'
  BY DEF AnswerInv, KeepsText

LEMMA AdvanceAnswers ==
  ASSUME TypeOK, JobsFollowTask, AnswerInv, NEW r \in Request, Advance(r)
  PROVE  AnswerInv'
<1>1. task[r] \in {"started", "hydrating"} /\ UNCHANGED <<pc, reply>>
  BY DEF Advance
<1>2. \A x \in Request \ {r} : task'[x] = task[x]
  BY DEF Advance, TypeOK
<1>3. \A j \in Job : j[1] # r => job'[j] = job[j]
  BY JobParts DEF Advance, TypeOK
<1>4. ASSUME task'[r] = "ok", NEW j \in Job, j[1] = r
      PROVE  job'[j] \in {"none", "ok"}
  <2>1. CASE /\ task[r] = "started"
             /\ \E k \in FirstJobs(r) :
                  /\ job[k] \in Failures
                  /\ task' = [task EXCEPT ![r] = job[k]]
    BY <1>4, <2>1 DEF TypeOK, Failures
  <2>2. CASE /\ task[r] = "started"
             /\ \A k \in FirstJobs(r) : job[k] = "ok"
             /\ UNCHANGED job
    BY <1>4, <2>2, JobParts DEF JobsFollowTask
  <2>3. CASE task' = [task EXCEPT ![r] = "hydrating"]
    BY <1>4, <2>3 DEF TypeOK
  <2>4. CASE /\ task[r] = "hydrating"
             /\ task' = [task EXCEPT ![r] = job[<<r, "hydrate">>]]
             /\ UNCHANGED job
    <3>1. job[<<r, "hydrate">>] = "ok"
      BY <1>4, <2>4 DEF TypeOK
    <3>2. CASE j[2] = "hydrate"
      BY <1>4, <2>4, <3>1, <3>2, JobParts DEF JobNames
    <3>3. CASE j[2] # "hydrate"
      BY <1>4, <2>4, <3>3 DEF JobsFollowTask
    <3> QED
      BY <3>2, <3>3
  <2> QED
    BY <2>1, <2>2, <2>3, <2>4 DEF Advance
<1>5. task[r] \notin {"ok", "none"} \cup Failures
  BY <1>1 DEF Failures
<1>6. ASSUME task'[r] \in Failures
      PROVE  \E j \in Job : j[1] = r /\ job'[j] = task'[r]
  <2>1. CASE /\ task[r] = "started"
             /\ \E k \in FirstJobs(r) :
                  /\ job[k] \in Failures
                  /\ task' = [task EXCEPT ![r] = job[k]]
             /\ UNCHANGED job
    BY <2>1 DEF TypeOK, FirstJobs
  <2>2. CASE task'[r] \in {"ok", "hydrating"}
    BY <1>6, <2>2 DEF Failures
  <2>3. CASE /\ task[r] = "hydrating"
             /\ task' = [task EXCEPT ![r] = job[<<r, "hydrate">>]]
             /\ UNCHANGED job
    <3>1. <<r, "hydrate">> \in Job /\ <<r, "hydrate">>[1] = r
      BY DEF Job, JobNames
    <3> QED
      BY <2>3, <3>1 DEF TypeOK
  <2> QED
    BY <2>1, <2>2, <2>3 DEF Advance, TypeOK
<1>7. \A x \in Request :
        reply[x] = "overloaded" => x # r
  BY <1>5 DEF AnswerInv, KeepsText, Failures
<1> QED
  BY <1>1, <1>2, <1>3, <1>4, <1>5, <1>6, <1>7 DEF AnswerInv, KeepsText

LEMMA NextAnswers ==
  TypeOK /\ JobsFollowTask /\ AnswerInv /\ [Next]_vars => AnswerInv'
<1> SUFFICES ASSUME TypeOK, JobsFollowTask, AnswerInv, [Next]_vars
             PROVE  AnswerInv'
  OBVIOUS
<1>1. ASSUME NEW r \in Request, NEW q \in [Request -> Pcs],
             \A x \in Request : pc[x] = "replied" => q[x] = "replied",
             \/ pc' = q
             \/ \E v \in Nat : WakeUpNext(SemOf(r), q, v)
      PROVE  \A x \in Request :
               (pc[x] = "replied" \/ q[x] = "replied") => pc'[x] = "replied"
  BY <1>1, SemOfType, WakeUpNextType
<1>2. \A r \in Request : \A p \in {"running", "waiting", "replied"} :
        [pc EXCEPT ![r] = p] \in [Request -> Pcs]
  BY DEF TypeOK, Pcs
<1>3. \A r \in Request : value[SemOf(r)] \in Nat /\ value[SemOf(r)] + 1 \in Nat
  BY SemOfType DEF TypeOK
<1>4. ASSUME NEW r \in Request, Arrive(r) PROVE AnswerInv'
  <2>1. /\ pc[r] # "replied" /\ UNCHANGED reply
        /\ \A x \in Request : pc[x] = "replied" => pc'[x] = "replied"
    BY <1>4 DEF Arrive, TypeOK
  <2>2. CASE StartWork(r)
    BY <2>1, <2>2, StartWorkAnswers
  <2>3. CASE UNCHANGED <<task, job>>
    BY <2>1, <2>3 DEF AnswerInv
  <2> QED
    BY <1>4, <2>2, <2>3 DEF Arrive
<1>5. ASSUME NEW r \in Request, Resume(r) PROVE AnswerInv'
  <2> DEFINE p == [pc EXCEPT ![r] = "running"]
  <2>0. /\ p \in [Request -> Pcs]
        /\ \A x \in Request : pc[x] = "replied" => p[x] = "replied"
        /\ \E v \in Nat : WakeUpNext(SemOf(r), p, v)
    BY <1>2, <1>3, <1>5 DEF Resume, TypeOK
  <2> HIDE DEF p
  <2>1. \A x \in Request : pc[x] = "replied" => pc'[x] = "replied"
    BY <1>1, <2>0
  <2> QED
    BY <1>5, <2>1, StartWorkAnswers DEF Resume
<1>6. ASSUME NEW r \in Request, AcquireTimeout(r) PROVE AnswerInv'
  <2> DEFINE p == [pc EXCEPT ![r] = "replied"]
  <2>0. /\ p \in [Request -> Pcs] /\ p[r] = "replied"
        /\ \A x \in Request : pc[x] = "replied" => p[x] = "replied"
        /\ pc' = p \/ \E v \in Nat : WakeUpNext(SemOf(r), p, v)
    BY <1>2, <1>3, <1>6 DEF AcquireTimeout, TypeOK
  <2> HIDE DEF p
  <2>1. \A x \in Request :
          pc[x] = "replied" \/ x = r => pc'[x] = "replied"
    BY <1>1, <2>0
  <2>2. task[r] = "none"
    BY <1>6 DEF AcquireTimeout, JobsFollowTask
  <2>3. /\ reply'[r] = "overloaded"
        /\ \A x \in Request \ {r} : reply'[x] = reply[x]
    BY <1>6 DEF AcquireTimeout, TypeOK
  <2> QED
    BY <1>6, <2>1, <2>2, <2>3, ReplyAnswers DEF AcquireTimeout
<1>7. ASSUME NEW r \in Request, Deliver(r) PROVE AnswerInv'
  <2> DEFINE p == [pc EXCEPT ![r] = "replied"]
  <2>0. /\ p \in [Request -> Pcs] /\ p[r] = "replied"
        /\ \A x \in Request : pc[x] = "replied" => p[x] = "replied"
        /\ pc' = p \/ \E v \in Nat : WakeUpNext(SemOf(r), p, v)
    BY <1>2, <1>3, <1>7 DEF Deliver, ReleaseOnce, TypeOK
  <2> HIDE DEF p
  <2>1. \A x \in Request :
          pc[x] = "replied" \/ x = r => pc'[x] = "replied"
    BY <1>1, <2>0
  <2>2. /\ reply'[r] \in RepliesTo(task[r])
        /\ \A x \in Request \ {r} : reply'[x] = reply[x]
    BY <1>7 DEF Deliver, TypeOK
  <2>3. task[r] \in Outcomes
    BY <1>7 DEF Deliver, TaskDone
  <2>4. /\ reply'[r] = "overloaded" => KeepsText(task[r])
        /\ reply'[r] = "ok" => task[r] = "ok"
    BY <2>2, <2>3 DEF RepliesTo, Outcomes, Failures
  <2> QED
    BY <1>7, <2>1, <2>2, <2>4, ReplyAnswers DEF Deliver
<1>8. ASSUME NEW r \in Request, DeadlinePasses(r) PROVE AnswerInv'
  BY <1>8, ReplyAnswers DEF DeadlinePasses, TypeOK
<1>9. ASSUME NEW r \in Request, RunCallback(r) PROVE AnswerInv'
  <2>1. \A x \in Request : pc[x] = "replied" => pc'[x] = "replied"
    BY <1>1, <1>3, <1>9 DEF RunCallback, ReleaseOnce, TypeOK
  <2> QED
    BY <1>9, <2>1 DEF RunCallback, AnswerInv
<1>13. ASSUME UNCHANGED <<pc, task, reply>>,
              \A j \in Job : ~Unfinished(j) => job'[j] = job[j]
       PROVE  AnswerInv'
  <2>1. \A r \in Request : task[r] \in Failures =>
          \E j \in Job : j[1] = r /\ job'[j] = task[r]
    BY <1>13 DEF AnswerInv, Unfinished, Failures
  <2>2. \A r \in Request : task[r] = "ok" =>
          \A j \in Job : j[1] = r => job'[j] \in {"none", "ok"}
    BY <1>13 DEF AnswerInv, Unfinished
  <2> QED
    BY <1>13, <2>1, <2>2 DEF AnswerInv, KeepsText
<1>10. ASSUME NEW j \in Job, StartJob(j) \/ FinishJob(j) PROVE AnswerInv'
  BY <1>10, <1>13 DEF StartJob, FinishJob, Unfinished, TypeOK
<1>11. CASE BreakTextPool
  BY <1>11, <1>13 DEF BreakTextPool, TypeOK
<1>12. CASE UNCHANGED vars
  BY <1>12 DEF vars, AnswerInv
<1> QED
  BY <1>4, <1>5, <1>6, <1>7, <1>8, <1>9, <1>10, <1>11, <1>12, AdvanceAnswers
  DEF Next, Loop, Timer

(* 503 overloaded, which the agent retries, is only answered to a request  *)
(* no pool ever worked for, or one whose own work failed with a            *)
(* timeout-like exception that kept its text; 200 only when all the work   *)
(* it started ended well: for any load, concurrency and endings of the     *)
(* jobs.                                                                   *)
THEOREM AnswersTellWork == Spec => []ReplyTellsWork
<1>1. Init => /\ NotHeldBeforeRunning /\ JobsFollowTask /\ OrphanInv
              /\ AnswerInv
  BY JobParts DEF Init, NotHeldBeforeRunning, JobsFollowTask, OrphanInv,
                  Unfinished, TaskDone, Outcomes, Failures, AnswerInv, KeepsText
<1>2. /\ TypeOK /\ NotHeldBeforeRunning /\ JobsFollowTask /\ OrphanInv
      /\ AnswerInv /\ [Next]_vars
      => (NotHeldBeforeRunning /\ JobsFollowTask /\ OrphanInv /\ AnswerInv)'
  BY NextNotHeld, NextFollows, NextAnswers
<1>3. JobsFollowTask /\ AnswerInv => ReplyTellsWork
  <2> SUFFICES ASSUME JobsFollowTask, AnswerInv, NEW r \in Request
               PROVE  /\ reply[r] = "overloaded" =>
                           \/ \A n \in JobNames : job[<<r, n>>] = "none"
                           \/ \E n \in JobNames : KeepsText(job[<<r, n>>])
                      /\ reply[r] = "ok" =>
                           \A n \in JobNames : job[<<r, n>>] \in {"none", "ok"}
    BY DEF ReplyTellsWork
  <2>1. ASSUME KeepsText(task[r])
        PROVE  \E n \in JobNames : KeepsText(job[<<r, n>>])
    <3>1. task[r] \in Failures
      BY <2>1 DEF KeepsText, Failures
    <3>2. PICK j \in Job : j[1] = r /\ job[j] = task[r]
      BY <3>1 DEF AnswerInv
    <3>3. j = <<r, j[2]>> /\ j[2] \in JobNames
      BY <3>2, JobParts DEF Job
    <3> QED
      BY <2>1, <3>2, <3>3
  <2> QED
    BY <2>1, JobParts DEF JobsFollowTask, AnswerInv
<1> QED
  BY TypeCorrect, <1>1, <1>2, <1>3, PTL DEF Spec

-----------------------------------------------------------------------------
(* Waiters are served in the order in which they came.                     *)

(* What ServedInOrder asks of a step about request r.                      *)
InTurn(r) ==
  pc[r] \in {"new", "waiting"} /\ pc'[r] \in {"granted", "running"} =>
    \A w \in Request \ {r} :
      /\ pc[w] = "waiting" /\ pc'[w] = "waiting"
      /\ SemOf(w) = SemOf(r)
      => pc[r] = "waiting" /\ w \notin ahead[r]

LEMMA HandOverInTurn ==
  ASSUME TypeOK, NEW s \in Sems, NEW p \in [Request -> Pcs], NEW v \in Nat,
         WakeUpNext(s, p, v), NEW x \in Request,
         pc[x] \notin {"new", "waiting"},
         \A y \in Request \ {x} : p[y] = pc[y]
  PROVE  \A r \in Request : InTurn(r)
<1>1. CASE pc' = p
  BY <1>1 DEF InTurn
<1>2. CASE \E w \in Waiting(s, p) : /\ ahead[w] \cap Waiting(s, p) = {}
                                    /\ pc' = [p EXCEPT ![w] = "granted"]
  <2>1. PICK w \in Waiting(s, p) : /\ ahead[w] \cap Waiting(s, p) = {}
                                   /\ pc' = [p EXCEPT ![w] = "granted"]
    BY <1>2
  <2>2. w \in Request /\ SemOf(w) = s /\ p[w] = "waiting"
    BY DEF Waiting
  <2>3. \A y \in Request \ {w} : pc'[y] = p[y]
    BY <2>1
  <2>4. \A r \in Request \ {w} : InTurn(r)
    BY <2>3 DEF InTurn
  <2>5. ASSUME NEW y \in Request \ {w}, pc'[y] = "waiting", SemOf(y) = SemOf(w)
        PROVE  y \notin ahead[w]
    BY <2>1, <2>2, <2>3, <2>5 DEF Waiting
  <2>6. pc[w] \in {"new", "waiting"} => pc[w] = "waiting"
    BY <2>2
  <2>7. InTurn(w)
    BY <2>5, <2>6 DEF InTurn
  <2> QED
    BY <2>4, <2>7
<1> QED
  BY <1>1, <1>2 DEF WakeUpNext

LEMMA NextInTurn == TypeOK /\ NotHeldBeforeRunning /\ [Next]_vars
                      => \A r \in Request : InTurn(r)
<1> SUFFICES ASSUME TypeOK, NotHeldBeforeRunning, [Next]_vars
             PROVE  \A r \in Request : InTurn(r)
  OBVIOUS
<1>0. \A r \in Request : /\ SemOf(r) \in Sems
                         /\ value[SemOf(r)] \in Nat /\ value[SemOf(r)] + 1 \in Nat
  BY SemOfType DEF TypeOK
<1>1. ASSUME NEW r \in Request, NEW a \in {"running", "replied"}
      PROVE  /\ [pc EXCEPT ![r] = a] \in [Request -> Pcs]
             /\ \A y \in Request \ {r} : [pc EXCEPT ![r] = a][y] = pc[y]
  BY DEF TypeOK, Pcs
<1>a. ASSUME UNCHANGED pc PROVE \A r \in Request : InTurn(r)
  BY <1>a DEF InTurn
<1>2. ASSUME NEW r \in Request, Arrive(r) PROVE \A q \in Request : InTurn(q)
  <2>1. \A q \in Request \ {r} : pc'[q] = pc[q]
    BY <1>2 DEF Arrive, TypeOK
  <2>2. \A q \in Request \ {r} : InTurn(q)
    BY <2>1 DEF InTurn
  <2>3. InTurn(r)
    BY <1>2 DEF Arrive, InTurn, Locked, TypeOK
  <2> QED
    BY <2>2, <2>3
<1>3. ASSUME NEW r \in Request, Resume(r) PROVE \A q \in Request : InTurn(q)
  BY <1>0, <1>1, <1>3, HandOverInTurn DEF Resume
<1>4. ASSUME NEW r \in Request, AcquireTimeout(r)
      PROVE  \A q \in Request : InTurn(q)
  <2>1. CASE pc' = [pc EXCEPT ![r] = "replied"]
    BY <2>1 DEF InTurn, TypeOK
  <2>2. CASE pc[r] = "granted" /\
             WakeUpNext(SemOf(r), [pc EXCEPT ![r] = "replied"], value[SemOf(r)] + 1)
    BY <1>0, <1>1, <2>2, HandOverInTurn
  <2> QED
    BY <1>4, <2>1, <2>2 DEF AcquireTimeout
<1>5. ASSUME NEW r \in Request, NEW p \in {pc, [pc EXCEPT ![r] = "replied"]},
             ReleaseOnce(r, p), p = pc \/ pc[r] = "running"
      PROVE  \A q \in Request : InTurn(q)
  <2>1. CASE held[r]
    <3>1. pc[r] \notin {"new", "waiting"}
      BY <2>1 DEF NotHeldBeforeRunning
    <3>2. p \in [Request -> Pcs] /\ \A y \in Request \ {r} : p[y] = pc[y]
      BY <1>1 DEF TypeOK
    <3>3. WakeUpNext(SemOf(r), p, value[SemOf(r)] + 1)
      BY <1>5, <2>1 DEF ReleaseOnce
    <3> QED
      BY <1>0, <3>1, <3>2, <3>3, HandOverInTurn
  <2>2. CASE ~held[r]
    BY <1>5, <2>2 DEF ReleaseOnce, InTurn, TypeOK
  <2> QED
    BY <2>1, <2>2
<1>6. ASSUME NEW r \in Request, Deliver(r) PROVE \A q \in Request : InTurn(q)
  <2>1. CASE pc' = [pc EXCEPT ![r] = "replied"]
    BY <2>1 DEF InTurn, TypeOK
  <2>2. CASE ReleaseOnce(r, [pc EXCEPT ![r] = "replied"])
    BY <1>5, <1>6, <2>2 DEF Deliver
  <2> QED
    BY <1>6, <2>1, <2>2 DEF Deliver
<1>7. ASSUME NEW r \in Request, DeadlinePasses(r)
      PROVE  \A q \in Request : InTurn(q)
  BY <1>7 DEF DeadlinePasses, InTurn, TypeOK
<1>8. ASSUME NEW r \in Request, RunCallback(r)
      PROVE  \A q \in Request : InTurn(q)
  BY <1>5, <1>8 DEF RunCallback
<1>9. ASSUME NEW r \in Request, Advance(r) PROVE \A q \in Request : InTurn(q)
  BY <1>a, <1>9 DEF Advance
<1>10. ASSUME NEW j \in Job, StartJob(j) \/ FinishJob(j)
       PROVE  \A q \in Request : InTurn(q)
  BY <1>a, <1>10 DEF StartJob, FinishJob
<1>11. CASE BreakTextPool \/ UNCHANGED vars
  BY <1>a, <1>11 DEF BreakTextPool, vars
<1> QED
  BY <1>2, <1>3, <1>4, <1>6, <1>7, <1>8, <1>9, <1>10, <1>11
  DEF Next, Loop, Timer

(* Waiters are served in order of arrival, whatever times out, is handed   *)
(* over twice or comes back from a callback in between.                    *)
THEOREM WaitersAreServedInOrder == Spec => ServedInOrder
<1>1. Init => NotHeldBeforeRunning
  BY InitConserves
<1>2. TypeOK /\ NotHeldBeforeRunning /\ [Next]_vars
      => [\A r \in Request : InTurn(r)]_vars
  BY NextInTurn
<1>3. [\A r \in Request : InTurn(r)]_vars
      => [\A r \in Request :
            pc[r] \in {"new", "waiting"} /\ pc'[r] \in {"granted", "running"} =>
              \A w \in Request \ {r} :
                /\ pc[w] = "waiting" /\ pc'[w] = "waiting"
                /\ SemOf(w) = SemOf(r)
                => pc[r] = "waiting" /\ w \notin ahead[r]]_vars
  BY DEF InTurn
<1> QED
  BY <1>1, <1>2, <1>3, TypeCorrect, NextNotHeld, PTL DEF Spec, ServedInOrder

(* The queue is an order: of two waiters of one semaphore exactly one came *)
(* first, and who was ahead of it then was ahead of the other, too.        *)
QueueOrdered ==
  \A r, w \in Request :
    /\ w \in ahead[r] => pc[w] # "new" /\ w # r /\ SemOf(w) = SemOf(r)
    /\ pc[r] = "waiting" /\ pc[w] = "waiting" /\ SemOf(r) = SemOf(w) /\ r # w
       => /\ w \in ahead[r] <=> r \notin ahead[w]
          /\ w \in ahead[r] =>
               \A x \in ahead[w] : pc[x] = "waiting" => x \in ahead[r]

LEMMA StandingOrder ==
  ASSUME TypeOK, QueueOrdered, ahead' = ahead,
         \A r \in Request : /\ pc'[r] = "waiting" => pc[r] = "waiting"
                            /\ pc'[r] = "new" => pc[r] = "new"
  PROVE  QueueOrdered'
  BY DEF QueueOrdered, TypeOK, SemOf

LEMMA HandOverKeepsOrder ==
  ASSUME TypeOK, QueueOrdered, ahead' = ahead,
         NEW s \in Sems, NEW p \in [Request -> Pcs], NEW v \in Nat,
         WakeUpNext(s, p, v), NEW x \in Request,
         p[x] \in {"running", "replied"} \/ p[x] = pc[x],
         \A y \in Request \ {x} : p[y] = pc[y]
  PROVE  QueueOrdered'
<1>1. \A r \in Request : \/ pc'[r] = p[r]
                         \/ p[r] = "waiting" /\ pc'[r] = "granted"
  BY WakeUpNextType
<1> QED
  BY <1>1, StandingOrder

LEMMA NextKeepsOrder ==
  TypeOK /\ NotHeldBeforeRunning /\ QueueOrdered /\ [Next]_vars => QueueOrdered'
<1> SUFFICES ASSUME TypeOK, NotHeldBeforeRunning, QueueOrdered, [Next]_vars
             PROVE  QueueOrdered'
  OBVIOUS
<1>0. \A r \in Request : /\ SemOf(r) \in Sems
                         /\ value[SemOf(r)] \in Nat /\ value[SemOf(r)] + 1 \in Nat
  BY SemOfType DEF TypeOK
<1>1. ASSUME NEW r \in Request, NEW a \in {"running", "replied"}
      PROVE  /\ [pc EXCEPT ![r] = a] \in [Request -> Pcs]
             /\ [pc EXCEPT ![r] = a][r] = a
             /\ \A y \in Request \ {r} : [pc EXCEPT ![r] = a][y] = pc[y]
  BY DEF TypeOK, Pcs
<1>a. ASSUME UNCHANGED <<pc, ahead>> PROVE QueueOrdered'
  BY <1>a, StandingOrder
<1>b. ASSUME NEW r \in Request, pc' = [pc EXCEPT ![r] = "replied"],
             UNCHANGED ahead
      PROVE  QueueOrdered'
  <2>1. \A q \in Request : pc'[q] = pc[q] \/ pc'[q] = "replied"
    BY <1>b DEF TypeOK
  <2> QED
    BY <1>b, <2>1, StandingOrder
<1>2. ASSUME NEW r \in Request, Arrive(r) PROVE QueueOrdered'
  <2>1. pc[r] = "new"
    BY <1>2 DEF Arrive
  <2>2. CASE pc' = [pc EXCEPT ![r] = "running"] /\ UNCHANGED ahead
    <3>1. \A q \in Request : pc'[q] = pc[q] \/ pc'[q] = "running"
      BY <2>2 DEF TypeOK
    <3> QED
      BY <2>2, <3>1, StandingOrder
  <2>3. CASE /\ pc' = [pc EXCEPT ![r] = "waiting"]
             /\ ahead' = [ahead EXCEPT ![r] = Waiting(SemOf(r), pc)]
    <3>1. /\ pc'[r] = "waiting" /\ ahead'[r] = Waiting(SemOf(r), pc)
          /\ \A q \in Request \ {r} : pc'[q] = pc[q] /\ ahead'[q] = ahead[q]
      BY <2>3 DEF TypeOK
    <3>2. \A q \in Request : r \notin ahead[q]
      BY <2>1 DEF QueueOrdered
    <3>3. \A q \in Request : q \in ahead'[r] <=>
            q # r /\ pc'[q] = "waiting" /\ SemOf(q) = SemOf(r)
      BY <2>1, <3>1 DEF Waiting
    <3>4. \A q, w \in Request : w \in ahead'[q] => pc'[w] # "new" /\ w # q /\ SemOf(w) = SemOf(q)
      BY <3>1, <3>3 DEF QueueOrdered
    <3>5. ASSUME NEW q \in Request, NEW w \in Request, pc'[q] = "waiting",
                 pc'[w] = "waiting", SemOf(q) = SemOf(w), q # w
          PROVE  /\ w \in ahead'[q] <=> q \notin ahead'[w]
                 /\ w \in ahead'[q] =>
                      \A x \in ahead'[w] : pc'[x] = "waiting" => x \in ahead'[q]
      <4>1. CASE q = r
        <5>1. w \in ahead'[q] /\ q \notin ahead'[w]
          BY <3>1, <3>2, <3>3, <3>5, <4>1
        <5>2. ahead[w] \subseteq Request /\ r \notin ahead[w]
          BY <3>2 DEF TypeOK
        <5>3. ASSUME NEW x \in ahead'[w], pc'[x] = "waiting" PROVE x \in ahead'[q]
          <6>1. x \in ahead[w] /\ x \in Request /\ x # r
            BY <3>1, <3>5, <4>1, <5>2
          <6>2. SemOf(x) = SemOf(w)
            BY <6>1 DEF QueueOrdered
          <6> QED
            BY <3>3, <3>5, <4>1, <5>3, <6>1, <6>2
        <5> QED
          BY <5>1, <5>3
      <4>2. CASE w = r
        BY <3>1, <3>2, <3>3, <3>5, <4>2
      <4>3. CASE q # r /\ w # r
        <5>1. ahead[w] \subseteq Request /\ r \notin ahead[w]
          BY <3>2 DEF TypeOK
        <5> QED
          BY <3>1, <3>5, <4>3, <5>1 DEF QueueOrdered
      <4> QED
        BY <4>1, <4>2, <4>3
    <3> HIDE <2>3
    <3> QED
      BY <3>4, <3>5 DEF QueueOrdered, SemOf
  <2> QED
    BY <1>2, <2>2, <2>3 DEF Arrive
<1>3. ASSUME NEW r \in Request, Resume(r) PROVE QueueOrdered'
  BY <1>0, <1>1, <1>3, HandOverKeepsOrder DEF Resume
<1>4. ASSUME NEW r \in Request, AcquireTimeout(r) PROVE QueueOrdered'
  <2>1. CASE WakeUpNext(SemOf(r), [pc EXCEPT ![r] = "replied"], value[SemOf(r)] + 1)
    BY <1>0, <1>1, <1>4, <2>1, HandOverKeepsOrder DEF AcquireTimeout
  <2> QED
    BY <1>b, <1>4, <2>1 DEF AcquireTimeout
<1>5. ASSUME NEW r \in Request, NEW p \in {pc, [pc EXCEPT ![r] = "replied"]},
             ReleaseOnce(r, p), UNCHANGED ahead
      PROVE  QueueOrdered'
  <2>1. CASE held[r]
    <3>1. /\ p \in [Request -> Pcs] /\ \A y \in Request \ {r} : p[y] = pc[y]
          /\ p[r] \in {"running", "replied"} \/ p[r] = pc[r]
      BY <1>1 DEF TypeOK
    <3>2. WakeUpNext(SemOf(r), p, value[SemOf(r)] + 1)
      BY <1>5, <2>1 DEF ReleaseOnce
    <3> QED
      BY <1>0, <1>5, <3>1, <3>2, HandOverKeepsOrder
  <2>2. CASE ~held[r]
    BY <1>5, <1>a, <1>b, <2>2 DEF ReleaseOnce
  <2> QED
    BY <2>1, <2>2
<1>6. ASSUME NEW r \in Request, Deliver(r) PROVE QueueOrdered'
  BY <1>5, <1>6, <1>b DEF Deliver
<1>7. ASSUME NEW r \in Request, DeadlinePasses(r) PROVE QueueOrdered'
  BY <1>b, <1>7 DEF DeadlinePasses
<1>8. ASSUME NEW r \in Request, RunCallback(r) PROVE QueueOrdered'
  BY <1>5, <1>8 DEF RunCallback
<1>9. ASSUME NEW r \in Request, Advance(r) PROVE QueueOrdered'
  BY <1>a, <1>9 DEF Advance
<1>10. ASSUME NEW j \in Job, StartJob(j) \/ FinishJob(j) PROVE QueueOrdered'
  BY <1>a, <1>10 DEF StartJob, FinishJob
<1>11. CASE BreakTextPool \/ UNCHANGED vars
  BY <1>a, <1>11 DEF BreakTextPool, vars
<1> QED
  BY <1>2, <1>3, <1>4, <1>6, <1>7, <1>8, <1>9, <1>10, <1>11
  DEF Next, Loop, Timer

(* The waiters of a semaphore form a queue.                                *)
THEOREM QueuesAreOrdered == Spec => []QueueOrdered
<1>1. Init => NotHeldBeforeRunning /\ QueueOrdered
  BY InitConserves DEF Init, QueueOrdered
<1> QED
  BY <1>1, TypeCorrect, NextNotHeld, NextKeepsOrder, PTL DEF Spec

(* So a hand-over always finds a waiter that is next, and none of the      *)
(* steps that hand a permit over can be held up by its queue.              *)
THEOREM SomebodyIsNext ==
  Spec => [](\A s \in Sems : Waiting(s, pc) # {} =>
               \E w \in Waiting(s, pc) : ahead[w] \cap Waiting(s, pc) = {})
<1>1. TypeOK /\ QueueOrdered =>
        \A s \in Sems : Waiting(s, pc) # {} =>
          \E w \in Waiting(s, pc) : ahead[w] \cap Waiting(s, pc) = {}
  <2> SUFFICES ASSUME TypeOK, QueueOrdered, NEW s \in Sems, Waiting(s, pc) # {}
               PROVE  \E w \in Waiting(s, pc) : ahead[w] \cap Waiting(s, pc) = {}
    OBVIOUS
  <2> DEFINE W == Waiting(s, pc)
             Before(w) == ahead[w] \cap W
             T == {Before(w) : w \in W}
  <2>1. W \subseteq Request /\ IsFiniteSet(Request)
    BY ConstantsAssumption DEF Waiting
  <2>2. T \subseteq FiniteSubsetsOf(Request) /\ T # {}
    <3>1. T \subseteq SUBSET Request
      BY <2>1
    <3>2. FiniteSubsetsOf(Request) = SUBSET Request
      BY <2>1, FS_FiniteSubsetsOfFinite
    <3>3. T # {}
      OBVIOUS
    <3> QED
      BY <3>1, <3>2, <3>3
  <2>3. \E x \in T : \A y \in T : <<y, x>> \notin StrictSubsetOrdering(Request)
    BY <2>2, WFMin, FS_StrictSubsetOrderingWellFounded
  <2>4. PICK w \in W : \A y \in T :
          <<y, Before(w)>> \notin StrictSubsetOrdering(Request)
    BY <2>3
  <2>5. ASSUME NEW x \in Before(w) PROVE FALSE
    <3>1. x \in W /\ x # w /\ x \in ahead[w] /\ w \in Request /\ x \in Request
      BY <2>1, <2>5 DEF QueueOrdered
    <3>2. Before(x) \subseteq Before(w) /\ x \notin Before(x)
      BY <3>1, <2>1 DEF QueueOrdered, Waiting
    <3>3. Before(x) \subseteq Request /\ Before(w) \subseteq Request
      BY <2>1
    <3>4. <<Before(x), Before(w)>> \in StrictSubsetOrdering(Request)
      BY <2>5, <3>2, <3>3 DEF StrictSubsetOrdering
    <3> QED
      BY <2>4, <3>1, <3>4
  <2> QED
    BY <2>5
<1> QED
  BY <1>1, TypeCorrect, QueuesAreOrdered, PTL

=============================================================================
