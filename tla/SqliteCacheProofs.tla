-------------------------- MODULE SqliteCacheProofs --------------------------
(* Proofs about SqliteCache, for any number of threads and files.          *)
EXTENDS SqliteCache, TLAPS

(* A cache used by one thread.                                             *)
OneThread == \A t, u \in Thread : t = u

(* That thread's connection is to the file at db_path, except while that   *)
(* is being replaced, and it only quarantines a file a statement of its    *)
(* own has blamed, if there is one.                                        *)
FollowsPath ==
  \A t \in Thread :
    /\ pc[t] # "reenable" => conn[t] \in {path, None}
    /\ pc[t] = "exec" => conn[t] # None
    /\ pc[t] \in {"qcheck", "qset", "rename"}
         => path = None \/ blamed
    /\ pc[t] = "create" => initc[t] = path

-----------------------------------------------------------------------------
LEMMA InitTypeOK == Init => TypeOK
<1> SUFFICES ASSUME Init PROVE TypeOK
  OBVIOUS
<1>1. tabled \in BOOLEAN /\ blamed \in BOOLEAN
  BY DEF Init
<1>2. /\ pc \in [Thread -> Pcs]
      /\ \A t \in Thread : pc[t] # "create"
  BY DEF Init, Pcs
<1>3. /\ att \in [Thread -> 0 .. (MaxRetries - 1)]
      /\ depth \in [Thread -> 0 .. MaxDepth]
  BY ConstantsAssumption DEF Init
<1>. QED
  BY <1>1, <1>2, <1>3 DEF Init, TypeOK

LEMMA ConnectType ==
  ASSUME TypeOK, NEW f \in File, Connect(f)
  PROVE  /\ path' = f
         /\ tabled' \in BOOLEAN
         /\ path = None => ~tabled'
         /\ path # None => path = f /\ tabled' = tabled
  BY DEF Connect, TypeOK

LEMMA NextTypeOK == TypeOK /\ [Next]_vars => TypeOK'
<1> SUFFICES ASSUME TypeOK, [Next]_vars PROVE TypeOK'
  OBVIOUS
<1> USE ConstantsAssumption DEF TypeOK, Pcs, GoTo, Report
<1>1. ASSUME NEW t \in Thread, Call(t) PROVE TypeOK'
  BY <1>1 DEF Call
<1>2. ASSUME NEW t \in Thread, GetConn(t) \/ OpenFails(t) PROVE TypeOK'
  BY <1>2 DEF GetConn, OpenFails
<1>2a. ASSUME NEW t \in Thread, OpenConn(t) PROVE TypeOK'
  <2>1. PICK f \in File : Connect(f)
    BY <1>2a DEF OpenConn
  <2>2. path' \in File /\ tabled' \in BOOLEAN
    BY <2>1, ConnectType
  <2>3. att' \in [Thread -> 0 .. (MaxRetries - 1)]
    BY <1>2a DEF OpenConn, Locked
  <2>3a. blamed' \in BOOLEAN
    BY <1>2a DEF OpenConn
  <2>4. conn' \in [Thread -> File \cup {None}]
    BY <1>2a DEF OpenConn
  <2>5. /\ pc' \in [Thread -> Pcs]
        /\ \A u \in Thread : pc'[u] = "create" => pc[u] = "create"
    BY <1>2a DEF OpenConn, Locked
  <2>. QED
    <3>1. UNCHANGED <<mode, lock, depth, initc>>
      BY <1>2a DEF OpenConn
    <3>. QED
      BY <2>2, <2>3, <2>3a, <2>4, <2>5, <3>1
<1>3. ASSUME NEW t \in Thread, Exec(t) PROVE TypeOK'
  <2>1. UNCHANGED <<path, tabled, conn, mode, lock, depth, initc>>
    BY <1>3 DEF Exec
  <2>2. blamed' \in BOOLEAN
    BY <1>3 DEF Exec
  <2>3. att' \in [Thread -> 0 .. (MaxRetries - 1)]
    BY <1>3 DEF Exec, Locked
  <2>4. /\ pc' \in [Thread -> Pcs]
        /\ \A u \in Thread : pc'[u] = "create" => pc[u] = "create"
    BY <1>3 DEF Exec, Locked
  <2>. QED
    BY <2>1, <2>2, <2>3, <2>4
<1>4. ASSUME NEW t \in Thread, QuarantineCheck(t) PROVE TypeOK'
  BY <1>4 DEF QuarantineCheck, Leave
<1>5. ASSUME NEW t \in Thread, QuarantineSet(t) PROVE TypeOK'
  BY <1>5 DEF QuarantineSet
<1>6. ASSUME NEW t \in Thread, Rename(t) PROVE TypeOK'
  BY <1>6 DEF Rename
<1>7. ASSUME NEW t \in Thread, Reenable(t) PROVE TypeOK'
  BY <1>7 DEF Reenable
<1>8. ASSUME NEW t \in Thread, InitConnect(t) PROVE TypeOK'
  <2>1. path' \in File \cup {None} /\ tabled' \in BOOLEAN
    BY <1>8, ConnectType DEF InitConnect
  <2>2. /\ lock' = t
        /\ blamed' \in BOOLEAN
        /\ \A u \in Thread : pc[u] = "create" => u = t
        /\ UNCHANGED <<conn, mode, att>>
    BY <1>8 DEF InitConnect
  <2>3. /\ initc' \in [Thread -> File \cup {None}]
        /\ pc' \in [Thread -> Pcs]
        /\ depth' \in [Thread -> 0 .. MaxDepth]
        /\ \A u \in Thread : pc'[u] = "create" => u = t /\ initc'[u] # None
    BY <1>8, <2>2 DEF Nested, InitConnect
  <2>. QED
    BY <2>1, <2>2, <2>3
<1>9. ASSUME NEW t \in Thread, Create(t) PROVE TypeOK'
  BY <1>9 DEF Create, Leave
<1>10. ASSUME NEW t \in Thread, CreateReports(t) PROVE TypeOK'
  BY <1>10 DEF CreateReports, Nested
<1>11. ASSUME NEW t \in Thread, InitFails(t) PROVE TypeOK'
  BY <1>11 DEF InitFails, Leave
<1>12. CASE UNCHANGED vars
  BY <1>12 DEF vars
<1>. QED
  BY <1>1, <1>2, <1>2a, <1>3, <1>4, <1>5, <1>6, <1>7, <1>8, <1>9, <1>10,
     <1>11, <1>12 DEF Next, Step

(* Type correctness; a thread that creates the table holds _init_lock.     *)
THEOREM TypeCorrect == Spec => []TypeOK
<1>. QED
  BY InitTypeOK, NextTypeOK, PTL DEF Spec

-----------------------------------------------------------------------------
(* A thread that will make the table, or finds that another one will.      *)
Making(t) ==
  \/ pc[t] \in {"qcheck", "qset", "rename", "reenable", "init"}
  \/ pc[t] = "create" /\ initc[t] = path

LEMMA NextTableIsComing ==
  TypeOK /\ NotStuckDisabled /\ TableIsComing /\ [Next]_vars
    => TableIsComing'
<1> SUFFICES ASSUME TypeOK, NotStuckDisabled, TableIsComing, [Next]_vars,
                    path' = None \/ ~tabled',
                    mode' # "failed"
             PROVE  \E t \in Thread : Making(t)'
  BY DEF TableIsComing, Making
<1>a. (path = None \/ ~tabled) /\ mode # "failed"
        => \E t \in Thread : Making(t)
  BY DEF TableIsComing, Making
<1> USE ConstantsAssumption DEF TypeOK, Pcs, GoTo, Making
<1>1. ASSUME NEW t \in Thread, Call(t) PROVE \E u \in Thread : Making(u)'
  BY <1>1, <1>a DEF Call
<1>2. ASSUME NEW t \in Thread, GetConn(t) \/ OpenFails(t)
      PROVE  \E u \in Thread : Making(u)'
  BY <1>2, <1>a DEF GetConn, OpenFails
<1>2a. ASSUME NEW t \in Thread, OpenConn(t)
       PROVE  \E u \in Thread : Making(u)'
  <2>1. PICK f \in File : Connect(f)
    BY <1>2a DEF OpenConn
  <2>2. /\ UNCHANGED <<mode, initc>>
        /\ \A u \in Thread : u # t => pc'[u] = pc[u]
        /\ pc[t] = "connect"
    BY <1>2a DEF OpenConn, Locked
  <2>3. PICK u \in Thread : Making(u)
    BY <2>1, <2>2, <1>a, ConnectType
  <2>4. u # t
    BY <2>2, <2>3
  <2>5. CASE path = None
    BY <2>2, <2>3, <2>4, <2>5
  <2>6. CASE path # None
    BY <2>1, <2>2, <2>3, <2>4, <2>6, ConnectType
  <2>. QED
    BY <2>5, <2>6
<1>3. ASSUME NEW t \in Thread, Exec(t) PROVE \E u \in Thread : Making(u)'
  BY <1>3, <1>a DEF Exec, Locked
<1>4. ASSUME NEW t \in Thread, QuarantineCheck(t)
      PROVE  \E u \in Thread : Making(u)'
  <2>1. CASE Disabled
    <3>1. mode = "off"
      BY <1>4, <2>1 DEF QuarantineCheck, Disabled
    <3>2. PICK u \in Thread : pc[u] \in {"rename", "reenable"}
      BY <3>1 DEF NotStuckDisabled
    <3>3. u # t
      BY <1>4, <3>2 DEF QuarantineCheck
    <3>. QED
      BY <1>4, <3>2, <3>3 DEF QuarantineCheck, Leave
  <2>2. CASE ~Disabled
    BY <1>4, <2>2 DEF QuarantineCheck
  <2>. QED
    BY <2>1, <2>2
<1>5. ASSUME NEW t \in Thread, QuarantineSet(t)
      PROVE  \E u \in Thread : Making(u)'
  BY <1>5 DEF QuarantineSet
<1>6. ASSUME NEW t \in Thread, Rename(t) PROVE \E u \in Thread : Making(u)'
  BY <1>6 DEF Rename
<1>7. ASSUME NEW t \in Thread, Reenable(t)
      PROVE  \E u \in Thread : Making(u)'
  BY <1>7 DEF Reenable
<1>8. ASSUME NEW t \in Thread, InitConnect(t)
      PROVE  \E u \in Thread : Making(u)'
  <2>1. \/ pc'[t] = "qcheck"
        \/ \E f \in File : Connect(f) /\ initc'[t] = f /\ pc'[t] = "create"
    BY <1>8 DEF InitConnect, Nested
  <2>. QED
    BY <2>1, ConnectType
<1>9. ASSUME NEW t \in Thread, Create(t) PROVE \E u \in Thread : Making(u)'
  <2>1. path = None \/ ~tabled
    BY <1>9 DEF Create
  <2>2. path # initc[t]
    BY <1>9, <2>1 DEF Create
  <2>3. PICK u \in Thread : Making(u)
    BY <1>9, <2>1, <1>a DEF Create
  <2>4. u # t
    BY <1>9, <2>2, <2>3 DEF Create
  <2>. QED
    BY <1>9, <2>3, <2>4 DEF Create, Leave
<1>10. ASSUME NEW t \in Thread, CreateReports(t)
       PROVE  \E u \in Thread : Making(u)'
  BY <1>10 DEF CreateReports, Nested
<1>11. ASSUME NEW t \in Thread, InitFails(t)
       PROVE  \E u \in Thread : Making(u)'
  BY <1>11 DEF InitFails
<1>12. CASE UNCHANGED vars
  BY <1>12, <1>a DEF vars
<1>. QED
  BY <1>1, <1>2, <1>2a, <1>3, <1>4, <1>5, <1>6, <1>7, <1>8, <1>9, <1>10,
     <1>11, <1>12 DEF Next, Step

LEMMA NextNotStuckDisabled ==
  TypeOK /\ NotStuckDisabled /\ [Next]_vars => NotStuckDisabled'
<1> SUFFICES ASSUME TypeOK, NotStuckDisabled, [Next]_vars, mode' = "off"
             PROVE  \E t \in Thread : pc'[t] \in {"rename", "reenable"}
  BY DEF NotStuckDisabled
<1>a. mode = "off" => \E t \in Thread : pc[t] \in {"rename", "reenable"}
  BY DEF NotStuckDisabled
<1>1. ASSUME NEW t \in Thread, QuarantineSet(t)
      PROVE  pc'[t] \in {"rename", "reenable"}
  BY <1>1 DEF QuarantineSet, GoTo, TypeOK
<1>2. ASSUME NEW t \in Thread, Rename(t)
      PROVE  pc'[t] \in {"rename", "reenable"}
  BY <1>2 DEF Rename, GoTo, TypeOK
<1>3. ASSUME NEW t \in Thread,
             \/ Call(t) \/ GetConn(t) \/ OpenConn(t) \/ OpenFails(t)
             \/ Exec(t) \/ QuarantineCheck(t)
             \/ InitConnect(t) \/ Create(t) \/ CreateReports(t)
      PROVE  /\ mode' = mode
             /\ pc[t] \notin {"rename", "reenable"}
             /\ \A u \in Thread : u # t => pc'[u] = pc[u]
  BY <1>3 DEF TypeOK, GoTo, Call, GetConn, OpenConn, OpenFails, Exec,
     QuarantineCheck, Leave, Locked, InitConnect, Create, CreateReports, Nested
<1>4. ASSUME NEW t \in Thread, Reenable(t) \/ InitFails(t)
      PROVE  mode' # "off"
  BY <1>4 DEF Reenable, InitFails
<1>5. UNCHANGED vars => UNCHANGED <<mode, pc>>
  BY DEF vars
<1>. QED
  BY <1>a, <1>1, <1>2, <1>3, <1>4, <1>5 DEF Next, Step

(* However many threads quarantine at once: while db_path has no kv table, *)
(* a thread is on its way to create it, or the cache is disabled.          *)
THEOREM TableAlwaysComes == Spec => []TableIsComing
<1>1. Init => TableIsComing /\ NotStuckDisabled
  BY ConstantsAssumption DEF Init, TableIsComing, NotStuckDisabled
<1>. QED
  BY <1>1, InitTypeOK, NextTypeOK, NextTableIsComing, NextNotStuckDisabled,
     PTL DEF Spec

(* Overlapping quarantines never leave the cache switched off, unless the  *)
(* last one failed to make a new database.                                 *)
THEOREM SwitchedOnAgain == Spec => []NotStuckDisabled
<1>1. Init => NotStuckDisabled
  BY DEF Init, NotStuckDisabled
<1>. QED
  BY <1>1, InitTypeOK, NextTypeOK, NextNotStuckDisabled, PTL DEF Spec

-----------------------------------------------------------------------------
LEMMA NextFollowsPath ==
  ASSUME OneThread, TypeOK, FollowsPath, [Next]_vars PROVE FollowsPath'
<1> SUFFICES ASSUME NEW u \in Thread
    PROVE  /\ pc'[u] # "reenable" => conn'[u] \in {path', None}
           /\ pc'[u] = "exec" => conn'[u] # None
           /\ pc'[u] \in {"qcheck", "qset", "rename"}
                => path' = None \/ blamed'
           /\ pc'[u] = "create" => initc'[u] = path'
  BY DEF FollowsPath
<1>a. /\ pc[u] # "reenable" => conn[u] \in {path, None}
      /\ pc[u] = "exec" => conn[u] # None
      /\ pc[u] \in {"qcheck", "qset", "rename"}
           => path = None \/ blamed
      /\ pc[u] = "create" => initc[u] = path
  BY DEF FollowsPath
<1> USE ConstantsAssumption, <1>a DEF TypeOK, Pcs, GoTo, Report
<1>1. CASE Call(u)
  BY <1>1 DEF Call
<1>2. CASE GetConn(u)
  BY <1>2 DEF GetConn
<1>2a. CASE OpenConn(u)
  <2>1. PICK f \in File :
          /\ Connect(f)
          /\ \/ conn' = [conn EXCEPT ![u] = f] /\ GoTo(u, "exec")
             \/ Report(f) /\ GoTo(u, "qcheck") /\ UNCHANGED conn
             \/ Locked(u) /\ UNCHANGED conn
             \/ GoTo(u, "idle") /\ UNCHANGED conn
    BY <1>2a DEF OpenConn
  <2>2. path' = f /\ (path # None => path' = path)
    BY <2>1, ConnectType
  <2>3. pc[u] = "connect" /\ UNCHANGED initc
    BY <1>2a DEF OpenConn
  <2>. QED
    BY <2>1, <2>2, <2>3 DEF Locked
<1>2b. CASE OpenFails(u)
  BY <1>2b DEF OpenFails
<1>3. CASE Exec(u)
  BY <1>3 DEF Exec, Locked
<1>4. CASE QuarantineCheck(u)
  BY <1>4 DEF QuarantineCheck, Leave
<1>5. CASE QuarantineSet(u)
  BY <1>5 DEF QuarantineSet
<1>6. CASE Rename(u)
  BY <1>6 DEF Rename
<1>7. CASE Reenable(u)
  BY <1>7 DEF Reenable
<1>8. CASE InitConnect(u)
  <2>1. pc[u] = "init" /\ UNCHANGED conn
    BY <1>8 DEF InitConnect
  <2>2. ASSUME NEW f \in File, Connect(f),
               \/ initc' = [initc EXCEPT ![u] = f] /\ GoTo(u, "create")
               \/ Report(f) /\ Nested(u)
        PROVE  /\ conn'[u] \in {path', None}
               /\ \/ pc'[u] = "qcheck" /\ blamed'
                  \/ pc'[u] = "create" /\ initc'[u] = path'
    <3>1. path' = f /\ (path # None => path' = path)
      BY <2>2, ConnectType
    <3>. QED
      BY <2>1, <2>2, <3>1 DEF Nested
  <2>. QED
    BY <1>8, <2>2 DEF InitConnect
<1>9. CASE Create(u)
  BY <1>9 DEF Create, Leave
<1>10. CASE CreateReports(u)
  BY <1>10 DEF CreateReports, Nested
<1>11. CASE InitFails(u)
  BY <1>11 DEF InitFails, Leave
<1>12. CASE UNCHANGED vars
  BY <1>12 DEF vars
<1>13. \A t \in Thread : t = u
  BY DEF OneThread
<1>. QED
  BY <1>1, <1>2, <1>2a, <1>2b, <1>3, <1>4, <1>5, <1>6, <1>7, <1>8, <1>9,
     <1>10, <1>11, <1>12, <1>13 DEF Next, Step

(* A cache used by one thread only ever moves away a database on which one *)
(* of its statements has reported corruption; with a second thread it does *)
(* not even keep to that (see HealthyStays).                               *)
THEOREM SequentialHealthyStays == OneThread /\ Spec => HealthyStays
<1>1. Init => FollowsPath
  BY DEF Init, FollowsPath
<1>2. ASSUME TypeOK, FollowsPath, [Next]_vars
      PROVE  [path # None /\ tabled /\ ~blamed => path' # None]_vars
  <2> SUFFICES ASSUME path # None, ~blamed, path' = None
               PROVE  FALSE
    OBVIOUS
  <2> USE ConstantsAssumption DEF TypeOK
  <2>1. ASSUME NEW t \in Thread, Rename(t) PROVE FALSE
    BY <2>1, <1>2 DEF Rename, FollowsPath
  <2>2. ASSUME NEW t \in Thread, OpenConn(t) \/ InitConnect(t) PROVE FALSE
    BY <2>2, <1>2 DEF OpenConn, InitConnect, Connect
  <2>3. ASSUME NEW t \in Thread,
               \/ Call(t) \/ GetConn(t) \/ OpenFails(t) \/ Exec(t)
               \/ QuarantineCheck(t) \/ QuarantineSet(t) \/ Reenable(t)
               \/ Create(t) \/ CreateReports(t) \/ InitFails(t)
        PROVE  FALSE
    BY <2>3, <1>2 DEF Call, GetConn, OpenFails, Exec, QuarantineCheck,
       QuarantineSet, Reenable, Create, CreateReports, InitFails
  <2>4. CASE UNCHANGED vars
    BY <2>4, <1>2 DEF vars
  <2>. QED
    BY <1>2, <2>1, <2>2, <2>3, <2>4 DEF Next, Step
<1>3. OneThread /\ TypeOK /\ FollowsPath /\ [Next]_vars => FollowsPath'
  BY NextFollowsPath
<1>. QED
  <2>. SUFFICES ASSUME OneThread PROVE Spec => HealthyStays
    OBVIOUS
  <2>1. TypeOK /\ FollowsPath /\ [Next]_vars => FollowsPath'
    BY <1>3
  <2>. QED
    BY <1>1, <1>2, <2>1, InitTypeOK, NextTypeOK, PTL DEF Spec, HealthyStays
=============================================================================
