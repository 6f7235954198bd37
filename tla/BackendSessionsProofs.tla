----------------------- MODULE BackendSessionsProofs -----------------------
(* Proofs about BackendSessions, for any number of routers and backends.   *)
EXTENDS BackendSessions, TLAPS

LEMMA InitTypeOK == Init => TypeOK
  BY ConstantsAssumption DEF Init, TypeOK, Modes, Tasks

(* Updates of a function of functions at one place, and at one router.     *)
LEMMA UpdateTyped ==
  ASSUME NEW S, NEW f \in [Router -> [Name -> S]],
         NEW r \in Router, NEW n \in Name, NEW v \in S
  PROVE  /\ [f EXCEPT ![r][n] = v] \in [Router -> [Name -> S]]
         /\ \A q \in Router, m \in Name :
              [f EXCEPT ![r][n] = v][q][m] = IF q = r /\ m = n THEN v
                                                            ELSE f[q][m]
  OBVIOUS

LEMMA NextTypeOK == TypeOK /\ [Next]_vars => TypeOK'
<1> SUFFICES ASSUME TypeOK, [Next]_vars PROVE TypeOK'
  OBVIOUS
<1> USE ConstantsAssumption DEF TypeOK, Modes, Tasks, Enter, Task, registry,
        kill
<1>1. ASSUME NEW r \in Router, Launch(r) PROVE TypeOK'
  <2>1. session' = session /\ stop' = stop /\ started' = started
        /\ sig' = sig /\ killing' = killing /\ todo' = todo
    BY <1>1 DEF Launch
  <2>2. mode' \in [Router -> Modes]
    <3>1. \E m \in Modes : mode' = [mode EXCEPT ![r] = m]
      BY <1>1 DEF Launch
    <3>. QED
      BY <3>1
  <2>3. /\ task' \in [Router -> [Name -> Tasks]]
        /\ \A q \in Router : \A n \in Name \ Names[q] : task'[q][n] = "none"
    <3>1. CASE task' = task
      BY <3>1
    <3>2. CASE task' = [task EXCEPT ![r] =
                 [n \in Name |-> IF n \in Names[r] THEN "check" ELSE "none"]]
      <4> DEFINE t == [n \in Name |-> IF n \in Names[r] THEN "check" ELSE "none"]
      <4>1. t \in [Name -> Tasks] /\ \A n \in Name \ Names[r] : t[n] = "none"
        OBVIOUS
      <4>. HIDE DEF t
      <4>. QED
        BY <3>2, <4>1 DEF t
    <3>. QED
      BY <1>1, <3>1, <3>2 DEF Launch
  <2>4. \E some \in SUBSET Names[r] : pending' = [pending EXCEPT ![r] = some]
    BY <1>1 DEF Launch
  <2>5. pending' \in [Router -> SUBSET Name]
        /\ \A q \in Router : pending'[q] \subseteq Names[q]
    <3>1. PICK some \in SUBSET Names[r] :
            pending' = [pending EXCEPT ![r] = some]
      BY <2>4
    <3>2. Names[r] \subseteq Name
      OBVIOUS
    <3>. QED
      BY <3>1, <3>2
  <2>. QED
    BY <2>1, <2>2, <2>3, <2>5
<1>2. ASSUME NEW r \in Router, StartsEnd(r) PROVE TypeOK'
  BY <1>2 DEF StartsEnd
<1>20. ASSUME NEW r \in Router, NEW n \in Name, BackendReady(r, n)
       PROVE  TypeOK'
  <2>1. \E v \in Tasks : task' = [task EXCEPT ![r][n] = v]
    BY <1>20 DEF BackendReady
  <2>2. n \in Names[r]
    BY <1>20 DEF BackendReady
  <2>3. /\ task' \in [Router -> [Name -> Tasks]]
        /\ \A q \in Router : \A m \in Name \ Names[q] : task'[q][m] = "none"
    BY <2>1, <2>2, UpdateTyped
  <2>4. session' = session
    BY <1>20, <2>2 DEF BackendReady
  <2>. QED
    BY <1>20, <2>3, <2>4 DEF BackendReady
<1>3. ASSUME NEW r \in Router, WaitEnds(r) PROVE TypeOK'
  BY <1>3 DEF WaitEnds
<1>4. ASSUME NEW r \in Router, Shutdown(r) PROVE TypeOK'
  BY <1>4 DEF Shutdown
<1>5. ASSUME NEW r \in Router, StopBackends(r) PROVE TypeOK'
  BY <1>5 DEF StopBackends
<1>6. ASSUME NEW r \in Router, ServeEnds(r) PROVE TypeOK'
  <2>1. CASE task' = task
    BY <1>6, <2>1 DEF ServeEnds
  <2>2. CASE task' = [task EXCEPT ![r] =
               [n \in Name |-> IF @[n] \in {"paused", "created"}
                               THEN "cancelled" ELSE @[n]]]
    <3> DEFINE t == [n \in Name |-> IF task[r][n] \in {"paused", "created"}
                                    THEN "cancelled" ELSE task[r][n]]
    <3>1. t \in [Name -> Tasks] /\ \A n \in Name \ Names[r] : t[n] = "none"
      OBVIOUS
    <3>2. task' = [task EXCEPT ![r] = t]
      BY <2>2
    <3>. HIDE DEF t
    <3>3. /\ task' \in [Router -> [Name -> Tasks]]
          /\ \A q \in Router : \A n \in Name \ Names[q] : task'[q][n] = "none"
      BY <3>1, <3>2
    <3>4. mode' \in [Router -> Modes]
      BY <1>6 DEF ServeEnds
    <3>. QED
      BY <1>6, <3>3, <3>4 DEF ServeEnds
  <2>. QED
    BY <1>6, <2>1, <2>2 DEF ServeEnds
<1>7. ASSUME NEW r \in Router, Cleanup(r) PROVE TypeOK'
  BY <1>7 DEF Cleanup, BeginKillAll
<1>8. ASSUME NEW r \in Router, KillByPrefix(r) PROVE TypeOK'
  BY <1>8 DEF KillByPrefix, Listed
<1>9. ASSUME NEW r \in Router, EndKillAll(r) PROVE TypeOK'
  BY <1>9 DEF EndKillAll
<1>10. ASSUME NEW r \in Router, NEW n \in Name, StartBackend(r, n)
       PROVE  TypeOK'
  <2>1. \E v \in Tasks : task' = [task EXCEPT ![r][n] = v]
    BY <1>10 DEF StartBackend, KillSession
  <2>2. n \in Names[r]
    BY <1>10 DEF StartBackend
  <2>3. /\ task' \in [Router -> [Name -> Tasks]]
        /\ \A q \in Router : \A m \in Name \ Names[q] : task'[q][m] = "none"
    BY <2>1, <2>2, UpdateTyped
  <2>4. session' \in [Name -> Router \cup {NoOne, Earlier}]
    BY <1>10, <2>2 DEF StartBackend, KillSession
  <2>. QED
    BY <1>10, <2>3, <2>4 DEF StartBackend, KillSession
<1>11. ASSUME NEW r \in Router, NEW n \in Name, PauseEnds(r, n)
       PROVE  TypeOK'
  <2>1. \E v \in Tasks : task' = [task EXCEPT ![r][n] = v]
    BY <1>11 DEF PauseEnds
  <2>2. n \in Names[r]
    BY <1>11 DEF PauseEnds
  <2>3. /\ task' \in [Router -> [Name -> Tasks]]
        /\ \A q \in Router : \A m \in Name \ Names[q] : task'[q][m] = "none"
    BY <2>1, <2>2, UpdateTyped
  <2>4. session' = session
    BY <1>11, <2>2 DEF PauseEnds
  <2>. QED
    BY <1>11, <2>3, <2>4 DEF PauseEnds
<1>12. ASSUME NEW r \in Router, NEW n \in Name, NewSession(r, n)
       PROVE  TypeOK'
  <2>1. \E v \in Tasks : task' = [task EXCEPT ![r][n] = v]
    BY <1>12 DEF NewSession
  <2>2. n \in Names[r]
    BY <1>12 DEF NewSession
  <2>3. /\ task' \in [Router -> [Name -> Tasks]]
        /\ \A q \in Router : \A m \in Name \ Names[q] : task'[q][m] = "none"
    BY <2>1, <2>2, UpdateTyped
  <2>4. session' \in [Name -> Router \cup {NoOne, Earlier}]
    BY <1>12, <2>2 DEF NewSession
  <2>. QED
    BY <1>12, <2>3, <2>4 DEF NewSession
<1>13. ASSUME NEW r \in Router, NEW n \in Name, SessionStarted(r, n)
       PROVE  TypeOK'
  <2>1. \E v \in Tasks : task' = [task EXCEPT ![r][n] = v]
    BY <1>13 DEF SessionStarted
  <2>2. n \in Names[r]
    BY <1>13 DEF SessionStarted
  <2>3. /\ task' \in [Router -> [Name -> Tasks]]
        /\ \A q \in Router : \A m \in Name \ Names[q] : task'[q][m] = "none"
    BY <2>1, <2>2, UpdateTyped
  <2>4. /\ started' \in [Router -> SUBSET Name]
        /\ \A q \in Router : started'[q] \subseteq Names[q]
    BY <1>13, <2>2 DEF SessionStarted
  <2>. QED
    BY <1>13, <2>3, <2>4 DEF SessionStarted
<1>14. ASSUME NEW r \in Router, NEW n \in Name, StopKills(r, n)
       PROVE  TypeOK'
  BY <1>14 DEF StopKills, KillSession
<1>15. ASSUME NEW r \in Router, NEW n \in Name, Stopped(r, n)
       PROVE  TypeOK'
  BY <1>15 DEF Stopped, Discard
<1>16. ASSUME NEW r \in Router, NEW n \in Name, KillOne(r, n)
       PROVE  TypeOK'
  BY <1>16 DEF KillOne, KillSession, Discard
<1>17. ASSUME NEW r \in Router, NEW s \in {"INT", "TERM"}, Signal(r, s)
       PROVE  TypeOK'
  BY <1>17 DEF Signal, BeginKillAll
<1>18. ASSUME NEW r \in Router, Crash(r) PROVE TypeOK'
  BY <1>18 DEF Crash
<1>19. CASE UNCHANGED vars
  BY <1>19 DEF vars
<1>. QED
  BY <1>1, <1>2, <1>3, <1>4, <1>5, <1>6, <1>7, <1>8, <1>9, <1>10, <1>11,
     <1>12, <1>13, <1>14, <1>15, <1>16, <1>17, <1>18, <1>19, <1>20 DEF Next, Step

(* The constraints of TypeOK hold in every reachable state.                *)
THEOREM TypeCorrect == Spec => []TypeOK
  BY InitTypeOK, NextTypeOK, PTL DEF Spec

-----------------------------------------------------------------------------
(* A router that exits leaves no session.                                  *)

(* A router has only the sessions of its GPUs; from the last clean-up on   *)
(* none is about to be created, and what kill_all() has not listed by name *)
(* it finds by prefix.                                                     *)
ExitInv ==
  /\ \A r \in Router, n \in Name : session[n] = r => n \in Names[r]
  /\ \A r \in Router, n \in Name :
       mode[r] \in {"cleanup", "exited"} => task[r][n] # "creating"
  /\ \A r \in Router : mode[r] = "cleanup" => killing[r] # "no"
  /\ \A r \in Router, n \in Name :
       mode[r] = "cleanup" /\ killing[r] = "prefix" /\ session[n] = r =>
         n \in todo[r]
  /\ CleanExit

LEMMA InitExitInv == Init => ExitInv
  BY ConstantsAssumption DEF Init, ExitInv, CleanExit

LEMMA NextExitInv == TypeOK /\ ExitInv /\ [Next]_vars => ExitInv'
<1> SUFFICES ASSUME TypeOK, ExitInv, [Next]_vars PROVE ExitInv'
  OBVIOUS
<1> USE ConstantsAssumption DEF TypeOK, ExitInv, CleanExit, Enter, Task, registry, kill
<1>1. ASSUME NEW p \in Router, Launch(p) PROVE ExitInv'
  <2>1. \E w \in {"starting", "joining"} : mode' = [mode EXCEPT ![p] = w]
    BY <1>1 DEF Launch
  <2>2. \A q \in Router \ {p} : task'[q] = task[q]
    BY <1>1 DEF Launch
  <2>3. UNCHANGED <<session, killing, todo>>
    BY <1>1 DEF Launch
  <2>. QED
    BY <2>1, <2>2, <2>3
<1>2. ASSUME NEW p \in Router, StartsEnd(p) PROVE ExitInv'
  BY <1>2 DEF StartsEnd
<1>3. ASSUME NEW p \in Router, WaitEnds(p) PROVE ExitInv'
  BY <1>3 DEF WaitEnds
<1>4. ASSUME NEW p \in Router, Shutdown(p) PROVE ExitInv'
  BY <1>4 DEF Shutdown
<1>5. ASSUME NEW p \in Router, StopBackends(p) PROVE ExitInv'
  BY <1>5 DEF StopBackends
<1>6. ASSUME NEW p \in Router, ServeEnds(p) PROVE ExitInv'
  <2>1. \E w \in {"terminated", "joining"} : mode' = [mode EXCEPT ![p] = w]
    BY <1>6 DEF ServeEnds
  <2>2. \A q \in Router \ {p} : task'[q] = task[q]
    BY <1>6 DEF ServeEnds
  <2>3. UNCHANGED <<session, killing, todo>>
    BY <1>6 DEF ServeEnds
  <2>. QED
    BY <2>1, <2>2, <2>3
<1>7. ASSUME NEW p \in Router, Cleanup(p) PROVE ExitInv'
  BY <1>7 DEF Cleanup, BeginKillAll
<1>8. ASSUME NEW p \in Router, KillByPrefix(p) PROVE ExitInv'
  BY <1>8 DEF KillByPrefix, Listed
<1>9. ASSUME NEW p \in Router, EndKillAll(p) PROVE ExitInv'
  BY <1>9 DEF EndKillAll
<1>10. ASSUME NEW p \in Router, NEW m \in Name, StartBackend(p, m)
      PROVE  ExitInv'
  <2>1. mode[p] \notin {"cleanup", "exited"}
    BY <1>10 DEF StartBackend, LoopRuns, Live, Handled
  <2>2. \A q \in Router \ {p} : task'[q] = task[q]
    BY <1>10 DEF StartBackend
  <2>3. UNCHANGED <<mode, killing, todo>>
    BY <1>10 DEF StartBackend
  <2>4. \A k \in Name : session'[k] \in {session[k], NoOne}
    BY <1>10 DEF StartBackend, KillSession
  <2>. QED
    BY <2>1, <2>2, <2>3, <2>4
<1>11. ASSUME NEW p \in Router, NEW m \in Name, PauseEnds(p, m)
      PROVE  ExitInv'
  <2>1. mode[p] \notin {"cleanup", "exited"}
    BY <1>11 DEF PauseEnds, LoopRuns, Live, Handled
  <2>2. \A q \in Router \ {p} : task'[q] = task[q]
    BY <1>11 DEF PauseEnds
  <2>3. UNCHANGED <<mode, killing, todo>>
    BY <1>11 DEF PauseEnds
  <2>4. \A k \in Name : session'[k] \in {session[k]}
    BY <1>11 DEF PauseEnds
  <2>. QED
    BY <2>1, <2>2, <2>3, <2>4
<1>12. ASSUME NEW p \in Router, NEW m \in Name, NewSession(p, m)
      PROVE  ExitInv'
  <2>1. mode[p] \notin {"cleanup", "exited"} /\ m \in Names[p]
    BY <1>12 DEF NewSession
  <2>2. \A q \in Router \ {p} : task'[q] = task[q]
    BY <1>12 DEF NewSession
  <2>3. UNCHANGED <<mode, killing, todo>>
    BY <1>12 DEF NewSession
  <2>4. session' = session \/ session' = [session EXCEPT ![m] = p]
    BY <1>12 DEF NewSession
  <2>5. \A k \in Name : session'[k] = session[k] \/ (k = m /\ session'[k] = p)
    BY <2>4
  <2>6. SUFFICES ASSUME NEW r \in Router, NEW n \in Name
        PROVE  /\ session'[n] = r => n \in Names[r]
               /\ mode[r] \in {"cleanup", "exited"} =>
                    task'[r][n] # "creating" /\ (session'[n] = r => session[n] = r)
    BY <2>3
  <2>7. CASE r = p
    BY <2>1, <2>5, <2>7
  <2>8. CASE r # p
    BY <2>2, <2>5, <2>8
  <2>. QED
    BY <2>7, <2>8
<1>13. ASSUME NEW p \in Router, NEW m \in Name, SessionStarted(p, m)
      PROVE  ExitInv'
  BY <1>13 DEF SessionStarted
<1>14. ASSUME NEW p \in Router, NEW m \in Name, BackendReady(p, m)
      PROVE  ExitInv'
  BY <1>14 DEF BackendReady
<1>15. ASSUME NEW p \in Router, NEW m \in Name, StopKills(p, m)
      PROVE  ExitInv'
  BY <1>15 DEF StopKills, KillSession
<1>16. ASSUME NEW p \in Router, NEW m \in Name, Stopped(p, m)
      PROVE  ExitInv'
  BY <1>16 DEF Stopped, Discard
<1>17. ASSUME NEW p \in Router, NEW m \in Name, KillOne(p, m)
      PROVE  ExitInv'
  BY <1>17 DEF KillOne, KillSession, Discard
<1>18. ASSUME NEW p \in Router, NEW s \in {"INT", "TERM"}, Signal(p, s)
      PROVE  ExitInv'
  BY <1>18 DEF Signal, BeginKillAll
<1>19. ASSUME NEW p \in Router, Crash(p) PROVE ExitInv'
  BY <1>19 DEF Crash
<1>20. CASE UNCHANGED vars
  BY <1>20 DEF vars
<1>. QED
  BY <1>1, <1>2, <1>3, <1>4, <1>5, <1>6, <1>7, <1>8, <1>9, <1>10, <1>11,
     <1>12, <1>13, <1>14, <1>15, <1>16, <1>17, <1>18, <1>19, <1>20 DEF Next, Step

(* A router that leaves by itself leaves none of its sessions.             *)
THEOREM ExitsAreClean == Spec => []CleanExit
<1>1. ExitInv => CleanExit
  BY DEF ExitInv, CleanExit
<1>. QED
  BY <1>1, TypeCorrect, InitExitInv, NextExitInv, PTL DEF Spec

-----------------------------------------------------------------------------
(* Sessions that only their router can reach.                              *)

(* A router kills before it creates, or stops what it has registered, or   *)
(* is in a clean-up that a signal or the end has begun.                    *)
Keep(r, n) ==
  /\ mode[r] = "off" => task[r][n] = "none"
  /\ task[r][n] \in {"none", "check", "paused", "creating"} => session[n] # r
  /\ stop[r][n] = "asked" =>
       n \in Names[r] /\ mode[r] \in {"stopping", "aborting"} \cup Ended
  /\ killing[r] # "no" \/ n \in todo[r] => sig[r] # {} \/ mode[r] = "cleanup"

KeepInv == \A r \in Router, n \in Name : Keep(r, n)

LEMMA InitKeepInv == Init => KeepInv
  BY ConstantsAssumption DEF Init, KeepInv, Keep

LEMMA NextKeepInv == TypeOK /\ KeepInv /\ [Next]_vars => KeepInv'
<1> SUFFICES ASSUME TypeOK, KeepInv, [Next]_vars,
                    NEW r \in Router, NEW n \in Name
             PROVE  Keep(r, n)'
  BY DEF KeepInv
<1>0. Keep(r, n)
  BY DEF KeepInv
<1> USE <1>0, ConstantsAssumption
    DEF TypeOK, Keep, Ended, Enter, Task, registry, kill
<1>1. ASSUME NEW p \in Router, Launch(p) PROVE Keep(r, n)'
  BY <1>1 DEF Launch
<1>2. ASSUME NEW p \in Router, StartsEnd(p) PROVE Keep(r, n)'
  BY <1>2 DEF StartsEnd
<1>3. ASSUME NEW p \in Router, WaitEnds(p) PROVE Keep(r, n)'
  BY <1>3 DEF WaitEnds
<1>4. ASSUME NEW p \in Router, Shutdown(p) PROVE Keep(r, n)'
  BY <1>4 DEF Shutdown
<1>5. ASSUME NEW p \in Router, StopBackends(p) PROVE Keep(r, n)'
  BY <1>5 DEF StopBackends
<1>6. ASSUME NEW p \in Router, ServeEnds(p) PROVE Keep(r, n)'
  BY <1>6 DEF ServeEnds
<1>7. ASSUME NEW p \in Router, Cleanup(p) PROVE Keep(r, n)'
  BY <1>7 DEF Cleanup, BeginKillAll
<1>8. ASSUME NEW p \in Router, KillByPrefix(p) PROVE Keep(r, n)'
  BY <1>8 DEF KillByPrefix, Listed
<1>9. ASSUME NEW p \in Router, EndKillAll(p) PROVE Keep(r, n)'
  BY <1>9 DEF EndKillAll
<1>10. ASSUME NEW p \in Router, NEW m \in Name, StartBackend(p, m)
      PROVE  Keep(r, n)'
  <2>1. UNCHANGED <<mode, stop, sig, killing, todo>> /\ mode[p] # "off"
    BY <1>10 DEF StartBackend, LoopRuns, Live, Handled
  <2>a. /\ task[p][m] = "check"
        /\ \E v \in {"paused", "creating", "failed"} :
             task' = [task EXCEPT ![p][m] = v]
    BY <1>10 DEF StartBackend
  <2>2. /\ task[p][m] = "check"
        /\ task'[r][n] = task[r][n] \/ (p = r /\ m = n)
    BY <2>a
  <2>3. session'[n] \in {session[n], NoOne}
    BY <1>10 DEF StartBackend, KillSession
  <2>. QED
    BY <2>1, <2>2, <2>3
<1>11. ASSUME NEW p \in Router, NEW m \in Name, PauseEnds(p, m)
      PROVE  Keep(r, n)'
  BY <1>11 DEF PauseEnds
<1>12. ASSUME NEW p \in Router, NEW m \in Name, NewSession(p, m)
      PROVE  Keep(r, n)'
  BY <1>12 DEF NewSession
<1>13. ASSUME NEW p \in Router, NEW m \in Name, SessionStarted(p, m)
      PROVE  Keep(r, n)'
  BY <1>13 DEF SessionStarted
<1>14. ASSUME NEW p \in Router, NEW m \in Name, BackendReady(p, m)
      PROVE  Keep(r, n)'
  BY <1>14 DEF BackendReady
<1>15. ASSUME NEW p \in Router, NEW m \in Name, StopKills(p, m)
      PROVE  Keep(r, n)'
  BY <1>15 DEF StopKills, KillSession
<1>16. ASSUME NEW p \in Router, NEW m \in Name, Stopped(p, m)
      PROVE  Keep(r, n)'
  BY <1>16 DEF Stopped, Discard
<1>17. ASSUME NEW p \in Router, NEW m \in Name, KillOne(p, m)
      PROVE  Keep(r, n)'
  BY <1>17 DEF KillOne, KillSession, Discard
<1>18. ASSUME NEW p \in Router, NEW s \in {"INT", "TERM"}, Signal(p, s)
      PROVE  Keep(r, n)'
  BY <1>18 DEF Signal, BeginKillAll
<1>19. ASSUME NEW p \in Router, Crash(p) PROVE Keep(r, n)'
  BY <1>19 DEF Crash
<1>20. CASE UNCHANGED vars
  BY <1>20 DEF vars
<1>. QED
  BY <1>1, <1>2, <1>3, <1>4, <1>5, <1>6, <1>7, <1>8, <1>9, <1>10, <1>11,
     <1>12, <1>13, <1>14, <1>15, <1>16, <1>17, <1>18, <1>19, <1>20 DEF Next, Step

(* A session that no other router's names or prefix reach stays until its  *)
(* own router cleans up or has ended.                                      *)
THEOREM OthersAreKept == Spec => KeepsBackends
<1> DEFINE Kept(n) ==
      /\ session[n] # NoOne /\ session'[n] # session[n]
      /\ \A q \in Router \ {session[n]} : n \notin Prefixed[q]
      => /\ session[n] \in Router
         /\ \/ sig[session[n]] # {}
            \/ mode[session[n]] \in {"stopping", "aborting", "cleanup"} \cup Ended
<1>1. TypeOK /\ KeepInv /\ [Next]_vars => [\A n \in Name : Kept(n)]_vars
  <2> SUFFICES ASSUME TypeOK, KeepInv, Next, NEW n \in Name,
                      session[n] # NoOne, session'[n] # session[n],
                      \A q \in Router \ {session[n]} : n \notin Prefixed[q]
               PROVE  /\ session[n] \in Router
                      /\ \/ sig[session[n]] # {}
                         \/ mode[session[n]] \in
                              {"stopping", "aborting", "cleanup"} \cup Ended
    OBVIOUS
  <2>1. PICK p \in Router : session' = session \/ \E m \in Name :
          StartBackend(p, m) \/ NewSession(p, m) \/ StopKills(p, m) \/ KillOne(p, m)
    BY DEF Next, Step, Launch, StartsEnd, WaitEnds, Shutdown, StopBackends,
           ServeEnds, Cleanup, KillByPrefix, EndKillAll, PauseEnds,
           SessionStarted, BackendReady, Stopped, Signal, Crash
  <2>2. PICK m \in Name :
          StartBackend(p, m) \/ NewSession(p, m) \/ StopKills(p, m) \/ KillOne(p, m)
    BY <2>1
  <2>3. Keep(p, n)
    BY DEF KeepInv
  <2>4. m = n
    BY <2>2 DEF StartBackend, NewSession, StopKills, KillOne, KillSession, TypeOK
  <2>5. CASE StartBackend(p, m)
    <3>1. task[p][n] = "check" /\ n \in Prefixed[p]
      BY <2>4, <2>5, ConstantsAssumption DEF StartBackend, TypeOK
    <3>. QED
      BY <2>3, <3>1 DEF Keep
  <2>6. CASE NewSession(p, m)
    BY <2>4, <2>6 DEF NewSession
  <2>7. CASE StopKills(p, m)
    <3>1. /\ n \in Prefixed[p]
          /\ mode[p] \in {"stopping", "aborting"} \cup Ended
      BY <2>3, <2>4, <2>7, ConstantsAssumption DEF StopKills, Keep, TypeOK
    <3>. QED
      BY <3>1
  <2>8. CASE KillOne(p, m)
    <3>1. /\ n \in Prefixed[p]
          /\ sig[p] # {} \/ mode[p] = "cleanup"
      BY <2>3, <2>4, <2>8 DEF KillOne, Keep, TypeOK
    <3>. QED
      BY <3>1
  <2>. QED
    BY <2>2, <2>5, <2>6, <2>7, <2>8
<1>. QED
  BY <1>1, TypeCorrect, InitKeepInv, NextKeepInv, PTL DEF Spec, KeepsBackends

-----------------------------------------------------------------------------
(* A terminated router leaves sessions only after a bad start.             *)

NoFailure(r) == \A n \in Name : task[r][n] # "failed"
Up(r, n) == task[r][n] \in {"done", "ready"}

(* Without a failed start, backends are stopped only when all have been    *)
(* started; the registry then knows those that are there, so that what     *)
(* stop_backend() skips or has killed is gone for good.                    *)
Orphan(r, n) ==
  /\ mode[r] = "off" => task[r][n] = "none"
  /\ mode[r] \in {"off", "starting", "waiting", "serving"} =>
       stop[r][n] = "none"
  /\ NoFailure(r) /\ n \in Names[r]
     /\ mode[r] \in {"waiting", "serving", "stopping", "aborting", "terminated"}
       => Up(r, n)
  /\ NoFailure(r) /\ Up(r, n) /\ session[n] = r =>
       n \in started[r] /\ stop[r][n] \notin {"killed", "done"}

OrphanInv == \A r \in Router, n \in Name : Orphan(r, n)

LEMMA InitOrphanInv == Init => OrphanInv
  BY ConstantsAssumption DEF Init, OrphanInv, Orphan, Up

(* A failed start remains one.                                             *)
LEMMA FailureStays ==
  ASSUME TypeOK, [Next]_vars, NEW r \in Router, mode[r] # "off",
         NoFailure(r)'
  PROVE  NoFailure(r)
<1> SUFFICES ASSUME NEW n \in Name, task[r][n] = "failed"
             PROVE  task'[r][n] = "failed"
  BY DEF NoFailure
<1> USE DEF TypeOK, Task, registry, kill
<1>1. ASSUME NEW p \in Router, Launch(p) PROVE task'[r][n] = "failed"
  BY <1>1 DEF Launch
<1>2. ASSUME NEW p \in Router, StartsEnd(p) PROVE task'[r][n] = "failed"
  BY <1>2 DEF StartsEnd
<1>3. ASSUME NEW p \in Router, WaitEnds(p) PROVE task'[r][n] = "failed"
  BY <1>3 DEF WaitEnds
<1>4. ASSUME NEW p \in Router, Shutdown(p) PROVE task'[r][n] = "failed"
  BY <1>4 DEF Shutdown
<1>5. ASSUME NEW p \in Router, StopBackends(p) PROVE task'[r][n] = "failed"
  BY <1>5 DEF StopBackends, Owns
<1>6. ASSUME NEW p \in Router, ServeEnds(p) PROVE task'[r][n] = "failed"
  <2>1. CASE task' = task
    BY <2>1
  <2>2. CASE task' = [task EXCEPT ![p] =
               [k \in Name |-> IF @[k] \in {"paused", "created"}
                               THEN "cancelled" ELSE @[k]]]
    <3>1. CASE r = p
      BY <2>2, <3>1
    <3>2. CASE r # p
      BY <2>2, <3>2
    <3>. QED
      BY <3>1, <3>2
  <2>. QED
    BY <1>6, <2>1, <2>2 DEF ServeEnds
<1>7. ASSUME NEW p \in Router, Cleanup(p) PROVE task'[r][n] = "failed"
  BY <1>7 DEF Cleanup, BeginKillAll
<1>8. ASSUME NEW p \in Router, KillByPrefix(p) PROVE task'[r][n] = "failed"
  BY <1>8 DEF KillByPrefix, Listed
<1>9. ASSUME NEW p \in Router, EndKillAll(p) PROVE task'[r][n] = "failed"
  BY <1>9 DEF EndKillAll
<1>10. ASSUME NEW p \in Router, NEW m \in Name, StartBackend(p, m)
      PROVE  task'[r][n] = "failed"
  BY <1>10 DEF StartBackend, KillSession
<1>11. ASSUME NEW p \in Router, NEW m \in Name, PauseEnds(p, m)
      PROVE  task'[r][n] = "failed"
  BY <1>11 DEF PauseEnds
<1>12. ASSUME NEW p \in Router, NEW m \in Name, NewSession(p, m)
      PROVE  task'[r][n] = "failed"
  <2>1. task[p][m] = "creating"
        /\ \E v \in Tasks : task' = [task EXCEPT ![p][m] = v]
    BY <1>12 DEF NewSession, Tasks
  <2>. QED
    BY <2>1, UpdateTyped
<1>13. ASSUME NEW p \in Router, NEW m \in Name, SessionStarted(p, m)
      PROVE  task'[r][n] = "failed"
  BY <1>13 DEF SessionStarted
<1>14. ASSUME NEW p \in Router, NEW m \in Name, BackendReady(p, m)
      PROVE  task'[r][n] = "failed"
  BY <1>14 DEF BackendReady
<1>15. ASSUME NEW p \in Router, NEW m \in Name, StopKills(p, m)
      PROVE  task'[r][n] = "failed"
  BY <1>15 DEF StopKills, KillSession
<1>16. ASSUME NEW p \in Router, NEW m \in Name, Stopped(p, m)
      PROVE  task'[r][n] = "failed"
  BY <1>16 DEF Stopped, Discard
<1>17. ASSUME NEW p \in Router, NEW m \in Name, KillOne(p, m)
      PROVE  task'[r][n] = "failed"
  BY <1>17 DEF KillOne, KillSession, Discard
<1>18. ASSUME NEW p \in Router, NEW s \in {"INT", "TERM"}, Signal(p, s)
      PROVE  task'[r][n] = "failed"
  BY <1>18 DEF Signal, BeginKillAll
<1>19. ASSUME NEW p \in Router, Crash(p) PROVE task'[r][n] = "failed"
  BY <1>19 DEF Crash
<1>20. CASE UNCHANGED vars
  BY <1>20 DEF vars
<1>. QED
  BY <1>1, <1>2, <1>3, <1>4, <1>5, <1>6, <1>7, <1>8, <1>9, <1>10, <1>11,
     <1>12, <1>13, <1>14, <1>15, <1>16, <1>17, <1>18, <1>19, <1>20 DEF Next, Step

LEMMA NextOrphanInv == TypeOK /\ OrphanInv /\ [Next]_vars => OrphanInv'
<1> SUFFICES ASSUME TypeOK, OrphanInv, [Next]_vars,
                    NEW r \in Router, NEW n \in Name
             PROVE  Orphan(r, n)'
  BY DEF OrphanInv
<1>0. Orphan(r, n) /\ (mode[r] # "off" /\ NoFailure(r)' => NoFailure(r))
  BY FailureStays DEF OrphanInv
<1> USE <1>0, ConstantsAssumption
    DEF TypeOK, Orphan, Up, LoopRuns, Live, Handled, Enter, Task, registry, kill
<1>1. ASSUME NEW p \in Router, Launch(p) PROVE Orphan(r, n)'
  BY <1>1 DEF Launch
<1>2. ASSUME NEW p \in Router, StartsEnd(p) PROVE Orphan(r, n)'
  <2>1. UNCHANGED <<session, task, stop, started>> /\ mode[p] = "starting"
    BY <1>2 DEF StartsEnd
  <2>2. NoFailure(r)' = NoFailure(r)
    BY <2>1 DEF NoFailure
  <2>3. CASE r # p
    <3>1. mode'[r] = mode[r]
      BY <1>2, <2>3 DEF StartsEnd
    <3>. QED
      BY <2>1, <2>2, <3>1
  <2>4. CASE r = p
    <3>1. CASE \A k \in Names[p] : task[p][k] = "done"
      <4>1. mode'[r] \in {"waiting", "stopping"} /\ (mode'[r] = "stopping" => ~NoFailure(r))
        BY <1>2, <2>4 DEF StartsEnd, NoFailure
      <4>. QED
        BY <2>1, <2>2, <2>4, <3>1, <4>1
    <3>2. CASE \E k \in Names[p] : task[p][k] = "failed"
      <4>1. ~NoFailure(r) /\ mode'[r] \in {"waiting", "stopping"}
        BY <1>2, <2>4, <3>2 DEF StartsEnd, NoFailure
      <4>2. mode'[r] # "waiting" \/ \A k \in Names[p] : task[p][k] = "done"
        BY <1>2, <2>4 DEF StartsEnd
      <4>. QED
        BY <2>1, <2>2, <2>4, <4>1, <4>2
    <3>. QED
      BY <1>2, <3>1, <3>2 DEF StartsEnd
  <2>. QED
    BY <2>3, <2>4
<1>3. ASSUME NEW p \in Router, WaitEnds(p) PROVE Orphan(r, n)'
  BY <1>3 DEF WaitEnds
<1>4. ASSUME NEW p \in Router, Shutdown(p) PROVE Orphan(r, n)'
  BY <1>4 DEF Shutdown
<1>5. ASSUME NEW p \in Router, StopBackends(p) PROVE Orphan(r, n)'
  BY <1>5 DEF StopBackends, Owns
<1>6. ASSUME NEW p \in Router, ServeEnds(p) PROVE Orphan(r, n)'
  BY <1>6 DEF ServeEnds
<1>7. ASSUME NEW p \in Router, Cleanup(p) PROVE Orphan(r, n)'
  BY <1>7 DEF Cleanup, BeginKillAll
<1>8. ASSUME NEW p \in Router, KillByPrefix(p) PROVE Orphan(r, n)'
  BY <1>8 DEF KillByPrefix, Listed
<1>9. ASSUME NEW p \in Router, EndKillAll(p) PROVE Orphan(r, n)'
  BY <1>9 DEF EndKillAll
<1>10. ASSUME NEW p \in Router, NEW m \in Name, StartBackend(p, m)
      PROVE  Orphan(r, n)'
  <2>1. task[p][m] = "check"
        /\ \E v \in {"paused", "creating", "failed"} :
             task' = [task EXCEPT ![p][m] = v]
    BY <1>10 DEF StartBackend
  <2>2. IF p = r /\ m = n
        THEN task[r][n] = "check" /\ ~Up(r, n)'
        ELSE task'[r][n] = task[r][n]
    BY <2>1
  <2>3. session'[n] \in {session[n], NoOne}
    BY <1>10 DEF StartBackend, KillSession
  <2>4. UNCHANGED <<mode, stop, started>> /\ mode[p] # "off"
    BY <1>10 DEF StartBackend
  <2>. QED
    BY <2>2, <2>3, <2>4
<1>11. ASSUME NEW p \in Router, NEW m \in Name, PauseEnds(p, m)
      PROVE  Orphan(r, n)'
  BY <1>11 DEF PauseEnds
<1>12. ASSUME NEW p \in Router, NEW m \in Name, NewSession(p, m)
      PROVE  Orphan(r, n)'
  <2>1. task[p][m] = "creating"
        /\ \E v \in {"created", "failed"} : task' = [task EXCEPT ![p][m] = v]
    BY <1>12 DEF NewSession
  <2>2. IF p = r /\ m = n THEN task'[r][n] \in {"created", "failed"}
                          ELSE task'[r][n] = task[r][n]
    BY <2>1
  <2>3. session'[n] = session[n] \/ (m = n /\ session'[n] = p)
    BY <1>12 DEF NewSession
  <2>4. UNCHANGED <<mode, stop, started>>
    BY <1>12 DEF NewSession
  <2>5. mode[p] # "off"
    BY <2>1 DEF OrphanInv
  <2>. QED
    BY <2>1, <2>2, <2>3, <2>4, <2>5
<1>13. ASSUME NEW p \in Router, NEW m \in Name, SessionStarted(p, m)
      PROVE  Orphan(r, n)'
  BY <1>13 DEF SessionStarted
<1>14. ASSUME NEW p \in Router, NEW m \in Name, BackendReady(p, m)
      PROVE  Orphan(r, n)'
  BY <1>14 DEF BackendReady
<1>15. ASSUME NEW p \in Router, NEW m \in Name, StopKills(p, m)
      PROVE  Orphan(r, n)'
  BY <1>15 DEF StopKills, KillSession
<1>16. ASSUME NEW p \in Router, NEW m \in Name, Stopped(p, m)
      PROVE  Orphan(r, n)'
  BY <1>16 DEF Stopped, Discard
<1>17. ASSUME NEW p \in Router, NEW m \in Name, KillOne(p, m)
      PROVE  Orphan(r, n)'
  BY <1>17 DEF KillOne, KillSession, Discard
<1>18. ASSUME NEW p \in Router, NEW s \in {"INT", "TERM"}, Signal(p, s)
      PROVE  Orphan(r, n)'
  BY <1>18 DEF Signal, BeginKillAll
<1>19. ASSUME NEW p \in Router, Crash(p) PROVE Orphan(r, n)'
  BY <1>19 DEF Crash
<1>20. CASE UNCHANGED vars
  BY <1>20 DEF vars
<1>. QED
  BY <1>1, <1>2, <1>3, <1>4, <1>5, <1>6, <1>7, <1>8, <1>9, <1>10, <1>11,
     <1>12, <1>13, <1>14, <1>15, <1>16, <1>17, <1>18, <1>19, <1>20 DEF Next, Step
(* SIGTERM has ended a router either right after all its backends were     *)
(* ready, or after stop_backend() had returned for all.                    *)
Terminated(r, n, k) ==
  mode[r] = "terminated" =>
    \/ task[r][n] = "ready" /\ stop[r][n] = "none"
    \/ stop[r][k] = "done"

TerminatedInv ==
  \A r \in Router : \A n \in Names[r], k \in Name : Terminated(r, n, k)

LEMMA InitTerminatedInv == Init => TerminatedInv
  BY DEF Init, TerminatedInv, Terminated

LEMMA NextTerminatedInv ==
  TypeOK /\ KeepInv /\ OrphanInv /\ TerminatedInv /\ [Next]_vars
    => TerminatedInv'
<1> SUFFICES ASSUME TypeOK, KeepInv, OrphanInv, TerminatedInv, [Next]_vars,
                    NEW r \in Router, NEW n \in Names[r], NEW k \in Name
             PROVE  Terminated(r, n, k)'
  BY DEF TerminatedInv
<1>0. /\ n \in Name
      /\ Terminated(r, n, k)
      /\ stop[r][n] = "asked" => mode[r] \in {"stopping", "aborting"} \cup Ended
      /\ mode[r] = "waiting" => stop[r][n] = "none"
  BY ConstantsAssumption DEF TerminatedInv, KeepInv, Keep, OrphanInv, Orphan
<1> USE <1>0, ConstantsAssumption
    DEF TypeOK, Terminated, LoopRuns, Live, Handled, Enter, Task, registry, kill
<1>1. ASSUME NEW p \in Router, Launch(p) PROVE Terminated(r, n, k)'
  BY <1>1 DEF Launch
<1>2. ASSUME NEW p \in Router, StartsEnd(p) PROVE Terminated(r, n, k)'
  BY <1>2 DEF StartsEnd
<1>3. ASSUME NEW p \in Router, WaitEnds(p) PROVE Terminated(r, n, k)'
  BY <1>3 DEF WaitEnds
<1>4. ASSUME NEW p \in Router, Shutdown(p) PROVE Terminated(r, n, k)'
  BY <1>4 DEF Shutdown
<1>5. ASSUME NEW p \in Router, StopBackends(p) PROVE Terminated(r, n, k)'
  BY <1>5 DEF StopBackends
<1>6. ASSUME NEW p \in Router, ServeEnds(p) PROVE Terminated(r, n, k)'
  BY <1>6 DEF ServeEnds
<1>7. ASSUME NEW p \in Router, Cleanup(p) PROVE Terminated(r, n, k)'
  BY <1>7 DEF Cleanup, BeginKillAll
<1>8. ASSUME NEW p \in Router, KillByPrefix(p) PROVE Terminated(r, n, k)'
  BY <1>8 DEF KillByPrefix, Listed
<1>9. ASSUME NEW p \in Router, EndKillAll(p) PROVE Terminated(r, n, k)'
  BY <1>9 DEF EndKillAll
<1>10. ASSUME NEW p \in Router, NEW m \in Name, StartBackend(p, m)
      PROVE  Terminated(r, n, k)'
  BY <1>10 DEF StartBackend, KillSession
<1>11. ASSUME NEW p \in Router, NEW m \in Name, PauseEnds(p, m)
      PROVE  Terminated(r, n, k)'
  BY <1>11 DEF PauseEnds
<1>12. ASSUME NEW p \in Router, NEW m \in Name, NewSession(p, m)
      PROVE  Terminated(r, n, k)'
  <2>1. task[p][m] = "creating"
        /\ \E v \in Tasks : task' = [task EXCEPT ![p][m] = v]
    BY <1>12 DEF NewSession, Tasks
  <2>2. (p = r /\ m = n) \/ task'[r][n] = task[r][n]
    BY <2>1
  <2>3. UNCHANGED <<mode, stop>>
    BY <1>12 DEF NewSession
  <2>. QED
    BY <2>1, <2>2, <2>3
<1>13. ASSUME NEW p \in Router, NEW m \in Name, SessionStarted(p, m)
      PROVE  Terminated(r, n, k)'
  BY <1>13 DEF SessionStarted
<1>14. ASSUME NEW p \in Router, NEW m \in Name, BackendReady(p, m)
      PROVE  Terminated(r, n, k)'
  BY <1>14 DEF BackendReady
<1>15. ASSUME NEW p \in Router, NEW m \in Name, StopKills(p, m)
      PROVE  Terminated(r, n, k)'
  BY <1>15 DEF StopKills, KillSession
<1>16. ASSUME NEW p \in Router, NEW m \in Name, Stopped(p, m)
      PROVE  Terminated(r, n, k)'
  BY <1>16 DEF Stopped, Discard
<1>17. ASSUME NEW p \in Router, NEW m \in Name, KillOne(p, m)
      PROVE  Terminated(r, n, k)'
  BY <1>17 DEF KillOne, KillSession, Discard
<1>18. ASSUME NEW p \in Router, NEW s \in {"INT", "TERM"}, Signal(p, s)
      PROVE  Terminated(r, n, k)'
  BY <1>18 DEF Signal, BeginKillAll
<1>19. ASSUME NEW p \in Router, Crash(p) PROVE Terminated(r, n, k)'
  BY <1>19 DEF Crash
<1>20. CASE UNCHANGED vars
  BY <1>20 DEF vars
<1>. QED
  BY <1>1, <1>2, <1>3, <1>4, <1>5, <1>6, <1>7, <1>8, <1>9, <1>10, <1>11,
     <1>12, <1>13, <1>14, <1>15, <1>16, <1>17, <1>18, <1>19, <1>20 DEF Next, Step

(* After SIGTERM sessions stay only when a start had failed or the signal  *)
(* came before the backends were up.                                       *)
THEOREM OrphansOnlyAfterBadStart == Spec => []OrphansNeedBadStart
<1>1. TypeOK /\ ExitInv /\ OrphanInv /\ TerminatedInv => OrphansNeedBadStart
  <2> SUFFICES ASSUME TypeOK, ExitInv, OrphanInv, TerminatedInv,
                      NEW r \in Router, mode[r] = "terminated", NoFailure(r),
                      NEW n \in Name, session[n] = r,
                      NEW m \in Names[r]
               PROVE  task[r][m] = "ready" /\ stop[r][m] = "none"
    BY DEF OrphansNeedBadStart, NoFailure
  <2>1. Up(r, n) /\ stop[r][n] # "done"
    BY DEF ExitInv, OrphanInv, Orphan
  <2>. QED
    BY <2>1 DEF TerminatedInv, Terminated
<1>. QED
  BY <1>1, TypeCorrect, InitExitInv, NextExitInv, InitKeepInv, NextKeepInv,
     InitOrphanInv, NextOrphanInv, InitTerminatedInv, NextTerminatedInv,
     PTL DEF Spec

=============================================================================
