--------------------------- MODULE BackendSessions ---------------------------
(***************************************************************************)
(* Routers (serving/router_app.py) and the tmux sessions of their backends *)
(* (serving/tmux.py): a router starts a session per GPU, waits until all   *)
(* backends answer, serves, and cleans up, from the lifespan, from its     *)
(* signal handler, which interrupts the event loop anywhere, and from the  *)
(* end of run_router_server.                                               *)
(*                                                                         *)
(* tmux commands of the start and stop coroutines run in threads; those of *)
(* the signal handler and of the final clean-up run in the main thread,    *)
(* one session at a time, so that the threads, and other routers on the    *)
(* machine, go on in between.  A router process is launched once; a later  *)
(* launch with the same arguments is another Router of the same names.     *)
(***************************************************************************)
EXTENDS Naturals, FiniteSets

CONSTANTS
  Router,
  Name,         \* names of tmux sessions
  Names,        \* Names[r]: the sessions of r's backends
  Prefixed,     \* Prefixed[r]: the names that start with r's tmux_prefix
  KillExisting, \* kill_existing
  NoOne,
  Earlier,      \* a router that has crashed before
  Left,         \* the sessions it has left
  MaxSignals    \* signals a router gets, no two of a kind

ASSUME ConstantsAssumption ==
  /\ {NoOne, Earlier} \cap Router = {}
  /\ Names \in [Router -> (SUBSET Name) \ {{}}]
  /\ Prefixed \in [Router -> SUBSET Name]
  /\ \A r \in Router : Names[r] \subseteq Prefixed[r]
  /\ KillExisting \in BOOLEAN
  /\ Left \subseteq Name
  /\ MaxSignals \in Nat

VARIABLES
  session,   \* the router that created the session of a name, or NoOne
  mode,      \* where run_router_server is
  task,      \* start_backend_in_tmux and wait_backend_ready of a name
  stop,      \* stop_backend, by router and name
  started, pending,   \* TmuxRegistry
  sig,       \* signals captured
  killing,   \* kill_all under way: registered names, then the prefix
  todo       \* what it still has to kill

registry == <<started, pending>>
kill == <<killing, todo>>
vars == <<session, mode, task, stop, registry, sig, kill>>

Modes == {"off", "starting", "waiting", "serving", "stopping", "aborting",
          "joining", "cleanup", "exited", "terminated", "crashed"}
Handled == {"starting", "waiting", "serving", "stopping"}   \* handle_exit is set
Live == Handled \cup {"aborting"}                           \* the loop runs
Ended == {"exited", "terminated", "crashed"}
Tasks == {"none", "check", "paused", "creating", "created", "done", "ready",
          "failed", "cancelled"}

TypeOK ==
  /\ session \in [Name -> Router \cup {NoOne, Earlier}]
  /\ mode \in [Router -> Modes]
  /\ task \in [Router -> [Name -> Tasks]]
  /\ stop \in [Router -> [Name -> {"none", "asked", "killed", "done"}]]
  /\ started \in [Router -> SUBSET Name]
  /\ pending \in [Router -> SUBSET Name]
  /\ sig \in [Router -> SUBSET {"INT", "TERM"}]
  /\ killing \in [Router -> {"no", "names", "prefix"}]
  /\ todo \in [Router -> SUBSET Name]
  /\ \A r \in Router : /\ started[r] \cup pending[r] \subseteq Names[r]
                       /\ todo[r] \subseteq Prefixed[r]
                       /\ \A n \in Name \ Names[r] : task[r][n] = "none"

Init ==
  /\ session = [n \in Name |-> IF n \in Left THEN Earlier ELSE NoOne]
  /\ mode = [r \in Router |-> "off"]
  /\ task = [r \in Router |-> [n \in Name |-> "none"]]
  /\ stop = [r \in Router |-> [n \in Name |-> "none"]]
  /\ started = [r \in Router |-> {}]
  /\ pending = [r \in Router |-> {}]
  /\ sig = [r \in Router |-> {}]
  /\ killing = [r \in Router |-> "no"]
  /\ todo = [r \in Router |-> {}]

-----------------------------------------------------------------------------

Enter(r, m) == mode' = [mode EXCEPT ![r] = m]
Task(r, n, s) == task' = [task EXCEPT ![r][n] = s]

(* Mutant of KillSession: "tmux kill-server".                              *)
KillServer(n) == session' = [m \in Name |-> NoOne]

(* kill_tmux_session(): whoever made the session.                          *)
KillSession(n) == session' = [session EXCEPT ![n] = NoOne]

Discard(r, n) ==
  /\ started' = [started EXCEPT ![r] = @ \ {n}]
  /\ pending' = [pending EXCEPT ![r] = @ \ {n}]

Owns(r, n) == n \in started[r] \cup pending[r]

(* The event loop of r can take a step.                                    *)
LoopRuns(r) == mode[r] \in Live /\ killing[r] = "no"

(* gather() has given every start its first step, which none precedes.     *)
AllChecked(r) == \A n \in Name : task[r][n] # "check"

(* build_backends() registers the sessions; when it raises half-way there  *)
(* is nothing to start or to stop.                                         *)
Launch(r) ==
  /\ mode[r] = "off"
  /\ \/ /\ pending' = [pending EXCEPT ![r] = Names[r]]
        /\ task' = [task EXCEPT ![r] =
                      [n \in Name |-> IF n \in Names[r] THEN "check" ELSE "none"]]
        /\ Enter(r, "starting")
     \/ /\ \E some \in SUBSET Names[r] :
             pending' = [pending EXCEPT ![r] = some]
        /\ Enter(r, "joining")
        /\ UNCHANGED task
  /\ UNCHANGED <<session, stop, started, sig, kill>>

(* start_backend_in_tmux() up to its first await, which may raise (no      *)
(* tmux, no command for the backend).                                      *)
StartBackend(r, n) ==
  /\ LoopRuns(r)
  /\ task[r][n] = "check"
  /\ \/ /\ KillExisting
        /\ session[n] # NoOne
        /\ KillSession(n)
        /\ Task(r, n, "paused")
     \/ /\ ~KillExisting \/ session[n] = NoOne
        /\ Task(r, n, "creating")
        /\ UNCHANGED session
     \/ Task(r, n, "failed") /\ UNCHANGED session
  /\ UNCHANGED <<mode, stop, registry, sig, kill>>

(* The pause after killing an existing session is over.                    *)
PauseEnds(r, n) ==
  /\ LoopRuns(r)
  /\ AllChecked(r)
  /\ task[r][n] = "paused"
  /\ Task(r, n, "creating")
  /\ UNCHANGED <<session, mode, stop, registry, sig, kill>>

(* "tmux new-session" in its thread, which outlives the process: a name in *)
(* use is an error, and there are others.                                  *)
NewSession(r, n) ==
  /\ task[r][n] = "creating"
  /\ \/ /\ session[n] = NoOne
        /\ session' = [session EXCEPT ![n] = r]
        /\ Task(r, n, "created")
     \/ /\ Task(r, n, "failed")
        /\ UNCHANGED session
  /\ UNCHANGED <<mode, stop, registry, sig, kill>>

(* Mutant of SessionStarted: the session is not registered.                *)
SessionUnmarked(r, n) ==
  /\ LoopRuns(r)
  /\ AllChecked(r)
  /\ task[r][n] = "created"
  /\ Task(r, n, "done")
  /\ UNCHANGED <<session, mode, stop, registry, sig, kill>>

(* The coroutine resumes: registry.mark_started().                         *)
SessionStarted(r, n) ==
  /\ LoopRuns(r)
  /\ AllChecked(r)
  /\ task[r][n] = "created"
  /\ Task(r, n, "done")
  /\ started' = [started EXCEPT ![r] = @ \cup {n}]
  /\ UNCHANGED <<session, mode, stop, pending, sig, kill>>

(* gather() of the starts: all have ended, or one has failed and the       *)
(* others are left running.                                                *)
StartsEnd(r) ==
  /\ LoopRuns(r)
  /\ mode[r] = "starting"
  /\ AllChecked(r)
  /\ \/ (\A n \in Names[r] : task[r][n] = "done") /\ Enter(r, "waiting")
     \/ (\E n \in Names[r] : task[r][n] = "failed") /\ Enter(r, "stopping")
  /\ UNCHANGED <<session, task, stop, registry, sig, kill>>

(* wait_backend_ready(): the backend answers.                              *)
BackendReady(r, n) ==
  /\ LoopRuns(r)
  /\ mode[r] = "waiting"
  /\ task[r][n] = "done"
  /\ session[n] = r
  /\ Task(r, n, "ready")
  /\ UNCHANGED <<session, mode, stop, registry, sig, kill>>

(* gather() of the waits: one has not answered in time, or all have.       *)
(* Then uvicorn serves, but after a signal it returns without the shutdown *)
(* of the lifespan: SIGTERM, raised again, ends the process, and without   *)
(* one asyncio.run() cancels the lifespan, which runs its clean-up.        *)
WaitEnds(r) ==
  /\ LoopRuns(r)
  /\ mode[r] = "waiting"
  /\ \/ (\E n \in Names[r] : task[r][n] = "done") /\ Enter(r, "stopping")
     \/ /\ \A n \in Names[r] : task[r][n] = "ready"
        /\ \/ sig[r] = {} /\ Enter(r, "serving")
           \/ "TERM" \in sig[r] /\ Enter(r, "terminated")
           \/ sig[r] = {"INT"} /\ Enter(r, "aborting")
  /\ UNCHANGED <<session, task, stop, registry, sig, kill>>

(* uvicorn sees should_exit.                                               *)
Shutdown(r) ==
  /\ LoopRuns(r)
  /\ mode[r] = "serving"
  /\ sig[r] # {}
  /\ Enter(r, "stopping")
  /\ UNCHANGED <<session, task, stop, registry, sig, kill>>

(* Mutant of StopBackends: a session that is not owned is waited for.      *)
StopBackendsOwned(r) ==
  /\ LoopRuns(r)
  /\ mode[r] \in {"stopping", "aborting"}
  /\ \A n \in Name : stop[r][n] = "none"
  /\ stop' = [stop EXCEPT ![r] =
                [n \in Name |-> IF n \notin Names[r] THEN "done"
                                ELSE IF Owns(r, n) THEN "asked" ELSE "none"]]
  /\ UNCHANGED <<session, mode, task, registry, sig, kill>>

(* stop_backend() for all backends, up to its await.                       *)
StopBackends(r) ==
  /\ LoopRuns(r)
  /\ mode[r] \in {"stopping", "aborting"}
  /\ \A n \in Name : stop[r][n] = "none"
  /\ stop' = [stop EXCEPT ![r] =
                [n \in Name |-> IF n \in Names[r] /\ Owns(r, n) THEN "asked"
                                                                ELSE "done"]]
  /\ UNCHANGED <<session, mode, task, registry, sig, kill>>

(* Its thread kills the session.                                           *)
StopKills(r, n) ==
  /\ stop[r][n] = "asked"
  /\ KillSession(n)
  /\ stop' = [stop EXCEPT ![r][n] = "killed"]
  /\ UNCHANGED <<mode, task, registry, sig, kill>>

(* It resumes: registry.discard().                                         *)
Stopped(r, n) ==
  /\ LoopRuns(r)
  /\ stop[r][n] = "killed"
  /\ Discard(r, n)
  /\ stop' = [stop EXCEPT ![r][n] = "done"]
  /\ UNCHANGED <<session, mode, task, sig, kill>>

(* The lifespan is over and serve() ends.  uvicorn raises the captured     *)
(* signals again, and SIGTERM ends the process there; otherwise            *)
(* asyncio.run() cancels what is left on the loop.                         *)
ServeEnds(r) ==
  /\ LoopRuns(r)
  /\ mode[r] \in {"stopping", "aborting"}
  /\ \A n \in Name : stop[r][n] = "done"
  /\ \/ "TERM" \in sig[r] /\ Enter(r, "terminated") /\ UNCHANGED task
     \/ /\ "TERM" \notin sig[r]
        /\ Enter(r, "joining")
        /\ task' = [task EXCEPT ![r] =
                      [n \in Name |-> IF @[n] \in {"paused", "created"}
                                      THEN "cancelled" ELSE @[n]]]
  /\ UNCHANGED <<session, stop, registry, sig, kill>>

(* kill_all() begins.                                                      *)
BeginKillAll(r) ==
  /\ killing' = [killing EXCEPT ![r] = "names"]
  /\ todo' = [todo EXCEPT ![r] = started[r] \cup pending[r]]

(* asyncio.run() has waited for the threads; _cleanup_tmux_on_exit(). The  *)
(* further calls of it (atexit) find nothing to do.                        *)
Cleanup(r) ==
  /\ mode[r] = "joining"
  /\ \A n \in Name : task[r][n] # "creating"
  /\ Enter(r, "cleanup")
  /\ BeginKillAll(r)
  /\ UNCHANGED <<session, task, stop, registry, sig>>

(* handle_exit(): a signal interrupts the main thread.                     *)
Signal(r, s) ==
  /\ mode[r] \in Handled /\ killing[r] = "no"
  /\ s \notin sig[r]
  /\ Cardinality(sig[r]) < MaxSignals
  /\ sig' = [sig EXCEPT ![r] = @ \cup {s}]
  /\ BeginKillAll(r)
  /\ UNCHANGED <<session, mode, task, stop, registry>>

(* kill_all() kills the next session, if it exists.                        *)
KillOne(r, n) ==
  /\ n \in todo[r]
  /\ KillSession(n)
  /\ Discard(r, n)
  /\ todo' = [todo EXCEPT ![r] = @ \ {n}]
  /\ UNCHANGED <<mode, task, stop, sig, killing>>

(* Mutant of Listed: none.                                                 *)
ListedNone(r) == {}

(* The sessions kill_tmux_sessions_by_prefix() lists.                      *)
Listed(r) == {n \in Prefixed[r] : session[n] # NoOne}

(* The registered names are done: list the sessions of the prefix.         *)
KillByPrefix(r) ==
  /\ killing[r] = "names"
  /\ todo[r] = {}
  /\ killing' = [killing EXCEPT ![r] = "prefix"]
  /\ todo' = [todo EXCEPT ![r] = Listed(r)]
  /\ UNCHANGED <<session, mode, task, stop, registry, sig>>

(* kill_all() returns.                                                     *)
EndKillAll(r) ==
  /\ killing[r] = "prefix"
  /\ todo[r] = {}
  /\ killing' = [killing EXCEPT ![r] = "no"]
  /\ IF mode[r] = "cleanup" THEN Enter(r, "exited") ELSE UNCHANGED mode
  /\ UNCHANGED <<session, task, stop, registry, sig, todo>>

(* SIGKILL, a crash of the machine's user session, ...                     *)
Crash(r) ==
  /\ mode[r] \in Live \cup {"joining", "cleanup"}
  /\ Enter(r, "crashed")
  /\ killing' = [killing EXCEPT ![r] = "no"]
  /\ todo' = [todo EXCEPT ![r] = {}]
  /\ UNCHANGED <<session, task, stop, registry, sig>>

Step(r) ==
  \/ StartsEnd(r)
  \/ WaitEnds(r)
  \/ Shutdown(r)
  \/ StopBackends(r)
  \/ ServeEnds(r)
  \/ Cleanup(r)
  \/ KillByPrefix(r)
  \/ EndKillAll(r)
  \/ \E n \in Name : \/ StartBackend(r, n)
                     \/ PauseEnds(r, n)
                     \/ NewSession(r, n)
                     \/ SessionStarted(r, n)
                     \/ BackendReady(r, n)
                     \/ StopKills(r, n)
                     \/ Stopped(r, n)
                     \/ KillOne(r, n)

Next ==
  \E r \in Router : \/ Launch(r)
                    \/ Step(r)
                    \/ \E s \in {"INT", "TERM"} : Signal(r, s)
                    \/ Crash(r)

Spec == Init /\ [][Next]_vars

(* Threads and the event loop run, tmux commands end, backends that do not *)
(* answer time out.                                                        *)
FairSpec == Spec /\ \A r \in Router : WF_vars(Step(r))

-----------------------------------------------------------------------------
(* Properties.                                                             *)

(* A router that leaves by itself, because of SIGINT, a failed start or    *)
(* both, leaves no session of its own behind, wherever its starts were.    *)
CleanExit ==
  \A r \in Router, n \in Name : mode[r] = "exited" => session[n] # r

(* "Kill tmux backends on SIGINT/SIGTERM": SIGTERM ends the process before *)
(* the last clean-up; even so no session stays, unless a start had failed  *)
(* while others were under way, or the signal came so early in the start   *)
(* that the backends came up after it and uvicorn skipped the shutdown.    *)
OrphansNeedBadStart ==
  \A r \in Router :
    mode[r] = "terminated" /\ (\E n \in Name : session[n] = r) =>
      \/ \E n \in Name : task[r][n] = "failed"
      \/ \A n \in Names[r] : task[r][n] = "ready" /\ stop[r][n] = "none"

(* Routers of unrelated prefixes leave each other's backends alone: a      *)
(* session whose name nobody else can reach stays while its router runs,   *)
(* and after that unless the router removes it itself.                     *)
KeepsBackends ==
  [][\A n \in Name :
       /\ session[n] # NoOne /\ session'[n] # session[n]
       /\ \A q \in Router \ {session[n]} : n \notin Prefixed[q]
       => /\ session[n] \in Router
          /\ \/ sig[session[n]] # {}
             \/ mode[session[n]] \in {"stopping", "aborting", "cleanup"} \cup Ended]_vars

(* A signalled router ends, also when it is still starting its backends.   *)
SignalEnds == \A r \in Router : sig[r] # {} ~> mode[r] \in Ended

=============================================================================
