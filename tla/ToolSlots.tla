------------------------------ MODULE ToolSlots ------------------------------
(***************************************************************************)
(* The request path of mcp_servers/wikipedia_offline_server.py: every      *)
(* /search, /open_url and /random request passes _run_limited, which takes *)
(* a permit of the endpoint's asyncio.Semaphore, starts a task that runs   *)
(* the work on the shared text process pool and the vector thread pool,    *)
(* waits for it behind a shield with a deadline, and gives the permit back *)
(* either at once or from a done-callback.                                 *)
(*                                                                         *)
(* A request is one HTTP request.  The job <<r, "text">> is the first text *)
(* pool job of r, <<r, "vector">> its vector pool job, <<r, "hydrate">>    *)
(* the second text pool job an rrf search submits after fusing the first   *)
(* two.  What a job computes is abstracted to how it ends.                 *)
(***************************************************************************)
EXTENDS Integers, FiniteSets

CONSTANTS
  Request,      \* the HTTP requests of a run, a finite set
  Kind,         \* Kind[r]: what r asks for
  Permits,      \* Permits[s]: max_search/open/random_concurrency
  TextWorkers,  \* size of the text process pool
  Deadline,     \* TRUE iff the endpoint timeouts are positive
  Endings       \* the outcomes pool jobs have in this instance

Sems  == {"search", "open", "random"}
Kinds == {"rrf", "keywords", "vector", "open", "random"}

(* How a job or a task can end: normally, with a ValueError, with a        *)
(* TimeoutError, with another exception whose name or text says timeout    *)
(* (openai.APITimeoutError), or with any other exception.                  *)
Failures == {"invalid", "TimeoutError", "timeoutish", "failed"}
Outcomes == Failures \cup {"ok"}

ASSUME ConstantsAssumption ==
  /\ IsFiniteSet(Request)
  /\ Kind \in [Request -> Kinds]
  /\ Permits \in [Sems -> Nat \ {0}]
  /\ TextWorkers \in Nat \ {0}
  /\ Deadline \in BOOLEAN
  /\ Endings \subseteq Outcomes

VARIABLES
  value,     \* value[s]: permits left in the semaphore
  pc,        \* where the handler of a request is
  ahead,     \* ahead[r]: the waiters in front of r when it joined the queue
  held,      \* the closure variable `held` of _run_limited
  callback,  \* release_once is registered as done-callback of the task
  task,      \* stage, then outcome, of the task _run_limited created
  job,       \* state of each pool job
  broken,    \* a text worker died: the process pool is broken for good
  reply      \* what the handler answered

vars == <<value, pc, ahead, held, callback, task, job, broken, reply>>

JobNames == {"text", "vector", "hydrate"}
Job      == Request \X JobNames
Pcs      == {"new", "waiting", "granted", "running", "replied"}
Replies  == {"none", "ok", "invalid_argument", "overloaded", "timeout",
             "backend_error"}

SemOf(r) == IF Kind[r] \in {"open", "random"} THEN Kind[r] ELSE "search"

Unfinished(j) == job[j] \in {"queued", "running"}
TaskDone(r)   == task[r] \in Outcomes

(* Requests that own a permit of s: handed over but not resumed, or held.  *)
Owners(s) == {r \in Request : SemOf(r) = s /\ (pc[r] = "granted" \/ held[r])}

TypeOK ==
  /\ value \in [Sems -> Nat]
  /\ pc \in [Request -> Pcs]
  /\ ahead \in [Request -> SUBSET Request]
  /\ held \in [Request -> BOOLEAN]
  /\ callback \in [Request -> BOOLEAN]
  /\ task \in [Request -> {"none", "started", "hydrating"} \cup Outcomes]
  /\ job \in [Job -> {"none", "queued", "running"} \cup Outcomes]
  /\ broken \in BOOLEAN
  /\ reply \in [Request -> Replies]

Init ==
  /\ value = Permits
  /\ pc = [r \in Request |-> "new"]
  /\ ahead = [r \in Request |-> {}]
  /\ held = [r \in Request |-> FALSE]
  /\ callback = [r \in Request |-> FALSE]
  /\ task = [r \in Request |-> "none"]
  /\ job = [j \in Job |-> "none"]
  /\ broken = FALSE
  /\ reply = [r \in Request |-> "none"]

-----------------------------------------------------------------------------
(* asyncio.Semaphore (Python 3.12).                                        *)

Waiting(s, p) == {r \in Request : SemOf(r) = s /\ p[r] = "waiting"}

(* locked(): no permit, or some waiter, granted or not, still in the deque *)
Locked(s) ==
  \/ value[s] = 0
  \/ \E r \in Request : SemOf(r) = s /\ pc[r] \in {"waiting", "granted"}

(* Mutant of WakeUpNext: any waiter may be woken, not the oldest.          *)
WakeAnyone(s, p, v) ==
  \/ /\ v = 0 \/ Waiting(s, p) = {}
     /\ pc' = p
     /\ value' = [value EXCEPT ![s] = v]
  \/ /\ v > 0
     /\ \E w \in Waiting(s, p) : pc' = [p EXCEPT ![w] = "granted"]
     /\ value' = [value EXCEPT ![s] = v - 1]

(* _wake_up_next with v permits available, after the caller's own step has *)
(* made the handler positions p: the oldest waiter gets a permit.          *)
WakeUpNext(s, p, v) ==
  \/ /\ v = 0 \/ Waiting(s, p) = {}
     /\ pc' = p
     /\ value' = [value EXCEPT ![s] = v]
  \/ /\ v > 0
     /\ \E w \in Waiting(s, p) :
          /\ ahead[w] \cap Waiting(s, p) = {}
          /\ pc' = [p EXCEPT ![w] = "granted"]
          /\ value' = [value EXCEPT ![s] = v - 1]

-----------------------------------------------------------------------------
(* The pools.                                                              *)

UsesText(r)   == Kind[r] # "vector"
UsesVector(r) == Kind[r] \in {"rrf", "vector"}
InTextPool(j) == j[2] \in {"text", "hydrate"}

(* Submitting to a broken process pool raises at once.                     *)
Submitted(j) == IF broken /\ InTextPool(j) THEN "failed" ELSE "queued"

(* The jobs the coroutine of r submits on its first step: run_search,      *)
(* _search_rrf_async (both candidate jobs), or the one job of the lambda.  *)
FirstJobs(r) ==
  {j \in Job : /\ j[1] = r
               /\ \/ j[2] = "text" /\ UsesText(r)
                  \/ j[2] = "vector" /\ UsesVector(r)}

RunningIn(text) ==
  {j \in Job : job[j] = "running" /\ InTextPool(j) = text}

(* A free worker takes a queued job.  The vector pool has as many threads  *)
(* as the search semaphore has permits.                                    *)
StartJob(j) ==
  /\ job[j] = "queued"
  /\ Cardinality(RunningIn(InTextPool(j)))
       < IF InTextPool(j) THEN TextWorkers ELSE Permits["search"]
  /\ job' = [job EXCEPT ![j] = "running"]
  /\ UNCHANGED <<value, pc, ahead, held, callback, task, broken, reply>>

FinishJob(j) ==
  /\ job[j] = "running"
  /\ \E o \in Endings : job' = [job EXCEPT ![j] = o]
  /\ UNCHANGED <<value, pc, ahead, held, callback, task, broken, reply>>

(* A text worker is killed: BrokenProcessPool fails everything pending.    *)
BreakTextPool ==
  /\ ~broken
  /\ broken' = TRUE
  /\ job' = [j \in Job |-> IF InTextPool(j) /\ Unfinished(j)
                             THEN "failed" ELSE job[j]]
  /\ UNCHANGED <<value, pc, ahead, held, callback, task, reply>>

-----------------------------------------------------------------------------
(* _run_limited and the coroutine it runs.                                 *)

(* held = True; task = create_task(make_coro()): the task submits its jobs *)
StartWork(r) ==
  /\ held' = [held EXCEPT ![r] = TRUE]
  /\ task' = [task EXCEPT ![r] = "started"]
  /\ job' = [j \in Job |-> IF j \in FirstJobs(r) THEN Submitted(j) ELSE job[j]]

(* A request arrives: sem.acquire() takes a free permit or joins the queue *)
Arrive(r) ==
  /\ pc[r] = "new"
  /\ \/ /\ ~Locked(SemOf(r))
        /\ value' = [value EXCEPT ![SemOf(r)] = @ - 1]
        /\ pc' = [pc EXCEPT ![r] = "running"]
        /\ StartWork(r)
        /\ UNCHANGED ahead
     \/ /\ Locked(SemOf(r))
        /\ pc' = [pc EXCEPT ![r] = "waiting"]
        /\ ahead' = [ahead EXCEPT ![r] = Waiting(SemOf(r), pc)]
        /\ UNCHANGED <<value, held, task, job>>
  /\ UNCHANGED <<callback, broken, reply>>

(* The waiter that was handed a permit resumes, wakes the next waiter if   *)
(* permits are left, and starts its work.                                  *)
Resume(r) ==
  /\ pc[r] = "granted"
  /\ WakeUpNext(SemOf(r), [pc EXCEPT ![r] = "running"], value[SemOf(r)])
  /\ StartWork(r)
  /\ UNCHANGED <<ahead, callback, broken, reply>>

(* wait_for(sem.acquire()) times out: 503 overloaded.  A permit handed     *)
(* over in the same loop iteration goes back to the semaphore.             *)
AcquireTimeout(r) ==
  /\ \/ /\ pc[r] = "waiting"
        /\ pc' = [pc EXCEPT ![r] = "replied"]
        /\ UNCHANGED value
     \/ /\ pc[r] = "granted"
        /\ WakeUpNext(SemOf(r), [pc EXCEPT ![r] = "replied"],
                      value[SemOf(r)] + 1)
  /\ reply' = [reply EXCEPT ![r] = "overloaded"]
  /\ UNCHANGED <<ahead, held, callback, task, job, broken>>

(* Mutant of Advance: the answer is built whatever became of the hydration *)
AdvanceUnhydrated(r) ==
  /\ \/ /\ task[r] = "started"
        /\ \E j \in FirstJobs(r) :
             /\ job[j] \in Failures
             /\ task' = [task EXCEPT ![r] = job[j]]
        /\ UNCHANGED job
     \/ /\ task[r] = "started"
        /\ \A j \in FirstJobs(r) : job[j] = "ok"
        /\ task' = [task EXCEPT ![r] = IF Kind[r] = "rrf" THEN "hydrating"
                                                         ELSE "ok"]
        /\ job' = IF Kind[r] = "rrf"
                    THEN [job EXCEPT ![<<r, "hydrate">>] =
                                        Submitted(<<r, "hydrate">>)]
                    ELSE job
     \/ /\ task[r] = "hydrating"
        /\ job[<<r, "hydrate">>] \in Outcomes
        /\ task' = [task EXCEPT ![r] = "ok"]
        /\ UNCHANGED job
  /\ UNCHANGED <<value, pc, ahead, held, callback, broken, reply>>

(* The coroutine takes its next step.  gather() of the two candidate jobs  *)
(* raises as soon as one failed and does not wait for the other; when both *)
(* are ok the fused ranking is hydrated on the text pool.                  *)
Advance(r) ==
  /\ \/ /\ task[r] = "started"
        /\ \E j \in FirstJobs(r) :
             /\ job[j] \in Failures
             /\ task' = [task EXCEPT ![r] = job[j]]
        /\ UNCHANGED job
     \/ /\ task[r] = "started"
        /\ \A j \in FirstJobs(r) : job[j] = "ok"
        /\ IF Kind[r] = "rrf"
             THEN /\ task' = [task EXCEPT ![r] = "hydrating"]
                  /\ job' = [job EXCEPT ![<<r, "hydrate">>] =
                                           Submitted(<<r, "hydrate">>)]
             ELSE /\ task' = [task EXCEPT ![r] = "ok"]
                  /\ UNCHANGED job
     \/ /\ task[r] = "hydrating"
        /\ job[<<r, "hydrate">>] \in Outcomes
        /\ task' = [task EXCEPT ![r] = job[<<r, "hydrate">>]]
        /\ UNCHANGED job
  /\ UNCHANGED <<value, pc, ahead, held, callback, broken, reply>>

(* Timeout-like endings whose own text reaches _tool_http_error: under a   *)
(* deadline a TimeoutError is raised anew with the text "timed out after". *)
KeepsText(o) == o = "timeoutish" \/ (o = "TimeoutError" /\ ~Deadline)

(* _tool_http_error and the normal return: the answers to a task that      *)
(* ended with o.  A timeout-like exception is answered by its text, which  *)
(* may be what a service said of itself.                                   *)
RepliesTo(o) ==
  CASE o = "ok" -> {"ok"}
    [] o = "invalid" -> {"invalid_argument"}
    [] o = "failed" -> {"backend_error"}
    [] o \in {"TimeoutError", "timeoutish"} ->
         {"timeout"} \cup (IF KeepsText(o) THEN {"overloaded"} ELSE {})

(* Mutant of ReleaseOnce: the flag is not cleared by the release.          *)
ReleaseKeepsFlag(r, p) ==
  IF held[r]
    THEN /\ UNCHANGED held
         /\ WakeUpNext(SemOf(r), p, value[SemOf(r)] + 1)
    ELSE pc' = p /\ UNCHANGED <<held, value>>

(* release_once(), after the caller's own step made the positions p        *)
ReleaseOnce(r, p) ==
  IF held[r]
    THEN /\ held' = [held EXCEPT ![r] = FALSE]
         /\ WakeUpNext(SemOf(r), p, value[SemOf(r)] + 1)
    ELSE pc' = p /\ UNCHANGED <<held, value>>

(* The await returns or raises what the task ended with.  A TimeoutError   *)
(* of the task itself is not told apart from the deadline: under a         *)
(* deadline the permit is left to the callback, otherwise the              *)
(* `except TimeoutError: raise` clause lets it go without any release.     *)
Deliver(r) ==
  /\ pc[r] = "running"
  /\ TaskDone(r)
  /\ \E a \in RepliesTo(task[r]) : reply' = [reply EXCEPT ![r] = a]
  /\ IF task[r] = "TimeoutError"
       THEN /\ pc' = [pc EXCEPT ![r] = "replied"]
            /\ callback' = [callback EXCEPT ![r] = Deadline]
            /\ UNCHANGED <<value, held>>
       ELSE /\ ReleaseOnce(r, [pc EXCEPT ![r] = "replied"])
            /\ UNCHANGED callback
  /\ UNCHANGED <<ahead, task, job, broken>>

(* Mutant of DeadlinePasses: the permit is given back with the 504.        *)
DeadlineReleases(r) ==
  /\ Deadline
  /\ pc[r] = "running"
  /\ ReleaseOnce(r, [pc EXCEPT ![r] = "replied"])
  /\ reply' = [reply EXCEPT ![r] = "timeout"]
  /\ UNCHANGED <<ahead, callback, task, job, broken>>

(* Mutant of DeadlinePasses: no done-callback is registered.               *)
DeadlineForgets(r) ==
  /\ Deadline
  /\ pc[r] = "running"
  /\ pc' = [pc EXCEPT ![r] = "replied"]
  /\ reply' = [reply EXCEPT ![r] = "timeout"]
  /\ UNCHANGED <<value, ahead, held, callback, task, job, broken>>

(* Mutant of DeadlinePasses: without shield(), the wait ends only when the *)
(* work that cannot be cancelled does.                                     *)
DeadlineUnshielded(r) ==
  /\ Deadline
  /\ pc[r] = "running"
  /\ TaskDone(r)
  /\ pc' = [pc EXCEPT ![r] = "replied"]
  /\ callback' = [callback EXCEPT ![r] = TRUE]
  /\ reply' = [reply EXCEPT ![r] = "timeout"]
  /\ UNCHANGED <<value, ahead, held, task, job, broken>>

(* The deadline of wait_for(shield(task)) passes: 504, the task goes on.   *)
DeadlinePasses(r) ==
  /\ Deadline
  /\ pc[r] = "running"
  /\ pc' = [pc EXCEPT ![r] = "replied"]
  /\ callback' = [callback EXCEPT ![r] = TRUE]
  /\ reply' = [reply EXCEPT ![r] = "timeout"]
  /\ UNCHANGED <<value, ahead, held, task, job, broken>>

(* The event loop runs the done-callback of a finished task.               *)
RunCallback(r) ==
  /\ callback[r]
  /\ TaskDone(r)
  /\ callback' = [callback EXCEPT ![r] = FALSE]
  /\ ReleaseOnce(r, pc)
  /\ UNCHANGED <<ahead, task, job, broken, reply>>

-----------------------------------------------------------------------------

Loop(r) ==
  \/ Resume(r)
  \/ Advance(r)
  \/ Deliver(r)
  \/ RunCallback(r)

Timer(r) == AcquireTimeout(r) \/ DeadlinePasses(r)

Next ==
  \/ \E r \in Request : Arrive(r) \/ Loop(r) \/ Timer(r)
  \/ \E j \in Job : StartJob(j) \/ FinishJob(j)
  \/ BreakTextPool

Spec == Init /\ [][Next]_vars

(* The event loop runs what is ready and timers fire.  Pool jobs may hang, *)
(* so nothing is assumed of them.                                          *)
Fairness ==
  \A r \in Request : WF_vars(Loop(r)) /\ WF_vars(Timer(r))

FairSpec == Spec /\ Fairness

-----------------------------------------------------------------------------
(* Properties.                                                             *)

(* No permit is lost or minted: on every path of _run_limited, with the    *)
(* semaphore's hand-over, the free permits and the requests that own one   *)
(* add up to the configured concurrency.                                   *)
SlotConservation ==
  \A s \in Sems : value[s] + Cardinality(Owners(s)) = Permits[s]

(* A permit still held after the answer went out has a done-callback that  *)
(* will return it: no path of _run_limited forgets its permit.             *)
HeldHasReleaser ==
  \A r \in Request : held[r] /\ pc[r] = "replied" => callback[r]

(* The comment of _run_limited: the slot is kept until the pool work of    *)
(* the request is finished, even if the waiter has timed out.              *)
SlotCoversWork ==
  \A j \in Job : Unfinished(j) => held[j[1]]

(* The only pool job that can outlive its slot is the sibling of a failed  *)
(* candidate job of an rrf search, which gather() leaves behind.           *)
OnlyGatherOrphans ==
  \A j \in Job : Unfinished(j) /\ ~held[j[1]] =>
    /\ Kind[j[1]] = "rrf"
    /\ \E k \in FirstJobs(j[1]) \ {j} : job[k] \in Failures

(* A permit is never idle while a waiter nobody has woken needs it, unless *)
(* a woken waiter, which passes the wake-up on, has yet to resume.         *)
NoLostWakeup ==
  \A s \in Sems : value[s] > 0 /\ Waiting(s, pc) # {} =>
    \E r \in Request : SemOf(r) = s /\ pc[r] = "granted"

(* 503 overloaded, which the agent retries, goes only to a request no pool *)
(* ever worked for, or one whose own work failed with a timeout-like       *)
(* exception (the text of which then says "overloaded"); 200 goes only to  *)
(* a request every job of which ended well.                                *)
ReplyTellsWork ==
  \A r \in Request :
    /\ reply[r] = "overloaded" =>
         \/ \A n \in JobNames : job[<<r, n>>] = "none"
         \/ \E n \in JobNames : KeepsText(job[<<r, n>>])
    /\ reply[r] = "ok" => \A n \in JobNames : job[<<r, n>>] \in {"none", "ok"}

(* Waiters are served in order of arrival: a request gets a permit only    *)
(* when nobody who waited before it is still waiting.                      *)
ServedInOrder ==
  [][\A r \in Request :
       pc[r] \in {"new", "waiting"} /\ pc'[r] \in {"granted", "running"} =>
         \A w \in Request \ {r} :
           /\ pc[w] = "waiting" /\ pc'[w] = "waiting"
           /\ SemOf(w) = SemOf(r)
           => pc[r] = "waiting" /\ w \notin ahead[r]]_vars

(* Every request is answered, even if pool jobs hang for ever.             *)
EveryRequestAnswered ==
  \A r \in Request : pc[r] # "new" ~> pc[r] = "replied"

(* Overload clears: when the pool work there is has ended, every permit    *)
(* comes back.                                                             *)
SlotsComeBack ==
  <>[](\A j \in Job : ~Unfinished(j)) => <>[](value = Permits)

=============================================================================
