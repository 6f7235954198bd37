----------------------------- MODULE ModelCalls -----------------------------
(***************************************************************************)
(* A model call of an agent, through three layers that retry: the agent    *)
(* (_create_chat_completion_with_retries), the openai client, and the      *)
(* router's proxy_to_backend.  The router hands the requests to its        *)
(* backends in turn and retries a request on the backend it was given to;  *)
(* only a new request of the client moves on to the next one.              *)
(*                                                                         *)
(* Client and router wait equally long for a slow backend, the client from *)
(* an earlier moment: it gives up first, and the handler in the router     *)
(* goes on without it.  A connection that is not accepted times out in the *)
(* router long before.                                                     *)
(***************************************************************************)
EXTENDS Integers

CONSTANTS
  Caller,
  Backends,      \* how many backends
  UpRetries,     \* UpstreamRetryConfig.retries
  SdkRetries,    \* max_retries of the openai client
  AgentRetries,  \* TOOL_502_MAX_RETRIES
  MaxChanges,    \* bound: times a backend changes its condition
  MaxStrays      \* bound: other requests the router takes

ASSUME CallsAssumption ==
  /\ Backends \in Nat \ {0}
  /\ {UpRetries, SdkRetries, AgentRetries, MaxChanges, MaxStrays} \subseteq Nat

Backend == 1 .. Backends

(* HTTP requests of a call, named by the retries made before them.         *)
Requests == (0 .. AgentRetries) \X (0 .. SdkRetries)

(* How a backend takes a request: answers, answers 5xx, refuses the        *)
(* connection, does not accept it in time, does not answer in time.        *)
Conditions == {"up", "broken", "down", "hung", "slow"}

VARIABLES
  turn,      \* the backend next_backend() returns
  mode,      \* condition of a backend
  call,      \* state of a caller's call
  sdk, agent,\* retries made by the client since the agent's, and by the agent
  handler,   \* the router's handler of each request
  steady,    \* history: backends that have been up since the call began
  shared,    \* history: others took a turn since the call began
  changes, strays

vars == <<turn, mode, call, sdk, agent, handler, steady, shared, changes,
          strays>>

NoHandler == [target |-> 1, attempt |-> 0, live |-> FALSE]

Open(c) == call[c] \in {"send", "wait"}
Current(c) == <<agent[c], sdk[c]>>

Init ==
  /\ turn = 1
  /\ mode \in [Backend -> Conditions]
  /\ call = [c \in Caller |-> "new"]
  /\ sdk = [c \in Caller |-> 0]
  /\ agent = [c \in Caller |-> 0]
  /\ handler = [c \in Caller |-> [i \in Requests |-> NoHandler]]
  /\ steady = [c \in Caller |-> {}]
  /\ shared = [c \in Caller |-> FALSE]
  /\ changes = 0
  /\ strays = 0

Call(c) ==
  /\ call[c] = "new"
  /\ call' = [call EXCEPT ![c] = "send"]
  /\ steady' = [steady EXCEPT ![c] = {b \in Backend : mode[b] = "up"}]
  /\ UNCHANGED <<turn, mode, sdk, agent, handler, shared, changes, strays>>

(* RouterState.next_backend()                                              *)
NextBackend ==
  turn' = IF turn = Backends THEN 1 ELSE turn + 1

(* The turn is lost to all calls that are open but c.                      *)
Shared(c) ==
  shared' = [d \in Caller |-> shared[d] \/ (d # c /\ Open(d))]

(* Mutant of Send: a retry goes where the request before it went.          *)
SendBack(c) ==
  /\ call[c] = "send"
  /\ call' = [call EXCEPT ![c] = "wait"]
  /\ handler' = [handler EXCEPT ![c][Current(c)] =
       [target |-> IF sdk[c] = 0 THEN turn
                   ELSE handler[c][<<agent[c], sdk[c] - 1>>].target,
        attempt |-> 0, live |-> TRUE]]
  /\ NextBackend
  /\ Shared(c)
  /\ UNCHANGED <<mode, sdk, agent, steady, changes, strays>>

(* A request of the client arrives at the router.                          *)
Send(c) ==
  /\ call[c] = "send"
  /\ call' = [call EXCEPT ![c] = "wait"]
  /\ handler' = [handler EXCEPT ![c][Current(c)] =
                   [target |-> turn, attempt |-> 0, live |-> TRUE]]
  /\ NextBackend
  /\ Shared(c)
  /\ UNCHANGED <<mode, sdk, agent, steady, changes, strays>>

(* Another request at the router: of a program left out, or one that has   *)
(* taken its turn when it is refused for its key or model.                 *)
Stray ==
  /\ strays < MaxStrays
  /\ strays' = strays + 1
  /\ NextBackend
  /\ shared' = [d \in Caller |-> shared[d] \/ Open(d)]
  /\ UNCHANGED <<mode, call, sdk, agent, handler, steady, changes>>

(* What the client and then the agent do about a status, "timeout" being   *)
(* the client's own: the client retries every one of these, the agent      *)
(* neither 500 nor 504.                                                    *)
Again(c, status) ==
  \/ /\ sdk[c] < SdkRetries
     /\ sdk' = [sdk EXCEPT ![c] = @ + 1]
     /\ call' = [call EXCEPT ![c] = "send"]
     /\ UNCHANGED agent
  \/ /\ sdk[c] >= SdkRetries
     /\ status \in {"timeout", "502"} /\ agent[c] < AgentRetries
     /\ sdk' = [sdk EXCEPT ![c] = 0]
     /\ agent' = [agent EXCEPT ![c] = @ + 1]
     /\ call' = [call EXCEPT ![c] = "send"]
  \/ /\ sdk[c] >= SdkRetries
     /\ status \notin {"timeout", "502"} \/ agent[c] >= AgentRetries
     /\ call' = [call EXCEPT ![c] = "lost"]
     /\ UNCHANGED <<sdk, agent>>

ClientTimeout(c) ==
  /\ call[c] = "wait"
  /\ mode[handler[c][Current(c)].target] = "slow"
  /\ Again(c, "timeout")
  /\ UNCHANGED <<turn, mode, handler, steady, shared, changes, strays>>

Awaited(c, i) == call[c] = "wait" /\ i = Current(c)

(* The handler of request i answers; the client may no longer be there.    *)
Reply(c, i, status) ==
  /\ handler' = [handler EXCEPT ![c][i].live = FALSE]
  /\ IF ~Awaited(c, i) THEN UNCHANGED <<call, sdk, agent>>
     ELSE IF status = "200"
          THEN call' = [call EXCEPT ![c] = "ok"] /\ UNCHANGED <<sdk, agent>>
          ELSE Again(c, status)

(* Mutant of Attempt: failures of one kind do not count.                   *)
AttemptUncounted(c, i) ==
  LET h == handler[c][i]
      m == mode[h.target]
      status == IF m = "up" THEN "200" ELSE "500"
  IN  /\ h.live
      /\ m = "slow" => ~Awaited(c, i)
      /\ IF m \in {"up", "broken"} THEN Reply(c, i, status)
         ELSE UNCHANGED <<handler, call, sdk, agent>>
      /\ UNCHANGED <<turn, mode, steady, shared, changes, strays>>

(* proxy_to_backend: one attempt, or the pause and the next.               *)
Attempt(c, i) ==
  LET h == handler[c][i]
      m == mode[h.target]
      status == CASE m = "up" -> "200"
                  [] m = "broken" -> "500"
                  [] m = "down" -> "502"
                  [] OTHER -> "504"
  IN  /\ h.live
      /\ m = "slow" => ~Awaited(c, i)
      /\ IF m # "up" /\ h.attempt < UpRetries
         THEN /\ handler' = [handler EXCEPT ![c][i].attempt = @ + 1]
              /\ UNCHANGED <<call, sdk, agent>>
         ELSE Reply(c, i, status)
      /\ UNCHANGED <<turn, mode, steady, shared, changes, strays>>

(* A backend fails, recovers, or is overloaded.                            *)
Change(b, m) ==
  /\ changes < MaxChanges
  /\ mode[b] # m
  /\ mode' = [mode EXCEPT ![b] = m]
  /\ changes' = changes + 1
  /\ steady' = [c \in Caller |-> steady[c] \ {b}]
  /\ UNCHANGED <<turn, call, sdk, agent, handler, shared, strays>>

Next ==
  \/ \E c \in Caller : Call(c) \/ Send(c) \/ ClientTimeout(c)
  \/ \E c \in Caller, i \in Requests : Attempt(c, i)
  \/ \E b \in Backend, m \in Conditions : Change(b, m)
  \/ Stray

Spec == Init /\ [][Next]_vars

(* Callers and handlers run on, and timers go off.                         *)
FairSpec ==
  /\ Spec
  /\ \A c \in Caller : /\ WF_vars(Send(c) \/ ClientTimeout(c))
                       /\ \A i \in Requests : WF_vars(Attempt(c, i))

-----------------------------------------------------------------------------
(* Properties                                                              *)

TypeOK ==
  /\ turn \in Backend
  /\ mode \in [Backend -> Conditions]
  /\ call \in [Caller -> {"new", "send", "wait", "ok", "lost"}]
  /\ sdk \in [Caller -> 0 .. SdkRetries]
  /\ agent \in [Caller -> 0 .. AgentRetries]
  /\ handler \in [Caller -> [Requests ->
       [target : Backend, attempt : 0 .. UpRetries, live : BOOLEAN]]]
  /\ steady \in [Caller -> SUBSET Backend]
  /\ shared \in [Caller -> BOOLEAN]
  /\ changes \in 0 .. MaxChanges
  /\ strays \in 0 .. MaxStrays

(* A call that had the router to itself is not lost while one backend was  *)
(* up all the time: its own retries come round to that one (next_backend), *)
(* given no more backends than the client makes requests.  With others     *)
(* taking turns in between, all its requests may go to one dead backend.   *)
LoneCallerSurvives ==
  \A c \in Caller :
    call[c] = "lost" /\ ~shared[c] /\ Backends <= SdkRetries + 1
      => steady[c] = {}

(* Every call ends, and so does the work the router goes on with after the *)
(* client has given up on it.                                              *)
CallsEnd ==
  \A c \in Caller : call[c] = "send" ~>
    call[c] \in {"ok", "lost"} /\ \A i \in Requests : ~handler[c][i].live
=============================================================================
