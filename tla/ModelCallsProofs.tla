-------------------------- MODULE ModelCallsProofs --------------------------
(* Proofs about ModelCalls, for any callers, backends and retry limits.    *)
EXTENDS ModelCalls, TLAPS

LEMMA CurrentRequest ==
  ASSUME TypeOK, NEW c \in Caller PROVE Current(c) \in Requests
  BY DEF TypeOK, Current, Requests

(* Storing a handler in its place keeps the type of all of them.           *)
LEMMA HandlerTyped ==
  ASSUME NEW H, NEW h \in [Caller -> [Requests -> H]],
         NEW c \in Caller, NEW i \in Requests, NEW x \in H
  PROVE  [h EXCEPT ![c][i] = x] \in [Caller -> [Requests -> H]]
  OBVIOUS

Handlers == [target : Backend, attempt : 0 .. UpRetries, live : BOOLEAN]

LEMMA InitTyped == Init => TypeOK
<1> SUFFICES ASSUME Init PROVE TypeOK
  OBVIOUS
<1>1. NoHandler \in Handlers
  BY CallsAssumption DEF NoHandler, Handlers, Backend
<1> QED
  BY <1>1, CallsAssumption DEF Init, TypeOK, Backend, Handlers

LEMMA TurnTyped ==
  ASSUME turn \in Backend, NextBackend PROVE turn' \in Backend
  BY CallsAssumption DEF NextBackend, Backend

LEMMA AgainTyped ==
  ASSUME TypeOK, NEW c \in Caller, NEW status, Again(c, status)
  PROVE  /\ call' \in [Caller -> {"new", "send", "wait", "ok", "lost"}]
         /\ sdk' \in [Caller -> 0 .. SdkRetries]
         /\ agent' \in [Caller -> 0 .. AgentRetries]
<1>1. SdkRetries \in Nat /\ AgentRetries \in Nat
  BY CallsAssumption
<1>2. sdk[c] \in 0 .. SdkRetries /\ agent[c] \in 0 .. AgentRetries
  BY DEF TypeOK
<1>3. call' \in [Caller -> {"new", "send", "wait", "ok", "lost"}]
  BY DEF Again, TypeOK
<1>4. sdk' \in [Caller -> 0 .. SdkRetries]
  <2>1. CASE sdk[c] < SdkRetries /\ sdk' = [sdk EXCEPT ![c] = @ + 1]
    <3>1. sdk[c] + 1 \in 0 .. SdkRetries
      BY <1>1, <1>2, <2>1
    <3> QED
      BY <2>1, <3>1 DEF TypeOK
  <2>2. CASE sdk' = [sdk EXCEPT ![c] = 0]
    <3>1. 0 \in 0 .. SdkRetries
      BY <1>1
    <3> QED
      BY <2>2, <3>1 DEF TypeOK
  <2>3. CASE UNCHANGED sdk
    BY <2>3 DEF TypeOK
  <2> QED
    BY <2>1, <2>2, <2>3 DEF Again
<1>5. agent' \in [Caller -> 0 .. AgentRetries]
  <2>1. CASE agent[c] < AgentRetries /\ agent' = [agent EXCEPT ![c] = @ + 1]
    <3>1. agent[c] + 1 \in 0 .. AgentRetries
      BY <1>1, <1>2, <2>1
    <3> QED
      BY <2>1, <3>1 DEF TypeOK
  <2>2. CASE UNCHANGED agent
    BY <2>2 DEF TypeOK
  <2> QED
    BY <2>1, <2>2 DEF Again
<1> QED
  BY <1>3, <1>4, <1>5

LEMMA AttemptTyped ==
  ASSUME TypeOK, NEW c \in Caller, NEW i \in Requests, Attempt(c, i)
  PROVE  TypeOK'
<1>0. handler[c][i] \in Handlers
  BY DEF TypeOK, Handlers
<1>1. CASE /\ handler[c][i].attempt < UpRetries
           /\ handler' = [handler EXCEPT ![c][i].attempt = @ + 1]
           /\ UNCHANGED <<call, sdk, agent>>
  <2>1. [handler[c][i] EXCEPT !.attempt = @ + 1] \in Handlers
    BY <1>0, <1>1, CallsAssumption DEF Handlers
  <2>2. handler' = [handler EXCEPT
                      ![c][i] = [handler[c][i] EXCEPT !.attempt = @ + 1]]
    BY <1>1 DEF TypeOK
  <2>3. handler' \in [Caller -> [Requests -> Handlers]]
    BY <2>1, <2>2, HandlerTyped DEF TypeOK, Handlers
  <2> QED
    BY <2>3, <1>1 DEF TypeOK, Handlers, Attempt
<1>2. ASSUME NEW status, Reply(c, i, status)
      PROVE  TypeOK'
  <2>1. [handler[c][i] EXCEPT !.live = FALSE] \in Handlers
    BY <1>0 DEF Handlers
  <2>2. handler' = [handler EXCEPT
                      ![c][i] = [handler[c][i] EXCEPT !.live = FALSE]]
    BY <1>2 DEF Reply, TypeOK
  <2>3. handler' \in [Caller -> [Requests -> Handlers]]
    BY <2>1, <2>2, HandlerTyped DEF TypeOK, Handlers
  <2>4. /\ call' \in [Caller -> {"new", "send", "wait", "ok", "lost"}]
        /\ sdk' \in [Caller -> 0 .. SdkRetries]
        /\ agent' \in [Caller -> 0 .. AgentRetries]
    BY <1>2, AgainTyped DEF Reply, TypeOK
  <2> QED
    BY <2>3, <2>4 DEF TypeOK, Handlers, Attempt
<1> QED
  BY <1>1, <1>2 DEF Attempt

LEMMA NextTyped == TypeOK /\ [Next]_vars => TypeOK'
<1> SUFFICES ASSUME TypeOK, [Next]_vars PROVE TypeOK'
  OBVIOUS
<1>1. ASSUME NEW c \in Caller, Call(c) PROVE TypeOK'
  BY <1>1 DEF Call, TypeOK
<1>2. ASSUME NEW c \in Caller, Send(c) PROVE TypeOK'
  <2>1. turn' \in Backend
    BY <1>2, TurnTyped DEF Send, TypeOK
  <2>2. [target |-> turn, attempt |-> 0, live |-> TRUE] \in Handlers
    BY CallsAssumption DEF TypeOK, Handlers
  <2>3. handler' \in [Caller -> [Requests -> Handlers]]
    BY <1>2, <2>2, CurrentRequest, HandlerTyped DEF Send, TypeOK, Handlers
  <2>4. shared' \in [Caller -> BOOLEAN]
    BY <1>2 DEF Send, Shared, Open, TypeOK
  <2> QED
    BY <1>2, <2>1, <2>3, <2>4 DEF Send, TypeOK, Handlers
<1>3. ASSUME NEW c \in Caller, ClientTimeout(c) PROVE TypeOK'
  BY <1>3, AgainTyped DEF ClientTimeout, TypeOK
<1>4. ASSUME NEW c \in Caller, NEW i \in Requests, Attempt(c, i) PROVE TypeOK'
  BY <1>4, AttemptTyped
<1>5. ASSUME NEW b \in Backend, NEW m \in Conditions, Change(b, m)
      PROVE  TypeOK'
  BY <1>5, CallsAssumption DEF Change, TypeOK
<1>6. CASE Stray
  <2>1. turn' \in Backend
    BY <1>6, TurnTyped DEF Stray, TypeOK
  <2>2. shared' \in [Caller -> BOOLEAN]
    BY <1>6 DEF Stray, Open, TypeOK
  <2> QED
    BY <1>6, <2>1, <2>2, CallsAssumption DEF Stray, TypeOK
<1>7. CASE UNCHANGED vars
  BY <1>7 DEF vars, TypeOK
<1> QED
  BY <1>1, <1>2, <1>3, <1>4, <1>5, <1>6, <1>7 DEF Next

(* Type correctness: in particular no layer retries more often than its    *)
(* limit, for any number of callers.                                       *)
THEOREM TypeCorrect == Spec => []TypeOK
  BY InitTyped, NextTyped, PTL DEF Spec

-----------------------------------------------------------------------------
(* How many requests the router hands out before b has its turn.           *)
Dist(b, t) == IF b >= t THEN b - t ELSE b - t + Backends

LEMMA DistNat ==
  ASSUME NEW b \in Backend, NEW t \in Backend
  PROVE  Dist(b, t) \in 0 .. Backends - 1 /\ (Dist(b, t) = 0 => b = t)
  BY CallsAssumption DEF Dist, Backend

LEMMA TurnComesNearer ==
  ASSUME NEW b \in Backend, turn \in Backend, NextBackend, b # turn
  PROVE  Dist(b, turn') = Dist(b, turn) - 1
  BY CallsAssumption DEF Dist, Backend, NextBackend

(* Why a call that has the router to itself gets to a backend b that stays *)
(* up: with every retry the turn of b comes one request nearer, so that it *)
(* comes before the client's retries are used up.                          *)
Near(c, b) ==
  /\ mode[b] = "up"
  /\ ~shared[c] =>
       /\ call[c] = "send" => Dist(b, turn) <= Backends - 1 - sdk[c]
       /\ call[c] = "wait" => \/ handler[c][Current(c)].target = b
                              \/ Dist(b, turn) <= Backends - 2 - sdk[c]
       /\ call[c] = "lost" => Backends > SdkRetries + 1

SurvivalInv ==
  \A c \in Caller :
    /\ call[c] = "new" => sdk[c] = 0
    /\ \A b \in steady[c] : Near(c, b)

LEMMA InitSurvival == Init => SurvivalInv
  BY DEF Init, SurvivalInv

(* A retry, or giving up, of a caller whose request went elsewhere.        *)
LEMMA AgainNear ==
  ASSUME TypeOK, NEW c \in Caller, NEW b \in Backend, NEW status,
         call[c] = "wait", Near(c, b), Again(c, status),
         handler[c][Current(c)].target # b,
         UNCHANGED <<turn, mode, shared>>
  PROVE  Near(c, b)'
<1>1. Dist(b, turn) \in 0 .. Backends - 1
  BY DistNat DEF TypeOK
<1>2. /\ sdk[c] \in 0 .. SdkRetries
      /\ agent[c] \in 0 .. AgentRetries
  BY DEF TypeOK
<1>3. ~shared[c] => Dist(b, turn) <= Backends - 2 - sdk[c]
  BY DEF Near
<1>4. Dist(b, turn)' = Dist(b, turn)
  BY DEF Dist
<1> DEFINE d == Dist(b, turn)
<1>5. CASE call'[c] = "send" /\ sdk'[c] = sdk[c] + 1
  BY <1>1, <1>2, <1>3, <1>4, <1>5, CallsAssumption DEF Near
<1>6. CASE call'[c] = "send" /\ sdk'[c] = 0
  BY <1>1, <1>2, <1>3, <1>4, <1>6, CallsAssumption DEF Near
<1>7. CASE call'[c] = "lost" /\ sdk[c] >= SdkRetries
  BY <1>1, <1>2, <1>3, <1>4, <1>7, CallsAssumption DEF Near
<1> QED
  BY <1>5, <1>6, <1>7 DEF Again, TypeOK

LEMMA NextSurvival == TypeOK /\ SurvivalInv /\ [Next]_vars => SurvivalInv'
<1> SUFFICES ASSUME TypeOK, SurvivalInv, [Next]_vars,
                    NEW c \in Caller
             PROVE  /\ call'[c] = "new" => sdk'[c] = 0
                    /\ \A b \in steady'[c] : Near(c, b)'
  BY DEF SurvivalInv
<1>0. /\ call[c] = "new" => sdk[c] = 0
      /\ \A b \in steady[c] : b \in Backend /\ Near(c, b)
  BY DEF SurvivalInv, TypeOK
<1>1. ASSUME NEW d \in Caller, Call(d)
      PROVE  /\ call'[c] = "new" => sdk'[c] = 0
             /\ \A b \in steady'[c] : Near(c, b)'
  <2>1. CASE c = d
    <3>1. ASSUME NEW b \in Backend, mode[b] = "up" PROVE Near(c, b)'
      <4>1. Dist(b, turn') \in 0 .. Backends - 1
        BY <1>1, DistNat DEF Call, TypeOK
      <4>2. call'[c] = "send" /\ sdk'[c] = 0 /\ mode' = mode
        BY <1>0, <1>1, <2>1 DEF Call, TypeOK
      <4> QED
        BY <3>1, <4>1, <4>2, CallsAssumption DEF Near
    <3> QED
      BY <1>1, <2>1, <3>1 DEF Call, TypeOK
  <2>2. CASE c # d
    BY <1>0, <1>1, <2>2 DEF Call, TypeOK, Near, Current, Dist
  <2> QED
    BY <2>1, <2>2
<1>2. ASSUME NEW d \in Caller, Send(d)
      PROVE  /\ call'[c] = "new" => sdk'[c] = 0
             /\ \A b \in steady'[c] : Near(c, b)'
  <2>1. CASE c = d
    <3>1. ASSUME NEW b \in steady[c] PROVE Near(c, b)'
      <4>0. b \in Backend /\ turn \in Backend /\ sdk[c] \in 0 .. SdkRetries
        BY <1>0 DEF TypeOK
      <4>1. /\ call'[c] = "wait" /\ call[c] = "send"
            /\ sdk' = sdk /\ agent' = agent /\ mode' = mode
            /\ shared'[c] = shared[c]
        BY <1>2, <2>1 DEF Send, Shared, TypeOK
      <4>2. handler'[c][Current(c)'].target = turn
        BY <1>2, <2>1, <4>1, CurrentRequest DEF Send, TypeOK, Current
      <4>3. CASE b = turn
        BY <3>1, <1>0, <4>1, <4>2, <4>3 DEF Near
      <4>4. CASE b # turn
        <5>1. Dist(b, turn') = Dist(b, turn) - 1
          BY <1>2, <4>0, <4>4, TurnComesNearer DEF Send
        <5>2. ~shared[c] => Dist(b, turn) <= Backends - 1 - sdk[c]
          BY <1>0, <3>1, <4>1 DEF Near
        <5>3. Dist(b, turn) \in 0 .. Backends - 1
          BY <4>0, DistNat
        <5>4. ~shared[c] => Dist(b, turn') <= Backends - 2 - sdk'[c]
          BY <4>0, <4>1, <5>1, <5>2, <5>3, CallsAssumption
        <5> QED
          BY <1>0, <3>1, <4>1, <5>4 DEF Near
      <4> QED
        BY <4>3, <4>4
    <3> QED
      BY <1>2, <2>1, <3>1 DEF Send, TypeOK
  <2>2. CASE c # d
    <3>1. ~shared'[c] => ~Open(c) /\ ~shared[c]
      BY <1>2, <2>2 DEF Send, Shared, TypeOK
    <3>2. call'[c] = call[c] /\ sdk' = sdk /\ mode' = mode /\ steady' = steady
      BY <1>2, <2>2 DEF Send, TypeOK
    <3> QED
      BY <1>0, <3>1, <3>2 DEF Near, Open
  <2> QED
    BY <2>1, <2>2
<1>3. ASSUME NEW d \in Caller, ClientTimeout(d)
      PROVE  /\ call'[c] = "new" => sdk'[c] = 0
             /\ \A b \in steady'[c] : Near(c, b)'
  <2>1. CASE c = d
    <3>1. ASSUME NEW b \in steady[c] PROVE Near(c, b)'
      <4>1. handler[c][Current(c)].target # b
        BY <1>0, <1>3, <2>1, <3>1 DEF ClientTimeout, Near
      <4> QED
        BY <1>0, <1>3, <2>1, <3>1, <4>1, AgainNear DEF ClientTimeout
    <3>2. call'[c] # "new"
      BY <1>3, <2>1 DEF ClientTimeout, Again, TypeOK
    <3> QED
      BY <1>3, <3>1, <3>2 DEF ClientTimeout
  <2>2. CASE c # d
    <3>1. /\ call'[c] = call[c] /\ sdk'[c] = sdk[c] /\ agent'[c] = agent[c]
          /\ UNCHANGED <<turn, mode, handler, steady, shared>>
      BY <1>3, <2>2 DEF ClientTimeout, Again, TypeOK
    <3> QED
      BY <1>0, <3>1 DEF Near, Current, Dist
  <2> QED
    BY <2>1, <2>2
<1>4. ASSUME NEW d \in Caller, NEW i \in Requests, Attempt(d, i)
      PROVE  /\ call'[c] = "new" => sdk'[c] = 0
             /\ \A b \in steady'[c] : Near(c, b)'
  <2>0. UNCHANGED <<turn, mode, steady, shared>>
    BY <1>4 DEF Attempt
  <2>1. \A r \in Requests : handler'[c][r].target = handler[c][r].target
    <3>1. CASE handler' = [handler EXCEPT ![d][i].attempt = @ + 1]
      BY <3>1 DEF TypeOK
    <3>2. CASE handler' = [handler EXCEPT ![d][i].live = FALSE]
      BY <3>2 DEF TypeOK
    <3> QED
      BY <1>4, <3>1, <3>2 DEF Attempt, Reply
  <2>2. CASE /\ call'[c] = call[c]
             /\ sdk'[c] = sdk[c]
             /\ agent'[c] = agent[c]
    <3>1. Current(c)' = Current(c) /\ Current(c) \in Requests
      BY <2>2, CurrentRequest DEF Current
    <3> QED
      BY <1>0, <2>0, <2>1, <2>2, <3>1 DEF Near, Dist
  <2>3. CASE c = d /\ call'[c] = "ok"
    BY <1>0, <2>0, <2>3 DEF Near
  <2>4. ASSUME NEW status, c = d, Awaited(c, i), Again(c, status),
               mode[handler[c][i].target] # "up"
        PROVE  /\ call'[c] = "new" => sdk'[c] = 0
               /\ \A b \in steady'[c] : Near(c, b)'
    <3>1. ASSUME NEW b \in steady[c] PROVE Near(c, b)'
      <4>1. handler[c][Current(c)].target # b
        BY <1>0, <2>4, <3>1 DEF Near, Awaited
      <4> QED
        BY <1>0, <2>0, <2>4, <3>1, <4>1, AgainNear DEF Awaited
    <3>2. call'[c] # "new"
      BY <2>4 DEF Again, TypeOK
    <3> QED
      BY <2>0, <3>1, <3>2
  <2>5. CASE UNCHANGED <<call, sdk, agent>>
    BY <2>2, <2>5
  <2>6. CASE ~ UNCHANGED <<call, sdk, agent>>
    <3>1. PICK status :
            /\ Reply(d, i, status)
            /\ mode[handler[d][i].target] = "up" => status = "200"
      BY <1>4, <2>6 DEF Attempt
    <3>2. Awaited(d, i)
      BY <2>6, <3>1 DEF Reply
    <3>3. CASE c # d
      BY <2>2, <3>1, <3>2, <3>3 DEF Reply, Again, TypeOK
    <3>4. CASE c = d /\ status = "200"
      BY <2>3, <3>1, <3>2, <3>4 DEF Reply, TypeOK
    <3>5. CASE c = d /\ status # "200"
      BY <2>4, <3>1, <3>2, <3>5 DEF Reply
    <3> QED
      BY <3>3, <3>4, <3>5
  <2> QED
    BY <2>5, <2>6
<1>5. ASSUME NEW b \in Backend, NEW m \in Conditions, Change(b, m)
      PROVE  /\ call'[c] = "new" => sdk'[c] = 0
             /\ \A x \in steady'[c] : Near(c, x)'
  <2>1. \A x \in steady'[c] : x \in steady[c] /\ x # b
    BY <1>5 DEF Change
  <2> QED
    BY <1>0, <1>5, <2>1 DEF Change, Near, TypeOK, Current, Dist
<1>6. CASE Stray
  <2>1. ~shared'[c] => ~Open(c) /\ ~shared[c]
    BY <1>6 DEF Stray
  <2> QED
    BY <1>0, <1>6, <2>1 DEF Stray, Near, Open
<1>7. CASE UNCHANGED vars
  BY <1>0, <1>7 DEF vars, Near, Current, Dist
<1> QED
  BY <1>1, <1>2, <1>3, <1>4, <1>5, <1>6, <1>7 DEF Next

(* For any number of backends, retries and other callers: a call whose     *)
(* turns nobody took is never lost while some backend was up throughout,   *)
(* given that the client makes at least as many requests as there are      *)
(* backends.                                                               *)
THEOREM LoneCallsSurvive == Spec => []LoneCallerSurvives
<1>1. SurvivalInv => LoneCallerSurvives
  <2> SUFFICES ASSUME SurvivalInv, NEW c \in Caller, call[c] = "lost",
                      ~shared[c], Backends <= SdkRetries + 1,
                      NEW b \in steady[c]
               PROVE  FALSE
    BY DEF LoneCallerSurvives
  <2>1. Backends > SdkRetries + 1
    BY DEF SurvivalInv, Near
  <2> QED
    BY <2>1, CallsAssumption
<1> QED
  BY <1>1, InitSurvival, NextSurvival, TypeCorrect, PTL DEF Spec
=============================================================================
