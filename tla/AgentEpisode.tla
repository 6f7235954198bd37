----------------------------- MODULE AgentEpisode -----------------------------
(***************************************************************************)
(* One episode of agent/base.py (BaseToolAgent._run_impl): rounds of a     *)
(* model request and the tool calls it asks for.  The tool calls of a      *)
(* round run in parallel threads, each with its own retries; their results *)
(* are appended in call order after all of them have ended.                *)
(*                                                                         *)
(* A tool call is abstracted to its kind, and what a tool or a validator   *)
(* does to what the loop tells apart: "short" and "long" outputs (long is  *)
(* more than tool_result_max_chars), an "accepted" or "rejected"           *)
(* submission, a client-side error, and the backend errors by how they are *)
(* classified.                                                             *)
(***************************************************************************)
EXTENDS Integers, Sequences, FiniteSets

CONSTANTS
  MaxRound,     \* max_round
  MaxCalls,     \* max_tool_calls_per_step
  MaxRetries,   \* TOOL_502_MAX_RETRIES
  KeepRecent,   \* keep_recent_tool_results
  Reminder,     \* enable_round_budget_reminder
  Replies,      \* the tool calls model replies carry in this instance
  ToolEnds      \* how an attempt of a tool call ends in this instance

(* "tool" stands for search and open_url, "illegal" for a name outside the *)
(* characters mistral_common admits (for other models an unknown tool).    *)
CallKinds == {"tool", "submit", "illegal"}

(* Backend failures is_fatal_tool_error lists: 502/503/504, another 5xx,   *)
(* no or a broken connection.  It does not list the others: WriteTimeout,  *)
(* ProxyError and further transport errors, a 200 that is not JSON.        *)
ListedErrors  == {"http502", "http500", "network"}
BackendErrors == ListedErrors \cup {"unlisted"}

ASSUME ConstantsAssumption ==
  /\ MaxRound \in Nat
  /\ MaxCalls \in Nat \ {0}
  /\ MaxRetries \in Nat
  /\ KeepRecent \in Nat
  /\ Reminder \in BOOLEAN
  /\ Replies \subseteq Seq(CallKinds)
  /\ ToolEnds \subseteq {"short", "long", "error"} \cup BackendErrors

VARIABLES
  mistral,   \* is_mistral_family_model(model_name), of any agent
  phase,     \* where _run_impl is
  round,     \* round_id
  messages,  \* the conversation
  reminded,  \* budget_reminder_sent
  tries,     \* retry_idx of the model request
  calls,     \* the tool calls of this round
  attempts,  \* retry_idx of each call's thread
  result,    \* how each call ended, "pending" while its thread runs
  answer,    \* <<round, index>> of the accepted submission, or <<>>
  stop       \* stop_reason

vars == <<mistral, phase, round, messages, reminded, tries, calls, attempts,
          result, answer, stop>>

Msg(role, text, cs) ==
  [role |-> role, text |-> text, calls |-> cs, reminder |-> FALSE]
ReminderMsg == [Msg("user", "reminder", <<>>) EXCEPT !.reminder = TRUE]

Texts == {"system", "question", "nudge", "reminder", "reply", "short", "long",
          "cut", "accepted", "rejected", "error"} \cup BackendErrors
Messages == [role : {"system", "user", "assistant", "tool"}, text : Texts,
             calls : Seq(CallKinds), reminder : BOOLEAN]

TypeOK ==
  /\ mistral \in BOOLEAN
  /\ phase \in {"round", "llm", "tools", "finished", "failed"}
  /\ round \in 0 .. MaxRound
  /\ messages \in Seq(Messages)
  /\ reminded \in BOOLEAN
  /\ tries \in 0 .. MaxRetries
  /\ calls \in Seq(CallKinds)
  /\ attempts \in [DOMAIN calls -> 0 .. MaxRetries]
  /\ result \in [DOMAIN calls -> Texts \cup {"pending"}]
  /\ answer \in {<<>>} \cup (0 .. MaxRound) \X DOMAIN calls
  /\ stop \in {"none", "submitted", "max_round"}

Init ==
  /\ mistral \in BOOLEAN
  /\ phase = "round"
  /\ round = 0
  /\ messages = <<Msg("system", "system", <<>>), Msg("user", "question", <<>>)>>
  /\ reminded = FALSE
  /\ tries = 0
  /\ calls = <<>>
  /\ attempts = <<>>
  /\ result = <<>>
  /\ answer = <<>>
  /\ stop = "none"

-----------------------------------------------------------------------------
(* truncate_tool_messages, on the copy that goes to the model: long tool   *)
(* messages lose their end unless they are among the KeepRecent last ones. *)
ToolsAfter(m, i) == {k \in DOMAIN m : k > i /\ m[k].role = "tool"}

(* Mutant of TruncateToolMessages: one tool message too few is kept.       *)
TruncateOneMore(m) ==
  [i \in DOMAIN m |->
     IF /\ m[i].role = "tool"
        /\ m[i].text = "long"
        /\ Cardinality(ToolsAfter(m, i)) >= KeepRecent - 1
     THEN [m[i] EXCEPT !.text = "cut", !.reminder = FALSE]
     ELSE m[i]]

TruncateToolMessages(m) ==
  [i \in DOMAIN m |->
     IF /\ m[i].role = "tool"
        /\ m[i].text = "long"
        /\ Cardinality(ToolsAfter(m, i)) >= KeepRecent
     THEN [m[i] EXCEPT !.text = "cut", !.reminder = FALSE]
     ELSE m[i]]

(* What the model is shown in this round.                                  *)
Request == TruncateToolMessages(messages)

(* budget_threshold, with the default ratio 0.8                            *)
BudgetThreshold ==
  IF Reminder /\ MaxRound >= 5 THEN (MaxRound * 4) \div 5 ELSE -1

(* Mutant of WithReminder: a user message for every model family.          *)
ReminderAsUser(m) == Append(m, ReminderMsg)

(* _maybe_append_budget_reminder: a user message, or for mistral models,   *)
(* which may not see a user message after a tool message, text at the end  *)
(* of the last tool message.                                               *)
WithReminder(m) ==
  IF mistral /\ m # <<>> /\ m[Len(m)].role = "tool"
    THEN [m EXCEPT ![Len(m)].reminder = TRUE]
    ELSE Append(m, ReminderMsg)

(* Mutant of BeginRound: the history itself is truncated, not a copy.      *)
BeginRoundInPlace ==
  /\ phase = "round"
  /\ round < MaxRound
  /\ messages' = TruncateToolMessages(messages)
  /\ phase' = "llm"
  /\ tries' = 0
  /\ UNCHANGED <<mistral, round, reminded, calls, attempts, result, answer,
                 stop>>

BeginRound ==
  /\ phase = "round"
  /\ round < MaxRound
  /\ LET due == /\ BudgetThreshold >= 0
                /\ round >= BudgetThreshold
                /\ ~reminded
     IN /\ messages' = IF due THEN WithReminder(messages) ELSE messages
        /\ reminded' = (reminded \/ due)
  /\ phase' = "llm"
  /\ tries' = 0
  /\ UNCHANGED <<mistral, round, calls, attempts, result, answer, stop>>

(* Mutant of RunOutOfRounds: the last round is not played.                 *)
RunOutEarly ==
  /\ phase = "round"
  /\ round = MaxRound - 1
  /\ phase' = "finished"
  /\ stop' = "max_round"
  /\ UNCHANGED <<mistral, round, messages, reminded, tries, calls, attempts,
                 result, answer>>

(* The loop runs out of rounds.                                            *)
RunOutOfRounds ==
  /\ phase = "round"
  /\ round = MaxRound
  /\ phase' = "finished"
  /\ stop' = "max_round"
  /\ UNCHANGED <<mistral, round, messages, reminded, tries, calls, attempts,
                 result, answer>>

-----------------------------------------------------------------------------
(* The model request.                                                      *)

(* The calls of a reply that are executed: capped, and for mistral models  *)
(* without those whose names the serving validator rejects.                *)
Capped(reply) ==
  SubSeq(reply, 1, IF Len(reply) < MaxCalls THEN Len(reply) ELSE MaxCalls)

IsLegal(k) == ~mistral \/ k # "illegal"

(* The ways to put a set of positions in order: there is one.              *)
InOrder(S) ==
  {f \in [1 .. Cardinality(S) -> S] :
     \A k, l \in DOMAIN f : k < l => f[k] < f[l]}

(* (The set of the one sequence they make.)                                *)
LegalCalls(reply) ==
  LET capped == Capped(reply)
      legal == {k \in DOMAIN capped : IsLegal(capped[k])}
  IN  {[k \in DOMAIN order |-> capped[order[k]]] : order \in InOrder(legal)}

(* A reply arrives: _request_assistant_turn appends it, then the loop      *)
(* starts the calls or nudges the model to use tools.                      *)
ModelReplies ==
  /\ phase = "llm"
  /\ \E reply \in Replies : \E legal \in LegalCalls(reply) :
       LET withReply == Append(messages, Msg("assistant", "reply", legal))
       IN \/ /\ legal = <<>>
             /\ messages' = Append(withReply, Msg("user", "nudge", <<>>))
             /\ phase' = "round"
             /\ round' = round + 1
             /\ UNCHANGED <<calls, attempts, result>>
          \/ /\ legal # <<>>
             /\ messages' = withReply
             /\ phase' = "tools"
             /\ calls' = legal
             /\ attempts' = [i \in DOMAIN legal |-> 0]
             /\ result' = [i \in DOMAIN legal |-> "pending"]
             /\ UNCHANGED round
  /\ UNCHANGED <<mistral, reminded, tries, answer, stop>>

(* Mutant of ModelTransient: the retry counter starts over.                *)
ModelTransientForever ==
  /\ phase = "llm"
  /\ tries' = (tries + 1) % (MaxRetries + 1)
  /\ UNCHANGED <<mistral, phase, round, messages, reminded, calls, attempts,
                 result, answer, stop>>

(* A 502, a 503 or a timeout of the model is retried a bounded number of   *)
(* times; then, and on any other error, the episode raises.                *)
ModelTransient ==
  /\ phase = "llm"
  /\ \/ tries < MaxRetries /\ tries' = tries + 1 /\ UNCHANGED phase
     \/ tries = MaxRetries /\ phase' = "failed" /\ UNCHANGED tries
  /\ UNCHANGED <<mistral, round, messages, reminded, calls, attempts, result,
                 answer, stop>>

ModelError ==
  /\ phase = "llm"
  /\ phase' = "failed"
  /\ UNCHANGED <<mistral, round, messages, reminded, tries, calls, attempts,
                 result, answer, stop>>

-----------------------------------------------------------------------------
(* The tool calls of a round, each in its thread.                          *)

IsRetryable(e) == e = "http502"
(* Mutant of IsFatal: HTTP errors that outlive their retries are passed on *)
IsFatalNetworkOnly(e) == e = "network"

IsFatal(e) == e \in ListedErrors

(* submit_answer is answered by the client itself, valid arguments or not; *)
(* whether the answer is accepted is up to the submit validator.           *)
EndsOf(kind) ==
  CASE kind = "tool"    -> ToolEnds
    [] kind = "submit"  -> {"accepted", "rejected", "error"}
    [] kind = "illegal" -> {"error"}

(* One attempt of _execute_tool_with_retries ends.                         *)
AttemptEnds(i) ==
  /\ phase = "tools"
  /\ i \in DOMAIN calls
  /\ result[i] = "pending"
  /\ \E e \in EndsOf(calls[i]) :
       IF IsRetryable(e) /\ attempts[i] < MaxRetries
         THEN /\ attempts' = [attempts EXCEPT ![i] = @ + 1]
              /\ UNCHANGED result
         ELSE /\ result' = [result EXCEPT ![i] = e]
              /\ UNCHANGED attempts
  /\ UNCHANGED <<mistral, phase, round, messages, reminded, tries, calls,
                 answer, stop>>

AllEnded == phase = "tools" /\ \A i \in DOMAIN calls : result[i] # "pending"

(* A fatal backend failure of any call raises out of _handle_tool_calls    *)
(* before any result is looked at.                                         *)
RaiseFatal ==
  /\ AllEnded
  /\ \E i \in DOMAIN calls : IsFatal(result[i])
  /\ phase' = "failed"
  /\ UNCHANGED <<mistral, round, messages, reminded, tries, calls, attempts,
                 result, answer, stop>>

ToolMessages(n) == [i \in 1 .. n |-> Msg("tool", result[i], <<>>)]

Accepted == {i \in DOMAIN calls : result[i] = "accepted"}

(* Mutant of FinishWith: every result is appended before the loop stops.   *)
FinishAfterAll(i) ==
  /\ i \in Accepted
  /\ \A k \in Accepted : i <= k
  /\ messages' = messages \o ToolMessages(Len(calls))
  /\ answer' = <<round, i>>
  /\ stop' = "submitted"
  /\ phase' = "finished"
  /\ UNCHANGED round

(* The results are appended in call order up to the first accepted         *)
(* submission, which ends the episode; the calls after it leave no trace.  *)
FinishWith(i) ==
  /\ i \in Accepted
  /\ \A k \in Accepted : i <= k
  /\ messages' = messages \o ToolMessages(i)
  /\ answer' = <<round, i>>
  /\ stop' = "submitted"
  /\ phase' = "finished"
  /\ UNCHANGED round

ContinueAfterTools ==
  /\ Accepted = {}
  /\ messages' = messages \o ToolMessages(Len(calls))
  /\ phase' = "round"
  /\ round' = round + 1
  /\ UNCHANGED <<answer, stop>>

HandleResults ==
  /\ AllEnded
  /\ \A i \in DOMAIN calls : ~IsFatal(result[i])
  /\ (\E i \in DOMAIN calls : FinishWith(i)) \/ ContinueAfterTools
  /\ UNCHANGED <<mistral, reminded, tries, calls, attempts, result>>

-----------------------------------------------------------------------------

Next ==
  \/ BeginRound
  \/ RunOutOfRounds
  \/ ModelReplies
  \/ ModelTransient
  \/ ModelError
  \/ \E i \in DOMAIN calls : AttemptEnds(i)
  \/ RaiseFatal
  \/ HandleResults

Spec == Init /\ [][Next]_vars

(* Every request of the model and of a tool ends, because both HTTP        *)
(* clients have timeouts, and the thread running the episode goes on.      *)
FairSpec == Spec /\ WF_vars(Next)

-----------------------------------------------------------------------------
(* Properties.                                                             *)

(* The replies to the calls of message i stand right behind it.            *)
AnsweredInPlace(m, i) ==
  \A k \in 1 .. Len(m[i].calls) : i + k \in DOMAIN m /\ m[i + k].role = "tool"

(* The assistant message whose calls message i answers.                    *)
Caller(m, i) ==
  \E k \in DOMAIN m : k < i /\ i <= k + Len(m[k].calls)

(* What a chat endpoint demands of the messages of a request: each tool    *)
(* call is answered by a tool message right behind it and each tool        *)
(* message answers a call; mistral_common also rejects a user message      *)
(* behind a tool message and calls with illegal names.                     *)
WellFormedRequest ==
  phase = "llm" =>
    \A i \in DOMAIN Request :
      /\ AnsweredInPlace(Request, i)
      /\ Request[i].role = "tool" => Caller(Request, i)
      /\ mistral => /\ ~ /\ i > 1
                         /\ Request[i].role = "user"
                         /\ Request[i - 1].role = "tool"
                    /\ \A k \in DOMAIN Request[i].calls :
                         Request[i].calls[k] # "illegal"

(* An accepted submission ends the episode at once: it is the last message *)
(* of the conversation and the answer of the result, whatever the other    *)
(* calls of its round returned.                                            *)
AcceptedIsFinal ==
  \A i \in DOMAIN messages : messages[i].text = "accepted" =>
    /\ i = Len(messages)
    /\ phase = "finished"
    /\ stop = "submitted"
    /\ answer[1] = round

(* is_fatal_tool_error: "infrastructure errors that should not become      *)
(* observations".  None of those it lists ever becomes a tool message, and *)
(* no round is handled in which a call ended with one, not even when a     *)
(* submission next to it was accepted: the episode fails instead.          *)
BackendErrorsNotObserved ==
  /\ \A i \in DOMAIN messages : messages[i].text \notin ListedErrors
  /\ phase \notin {"tools", "failed"} =>
       \A i \in DOMAIN calls : result[i] \notin ListedErrors

(* The budget reminder reaches the model in the first round that is due,   *)
(* whatever truncation and the mistral merge do to it, and never twice.    *)
ReminderShown ==
  phase = "llm" =>
    /\ (BudgetThreshold >= 0 /\ round = BudgetThreshold)
         => \E i \in DOMAIN Request : Request[i].reminder
    /\ \A i, k \in DOMAIN messages :
         messages[i].reminder /\ messages[k].reminder => i = k

(* The conversation saved with the result is never shortened or rewritten: *)
(* truncation works on a copy, and only the budget reminder may be added   *)
(* to the last message.                                                    *)
HistoryKept ==
  [][/\ Len(messages') >= Len(messages)
     /\ \A i \in DOMAIN messages :
          messages'[i] = messages[i] \/
          /\ i = Len(messages)
          /\ messages'[i] = [messages[i] EXCEPT !.reminder = TRUE]]_messages

(* The episode ends.                                                       *)
Terminates == <>(phase \in {"finished", "failed"})

(* Seen from outside: rounds, and how it ended.                            *)
Status ==
  IF phase = "finished" THEN IF stop = "submitted" THEN "submitted"
                                                   ELSE "exhausted"
  ELSE IF phase = "failed" THEN "failed" ELSE "running"

RoundsDone == IF stop = "submitted" THEN round + 1 ELSE round

Abstract == INSTANCE Episode WITH status <- Status, rounds <- RoundsDone

(* The loop implements the bounded episode its callers rely on.            *)
ImplementsEpisode == Abstract!Spec

=============================================================================
