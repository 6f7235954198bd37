-------------------------- MODULE AgentEpisodeProofs --------------------------
(* Proofs about AgentEpisode, for any round, call and retry limits.        *)
EXTENDS AgentEpisode, FiniteSetTheorems, SequenceTheorems, TLAPS

(* The part of the loop's state its callers see, with what ties it         *)
(* together: a round in progress is within the budget, and a reason to     *)
(* stop is set exactly when the loop has ended.                            *)
ControlInv ==
  /\ phase \in {"round", "llm", "tools", "finished", "failed"}
  /\ round \in 0 .. MaxRound
  /\ phase \in {"llm", "tools", "failed"} => round < MaxRound
  /\ stop \in {"none", "submitted", "max_round"}
  /\ stop = "none" <=> phase # "finished"
  /\ stop = "submitted" => round < MaxRound

LEMMA InitControl == Init => ControlInv
  BY ConstantsAssumption DEF Init, ControlInv

LEMMA NextControl == ControlInv /\ [Next]_vars => ControlInv'
<1> SUFFICES ASSUME ControlInv, [Next]_vars PROVE ControlInv'
  OBVIOUS
<1> USE ConstantsAssumption DEF ControlInv
<1>1. CASE BeginRound
  BY <1>1 DEF BeginRound
<1>2. CASE RunOutOfRounds
  BY <1>2 DEF RunOutOfRounds
<1>3. CASE ModelReplies
  BY <1>3 DEF ModelReplies
<1>4. CASE ModelTransient
  BY <1>4 DEF ModelTransient
<1>5. CASE ModelError
  BY <1>5 DEF ModelError
<1>6. ASSUME NEW i \in DOMAIN calls, AttemptEnds(i) PROVE ControlInv'
  BY <1>6 DEF AttemptEnds
<1>7. CASE RaiseFatal
  BY <1>7 DEF RaiseFatal, AllEnded
<1>8. CASE HandleResults
  BY <1>8 DEF HandleResults, AllEnded, FinishWith, ContinueAfterTools
<1>9. CASE UNCHANGED vars
  BY <1>9 DEF vars
<1>. QED
  BY <1>1, <1>2, <1>3, <1>4, <1>5, <1>6, <1>7, <1>8, <1>9 DEF Next

LEMMA ControlCorrect == Spec => []ControlInv
  BY InitControl, NextControl, PTL DEF Spec

LEMMA InitMaps == Init => Abstract!Init
  BY DEF Init, Abstract!Init, Status, RoundsDone

(* Every step is a step of the abstract episode or changes nothing of it.  *)
LEMMA NextMaps ==
  ControlInv /\ [Next]_vars => [Abstract!Next]_<<Status, RoundsDone>>
<1> SUFFICES ASSUME ControlInv, [Next]_vars
             PROVE  Abstract!Next \/ UNCHANGED <<Status, RoundsDone>>
  OBVIOUS
<1> USE ConstantsAssumption DEF ControlInv, Status, RoundsDone
<1>1. CASE BeginRound
  BY <1>1 DEF BeginRound
<1>2. CASE RunOutOfRounds
  BY <1>2 DEF RunOutOfRounds, Abstract!Next, Abstract!Exhaust
<1>3. CASE ModelReplies
  BY <1>3 DEF ModelReplies, Abstract!Next, Abstract!Round
<1>4. CASE ModelTransient
  BY <1>4 DEF ModelTransient, Abstract!Next, Abstract!Fail
<1>5. CASE ModelError
  BY <1>5 DEF ModelError, Abstract!Next, Abstract!Fail
<1>6. ASSUME NEW i \in DOMAIN calls, AttemptEnds(i)
      PROVE  UNCHANGED <<Status, RoundsDone>>
  BY <1>6 DEF AttemptEnds
<1>7. CASE RaiseFatal
  BY <1>7 DEF RaiseFatal, AllEnded, Abstract!Next, Abstract!Fail
<1>8. CASE HandleResults
  BY <1>8 DEF HandleResults, AllEnded, FinishWith, ContinueAfterTools,
              Abstract!Next, Abstract!Round
<1>9. CASE UNCHANGED vars
  BY <1>9 DEF vars
<1>. QED
  BY <1>1, <1>2, <1>3, <1>4, <1>5, <1>6, <1>7, <1>8, <1>9 DEF Next

(* For any limits, any replies and any failures, the agent loop implements *)
(* the bounded episode its callers rely on: at most MaxRound rounds, one   *)
(* way to end, and nothing after it.                                       *)
THEOREM EpisodeRefined == Spec => ImplementsEpisode
  BY InitMaps, NextMaps, ControlCorrect, PTL
  DEF Spec, ImplementsEpisode, Abstract!Spec

-----------------------------------------------------------------------------
(* Typing.                                                                 *)

LEMMA MsgTyped ==
  ASSUME NEW role \in {"system", "user", "assistant", "tool"},
         NEW text \in Texts, NEW cs \in Seq(CallKinds)
  PROVE  /\ Msg(role, text, cs) \in Messages
         /\ Msg(role, text, cs).role = role
         /\ Msg(role, text, cs).text = text
         /\ Msg(role, text, cs).calls = cs
         /\ Msg(role, text, cs).reminder = FALSE
  BY DEF Msg, Messages

LEMMA ReminderTyped ==
  /\ ReminderMsg \in Messages
  /\ ReminderMsg.role = "user" /\ ReminderMsg.calls = <<>>
  /\ ReminderMsg.text = "reminder" /\ ReminderMsg.reminder = TRUE
<1>1. <<>> \in Seq(CallKinds) /\ "reminder" \in Texts
  BY EmptySeq DEF Texts
<1> QED
  BY <1>1 DEF ReminderMsg, Msg, Messages

(* The calls that are executed are calls, and legal ones.                  *)
LEMMA LegalTyped ==
  ASSUME NEW reply \in Replies, NEW legal \in LegalCalls(reply)
  PROVE  /\ legal \in Seq(CallKinds)
         /\ \A k \in DOMAIN legal : IsLegal(legal[k])
<1> DEFINE n == IF Len(reply) < MaxCalls THEN Len(reply) ELSE MaxCalls
           S == {k \in DOMAIN Capped(reply) : IsLegal(Capped(reply)[k])}
<1>1. reply \in Seq(CallKinds) /\ n \in 0 .. Len(reply)
  BY ConstantsAssumption, LenProperties
<1>2. Capped(reply) \in Seq(CallKinds) /\ Len(Capped(reply)) \in Nat
  <2>1. \A i \in 1 .. n : reply[i] \in CallKinds
    BY <1>1, ElementOfSeq
  <2>2. SubSeq(reply, 1, n) \in Seq(CallKinds)
    BY <1>1, <2>1, SubSeqProperties
  <2> QED
    BY <2>2, LenProperties DEF Capped
<1>3. S \subseteq 1 .. Len(Capped(reply))
  BY <1>2, LenProperties
<1>4. Cardinality(S) \in Nat
  <2>1. IsFiniteSet(1 .. Len(Capped(reply)))
    BY <1>2, FS_Interval
  <2>2. IsFiniteSet(S)
    BY <1>3, <2>1, FS_Subset
  <2> QED
    BY <2>2, FS_CardinalityType
<1>5. PICK order \in [1 .. Cardinality(S) -> S] :
        legal = [k \in DOMAIN order |-> Capped(reply)[order[k]]]
  BY DEF LegalCalls, InOrder
<1>6. legal \in [1 .. Cardinality(S) -> CallKinds]
  BY <1>2, <1>3, <1>5, ElementOfSeq
<1>7. \A k \in DOMAIN legal : IsLegal(legal[k])
  BY <1>5
<1> QED
  BY <1>4, <1>6, <1>7

LEMMA ToolMessagesTyped ==
  ASSUME TypeOK, AllEnded, NEW n \in 0 .. Len(calls)
  PROVE  /\ ToolMessages(n) \in Seq(Messages)
         /\ Len(ToolMessages(n)) = n
         /\ \A i \in 1 .. n : /\ ToolMessages(n)[i] = Msg("tool", result[i], <<>>)
                              /\ result[i] \in Texts
<1>1. \A i \in 1 .. n : i \in DOMAIN calls /\ result[i] \in Texts
  BY LenProperties DEF TypeOK, AllEnded
<1>2. \A i \in 1 .. n : Msg("tool", result[i], <<>>) \in Messages
  BY <1>1, MsgTyped, EmptySeq
<1>3. ToolMessages(n) \in [1 .. n -> Messages]
  BY <1>2 DEF ToolMessages
<1>4. n \in Nat
  BY LenProperties DEF TypeOK
<1> QED
  BY <1>1, <1>3, <1>4 DEF ToolMessages

-----------------------------------------------------------------------------
(* What each step does to the conversation.                                *)

Kept(m, n) == \A i \in 1 .. Len(m) : n[i] = m[i]

(* The reminder is merged into the last message or put behind it.          *)
Merged(m, n) ==
  /\ mistral /\ Len(m) >= 1 /\ m[Len(m)].role = "tool"
  /\ Len(n) = Len(m)
  /\ \A i \in 1 .. Len(m) :
       n[i] = IF i = Len(m) THEN [m[i] EXCEPT !.reminder = TRUE] ELSE m[i]

Behind(m, n) ==
  /\ ~(mistral /\ Len(m) >= 1 /\ m[Len(m)].role = "tool")
  /\ Len(n) = Len(m) + 1
  /\ Kept(m, n)
  /\ n[Len(n)] = ReminderMsg

LEMMA BeginEffect ==
  ASSUME TypeOK, BeginRound
  PROVE  /\ messages' \in Seq(Messages)
         /\ \/ messages' = messages /\ reminded' = reminded
               /\ ~(BudgetThreshold >= 0 /\ round >= BudgetThreshold /\ ~reminded)
            \/ /\ Merged(messages, messages') \/ Behind(messages, messages')
               /\ reminded' /\ ~reminded
               /\ BudgetThreshold >= 0 /\ round >= BudgetThreshold
<1>0. messages \in Seq(Messages) /\ Len(messages) \in Nat
  BY LenProperties DEF TypeOK
<1>1. CASE BudgetThreshold >= 0 /\ round >= BudgetThreshold /\ ~reminded
  <2>1. messages' = WithReminder(messages) /\ reminded'
    BY <1>1 DEF BeginRound
  <2>2. CASE mistral /\ messages # <<>> /\ messages[Len(messages)].role = "tool"
    <3>1. Len(messages) \in 1 .. Len(messages)
      BY <1>0, <2>2, EmptySeq
    <3> DEFINE last == messages[Len(messages)]
               e == [last EXCEPT !.reminder = TRUE]
    <3>a. last \in Messages
      BY <1>0, <3>1, ElementOfSeq
    <3>2. e \in Messages
      BY <3>a DEF Messages
    <3>3. messages' = [messages EXCEPT ![Len(messages)] = e]
      BY <2>1, <2>2 DEF WithReminder
    <3> HIDE DEF e
    <3>b. /\ messages' \in Seq(Messages)
          /\ Len(messages') = Len(messages)
          /\ \A i \in 1 .. Len(messages) :
               messages'[i] = IF i = Len(messages) THEN e ELSE messages[i]
      BY <1>0, <3>1, <3>2, <3>3, ExceptSeq
    <3>4. Merged(messages, messages')
      <4>1. Len(messages) >= 1
        BY <1>0, <3>1
      <4>2. \A i \in 1 .. Len(messages) : messages'[i] =
              IF i = Len(messages) THEN [messages[i] EXCEPT !.reminder = TRUE]
                                   ELSE messages[i]
        BY <3>b DEF e
      <4> QED
        BY <2>2, <3>b, <4>1, <4>2, Zenon DEF Merged
    <3> QED
      BY <1>1, <2>1, <3>b, <3>4
  <2>3. CASE ~(mistral /\ messages # <<>> /\ messages[Len(messages)].role = "tool")
    <3>1. messages' = Append(messages, ReminderMsg)
      BY <2>1, <2>3 DEF WithReminder
    <3>2. ~(mistral /\ Len(messages) >= 1 /\ messages[Len(messages)].role = "tool")
      BY <2>3, EmptySeq
    <3>3. messages' \in Seq(Messages) /\ Behind(messages, messages')
      BY <1>0, <3>1, <3>2, ReminderTyped DEF Behind, Kept
    <3> QED
      BY <1>1, <2>1, <3>3
  <2> QED
    BY <2>2, <2>3
<1>2. CASE ~(BudgetThreshold >= 0 /\ round >= BudgetThreshold /\ ~reminded)
  BY <1>0, <1>2 DEF BeginRound, TypeOK
<1> QED
  BY <1>1, <1>2

LEMMA RepliesEffect ==
  ASSUME TypeOK, ModelReplies
  PROVE  /\ messages' \in Seq(Messages)
         /\ Kept(messages, messages')
         /\ \E legal \in Seq(CallKinds) :
              /\ \A k \in DOMAIN legal : IsLegal(legal[k])
              /\ messages'[Len(messages) + 1] = Msg("assistant", "reply", legal)
              /\ \/ /\ legal = <<>>
                    /\ Len(messages') = Len(messages) + 2
                    /\ messages'[Len(messages) + 2] = Msg("user", "nudge", <<>>)
                    /\ phase' = "round" /\ round' = round + 1
                    /\ UNCHANGED <<calls, attempts, result>>
                 \/ /\ Len(messages') = Len(messages) + 1
                    /\ phase' = "tools" /\ calls' = legal
                    /\ attempts' = [i \in DOMAIN legal |-> 0]
                    /\ result' = [i \in DOMAIN legal |-> "pending"]
                    /\ UNCHANGED round
<1>0. messages \in Seq(Messages) /\ Len(messages) \in Nat
  BY LenProperties DEF TypeOK
<1> DEFINE WithReply(legal) == Append(messages, Msg("assistant", "reply", legal))
<1>1. PICK reply \in Replies : \E legal \in LegalCalls(reply) :
        \/ /\ legal = <<>>
           /\ messages' = Append(WithReply(legal), Msg("user", "nudge", <<>>))
           /\ phase' = "round" /\ round' = round + 1
           /\ UNCHANGED <<calls, attempts, result>>
        \/ /\ messages' = WithReply(legal)
           /\ phase' = "tools" /\ calls' = legal
           /\ attempts' = [i \in DOMAIN legal |-> 0]
           /\ result' = [i \in DOMAIN legal |-> "pending"]
           /\ UNCHANGED round
  BY DEF ModelReplies
<1>2. PICK legal \in LegalCalls(reply) :
        \/ /\ legal = <<>>
           /\ messages' = Append(WithReply(legal), Msg("user", "nudge", <<>>))
           /\ phase' = "round" /\ round' = round + 1
           /\ UNCHANGED <<calls, attempts, result>>
        \/ /\ messages' = WithReply(legal)
           /\ phase' = "tools" /\ calls' = legal
           /\ attempts' = [i \in DOMAIN legal |-> 0]
           /\ result' = [i \in DOMAIN legal |-> "pending"]
           /\ UNCHANGED round
  BY <1>1
<1>3. legal \in Seq(CallKinds) /\ \A k \in DOMAIN legal : IsLegal(legal[k])
  BY LegalTyped
<1>4. Msg("assistant", "reply", legal) \in Messages
  BY <1>3, MsgTyped DEF Texts
<1>5. Msg("user", "nudge", <<>>) \in Messages
  BY EmptySeq, MsgTyped DEF Texts
<1>6. /\ WithReply(legal) \in Seq(Messages)
      /\ Len(WithReply(legal)) = Len(messages) + 1
      /\ Kept(messages, WithReply(legal))
      /\ WithReply(legal)[Len(messages) + 1] = Msg("assistant", "reply", legal)
  BY <1>0, <1>4, AppendProperties DEF Kept
<1> HIDE DEF WithReply
<1>7. CASE messages' = WithReply(legal)
  BY <1>2, <1>3, <1>6, <1>7
<1>8. CASE messages' = Append(WithReply(legal), Msg("user", "nudge", <<>>))
  <2>1. /\ messages' \in Seq(Messages)
        /\ Len(messages') = Len(messages) + 2
        /\ messages'[Len(messages) + 2] = Msg("user", "nudge", <<>>)
        /\ \A i \in 1 .. Len(messages) + 1 : messages'[i] = WithReply(legal)[i]
    <3>1. Len(WithReply(legal)) + 1 = Len(messages) + 2
      BY <1>0, <1>6
    <3> QED
      BY <1>5, <1>6, <1>8, <3>1, AppendProperties
  <2>2. Kept(messages, messages')
    BY <1>0, <1>6, <2>1 DEF Kept
  <2>3. messages'[Len(messages) + 1] = Msg("assistant", "reply", legal)
    BY <1>0, <1>6, <2>1
  <2>4. Len(messages') # Len(WithReply(legal))
    BY <1>0, <1>6, <2>1
  <2> QED
    BY <1>2, <1>3, <2>1, <2>2, <2>3, <2>4
<1> QED
  BY <1>2, <1>7, <1>8

(* The first n results stand behind the conversation.                      *)
Answers(n) ==
  /\ messages' \in Seq(Messages)
  /\ Len(messages') = Len(messages) + n
  /\ Kept(messages, messages')
  /\ \A k \in 1 .. n : /\ messages'[Len(messages) + k] = Msg("tool", result[k], <<>>)
                       /\ result[k] \in Texts \ ListedErrors

LEMMA AnswersEffect ==
  ASSUME TypeOK, AllEnded, \A i \in DOMAIN calls : ~IsFatal(result[i]),
         NEW n \in 0 .. Len(calls),
         messages' = messages \o ToolMessages(n)
  PROVE  Answers(n)
<1>0. messages \in Seq(Messages) /\ Len(messages) \in Nat /\ n \in Nat
      /\ DOMAIN calls = 1 .. Len(calls) /\ Len(calls) \in Nat
  BY LenProperties DEF TypeOK
<1>1. /\ ToolMessages(n) \in Seq(Messages)
      /\ Len(ToolMessages(n)) = n
      /\ \A i \in 1 .. n : /\ ToolMessages(n)[i] = Msg("tool", result[i], <<>>)
                           /\ result[i] \in Texts
  BY ToolMessagesTyped
<1>2. /\ messages' \in Seq(Messages)
      /\ Len(messages') = Len(messages) + n
      /\ \A i \in 1 .. Len(messages) + n : messages'[i] =
           IF i <= Len(messages) THEN messages[i]
                                 ELSE ToolMessages(n)[i - Len(messages)]
  BY <1>0, <1>1, ConcatProperties
<1>3. Kept(messages, messages')
  BY <1>0, <1>2 DEF Kept
<1>4. ASSUME NEW k \in 1 .. n
      PROVE  /\ messages'[Len(messages) + k] = Msg("tool", result[k], <<>>)
             /\ result[k] \in Texts \ ListedErrors
  <2>1. Len(messages) + k \in 1 .. Len(messages) + n
        /\ ~(Len(messages) + k <= Len(messages))
        /\ (Len(messages) + k) - Len(messages) = k
    BY <1>0
  <2>2. messages'[Len(messages) + k] = ToolMessages(n)[k]
    BY <1>2, <2>1
  <2>3. k \in DOMAIN calls
    BY <1>0
  <2> QED
    BY <1>1, <2>2, <2>3 DEF IsFatal
<1> QED
  BY <1>2, <1>3, <1>4 DEF Answers

LEMMA HandleEffect ==
  ASSUME TypeOK, HandleResults
  PROVE  \/ /\ Answers(Len(calls)) /\ Accepted = {}
            /\ phase' = "round" /\ round' = round + 1
            /\ UNCHANGED <<answer, stop>>
         \/ /\ phase' = "finished" /\ stop' = "submitted" /\ UNCHANGED round
            /\ \E i \in DOMAIN calls :
                 /\ i \in Accepted /\ \A k \in Accepted : i <= k
                 /\ Answers(i) /\ answer' = <<round, i>>
<1>0. DOMAIN calls = 1 .. Len(calls) /\ Len(calls) \in Nat
  BY LenProperties DEF TypeOK
<1>1. AllEnded /\ \A i \in DOMAIN calls : ~IsFatal(result[i])
  BY DEF HandleResults
<1>a. ASSUME NEW n \in 0 .. Len(calls), messages' = messages \o ToolMessages(n)
      PROVE  Answers(n)
  BY <1>1, <1>a, AnswersEffect
<1>2. CASE ContinueAfterTools
  <2>1. Len(calls) \in 0 .. Len(calls)
    BY <1>0
  <2>2. Answers(Len(calls))
    BY <1>2, <1>a, <2>1 DEF ContinueAfterTools
  <2> QED
    BY <1>2, <2>2 DEF ContinueAfterTools
<1>3. ASSUME NEW i \in DOMAIN calls, FinishWith(i)
      PROVE  Answers(i)
  <2>1. i \in 0 .. Len(calls)
    BY <1>0
  <2> QED
    BY <1>3, <1>a, <2>1 DEF FinishWith
<1> QED
  BY <1>2, <1>3 DEF HandleResults, FinishWith

-----------------------------------------------------------------------------
(* A submission is accepted only when the episode ends.                    *)
TypeInv == TypeOK /\ ControlInv /\ (answer # <<>> => phase = "finished")

LEMMA InitTyped == Init => TypeInv
<1> SUFFICES ASSUME Init PROVE TypeInv
  OBVIOUS
<1>1. Msg("system", "system", <<>>) \in Messages
  BY EmptySeq, MsgTyped DEF Texts
<1>2. Msg("user", "question", <<>>) \in Messages
  BY EmptySeq, MsgTyped DEF Texts
<1>3. messages \in Seq(Messages)
  BY <1>1, <1>2 DEF Init
<1>4. calls \in Seq(CallKinds) /\ DOMAIN calls = {}
  BY EmptySeq DEF Init
<1>5. attempts \in [{} -> 0 .. MaxRetries] /\ result \in [{} -> Texts \cup {"pending"}]
  BY DEF Init
<1> QED
  <2>1. TypeOK
    <3>1. /\ attempts \in [DOMAIN calls -> 0 .. MaxRetries]
          /\ result \in [DOMAIN calls -> Texts \cup {"pending"}]
      BY <1>4, <1>5
    <3>2. round \in 0 .. MaxRound /\ tries \in 0 .. MaxRetries
      BY ConstantsAssumption DEF Init
    <3>3. answer \in {<<>>} \cup (0 .. MaxRound) \X DOMAIN calls
      BY DEF Init
    <3>4. /\ phase \in {"round", "llm", "tools", "finished", "failed"}
          /\ stop \in {"none", "submitted", "max_round"}
          /\ reminded \in BOOLEAN /\ mistral \in BOOLEAN
      BY DEF Init
    <3> QED
      BY <1>3, <1>4, <3>1, <3>2, <3>3, <3>4 DEF TypeOK
  <2> QED
    BY <2>1, InitControl DEF Init, TypeInv

LEMMA NextTyped == TypeInv /\ [Next]_vars => TypeInv'
<1> SUFFICES ASSUME TypeInv, [Next]_vars PROVE TypeInv'
  OBVIOUS
<1>0. ControlInv' /\ TypeOK /\ ControlInv
  BY NextControl DEF TypeInv
<1> USE ConstantsAssumption DEF TypeInv
<1>1. CASE BeginRound
  <2>1. messages' \in Seq(Messages) /\ reminded' \in BOOLEAN
    BY <1>0, <1>1, BeginEffect DEF TypeOK
  <2> QED
    BY <1>0, <1>1, <2>1 DEF BeginRound, TypeOK
<1>2. CASE RunOutOfRounds
  BY <1>0, <1>2 DEF RunOutOfRounds, TypeOK
<1>3. CASE ModelReplies
  <2>1. phase = "llm" /\ answer = <<>> /\ phase' \in {"round", "tools"}
        /\ UNCHANGED <<mistral, reminded, tries, answer, stop>>
    BY <1>3 DEF ModelReplies
  <2>2. messages' \in Seq(Messages)
    BY <1>0, <1>3, RepliesEffect
  <2>3. /\ calls' \in Seq(CallKinds)
        /\ attempts' \in [DOMAIN calls' -> 0 .. MaxRetries]
        /\ result' \in [DOMAIN calls' -> Texts \cup {"pending"}]
    <3>1. CASE UNCHANGED <<calls, attempts, result>>
      BY <1>0, <3>1 DEF TypeOK
    <3>2. CASE ~UNCHANGED <<calls, attempts, result>>
      <4>1. /\ calls' \in Seq(CallKinds)
            /\ attempts' = [i \in DOMAIN calls' |-> 0]
            /\ result' = [i \in DOMAIN calls' |-> "pending"]
        BY <1>0, <1>3, <3>2, RepliesEffect
      <4> QED
        BY <4>1
    <3> QED
      BY <3>1, <3>2
  <2> QED
    BY <1>0, <2>1, <2>2, <2>3 DEF TypeOK, ControlInv
<1>4. CASE ModelTransient
  BY <1>0, <1>4 DEF ModelTransient, TypeOK
<1>5. CASE ModelError
  BY <1>0, <1>5 DEF ModelError, TypeOK
<1>6. ASSUME NEW i \in DOMAIN calls, AttemptEnds(i) PROVE TypeInv'
  <2>1. EndsOf(calls[i]) \subseteq Texts
    <3>1. calls[i] \in CallKinds
      BY <1>0, LenProperties, ElementOfSeq DEF TypeOK
    <3> QED
      BY <3>1 DEF EndsOf, Texts, CallKinds
  <2>2. PICK e \in EndsOf(calls[i]) :
          IF IsRetryable(e) /\ attempts[i] < MaxRetries
          THEN attempts' = [attempts EXCEPT ![i] = @ + 1] /\ UNCHANGED result
          ELSE result' = [result EXCEPT ![i] = e] /\ UNCHANGED attempts
    BY <1>6 DEF AttemptEnds
  <2>3. attempts[i] \in 0 .. MaxRetries /\ e \in Texts
    BY <1>0, <2>1 DEF TypeOK
  <2>4. attempts' \in [DOMAIN calls -> 0 .. MaxRetries]
    BY <1>0, <2>2, <2>3 DEF TypeOK
  <2>5. result' \in [DOMAIN calls -> Texts \cup {"pending"}]
    BY <1>0, <2>2, <2>3 DEF TypeOK
  <2> QED
    BY <1>0, <1>6, <2>4, <2>5 DEF AttemptEnds, TypeOK
<1>7. CASE RaiseFatal
  BY <1>0, <1>7 DEF RaiseFatal, AllEnded, TypeOK
<1>8. CASE HandleResults
  <2>1. messages' \in Seq(Messages)
    BY <1>0, <1>8, HandleEffect DEF Answers
  <2>2. UNCHANGED <<mistral, reminded, tries, calls, attempts, result>>
        /\ phase = "tools" /\ answer = <<>>
    BY <1>8 DEF HandleResults, AllEnded
  <2>3. \/ answer' = <<>>
        \/ answer' \in (0 .. MaxRound) \X DOMAIN calls /\ phase' = "finished"
    BY <1>0, <1>8, <2>2, HandleEffect DEF TypeOK
  <2> QED
    BY <1>0, <2>1, <2>2, <2>3 DEF TypeOK, ControlInv
<1>9. CASE UNCHANGED vars
  BY <1>0, <1>9 DEF vars, TypeOK
<1>. QED
  BY <1>1, <1>2, <1>3, <1>4, <1>5, <1>6, <1>7, <1>8, <1>9 DEF Next

LEMMA TypeInvariance == Spec => []TypeInv
  BY InitTyped, NextTyped, PTL DEF Spec

(* Type correctness: rounds and retries stay within their limits, and the  *)
(* conversation is a sequence of messages.                                 *)
THEOREM TypeCorrect == Spec => []TypeOK
<1>1. TypeInv => TypeOK
  BY DEF TypeInv
<1>. QED
  BY <1>1, TypeInvariance, PTL

-----------------------------------------------------------------------------
(* What messages say.                                                      *)

LEMMA Domain ==
  ASSUME TypeInv
  PROVE  /\ messages \in Seq(Messages) /\ Len(messages) \in Nat
         /\ DOMAIN messages = 1 .. Len(messages)
         /\ calls \in Seq(CallKinds) /\ Len(calls) \in Nat
         /\ DOMAIN calls = 1 .. Len(calls)
  BY LenProperties DEF TypeInv, TypeOK

LEMMA MergedFields ==
  ASSUME TypeInv, Merged(messages, messages')
  PROVE  \A i \in 1 .. Len(messages) :
           /\ messages'[i].role = messages[i].role
           /\ messages'[i].text = messages[i].text
           /\ messages'[i].calls = messages[i].calls
           /\ i = Len(messages) => messages'[i].reminder = TRUE
           /\ i # Len(messages) => messages'[i] = messages[i]
<1> SUFFICES ASSUME NEW i \in 1 .. Len(messages)
             PROVE  /\ messages'[i].role = messages[i].role
                    /\ messages'[i].text = messages[i].text
                    /\ messages'[i].calls = messages[i].calls
                    /\ i = Len(messages) => messages'[i].reminder = TRUE
                    /\ i # Len(messages) => messages'[i] = messages[i]
  OBVIOUS
<1>1. messages[i] \in Messages
  BY ElementOfSeq DEF TypeInv, TypeOK
<1>2. messages'[i] = IF i = Len(messages)
                     THEN [messages[i] EXCEPT !.reminder = TRUE] ELSE messages[i]
  BY DEF Merged
<1> QED
  BY <1>1, <1>2 DEF Messages

(* Steps that leave the conversation alone.                                *)
Silent ==
  \/ RunOutOfRounds \/ ModelTransient \/ ModelError \/ RaiseFatal
  \/ \E i \in DOMAIN calls : AttemptEnds(i)

LEMMA SilentEffect ==
  ASSUME TypeInv, Silent
  PROVE  /\ UNCHANGED <<mistral, messages, reminded, calls, answer, round>>
         /\ phase # "finished"
         /\ \/ phase' = phase /\ (phase = "tools" => UNCHANGED calls)
            \/ phase' \in {"finished", "failed"}
  BY DEF Silent, RunOutOfRounds, ModelTransient, ModelError, RaiseFatal,
         AllEnded, AttemptEnds

LEMMA NextSplit ==
  [Next]_vars => BeginRound \/ ModelReplies \/ HandleResults \/ Silent
                 \/ UNCHANGED vars
  BY DEF Next, Silent

(* No message is about a listed failure or, until the end, an accepted     *)
(* submission.                                                             *)
Plain(m, n) == \A i \in 1 .. n : m[i].text \notin ListedErrors \cup {"accepted"}
NoneObserved == \A i \in DOMAIN messages : messages[i].text \notin ListedErrors

TextInv ==
  /\ phase # "finished" => Plain(messages, Len(messages))
  /\ NoneObserved
  /\ AcceptedIsFinal

LEMMA PlainFacts ==
  ASSUME TypeInv, Plain(messages, Len(messages))
  PROVE  TextInv
  BY Domain DEF Plain, TextInv, NoneObserved, AcceptedIsFinal

LEMMA NextText == TypeInv /\ TypeInv' /\ TextInv /\ [Next]_vars => TextInv'
<1> SUFFICES ASSUME TypeInv, TypeInv', TextInv, [Next]_vars PROVE TextInv'
  OBVIOUS
<1> DEFINE PlainAfter == Plain(messages', Len(messages'))
<1>0. TypeOK /\ Len(messages) \in Nat /\ Len(messages') \in Nat
  BY Domain DEF TypeInv
<1>a. PlainAfter => TextInv'
  <2>1. DOMAIN messages' = 1 .. Len(messages')
    BY LenProperties DEF TypeInv, TypeOK
  <2> QED
    BY <2>1 DEF Plain, TextInv, NoneObserved, AcceptedIsFinal
<1>1. CASE BeginRound
  <2>1. Plain(messages, Len(messages))
    BY <1>1 DEF BeginRound, TextInv
  <2>2. ReminderMsg.text \notin ListedErrors \cup {"accepted"}
    BY ReminderTyped DEF ListedErrors
  <2>3. CASE messages' = messages
    BY <1>a, <2>1, <2>3
  <2>4. CASE Merged(messages, messages')
    <3>1. Len(messages') = Len(messages)
      BY <2>4 DEF Merged
    <3>2. \A i \in 1 .. Len(messages) : messages'[i].text = messages[i].text
      BY <2>4, MergedFields
    <3> QED
      BY <1>a, <2>1, <3>1, <3>2 DEF Plain
  <2>5. CASE Behind(messages, messages')
    BY <1>0, <1>a, <2>1, <2>2, <2>5 DEF Plain, Behind, Kept
  <2> QED
    BY <1>0, <1>1, <2>3, <2>4, <2>5, BeginEffect
<1>2. CASE ModelReplies
  <2>1. Plain(messages, Len(messages))
    BY <1>2 DEF ModelReplies, TextInv
  <2>2. PICK legal \in Seq(CallKinds) :
          /\ messages'[Len(messages) + 1] = Msg("assistant", "reply", legal)
          /\ \/ /\ Len(messages') = Len(messages) + 2
                /\ messages'[Len(messages) + 2] = Msg("user", "nudge", <<>>)
             \/ Len(messages') = Len(messages) + 1
    BY <1>0, <1>2, RepliesEffect
  <2>3. Kept(messages, messages')
    BY <1>0, <1>2, RepliesEffect
  <2>4. /\ Msg("assistant", "reply", legal).text = "reply"
        /\ Msg("user", "nudge", <<>>).text = "nudge"
    BY DEF Msg
  <2>5. ASSUME NEW i \in 1 .. Len(messages')
        PROVE  messages'[i].text \notin ListedErrors \cup {"accepted"}
    <3>1. i \in 1 .. Len(messages) \/ i = Len(messages) + 1
          \/ (i = Len(messages) + 2 /\ Len(messages') = Len(messages) + 2)
      BY <1>0, <2>2
    <3> QED
      BY <1>0, <2>1, <2>2, <2>3, <2>4, <3>1 DEF Plain, Kept, ListedErrors
  <2> QED
    BY <1>a, <2>5 DEF Plain
<1>3. CASE HandleResults
  <2>1. Plain(messages, Len(messages))
    BY <1>3 DEF HandleResults, AllEnded, TextInv
  <2>2. ASSUME NEW n \in 0 .. Len(calls), Answers(n),
               NEW i \in 1 .. Len(messages')
        PROVE  /\ messages'[i].text \notin ListedErrors
               /\ messages'[i].text = "accepted" =>
                    \E k \in 1 .. n : i = Len(messages) + k /\ result[k] = "accepted"
    <3>0. n \in Nat
      BY Domain
    <3>1. CASE i \in 1 .. Len(messages)
      BY <2>1, <2>2, <3>1 DEF Answers, Kept, Plain
    <3>2. CASE i \notin 1 .. Len(messages)
      <4>1. PICK k \in 1 .. n : i = Len(messages) + k
        <5>1. i - Len(messages) \in 1 .. n /\ i = Len(messages) + (i - Len(messages))
          BY <1>0, <2>2, <3>0, <3>2 DEF Answers
        <5> QED
          BY <5>1
      <4>2. messages'[i].text = result[k] /\ result[k] \notin ListedErrors
        <5>1. messages'[i] = Msg("tool", result[k], <<>>)
              /\ result[k] \in Texts \ ListedErrors
          BY <2>2, <4>1 DEF Answers
        <5>2. messages'[i].text = result[k]
          BY <5>1 DEF Msg
        <5> QED
          BY <5>1, <5>2
      <4> QED
        BY <4>1, <4>2
    <3> QED
      BY <3>1, <3>2
  <2>3. CASE Answers(Len(calls)) /\ Accepted = {}
    <3>1. Len(calls) \in 0 .. Len(calls) /\ DOMAIN calls = 1 .. Len(calls)
      BY Domain
    <3>2. \A k \in 1 .. Len(calls) : result[k] # "accepted"
      BY <2>3, <3>1 DEF Accepted
    <3>3. PlainAfter
      BY <2>2, <2>3, <3>1, <3>2 DEF Plain
    <3> QED
      BY <1>a, <3>3
  <2>4. ASSUME NEW n \in DOMAIN calls, n \in Accepted, \A k \in Accepted : n <= k,
               Answers(n), answer' = <<round, n>>,
               phase' = "finished", stop' = "submitted", round' = round
        PROVE  TextInv'
    <3>1. n \in 0 .. Len(calls) /\ n \in Nat /\ DOMAIN calls = 1 .. Len(calls)
          /\ Len(calls) \in Nat
      BY Domain
    <3>2. DOMAIN messages' = 1 .. Len(messages') /\ Len(messages') = Len(messages) + n
      BY <2>4, LenProperties DEF TypeInv, TypeOK, Answers
    <3>3. \A k \in 1 .. n : result[k] = "accepted" => k = n
      BY <2>4, <3>1 DEF Accepted
    <3>4. NoneObserved'
      BY <2>2, <2>4, <3>1, <3>2 DEF NoneObserved
    <3>5. \A i \in 1 .. Len(messages') :
            messages'[i].text = "accepted" => i = Len(messages')
      BY <2>2, <2>4, <3>1, <3>2, <3>3
    <3>6. AcceptedIsFinal'
      BY <2>4, <3>2, <3>5 DEF AcceptedIsFinal
    <3> QED
      BY <2>4, <3>4, <3>6 DEF TextInv
  <2> QED
    BY <1>0, <1>3, <2>3, <2>4, HandleEffect
<1>4. CASE Silent
  <2>1. Plain(messages, Len(messages)) /\ UNCHANGED messages
    BY <1>4, SilentEffect DEF TextInv
  <2> QED
    BY <1>a, <2>1
<1>5. CASE UNCHANGED vars
  BY <1>5 DEF vars, TextInv, Plain, NoneObserved, AcceptedIsFinal
<1> QED
  BY <1>1, <1>2, <1>3, <1>4, <1>5, NextSplit

LEMMA TextInvariance == Spec => []TextInv
<1>1. Init => TextInv
  <2> SUFFICES ASSUME Init PROVE TextInv
    OBVIOUS
  <2>1. Plain(messages, Len(messages))
    BY DEF Init, Plain, Msg, ListedErrors
  <2> QED
    BY <2>1, InitTyped, PlainFacts
<1>. QED
  BY <1>1, NextText, TypeInvariance, PTL DEF Spec

(* An accepted submission is the last message and ends the episode,        *)
(* whatever the calls next to it return.                                   *)
THEOREM SubmissionsAreFinal == Spec => []AcceptedIsFinal
<1>1. TextInv => AcceptedIsFinal
  BY DEF TextInv
<1>. QED
  BY <1>1, TextInvariance, PTL

(* A round with a listed failure is not handled.                           *)
RoundsClean ==
  phase \notin {"tools", "failed"} =>
    \A i \in DOMAIN calls : result[i] \notin ListedErrors

LEMMA NextRoundsClean == RoundsClean /\ [Next]_vars => RoundsClean'
<1> SUFFICES ASSUME RoundsClean, [Next]_vars PROVE RoundsClean'
  OBVIOUS
<1>1. CASE BeginRound \/ RunOutOfRounds \/ ModelTransient \/ ModelError
  BY <1>1 DEF BeginRound, RunOutOfRounds, ModelTransient, ModelError, RoundsClean
<1>2. CASE ModelReplies
  BY <1>2 DEF ModelReplies, RoundsClean
<1>3. CASE \E i \in DOMAIN calls : AttemptEnds(i)
  BY <1>3 DEF AttemptEnds, RoundsClean
<1>4. CASE RaiseFatal
  BY <1>4 DEF RaiseFatal, RoundsClean
<1>5. CASE HandleResults
  BY <1>5 DEF HandleResults, IsFatal, RoundsClean
<1>6. CASE UNCHANGED vars
  BY <1>6 DEF vars, RoundsClean
<1>. QED
  BY <1>1, <1>2, <1>3, <1>4, <1>5, <1>6 DEF Next

(* No failure that is_fatal_tool_error lists becomes a message, however    *)
(* often it is retried, and no round in which one came up is handled,      *)
(* whatever its other calls returned.                                      *)
THEOREM FailuresStayOutside == Spec => []BackendErrorsNotObserved
<1>1. Init => RoundsClean
  BY DEF Init, RoundsClean
<1>2. TextInv /\ RoundsClean => BackendErrorsNotObserved
  BY DEF TextInv, NoneObserved, RoundsClean, BackendErrorsNotObserved
<1>. QED
  BY <1>1, <1>2, NextRoundsClean, TextInvariance, PTL DEF Spec

-----------------------------------------------------------------------------
(* Nothing the conversation says is taken back, only the reminder may be   *)
(* added to its last message.                                              *)
THEOREM HistoryIsKept == Spec => HistoryKept
<1> DEFINE Longer ==
      /\ Len(messages') >= Len(messages)
      /\ \A i \in DOMAIN messages :
           messages'[i] = messages[i] \/
           /\ i = Len(messages)
           /\ messages'[i] = [messages[i] EXCEPT !.reminder = TRUE]
<1>1. ASSUME TypeInv, [Next]_vars PROVE Longer \/ UNCHANGED messages
  <2>0. TypeOK /\ Len(messages) \in Nat /\ DOMAIN messages = 1 .. Len(messages)
        /\ Len(calls) \in Nat /\ DOMAIN calls = 1 .. Len(calls)
    BY <1>1, Domain DEF TypeInv
  <2>1. CASE BeginRound
    BY <2>0, <2>1, BeginEffect DEF Merged, Behind, Kept
  <2>2. CASE ModelReplies
    <3>1. Kept(messages, messages') /\ Len(messages') >= Len(messages)
      BY <2>0, <2>2, RepliesEffect
    <3> QED
      BY <2>0, <3>1 DEF Kept
  <2>3. CASE HandleResults
    <3>1. PICK n \in 0 .. Len(calls) : Answers(n)
      BY <2>0, <2>3, HandleEffect
    <3> QED
      BY <2>0, <3>1 DEF Answers, Kept
  <2>4. CASE Silent
    BY <1>1, <2>4, SilentEffect
  <2>5. CASE UNCHANGED vars
    BY <2>5 DEF vars
  <2> QED
    BY <1>1, <2>1, <2>2, <2>3, <2>4, <2>5, NextSplit
<1>. QED
  BY <1>1, TypeInvariance, PTL DEF Spec, HistoryKept

-----------------------------------------------------------------------------
(* The form of the conversation: while calls are executed their message is *)
(* the last one, at all other times all calls are answered.                *)

Fits(m, i) ==
  /\ m[i].role = "tool" => Caller(m, i)
  /\ mistral => /\ ~(i > 1 /\ m[i].role = "user" /\ m[i - 1].role = "tool")
                /\ \A k \in DOMAIN m[i].calls : m[i].calls[k] # "illegal"

InTools == phase = "tools"

FormInv ==
  phase \in {"round", "llm", "tools"} =>
    /\ \A i \in 1 .. Len(messages) :
         /\ Fits(messages, i)
         /\ (InTools /\ i = Len(messages)) \/ AnsweredInPlace(messages, i)
    /\ InTools => /\ Len(messages) >= 1
                  /\ messages[Len(messages)].calls = calls

SameForm(m, n) ==
  /\ DOMAIN n = DOMAIN m
  /\ \A i \in DOMAIN m : n[i].role = m[i].role /\ n[i].calls = m[i].calls

LEMMA SameFormFits ==
  ASSUME NEW m, NEW n, SameForm(m, n), DOMAIN m \subseteq Nat \ {0},
         NEW i \in DOMAIN m, i > 1 => i - 1 \in DOMAIN m
  PROVE  /\ Fits(m, i) => Fits(n, i)
         /\ AnsweredInPlace(m, i) => AnsweredInPlace(n, i)
<1>1. AnsweredInPlace(m, i) => AnsweredInPlace(n, i)
  BY DEF SameForm, AnsweredInPlace
<1>2. Caller(m, i) => Caller(n, i)
  BY DEF SameForm, Caller
<1>3. Fits(m, i) => Fits(n, i)
  BY <1>2 DEF SameForm, Fits
<1> QED
  BY <1>1, <1>3

LEMMA KeptFits ==
  ASSUME TypeInv, messages' \in Seq(Messages), Len(messages') >= Len(messages),
         Kept(messages, messages'), NEW i \in 1 .. Len(messages)
  PROVE  /\ Fits(messages, i) => Fits(messages', i)
         /\ AnsweredInPlace(messages, i) => AnsweredInPlace(messages', i)
<1>0. /\ Len(messages) \in Nat /\ Len(messages') \in Nat
      /\ DOMAIN messages = 1 .. Len(messages)
      /\ DOMAIN messages' = 1 .. Len(messages')
      /\ \A k \in 1 .. Len(messages) : messages'[k] = messages[k]
  BY Domain, LenProperties DEF Kept
<1>1. AnsweredInPlace(messages, i) => AnsweredInPlace(messages', i)
  BY <1>0 DEF AnsweredInPlace
<1>2. Caller(messages, i) => Caller(messages', i)
  BY <1>0 DEF Caller
<1>3. i > 1 => i - 1 \in 1 .. Len(messages)
  BY <1>0
<1>4. Fits(messages, i) => Fits(messages', i)
  BY <1>0, <1>2, <1>3 DEF Fits
<1> QED
  BY <1>1, <1>4

(* A message without calls asks for no answers.                            *)
LEMMA NoCalls ==
  ASSUME NEW m, NEW i, m[i].calls = <<>>
  PROVE  /\ AnsweredInPlace(m, i)
         /\ \A k \in DOMAIN m[i].calls : m[i].calls[k] # "illegal"
<1>1. Len(<<>>) = 0 /\ DOMAIN <<>> = {}
  BY EmptySeq
<1> QED
  BY <1>1 DEF AnsweredInPlace

LEMMA NextForm == TypeInv /\ TypeInv' /\ FormInv /\ [Next]_vars => FormInv'
<1> SUFFICES ASSUME TypeInv, TypeInv', FormInv, [Next]_vars PROVE FormInv'
  OBVIOUS
<1> DEFINE m == messages
           n == messages'
           Full == \A i \in 1 .. Len(n) : Fits(n, i) /\ AnsweredInPlace(n, i)
<1>0. /\ TypeOK /\ Len(m) \in Nat /\ Len(n) \in Nat
      /\ DOMAIN m = 1 .. Len(m) /\ DOMAIN n = 1 .. Len(n)
      /\ n \in Seq(Messages)
  BY Domain, LenProperties DEF TypeInv, TypeOK
<1>a. ASSUME mistral' = mistral, Full, phase' # "tools" PROVE FormInv'
  BY <1>a DEF FormInv, Fits, InTools
<1>1. CASE BeginRound
  <2>0. phase' = "llm" /\ mistral' = mistral
    BY <1>1 DEF BeginRound
  <2>1. \A i \in 1 .. Len(m) : Fits(m, i) /\ AnsweredInPlace(m, i)
    BY <1>1 DEF BeginRound, FormInv, InTools
  <2>2. CASE messages' = messages
    BY <1>a, <2>0, <2>1, <2>2
  <2>3. CASE Merged(m, n)
    <3>1. SameForm(m, n)
      BY <1>0, <2>3, MergedFields DEF SameForm, Merged
    <3>2. ASSUME NEW i \in 1 .. Len(n) PROVE Fits(n, i) /\ AnsweredInPlace(n, i)
      <4>1. i \in DOMAIN m /\ DOMAIN m \subseteq Nat \ {0}
            /\ (i > 1 => i - 1 \in DOMAIN m)
        BY <1>0, <2>3 DEF Merged
      <4>2. /\ Fits(m, i) => Fits(n, i)
            /\ AnsweredInPlace(m, i) => AnsweredInPlace(n, i)
        BY <3>1, <4>1, SameFormFits
      <4>3. i \in 1 .. Len(m)
        BY <1>0, <4>1
      <4> QED
        BY <2>1, <4>2, <4>3
    <3> QED
      BY <1>a, <2>0, <3>2
  <2>4. CASE Behind(m, n)
    <3>1. Kept(m, n) /\ Len(n) = Len(m) + 1 /\ n[Len(m) + 1] = ReminderMsg
      BY <2>4 DEF Behind
    <3>2. \A i \in 1 .. Len(m) : Fits(n, i) /\ AnsweredInPlace(n, i)
      BY <1>0, <2>1, <3>1, KeptFits
    <3>3. n[Len(m) + 1].calls = <<>> /\ n[Len(m) + 1].role = "user"
      BY <3>1, ReminderTyped
    <3>4. AnsweredInPlace(n, Len(m) + 1)
          /\ \A k \in DOMAIN n[Len(m) + 1].calls : n[Len(m) + 1].calls[k] # "illegal"
      BY <3>3, NoCalls
    <3>5. mistral /\ Len(m) >= 1 => n[Len(m)].role # "tool"
      BY <1>0, <2>4, <3>1 DEF Behind, Kept
    <3>6. Fits(n, Len(m) + 1)
      BY <1>0, <3>3, <3>4, <3>5 DEF Fits
    <3>7. Full
      BY <1>0, <3>1, <3>2, <3>4, <3>6
    <3> QED
      BY <1>a, <2>0, <3>7
  <2> QED
    BY <1>0, <1>1, <2>2, <2>3, <2>4, BeginEffect
<1>2. CASE ModelReplies
  <2>0. mistral' = mistral
    BY <1>2 DEF ModelReplies
  <2>1. \A i \in 1 .. Len(m) : Fits(m, i) /\ AnsweredInPlace(m, i)
    BY <1>2 DEF ModelReplies, FormInv, InTools
  <2>2. PICK legal \in Seq(CallKinds) :
          /\ \A k \in DOMAIN legal : IsLegal(legal[k])
          /\ n[Len(m) + 1] = Msg("assistant", "reply", legal)
          /\ \/ /\ legal = <<>>
                /\ Len(n) = Len(m) + 2
                /\ n[Len(m) + 2] = Msg("user", "nudge", <<>>)
                /\ phase' = "round"
             \/ Len(n) = Len(m) + 1 /\ phase' = "tools" /\ calls' = legal
    BY <1>0, <1>2, RepliesEffect
  <2>3. Kept(m, n)
    BY <1>0, <1>2, RepliesEffect
  <2>4. Len(n) >= Len(m)
    <3>1. Len(n) = Len(m) + 2 \/ Len(n) = Len(m) + 1
      BY <2>2, Zenon
    <3>2. Len(m) \in Nat
      BY <1>0
    <3> HIDE DEF m, n
    <3> QED
      BY <3>1, <3>2
  <2>5. \A i \in 1 .. Len(m) : Fits(n, i) /\ AnsweredInPlace(n, i)
    BY <1>0, <2>1, <2>3, <2>4, KeptFits
  <2>6. n[Len(m) + 1].role = "assistant" /\ n[Len(m) + 1].calls = legal
    BY <2>2 DEF Msg
  <2>7. Fits(n, Len(m) + 1)
    BY <2>2, <2>6 DEF Fits, IsLegal
  <2>8. CASE legal = <<>> /\ Len(n) = Len(m) + 2 /\ phase' = "round"
             /\ n[Len(m) + 2] = Msg("user", "nudge", <<>>)
    <3>1. n[Len(m) + 2].role = "user" /\ n[Len(m) + 2].calls = <<>>
      BY <2>8 DEF Msg
    <3>2. AnsweredInPlace(n, Len(m) + 1) /\ AnsweredInPlace(n, Len(m) + 2)
          /\ \A k \in DOMAIN n[Len(m) + 2].calls : n[Len(m) + 2].calls[k] # "illegal"
      BY <2>6, <2>8, <3>1, NoCalls
    <3>3. (Len(m) + 2) - 1 = Len(m) + 1
      BY <1>0
    <3>4. Fits(n, Len(m) + 2)
      BY <2>6, <3>1, <3>2, <3>3 DEF Fits
    <3>5. \A i \in 1 .. Len(n) : i \in 1 .. Len(m) \/ i = Len(m) + 1 \/ i = Len(m) + 2
      BY <1>0, <2>8
    <3>6. Full
      BY <2>5, <2>7, <3>2, <3>4, <3>5
    <3> QED
      BY <1>a, <2>0, <2>8, <3>6
  <2>9. CASE Len(n) = Len(m) + 1 /\ phase' = "tools" /\ calls' = legal
    <3>1. \A i \in 1 .. Len(n) : i \in 1 .. Len(m) \/ i = Len(n)
      BY <1>0, <2>9
    <3>2. Len(n) >= 1 /\ n[Len(n)].calls = calls'
      BY <1>0, <2>6, <2>9
    <3>3. \A i \in 1 .. Len(n) : Fits(n, i) /\ (i = Len(n) \/ AnsweredInPlace(n, i))
      BY <2>5, <2>7, <2>9, <3>1
    <3> QED
      BY <2>0, <2>9, <3>2, <3>3 DEF FormInv, Fits, InTools
  <2> QED
    BY <2>2, <2>8, <2>9
<1>3. CASE HandleResults
  <2>1. mistral' = mistral /\ phase = "tools"
    BY <1>3 DEF HandleResults, AllEnded
  <2>2. CASE phase' = "finished"
    BY <2>2 DEF FormInv
  <2>3. CASE phase' = "round" /\ Answers(Len(calls))
    <3>0. Len(calls) \in Nat
      BY Domain
    <3>1. Kept(m, n) /\ Len(n) = Len(m) + Len(calls) /\ Len(n) >= Len(m)
      BY <1>0, <2>3, <3>0 DEF Answers
    <3>2. \A k \in 1 .. Len(calls) : n[Len(m) + k].role = "tool"
                                     /\ n[Len(m) + k].calls = <<>>
      <4>1. \A k \in 1 .. Len(calls) : n[Len(m) + k] = Msg("tool", result[k], <<>>)
        BY <2>3 DEF Answers
      <4>2. ASSUME NEW k \in 1 .. Len(calls)
            PROVE  n[Len(m) + k].role = "tool" /\ n[Len(m) + k].calls = <<>>
        <5>1. n[Len(m) + k] = Msg("tool", result[k], <<>>)
          BY <4>1
        <5> QED
          BY <5>1 DEF Msg
      <4> QED
        BY <4>2
    <3>3a. Len(m) >= 1 /\ m[Len(m)].calls = calls
      BY <2>1 DEF FormInv, InTools
    <3>3. Len(m) \in 1 .. Len(m) /\ m[Len(m)].calls = calls
      BY <1>0, <3>3a
    <3>4. n[Len(m)].calls = calls
      BY <3>1, <3>3 DEF Kept
    <3>5. AnsweredInPlace(n, Len(m))
      BY <1>0, <3>0, <3>1, <3>2, <3>4 DEF AnsweredInPlace
    <3>6. \A i \in 1 .. Len(m) : Fits(n, i) /\ AnsweredInPlace(n, i)
      BY <1>0, <2>1, <3>1, <3>5, KeptFits DEF FormInv, InTools
    <3>7. ASSUME NEW k \in 1 .. Len(calls)
          PROVE  Fits(n, Len(m) + k) /\ AnsweredInPlace(n, Len(m) + k)
      <4>1. Caller(n, Len(m) + k)
        BY <1>0, <3>0, <3>1, <3>3, <3>4 DEF Caller
      <4>2. AnsweredInPlace(n, Len(m) + k)
            /\ \A l \in DOMAIN n[Len(m) + k].calls : n[Len(m) + k].calls[l] # "illegal"
        BY <3>2, NoCalls
      <4> QED
        BY <3>2, <4>1, <4>2 DEF Fits
    <3>8. ASSUME NEW i \in 1 .. Len(n) PROVE Fits(n, i) /\ AnsweredInPlace(n, i)
      <4>1. CASE i \in 1 .. Len(m)
        BY <3>6, <4>1
      <4>2. CASE i \notin 1 .. Len(m)
        <5>1. i - Len(m) \in 1 .. Len(calls) /\ Len(m) + (i - Len(m)) = i
          BY <1>0, <3>0, <3>1, <4>2
        <5> QED
          BY <3>7, <5>1
      <4> QED
        BY <4>1, <4>2
    <3> QED
      BY <1>a, <2>1, <2>3, <3>8
  <2> QED
    BY <1>0, <1>3, <2>2, <2>3, HandleEffect
<1>4. CASE Silent
  BY <1>4, SilentEffect DEF FormInv, Fits, InTools
<1>5. CASE UNCHANGED vars
  BY <1>5 DEF vars, FormInv, Fits, InTools
<1> QED
  BY <1>1, <1>2, <1>3, <1>4, <1>5, NextSplit

(* Every request is one the serving validators accept, for any limits and  *)
(* any replies of the model.                                               *)
THEOREM RequestsAreWellFormed == Spec => []WellFormedRequest
<1>1. Init => FormInv
  <2> SUFFICES ASSUME Init PROVE FormInv
    OBVIOUS
  <2>1. /\ Len(messages) = 2
        /\ messages[1] = Msg("system", "system", <<>>)
        /\ messages[2] = Msg("user", "question", <<>>)
    BY DEF Init
  <2>2. /\ messages[1].role = "system" /\ messages[1].calls = <<>>
        /\ messages[2].role = "user" /\ messages[2].calls = <<>>
    BY <2>1 DEF Msg
  <2>3. \A i \in 1 .. 2 : /\ AnsweredInPlace(messages, i)
          /\ \A k \in DOMAIN messages[i].calls : messages[i].calls[k] # "illegal"
    <3>1. \A i \in 1 .. 2 : messages[i].calls = <<>>
      BY <2>2
    <3> QED
      BY <3>1, NoCalls
  <2>4. Fits(messages, 1) /\ Fits(messages, 2)
    BY <2>2, <2>3 DEF Fits
  <2>5. \A i \in 1 .. 2 : Fits(messages, i)
    BY <2>4
  <2> QED
    BY <2>1, <2>3, <2>5 DEF Init, FormInv, InTools
<1>2. ASSUME TypeInv, FormInv PROVE WellFormedRequest
  <2> SUFFICES ASSUME phase = "llm", NEW i \in DOMAIN Request
               PROVE  AnsweredInPlace(Request, i) /\ Fits(Request, i)
    BY DEF WellFormedRequest, Fits
  <2>1. SameForm(messages, Request)
    <3>1. DOMAIN Request = DOMAIN messages
      BY DEF Request, TruncateToolMessages
    <3>2. ASSUME NEW k \in DOMAIN messages
          PROVE  /\ Request[k].role = messages[k].role
                 /\ Request[k].calls = messages[k].calls
      <4>1. messages[k] \in Messages
        BY <1>2, Domain, ElementOfSeq
      <4>2. Request[k] = messages[k] \/
            Request[k] = [messages[k] EXCEPT !.text = "cut", !.reminder = FALSE]
        BY DEF Request, TruncateToolMessages
      <4> QED
        BY <4>1, <4>2 DEF Messages
    <3> QED
      BY <3>1, <3>2 DEF SameForm
  <2>2. /\ i \in DOMAIN messages /\ DOMAIN messages \subseteq Nat \ {0}
        /\ i \in 1 .. Len(messages)
        /\ i > 1 => i - 1 \in DOMAIN messages
    BY <1>2, <2>1, Domain DEF SameForm
  <2>3. Fits(messages, i) /\ AnsweredInPlace(messages, i)
    BY <1>2, <2>2 DEF FormInv, InTools
  <2> HIDE DEF Request
  <2> QED
    BY <2>1, <2>2, <2>3, SameFormFits
<1>. QED
  BY <1>1, <1>2, NextForm, TypeInvariance, PTL DEF Spec

-----------------------------------------------------------------------------
(* The budget reminder: none before it is due, one afterwards, and the     *)
(* first request that is due ends with it.                                 *)

NoReminder(m) == \A i \in 1 .. Len(m) : ~m[i].reminder

OneReminder(m) ==
  \A i, k \in 1 .. Len(m) : m[i].reminder /\ m[k].reminder => i = k

DueNow == phase = "llm" /\ BudgetThreshold >= 0 /\ round = BudgetThreshold

ReminderInv ==
  /\ ~reminded => NoReminder(messages)
  /\ OneReminder(messages)
  /\ reminded => /\ BudgetThreshold >= 0
                 /\ phase \in {"llm", "tools"} => round >= BudgetThreshold
                 /\ phase = "round" => round > BudgetThreshold
  /\ DueNow => Len(messages) >= 1 /\ messages[Len(messages)].reminder

LEMMA BudgetTyped == BudgetThreshold \in Int
  BY ConstantsAssumption DEF BudgetThreshold

(* Messages added without a reminder change nothing.                       *)
LEMMA AddedPlain ==
  ASSUME NEW m, NEW n, Len(m) \in Nat, Len(n) \in Nat, Kept(m, n),
         \A i \in 1 .. Len(n) : i \in 1 .. Len(m) \/ ~n[i].reminder
  PROVE  (NoReminder(m) => NoReminder(n)) /\ (OneReminder(m) => OneReminder(n))
<1>1. \A i \in 1 .. Len(n) : n[i].reminder => i \in 1 .. Len(m) /\ m[i].reminder
  BY DEF Kept
<1> QED
  BY <1>1 DEF NoReminder, OneReminder

LEMMA NextReminder ==
  TypeInv /\ TypeInv' /\ ReminderInv /\ [Next]_vars => ReminderInv'
<1> SUFFICES ASSUME TypeInv, TypeInv', ReminderInv, [Next]_vars
             PROVE  ReminderInv'
  OBVIOUS
<1> DEFINE m == messages
           n == messages'
<1>0. TypeOK /\ Len(m) \in Nat /\ Len(n) \in Nat /\ m \in Seq(Messages)
  BY Domain, LenProperties DEF TypeInv, TypeOK
<1>b. BudgetThreshold \in Int /\ round \in Int /\ reminded \in BOOLEAN
  BY <1>0, BudgetTyped DEF TypeOK
<1>1. CASE BeginRound
  <2>0. phase = "round" /\ phase' = "llm" /\ round' = round
    BY <1>1 DEF BeginRound
  <2>1. CASE messages' = messages /\ reminded' = reminded
             /\ ~(BudgetThreshold >= 0 /\ round >= BudgetThreshold /\ ~reminded)
    <3>1. ~DueNow'
      BY <1>b, <2>0, <2>1 DEF ReminderInv, DueNow
    <3> QED
      BY <1>b, <2>0, <2>1, <3>1 DEF ReminderInv
  <2>2. CASE (Merged(m, n) \/ Behind(m, n)) /\ reminded' /\ ~reminded
             /\ BudgetThreshold >= 0 /\ round >= BudgetThreshold
    <3>1. NoReminder(m)
      BY <2>2 DEF ReminderInv
    <3>2. /\ Len(n) >= 1 /\ n[Len(n)].reminder
          /\ \A i \in 1 .. Len(n) : i # Len(n) => ~n[i].reminder
      <4>1. CASE Merged(m, n)
        <5>1. Len(n) = Len(m) /\ Len(m) >= 1
          BY <4>1 DEF Merged
        <5>2. \A i \in 1 .. Len(m) : i # Len(m) => n[i] = m[i]
          BY <4>1 DEF Merged
        <5>3. m[Len(m)] \in Messages
          BY <1>0, <5>1, ElementOfSeq
        <5>4. n[Len(m)] = [m[Len(m)] EXCEPT !.reminder = TRUE]
          BY <1>0, <4>1, <5>1 DEF Merged
        <5>5. n[Len(m)].reminder
          BY <5>3, <5>4 DEF Messages
        <5> QED
          BY <3>1, <5>1, <5>2, <5>5 DEF NoReminder
      <4>2. CASE Behind(m, n)
        <5>1. Len(n) = Len(m) + 1 /\ n[Len(n)].reminder
          BY <4>2, ReminderTyped DEF Behind
        <5>2. \A i \in 1 .. Len(n) : i # Len(n) => i \in 1 .. Len(m) /\ n[i] = m[i]
          BY <1>0, <4>2, <5>1 DEF Behind, Kept
        <5> QED
          BY <1>0, <3>1, <5>1, <5>2 DEF NoReminder
      <4> QED
        BY <2>2, <4>1, <4>2
    <3>3. OneReminder(n)
      BY <3>2 DEF OneReminder
    <3> QED
      BY <2>0, <2>2, <3>2, <3>3 DEF ReminderInv, DueNow
  <2> QED
    BY <1>0, <1>1, <2>1, <2>2, BeginEffect
<1>2. CASE ModelReplies
  <2>0. phase = "llm" /\ UNCHANGED reminded
    BY <1>2 DEF ModelReplies
  <2>1. PICK legal \in Seq(CallKinds) :
          /\ n[Len(m) + 1] = Msg("assistant", "reply", legal)
          /\ \/ /\ Len(n) = Len(m) + 2
                /\ n[Len(m) + 2] = Msg("user", "nudge", <<>>)
                /\ phase' = "round" /\ round' = round + 1
             \/ Len(n) = Len(m) + 1 /\ phase' = "tools" /\ UNCHANGED round
    BY <1>0, <1>2, RepliesEffect
  <2>2. ~n[Len(m) + 1].reminder
    BY <2>1 DEF Msg
  <2>3. Len(n) = Len(m) + 2 => ~n[Len(m) + 2].reminder
    BY <1>0, <2>1 DEF Msg
  <2>4. Len(n) = Len(m) + 1 \/ Len(n) = Len(m) + 2
    BY <2>1
  <2>5. \A i \in 1 .. Len(n) : i \in 1 .. Len(m) \/ ~n[i].reminder
    <3>1. \A i \in 1 .. Len(n) : i \in 1 .. Len(m) \/ i = Len(m) + 1
                                 \/ (Len(n) = Len(m) + 2 /\ i = Len(m) + 2)
      BY <1>0, <2>4
    <3> QED
      BY <2>2, <2>3, <3>1
  <2>6. (NoReminder(m) => NoReminder(n)) /\ (OneReminder(m) => OneReminder(n))
    BY <1>0, <1>2, <2>5, RepliesEffect, AddedPlain
  <2>7. \/ phase' = "round" /\ round' = round + 1
        \/ phase' = "tools" /\ UNCHANGED round
    BY <2>1
  <2> QED
    BY <1>b, <2>0, <2>6, <2>7 DEF ReminderInv, DueNow
<1>3. CASE HandleResults
  <2>0. phase = "tools" /\ UNCHANGED reminded
    BY <1>3 DEF HandleResults, AllEnded
  <2>1. PICK l \in Nat : Answers(l)
    BY <1>0, <1>3, HandleEffect, LenProperties DEF TypeOK
  <2>2. Kept(m, n) /\ Len(n) = Len(m) + l
    BY <2>1 DEF Answers
  <2>3. \A i \in 1 .. Len(n) : i \in 1 .. Len(m) \/ ~n[i].reminder
    <3> SUFFICES ASSUME NEW i \in 1 .. Len(n), i \notin 1 .. Len(m)
                 PROVE  ~n[i].reminder
      OBVIOUS
    <3>1. i - Len(m) \in 1 .. l /\ Len(m) + (i - Len(m)) = i
      BY <1>0, <2>2
    <3>2. n[i] = Msg("tool", result[i - Len(m)], <<>>)
      BY <2>1, <3>1 DEF Answers
    <3> QED
      BY <3>2 DEF Msg
  <2>4. (NoReminder(m) => NoReminder(n)) /\ (OneReminder(m) => OneReminder(n))
    BY <1>0, <2>2, <2>3, AddedPlain
  <2>5. (phase' = "round" /\ round' = round + 1) \/ phase' = "finished"
    BY <1>0, <1>3, HandleEffect
  <2> QED
    BY <1>b, <2>0, <2>4, <2>5 DEF ReminderInv, DueNow
<1>4. CASE Silent
  BY <1>4, SilentEffect DEF ReminderInv, DueNow
<1>5. CASE UNCHANGED vars
  BY <1>5 DEF vars, ReminderInv, DueNow
<1> QED
  BY <1>1, <1>2, <1>3, <1>4, <1>5, NextSplit

(* If at least one tool result is kept whole, the reminder reaches the     *)
(* model in the first round that is due and is never added twice.          *)
THEOREM ReminderReachesModel ==
  ASSUME KeepRecent >= 1
  PROVE  Spec => []ReminderShown
<1>1. Init => ReminderInv
  <2> SUFFICES ASSUME Init PROVE ReminderInv
    OBVIOUS
  <2>1. /\ Len(messages) = 2
        /\ messages[1] = Msg("system", "system", <<>>)
        /\ messages[2] = Msg("user", "question", <<>>)
    BY DEF Init
  <2>2. ~messages[1].reminder /\ ~messages[2].reminder
    BY <2>1 DEF Msg
  <2>3. NoReminder(messages)
    BY <2>1, <2>2 DEF NoReminder
  <2> QED
    BY <2>3 DEF Init, ReminderInv, NoReminder, OneReminder, DueNow
<1>2. ASSUME TypeInv, ReminderInv PROVE ReminderShown
  <2> DEFINE last == Len(messages)
  <2>0. last \in Nat /\ DOMAIN messages = 1 .. last
    BY <1>2, Domain
  <2>1. ASSUME DueNow PROVE \E i \in DOMAIN Request : Request[i].reminder
    <3>1. last \in DOMAIN messages /\ messages[last].reminder
      BY <1>2, <2>0, <2>1 DEF ReminderInv
    <3>2. ToolsAfter(messages, last) = {}
      BY <2>0 DEF ToolsAfter
    <3>3. ~(Cardinality(ToolsAfter(messages, last)) >= KeepRecent)
      BY <3>2, FS_EmptySet, ConstantsAssumption
    <3>4. /\ DOMAIN Request = DOMAIN messages
          /\ Request[last] = messages[last]
      BY <3>1, <3>3 DEF Request, TruncateToolMessages
    <3> QED
      BY <3>1, <3>4
  <2>2. \A i, k \in DOMAIN messages :
          messages[i].reminder /\ messages[k].reminder => i = k
    BY <1>2, <2>0 DEF ReminderInv, OneReminder
  <2> QED
    BY <2>1, <2>2 DEF ReminderShown, DueNow
<1>. QED
  BY <1>1, <1>2, NextReminder, TypeInvariance, PTL DEF Spec

=============================================================================
