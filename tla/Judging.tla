------------------------------- MODULE Judging -------------------------------
(***************************************************************************)
(* The LLM judge (evaluation/llm_judge.py) as the runner's workers use it  *)
(* (run_qa_agent.py, _run_one): an answer that does not match exactly is   *)
(* put to a model, whose reply is kept in a file per question and          *)
(* prediction.  The files are shared by every run of every agent model on  *)
(* the machine and are written in place.                                   *)
(*                                                                         *)
(* An item is a result file: one question answered by one agent model.  A  *)
(* reply is abstracted to the verdict parse_verdict finds in it, and a     *)
(* prediction to whether it is empty, matches exactly, or neither.  No     *)
(* name is one of QaRunner's, so that a module can extend both.            *)
(***************************************************************************)
CONSTANTS
  ResultFile,  \* the items, in one or several result directories
  Question,    \* questions with their gold answers
  QuestionOf,  \* QuestionOf[i]: the question of item i
  Prediction,  \* answers that are neither empty nor an exact match
  Replies,     \* what the judge replies in this instance
  Nothing      \* no file, no text, no score

Verdicts == {"correct", "wrong"}           \* the scores 1 and 0
Texts    == {"true", "false", "unclear"}   \* replies, by their verdict
Key      == Question \X Prediction

ASSUME ConstantsAssumption ==
  /\ QuestionOf \in [ResultFile -> Question]
  /\ Replies \subseteq Texts
  /\ {"match", "blank"} \cap Prediction = {}
  /\ Nothing \notin Texts \cup Verdicts \cup {"", "none"}

VARIABLES
  file,    \* the cache file of a key; "" is a file just truncated
  pc,      \* where the worker that has item i is
  answer,  \* predicted_answer of item i
  reply,   \* raw, the judge's reply the worker holds
  score,   \* the score evaluate() gives, Nothing for a missing metric
  record,  \* gpt_judge in the result file of i, "none" before there is one
  said     \* all the judge ever replied about a key

judgeVars == <<file, pc, answer, reply, score, record, said>>

(* Besides the types: only an answer that is neither empty nor an exact    *)
(* match is ever put to the judge or looked up among its replies.          *)
JudgeTypeOK ==
  /\ file \in [Key -> Texts \cup {"", Nothing}]
  /\ pc \in [ResultFile -> {"idle", "reading", "asking", "replied",
                            "opened", "scored", "done"}]
  /\ answer \in [ResultFile -> Prediction \cup {"match", "blank", "none"}]
  /\ reply \in [ResultFile -> Texts \cup {Nothing}]
  /\ score \in [ResultFile -> Verdicts \cup {Nothing}]
  /\ record \in [ResultFile -> Verdicts \cup {Nothing, "none"}]
  /\ said \in [Key -> SUBSET Texts]
  /\ \A i \in ResultFile :
       pc[i] \in {"reading", "asking", "replied", "opened"} =>
         answer[i] \in Prediction

JudgeInit ==
  /\ file = [k \in Key |-> Nothing]
  /\ pc = [i \in ResultFile |-> "idle"]
  /\ answer = [i \in ResultFile |-> "none"]
  /\ reply = [i \in ResultFile |-> Nothing]
  /\ score = [i \in ResultFile |-> Nothing]
  /\ record = [i \in ResultFile |-> "none"]
  /\ said = [k \in Key |-> {}]

(* Mutant of KeyOf: the name of the file does not depend on the answer.    *)
KeyByQuestion(i, p) == <<QuestionOf[i], CHOOSE q \in Prediction : TRUE>>

(* _cache_path: question with gold answer, and prediction                  *)
KeyOf(i, p) == <<QuestionOf[i], p>>

KeyNow(i) == KeyOf(i, answer[i])

(* parse_verdict, which finds nothing in an empty text                     *)
Verdict(text) ==
  CASE text = "true"  -> "correct"
    [] text = "false" -> "wrong"
    [] OTHER          -> Nothing

GoTo(i, p) == pc' = [pc EXCEPT ![i] = p]

Scored(i, s) ==
  /\ GoTo(i, "scored")
  /\ score' = [score EXCEPT ![i] = s]

(* Mutant of Evaluate: an empty answer is put to the judge as well.        *)
EvaluateBlank(i) ==
  /\ pc[i] = "idle"
  /\ \/ /\ answer' = [answer EXCEPT ![i] = "match"]
        /\ Scored(i, "correct")
     \/ \E p \in Prediction \cup {"blank"} :
          /\ answer' = [answer EXCEPT ![i] = p]
          /\ GoTo(i, "asking")
          /\ UNCHANGED score
  /\ UNCHANGED <<file, reply, record, said>>

(* Mutant of Evaluate: the cache is only written.                          *)
EvaluateAfresh(i) ==
  /\ pc[i] = "idle"
  /\ \/ /\ answer' = [answer EXCEPT ![i] = "match"]
        /\ Scored(i, "correct")
     \/ \E p \in Prediction :
          /\ answer' = [answer EXCEPT ![i] = p]
          /\ GoTo(i, "asking")
          /\ UNCHANGED score
  /\ UNCHANGED <<file, reply, record, said>>

(* The agent has answered item i and evaluate() starts: an exact match and *)
(* an empty answer need no judge, without --enable_llm_judge nothing is    *)
(* asked, otherwise it is seen whether a cache file exists.                *)
Evaluate(i) ==
  /\ pc[i] = "idle"
  /\ \/ /\ answer' = [answer EXCEPT ![i] = "match"]
        /\ Scored(i, "correct")
     \/ /\ answer' = [answer EXCEPT ![i] = "blank"]
        /\ Scored(i, "wrong")
     \/ \E p \in Prediction \cup {"match", "blank"} :   \* not enabled
          /\ answer' = [answer EXCEPT ![i] = p]
          /\ Scored(i, Nothing)
     \/ \E p \in Prediction :
          /\ answer' = [answer EXCEPT ![i] = p]
          /\ GoTo(i, IF file[KeyOf(i, p)] # Nothing THEN "reading"
                                                    ELSE "asking")
          /\ UNCHANGED score
  /\ UNCHANGED <<file, reply, record, said>>

(* The file is read, whatever state another writer has it in.              *)
Read(i) ==
  /\ pc[i] = "reading"
  /\ Scored(i, Verdict(file[KeyNow(i)]))
  /\ UNCHANGED <<file, answer, reply, record, said>>

(* Mutant of Ask: an item without a verdict is evaluated again.            *)
AskAgain(i) ==
  /\ pc[i] = "asking"
  /\ \E r \in Replies :
       /\ said' = [said EXCEPT ![KeyNow(i)] = @ \cup {r}]
       /\ IF Verdict(r) = Nothing
            THEN GoTo(i, "idle") /\ UNCHANGED reply
            ELSE GoTo(i, "replied") /\ reply' = [reply EXCEPT ![i] = r]
  /\ UNCHANGED <<file, answer, score, record>>

(* The judge replies, or the call raises: no score, and nothing is cached. *)
Ask(i) ==
  /\ pc[i] = "asking"
  /\ \/ \E r \in Replies :
          /\ reply' = [reply EXCEPT ![i] = r]
          /\ said' = [said EXCEPT ![KeyNow(i)] = @ \cup {r}]
          /\ GoTo(i, "replied")
          /\ UNCHANGED score
     \/ Scored(i, Nothing) /\ UNCHANGED <<reply, said>>
  /\ UNCHANGED <<file, answer, record>>

(* write_text truncates the file when it opens it, ...                     *)
Open(i) ==
  /\ pc[i] = "replied"
  /\ file' = [file EXCEPT ![KeyNow(i)] = ""]
  /\ GoTo(i, "opened")
  /\ UNCHANGED <<answer, reply, score, record, said>>

(* ... and puts its text over what another writer may have written since:  *)
(* the end of a longer text stays, and with it its verdict.  (Replies are  *)
(* taken to be ASCII, so that such a mixture can always be decoded.)       *)
Write(i) ==
  /\ pc[i] = "opened"
  /\ \E text \in {reply[i], file[KeyNow(i)]} \ {""} :
       file' = [file EXCEPT ![KeyNow(i)] = text]
  /\ Scored(i, Verdict(reply[i]))
  /\ reply' = [reply EXCEPT ![i] = Nothing]
  /\ UNCHANGED <<answer, record, said>>

(* The record is written and renamed; later runs find it and skip the item *)
Publish(i) ==
  /\ pc[i] = "scored"
  /\ record' = [record EXCEPT ![i] = score[i]]
  /\ GoTo(i, "done")
  /\ score' = [score EXCEPT ![i] = Nothing]
  /\ UNCHANGED <<file, answer, reply, said>>

(* The process is killed, or reading or writing a file raises: the answer  *)
(* of the item is lost, and a later run answers it again.                  *)
Lose(i) ==
  /\ pc[i] \notin {"idle", "done"}
  /\ GoTo(i, "idle")
  /\ answer' = [answer EXCEPT ![i] = "none"]
  /\ reply' = [reply EXCEPT ![i] = Nothing]
  /\ score' = [score EXCEPT ![i] = Nothing]
  /\ UNCHANGED <<file, record, said>>

WorkOn(i) ==
  Evaluate(i) \/ Read(i) \/ Ask(i) \/ Open(i) \/ Write(i) \/ Publish(i)

JudgeNext == \E i \in ResultFile : WorkOn(i) \/ Lose(i)

JudgeSpec == JudgeInit /\ [][JudgeNext]_judgeVars

(* Workers go on and the judge's calls end (they have a timeout); the      *)
(* runner is started again as long as items have no record.                *)
FairJudgeSpec == JudgeSpec /\ \A i \in ResultFile : WF_judgeVars(WorkOn(i))

-----------------------------------------------------------------------------
(* Properties.                                                             *)

(* A score in a result file is the judge's verdict about this very answer  *)
(* to this very question, or needed none: never one read from a file that  *)
(* was empty, half replaced or about another answer.                       *)
ScoresAreVerdicts ==
  \A i \in ResultFile : record[i] \in Verdicts =>
    CASE answer[i] = "match" -> record[i] = "correct"
      [] answer[i] = "blank" -> record[i] = "wrong"
      [] OTHER -> \E r \in said[<<QuestionOf[i], answer[i]>>] :
                    Verdict(r) = record[i]

(* The file of k has a verdict and nobody is on the way to replace it.     *)
Settled(k) ==
  /\ Verdict(file[k]) \in Verdicts
  /\ \A i \in ResultFile :
       pc[i] \in {"asking", "replied", "opened"} => KeyNow(i) # k

(* A verdict that is once settled is final: whatever is killed, the same   *)
(* answer is never put to the judge again and every later run of any       *)
(* model gets the same score for it.                                       *)
SettledIsFinal ==
  [][\A k \in Key : Settled(k) =>
       /\ file'[k] = file[k] /\ Settled(k)'
       /\ \A i \in ResultFile :
            /\ pc[i] = "reading" /\ pc'[i] = "scored" /\ KeyNow(i) = k
            => score'[i] = Verdict(file[k])]_judgeVars

(* If only finitely many attempts are lost, every item gets its record,    *)
(* however often the judge fails or gives no verdict.                      *)
RecordsCome ==
  <>[][\A i \in ResultFile : ~Lose(i)]_judgeVars
    => \A i \in ResultFile : <>(pc[i] = "done")
=============================================================================
