SPECIFICATION FairJudgeSpec
CONSTANTS
  q1 = q1
  ResultFile = {i1, i2}
  Question = {q1}
  QuestionOf <- SameQuestion
  Prediction = {p1, p2}
  Replies = {"true", "false", "unclear"}
  Nothing = Nothing
INVARIANTS JudgeTypeOK ScoresAreVerdicts
PROPERTIES SettledIsFinal RecordsCome
CHECK_DEADLOCK FALSE
