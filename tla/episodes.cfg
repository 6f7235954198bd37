SPECIFICATION FairSpec
CONSTANTS
  MaxRound = 5
  MaxCalls = 3
  MaxRetries = 1
  KeepRecent = 1
  Reminder = TRUE
  Replies <- SomeReplies
  ToolEnds = {"short", "long", "http502", "network", "unlisted"}
INVARIANTS AcceptedIsFinal BackendErrorsNotObserved WellFormedRequest
           ReminderShown
PROPERTIES HistoryKept Terminates ImplementsEpisode
CHECK_DEADLOCK FALSE
