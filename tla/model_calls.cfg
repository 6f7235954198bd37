SPECIFICATION FairSpec
CONSTANTS
  Caller = {c1}
  Backends = 3
  UpRetries = 1
  SdkRetries = 2
  AgentRetries = 1
  MaxChanges = 1
  MaxStrays = 1
INVARIANTS LoneCallerSurvives
PROPERTIES CallsEnd
CHECK_DEADLOCK FALSE
