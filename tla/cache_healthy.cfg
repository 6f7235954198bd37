SPECIFICATION Spec
CONSTANTS
  Thread = {t1, t2}
  File = {f1, f2, f3, f4, f5}
  None = None
  MaxRetries = 2
  MaxDepth = 1
PROPERTIES HealthyStays
CHECK_DEADLOCK FALSE
