SPECIFICATION Spec
CONSTANTS
  Thread = {t1, t2}
  Text = {x1}
  OnlineKey = TRUE
INVARIANTS CacheTruthful
