SPECIFICATION FairSpec
CONSTANTS
  Thread = {t1, t2}
  Text = {x1}
  OnlineKey = TRUE
INVARIANTS OnlineKeyTruthful
PROPERTIES EveryCallEnds
