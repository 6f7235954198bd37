SPECIFICATION FairSpec
CONSTANTS
  Request = {r1, r2}
  Thread = {t1, t2}
  Worker = {w1}
  Server = server
  docA = docA
  docB = docB
  docC = docC
  gone = gone
  titleA = titleA
  titleC = titleC
  Doc = {docA, docB, docC}
  Name = {gone, titleA, titleC}
  Title <- MCTitle
  TopHit <- MCTopHit
  Chunks <- MCChunks
  Matches <- MCMatches
  Neighbours <- MCNeighbours
  TitleHits <- MCTitleHits
  Links <- MCLinks
  TopK = 2
  Multiplier = 2
  RrfK = 60
  CacheSize = 1
  MaxFailures = 1
  None = None
  Absent = Absent
  Failed = Failed
  NotFound = NotFound
INVARIANTS CachesTruthful ConfiguredClient LoadedOnce AnswersFromIndex LinksOpen
PROPERTIES RequestsEnd
CHECK_DEADLOCK FALSE
