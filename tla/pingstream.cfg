CONSTANTS
  Name = {n1}
  Addr = {a1}
  NoName = NoName
  NoAddr = NoAddr
  Workers = {w1, w2}
  NoJob = NoJob
  Count = 3
  ThresholdPercentage = 50
  Streams = {c1, c2}
  Callers = {c3}
  Stoppers = {s1, s2}
  InputQuality = {0, 3}
  MayCancel = TRUE
  ChanSize = 1
  MaxIn = 2
SPECIFICATION FairSpec
INVARIANTS TypeOK NoticeFirst OneVerdictEach StopWaitWaits
PROPERTIES NoSendAfterClose StreamEndsForAll CancelledStops
