CONSTANTS
  Name = {n1}
  Addr = {a1}
  NoName = NoName
  NoAddr = NoAddr
  Workers = {w1}
  NoJob = NoJob
  Count = 3
  ThresholdPercentage = 50
  Streams = {}
  Callers = {c1}
  Stoppers = {s1}
  InputQuality = {0}
  MayCancel = FALSE
  ChanSize = 1
  MaxIn = 0
SPECIFICATION Spec
INVARIANT VerifiedReachesThreshold
