CONSTANTS
  Name = {n1, n2}
  Addr = {a1}
  NoName = NoName
  NoAddr = NoAddr
  Workers = {w1, w2}
  NoJob = NoJob
  Free = Free
  Main = Main
  Slurper = Slurper
  Count = 3
  ThresholdPercentage = 50
  MayCancel = TRUE
  ChanSize = 1
  EntryQuality = {0}
  MaxIn = 3
SPECIFICATION Spec
INVARIANT NoPanic
