CONSTANTS
  Name = {n1, n2}
  Addr = {a1, a2}
  NoName = NoName
  NoAddr = NoAddr
  Workers = {w1, w2}
  NoJob = NoJob
  Free = Free
  Main = Main
  Slurper = Slurper
  Count = 3
  ThresholdPercentage = 50
  MayCancel = FALSE
  ChanSize = 1
  EntryQuality = {0, 1}
  MaxIn = 3
SPECIFICATION Spec
SYMMETRY MCSymmetry
INVARIANTS TypeOK SameVerdictForAllNames PingedOnlyOnce NobodyForgotten NoPanic
PROPERTIES NewsNeverWorsen NewsInSteps
