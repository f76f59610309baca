CONSTANTS
  Name = {n1, n2}
  Addr = {a1}
  NoName = NoName
  NoAddr = NoAddr
  Conn = {c1, c2}
  NoConn = NoConn
  Resolver = {r1, r2}
  MayCancel = TRUE
  ChanSize = 1
  MaxNames = 3
SPECIFICATION FairSpec
INVARIANTS TypeOK ConnExclusive NoConnLeft NoPanic
PROPERTIES KeepsStream DiggingEnds CancelledEnds
