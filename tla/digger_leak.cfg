CONSTANTS
  Name = {n1, n2}
  Addr = {a1, a2}
  NoName = NoName
  NoAddr = NoAddr
  Conn = {c1, c2}
  NoConn = NoConn
  Resolver = {r1, r2}
  MayCancel = FALSE
  ChanSize = 1
  MaxNames = 2
SPECIFICATION Spec
INVARIANT FailureLeavesNothing
