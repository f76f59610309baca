CONSTANTS
  Name = {n1}
  Addr = {1, 2}
  NoName = NoName
  NoAddr = NoAddr
  ChanSize = 1
SPECIFICATION Spec
INVARIANT ReportRight
