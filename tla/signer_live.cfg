\* One operation, a sender and the recovery; two deep forks and a fault.
SPECIFICATION FairSpec
CONSTANTS
  o1 = o1  o2 = o2  s1 = s1  s2 = s2  w = w
  Ops = {o1}
  Senders = {s1}
  Workers = {w}
  Depth = 1
  NoProc = NoProc  NoOp = NoOp
  ForkDepth = 2
  MaxForks = 2
  MaxForeign = 0
  MaxFaults = 1
PROPERTIES EventuallyRecorded
CHECK_DEADLOCK FALSE
