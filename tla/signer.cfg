\* Two operations, a sender and the recovery; a deep fork, a foreign transaction, a fault.
SPECIFICATION Spec
CONSTANTS
  o1 = o1  o2 = o2  s1 = s1  s2 = s2  w = w
  Ops = {o1, o2}
  Senders = {s1}
  Workers = {w}
  Depth = 0
  NoProc = NoProc  NoOp = NoOp
  ForkDepth = 1
  MaxForks = 1
  MaxForeign = 1
  MaxFaults = 1
INVARIANTS EffectOnce NoncesExact RecordMatchesBlock
PROPERTIES RevisedOnlyByForks
SYMMETRY Symmetry
CHECK_DEADLOCK FALSE
