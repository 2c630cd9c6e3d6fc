\* One payment whose payer submits its own signed authorization to the meter.
SPECIFICATION Spec
CONSTANTS
  p1 = p1  p2 = p2  p3 = p3  h1 = h1  h2 = h2  h3 = h3  alice = alice
  Payments = {p1}
  Handlers = {h1}
  Subject <- OneSubject
  Amount <- TwoOne
  Limit <- LimitThree
  Deployments = {"authorized"}
  MayRevert = {}
  PayerActs = {"settle"}
  None = None
  MaxAttempt = 2
  MaxDay = 1
  MaxFaults = 0
INVARIANTS RevertProvesNoTransfer
CHECK_DEADLOCK FALSE
