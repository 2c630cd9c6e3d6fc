\* Three payments of one mandate, claimed by three executions around midnight.
SPECIFICATION Spec
CONSTANTS
  p1 = p1  p2 = p2  p3 = p3  h1 = h1  h2 = h2  h3 = h3  alice = alice
  Payments = {p1, p2, p3}
  Handlers = {h1, h2, h3}
  Subject <- OneSubject
  Amount <- Ones
  Limit <- LimitOne
  Deployments = {"authorized"}
  MayRevert = {}
  PayerActs = {}
  None = None
  MaxAttempt = 3
  MaxDay = 2
  MaxFaults = 0
INVARIANTS DailyLimitHeld
CHECK_DEADLOCK FALSE
