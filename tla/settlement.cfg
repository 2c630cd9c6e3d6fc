\* Two payments of one mandate, two executions, two days, one fault, every act of
\* the payer; together the payments exceed the limit of a day.
SPECIFICATION Spec
CONSTANTS
  p1 = p1  p2 = p2  p3 = p3  h1 = h1  h2 = h2  h3 = h3  alice = alice
  Payments = {p1, p2}
  Handlers = {h1, h2}
  Subject <- OneSubject
  Amount <- TwoOne
  Limit <- LimitTwo
  Deployments = {"simulated", "authorized"}
  MayRevert = {p1}
  PayerActs = {"settle", "deposit", "cancel"}
  None = None
  MaxAttempt = 3
  MaxDay = 2
  MaxFaults = 1
SYMMETRY HandlerSymmetry
INVARIANTS NoFreeService FailedNeverCharged ReservationsExact
PROPERTIES NeverReopened OnlyCurrentAttemptRecords
CHECK_DEADLOCK FALSE
