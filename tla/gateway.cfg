\* One payment, two executions each of settlement and inference, a fault, every act
\* of the payer.
SPECIFICATION FairSpec
CONSTANTS
  p1 = p1  r1 = r1  r2 = r2  k1 = k1  bodyA = bodyA
  c1 = c1  c2 = c2  h1 = h1  h2 = h2  alice = alice
  Payments = {p1}
  Handlers = {h1, h2}
  Subject <- MCSubject
  Amount <- MCAmount
  Limit <- MCLimit
  Deployments = {"simulated", "mock", "authorized"}
  MayRevert = {}
  PayerActs = {"settle", "deposit", "cancel"}
  None = None
  MaxAttempt = 4
  MaxDay = 1
  MaxFaults = 1
  Requests = {r1, r2}
  Callers = {c1, c2}
  PaymentOf <- MCPaymentOf
  KeyOf <- MCKeyOf
  BodyOf <- MCBodyOf
  BoundTo <- MCBoundTo
  NoKey = NoKey
  NoRequest = NoRequest
  Backends = {"external"}
PROPERTIES KeepsSettlement KeepsInference KeepsPromise SettlementResolves
CHECK_DEADLOCK FALSE
