\* Up to four requests of three payments, two concurrent executions; two
\* policies and two activations; two checks of the provider.
SPECIFICATION ServingSpec
CONSTANTS
  p1 = p1  p2 = p2  p3 = p3  r1 = r1  r2 = r2  r3 = r3  r4 = r4  r5 = r5
  k1 = k1  bodyA = bodyA  bodyB = bodyB  c1 = c1  c2 = c2
  m1 = m1  m2 = m2  x1 = x1  x2 = x2 
  Payments = {p1, p2, p3}
  Requests = {r1, r2, r3, r4, r5}
  Callers = {c1, c2}
  PaymentOf <- MCPaymentOf
  KeyOf <- MCKeyOf
  BodyOf <- MCBodyOf
  BoundTo <- MCBoundTo
  NoKey = NoKey
  NoRequest = NoRequest
  Backends = {"echo", "external"}
  MaxVersion = 2
  Bootstrap = 1
  Admins = {m1, m2}
  Checks = {x1, x2}
  SessionUnder <- MCSessionUnder
  MaxAttempts = 4
  Scenes <- MCScenes
SYMMETRY Interchangeable
INVARIANTS AtMostOneRun ReceiptsMatchPayments AnswersConsistent ReadinessFresh
PROPERTIES ServedByActivePolicy
CHECK_DEADLOCK FALSE
