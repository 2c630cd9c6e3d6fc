\* Three payments of alice and an authorization that covers any of them; a model, a mandate, two stakers.
SPECIFICATION Spec
CONSTANTS
  alice = alice  bob = bob  m1 = m1  g1 = g1  a1 = a1  a2 = a2  p1 = p1  p2 = p2  p3 = p3
  Users = {alice, bob}
  Meter = Meter  Vault = Vault  Staking = Staking  Registry = Registry
  Treasury = Treasury  Market = Market
  Usdc0 <- MCUsdc
  Encl0 <- MCEncl
  Auths = {a1, a2}
  AuthPayer <- MCAuthPayer
  AuthAmount <- MCAuthAmount
  MaxTime = 2
  DayLength = 2
  Models = {m1}
  Shares = {5000}
  ListingStake = 1
  Timelock = 1
  Policies = {"tcb"}
  Agents = {g1}
  Limits = {20, 25}
  Spendings = {5}
  NoOwner = NoOwner
  Payments = {p1, p2, p3}
  Terms <- MCTerms
  NoAgent = NoAgent  NoModel = NoModel  NoPayment = NoPayment
  Providers = bob  Ecosystem = bob
  ReserveBps = {1000}
  Precision = 7
  Scenarios = {{"clock", "deposits", "registry", "meter"}, {"clock", "mandate", "meter"},
               {"meter", "vault", "staking"}, {"registry", "staking"}}
INVARIANTS ObligationsHeld BooksExact ReserveBacked RewardsCovered
PROPERTIES MandateHeld
CHECK_DEADLOCK FALSE
