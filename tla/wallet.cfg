SPECIFICATION Spec
CONSTANTS
  Addresses = {a, b}
  Home = a
  Challenges <- MCChallenges
  Copies = {1, 2}
  Old = old
  None = none
  Asked = asked
  Device = device
  ChallengeLimit = 2
  SessionLimit = 1
  MaxLogins = 2
  Budgets <- MCBudgets
INVARIANTS SessionsLimited TokenMatchesWallet
PROPERTIES NoSessionLeft
CHECK_DEADLOCK FALSE
