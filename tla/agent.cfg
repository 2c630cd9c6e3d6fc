\* One run of two steps, two runners, a request at a time, both payment modes, two events.
SPECIFICATION FairSpec
CONSTANTS
  r1 = r1  p1 = p1  p2 = p2  c1 = c1  c2 = c2
  Runs = {r1}
  Runners = {p1, p2}
  Clients = {c1}
  MaxSteps = 2
  Budget = 3
  Amounts = {1, 2}
  Modes = {"mock", "authorized"}
  NoRun = NoRun
  MaxEvents = 2
INVARIANTS PaidOnce BudgetHeld SpendingAccounted StepsFollowAnswers CancelSticks
PROPERTIES ComesToRest
CHECK_DEADLOCK FALSE
