\* Two rearms or replays after one failed execution; a run that is killed.
SPECIFICATION Spec
CONSTANTS
  TokenTtl = 2
  SessionTtl = 2
  AuthTtl = 1
  MaxTime = 3
  MaxRuns = 3
  MaxCrashes = 1
INVARIANTS EvidenceTrue OneAttempt JournalFirst
CHECK_DEADLOCK FALSE
