CONSTANTS
  Calls = {c1, c2}
  Unsent = Unsent
  MaxAttempts = 3
  MaxWait = 1
  Asked <- MCAsked
SPECIFICATION FairSpec
INVARIANTS TypeOK FailsForCause
PROPERTIES ImplementsExchange Terminates
CHECK_DEADLOCK FALSE
