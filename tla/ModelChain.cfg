SPECIFICATION FairSpec
CONSTANTS
  None = None
  Models = 2
  Policies <- SomePolicies
  RetryOns = {"any", "rate", "transient"}
  Modes = {"request", "stream"}
  Afters = {2}
  Lag = 1
  MaxTime = 24
CHECK_DEADLOCK FALSE
INVARIANTS
  OneVoice
  AttemptsAccounted
  BudgetKept
PROPERTIES
  RetryAfterHonoured
  CallReturns
