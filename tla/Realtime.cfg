SPECIFICATION Spec
CONSTANTS
  Callers = {c1, c2, c3}
  Delays = 2
  RetryInitial = TRUE
  MaxWaiters = 1
  Refused <- Accepting
  MaxGeneration = 2
  MaxInbox = 1
CHECK_DEADLOCK FALSE
INVARIANT NoLeak
PROPERTIES ClosedOnce WaitersAnswered Ends
