SPECIFICATION Spec
CONSTANTS
  Callers = {c1, c2}
  Delays = 2
  RetryInitial = TRUE
  MaxWaiters = 1
  Refused <- Browser
  MaxGeneration = 2
  MaxInbox = 1
CHECK_DEADLOCK FALSE
PROPERTY Ends
