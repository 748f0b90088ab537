SPECIFICATION Spec
CONSTANTS
  Observers = {"a", "b"}
  Ticks = {"t", "u"}
  Budget = 2
  Often = 2
  Rounds = 2
  MaxRows = 1
INVARIANT NotSteppedOver
PROPERTIES OnlyRunaways TaskEnds
