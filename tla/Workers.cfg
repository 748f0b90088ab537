SPECIFICATION Spec
CONSTANTS
  Calls = {c1, c2}
  Members = {m1, m2}
  PoolCapacity = 2
  Capacities = {1, 2}
CHECK_DEADLOCK FALSE
INVARIANTS AckIsOwed Carried CancelReaches
PROPERTIES RefusedOnlyBehindTheLost StuckIsFound CancelEnds
