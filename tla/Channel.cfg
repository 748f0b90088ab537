SPECIFICATION Spec
CONSTANTS
  Calls = {c1, c2, c3, c4, c5, c6}
  Tokens = {t1, t2}
  Capacity = 2
  None = None
SYMMETRY CallSymmetry
CHECK_DEADLOCK FALSE
INVARIANTS NobodyWaitsInVain WaitersAreHeld Fifo SentIsKept
PROPERTY KeepsPromise
