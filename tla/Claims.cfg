SPECIFICATION Spec
CONSTANTS
  Builds = {b1, b2, b3}
  Paths = {"dist", "dist/app.js", "page"}
  Inside <- DistInside
  Requests <- Lists
  None = None
INVARIANTS Exclusive LeasesStand TheDeadYield
PROPERTY Arbitrates
CHECK_DEADLOCK FALSE
SYMMETRY BuildSymmetry
