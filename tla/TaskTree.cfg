SPECIFICATION Spec
CONSTANTS
  Tasks = {t1, t2}
  None = None
CHECK_DEADLOCK FALSE
INVARIANTS ReachesDown HoldsTheLiving AnsweredMeansEnded CancelledForAReason
PROPERTIES StopEnds TimeoutEnds
