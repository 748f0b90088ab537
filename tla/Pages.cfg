SPECIFICATION Spec
CONSTANTS
  Cells = {"a", "b"}
  Computeds = {"double", "mode"}
  Watches = {"w1", "w2"}
  Doms = {"p", "q"}
  Values = {0, 1, 2}
  Sequence <- Order
  MaxSelf = 1
  Pages <- ThePages
  Impure = {"Storm", "Echo"}
  Parts <- PartsOf
  Code <- Program
  Traces <- ShortTraces
  Start0 = 0
  Inputs <- HandlersOf
  Nobody = Nobody
INVARIANTS CleanIsCurrent SubscriptionsMatch AtRestCurrent ShownIsTruth
PROPERTIES SettledBeforeDom DrawnOnce StoppedStaysQuiet SettlesUnlessStuck
