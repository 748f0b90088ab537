SPECIFICATION Spec
CONSTANTS
  Cells = {"a", "b"}
  Computeds = {}
  Watches = {"w1"}
  Doms = {}
  Values = {0, 1, 2}
  Sequence <- Order
  MaxSelf = 2
  Pages <- TheNoisyOne
  Impure = {}
  Parts <- PartsOf
  Code <- Program
  Traces <- ShortTraces
  Start0 = 0
  Inputs <- HandlersOf
  Nobody = Nobody
PROPERTY Settles
