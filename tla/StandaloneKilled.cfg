SPECIFICATION Spec
CONSTANTS
  Targets = {"main.css", "main.js", "main.js.map"}
  Main = "main.js"
  Emits <- Emitted
  Order <- Sorted
  Nothing = Nothing
  Authored = {Draft, Final}
  TornFailures = FALSE
INVARIANT KilledIsRecovered
CHECK_DEADLOCK FALSE
