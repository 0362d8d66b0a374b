CONSTANTS
  Goroutines = {g1, g2, g3}
  Nobody = nobody
  Entries = {e1}
  Contents = {x}
  Calls = {"GetValue", "EvalValue", "SetValue"}
  Functions = {"pure", "callsBack", "panics"}
SPECIFICATION FairSpec
INVARIANTS StuckOnlyByFunctions
PROPERTIES CallsReturn
CHECK_DEADLOCK FALSE
