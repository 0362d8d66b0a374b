CONSTANTS
  Goroutines = {g1, g2}
  Nobody = nobody
  Entries = {e1, e2}
  Contents = {absent, x}
  Calls = {"EvalValue", "SetValue"}
  Functions = {"pure"}
SPECIFICATION Spec
PROPERTIES ReturnsOneTree
CHECK_DEADLOCK FALSE
