CONSTANTS
  Goroutines = {g1, g2, g3}
  Nobody = nobody
  Entries = {e1, e2}
  Contents = {absent, x}
  Calls = {"GetValue", "SetValue"}
  Functions = {"pure"}
SPECIFICATION Spec
INVARIANTS TypeOK LockOK CopyIsCurrent
PROPERTIES ImplementsAtomic
