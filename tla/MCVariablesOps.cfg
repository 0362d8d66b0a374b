CONSTANTS
  Keys <- MCKeys
  Scalars <- MCScalars
  Templates <- MCTemplates
  Ref <- MCRef
  Goroutines = {g1}
  Paths <- OpPaths
  Values <- OpValues
  InitialRoots <- OpInitialRoots
  MaxDepths = {2}
  MaxNodes = 4
SPECIFICATION Spec
INVARIANTS TypeOK WriteBackNeverFails
PROPERTIES SetIsLocal ErrorsLeaveTheTree DeleteIsLocal AppendKeepsElements MergeDelivers
