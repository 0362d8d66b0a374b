CONSTANTS
  Keys <- MCKeys
  Scalars <- MCScalars
  Templates <- MCTemplates
  Ref <- MCRef
  Goroutines = {g1, g2}
  Paths <- SharedPaths
  Values <- SharedValues
  InitialRoots <- MCInitialRoots
  MaxDepths = {2}
  MaxNodes = 4
SPECIFICATION Spec
PROPERTIES NeverOverwritesOnConflict
