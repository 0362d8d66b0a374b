CONSTANTS
  Keys <- MCKeys
  Scalars <- MCScalars
  Templates <- MCTemplates
  Ref <- MCRef
  Goroutines = {g1}
  Paths <- RootOnly
  Values <- NoValues
  InitialRoots <- MCInitialRoots
  MaxDepths = {1, 2}
  MaxNodes = 7
SPECIFICATION FairSpec
PROPERTIES InterpolateResolves CycleMeansLongChain RoundsAtMostSquare CallsComeToAnEnd CallsReturn
