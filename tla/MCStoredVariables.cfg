CONSTANTS
  Keys <- MCKeys
  Scalars <- MCScalars
  Templates <- MCTemplates
  Ref <- MCRef
  Paths <- MCPaths
  Values <- MCValues
  MaxDepth = 2
  MaxNodes = 3
SPECIFICATION Spec
INVARIANTS TypeOK
PROPERTIES ImplementsVariables
