SPECIFICATION Spec
CONSTANTS
  Words <- MCWords
  Dotted <- MCDotted
  GoFunctions <- NoFunctions
  Roots <- MCRoots
  Programs <- ComputedProgram
  Options <- AnyTree
  Callers = {c1}
INVARIANTS SelectedAreNodes
