SPECIFICATION Spec
CONSTANTS
  Words <- MCWords
  Dotted <- MCDotted
  GoFunctions <- NoFunctions
  Roots <- MCRoots
  Programs <- DefaultProgram
  Options <- AnyTree
  Callers = {c1}
INVARIANTS RejectedFails
