SPECIFICATION Spec
CONSTANTS
  Words <- MCWords
  Dotted <- MCDotted
  GoFunctions <- MCFunctions
  Roots <- MCRoots
  Programs <- AllPrograms
  Options <- AnyOption
  Callers = {c1}
INVARIANTS TypeOK SelectedAreNodes TypesDescribe ClearErrorsAreCaught
