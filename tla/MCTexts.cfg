CONSTANTS
  Keys <- MCKeys
  Scalars <- MCScalars
  Templates <- MCTemplates
  Ref <- MCRef
  Roots <- MCRoots
  Loads <- MCLoads
  Vocabularies <- MCVocabularies
  MaxWords = 6
  Trees <- MCTrees
  Snippets <- MCSnippets
  MaxSnippets = 5
  Contexts <- MCContexts
SPECIFICATION TextsSpec
INVARIANTS TypeOK WrittenIsRead NeverReadsPastEnd WrittenIsParsed NothingIsLost SpacesAreFree
  ExpressionsAreFound PiecesAreTheString PlainStringsStay
PROPERTIES ImplementsAtomicLoad
