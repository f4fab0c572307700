\* Files printed from productions, and the self tests with children that end in every way or not at all.
CONSTANTS
  Files <- MCFiles
  Punctuation <- MCPunctuation
  CharCode <- MCCharCode
  References <- MCReferences
  MaxLooks = 2
SPECIFICATION FairMain
INVARIANTS RulesAsWritten SymbolsNumbered ReferencesResolved NothingLeftBehind
PROPERTY SelfTestDecides
