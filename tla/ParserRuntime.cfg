\* The generated parser on every short input of the catalogue's grammars.
CONSTANTS
  Parsers <- MCParsers
  Sentences <- MCSentences
SPECIFICATION FairSpec
INVARIANTS NeverStuck AcceptsLanguage ValuesInOrder RankedTree ScopesFollowText
PROPERTIES ImplementsBottomUp Terminates
CHECK_DEADLOCK FALSE
