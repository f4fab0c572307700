CONSTANTS
  Files <- MCFiles
  Punctuation <- MCPunctuation
  CharCode <- MCCharCode
  References <- MCReferences
  MaxLooks = 2
SPECIFICATION MainSpec
INVARIANT MidruleReferences
