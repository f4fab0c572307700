\* Every small expression, and competing rules in processes that build one scanner or two.
CONSTANTS
  Programs <- MCPrograms
  Names <- MCNames
  Alphabet <- MCAlphabet
  Texts <- MCTexts
  Unsupported = {"nul"}
SPECIFICATION FairSpec
INVARIANTS SubsetsFaithful VerdictExact MinimalExact
PROPERTY Terminates
CHECK_DEADLOCK FALSE
