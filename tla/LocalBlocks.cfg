CONSTANTS
  Names = {"x", "y", "z", "h", "p"}
  Types = {"int", "char", "void"}
  EntryFunction = "main"
  Literals <- MCLiterals
  Programs <- ShadowPrograms
  Arguments = {0, 1}
  NumberOf <- MCNumberOf
  Answer <- MCAnswer
SPECIFICATION Spec
INVARIANT LocalBlocksOpenScopes
CHECK_DEADLOCK FALSE
