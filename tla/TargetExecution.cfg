CONSTANTS
  Names = {"x", "y", "z", "h", "p"}
  Types = {"int", "char", "void"}
  EntryFunction = "main"
  Literals <- MCLiterals
  Programs <- MCPrograms
  Arguments = {0, 1}
  NumberOf <- MCNumberOf
  Answer <- MCAnswer
SPECIFICATION Spec
INVARIANTS WellFormed ResultsAgree
PROPERTIES ImplementsTac ControlFollowsBlocks Terminates
CHECK_DEADLOCK FALSE
