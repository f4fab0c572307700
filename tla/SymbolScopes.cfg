\* Two names and two widths, up to three open scopes: shadowing, rejected duplicates and a
\* parameter beside a local of the same frame all occur.
CONSTANTS
  Names = {x, y}
  Types = {"char", "int"}
  MaxDepth = 3
  NoMeaning = NoMeaning
SYMMETRY NameSymmetry
SPECIFICATION Spec
INVARIANTS StorageApart
PROPERTIES ImplementsScoping
