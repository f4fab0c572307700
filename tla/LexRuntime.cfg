\* The generated scanner on every short text of six small scanners.
CONSTANTS
  Scanners <- MCScanners
  Sources <- MCSources
  NewLine <- MCNewLine
  Capacity = 4
SPECIFICATION FairSpec
INVARIANTS PlacesFollowText LongestMatch AnalysisAgrees TokensExact
PROPERTY Terminates
CHECK_DEADLOCK FALSE
