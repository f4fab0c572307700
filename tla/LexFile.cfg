\* Files printed from expressions and actions, broken ones, and ranges that end at 255.
CONSTANTS
  Files <- MCFiles
  Code <- MCCode
  Spelling <- MCSpelling
  AsciiLimit = 128
  ByteLimit = 256
  MaxRepeatBound = 10000
SPECIFICATION FairSpec
INVARIANTS RulesAsWritten ExpansionMeans
PROPERTY ReadingEnds
CHECK_DEADLOCK FALSE
