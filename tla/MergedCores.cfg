\* The promise of lalr_converter.h; TLC finds a grammar that breaks it.
CONSTANTS
  Grammars <- MCGrammars
  TextOrder <- MCTextOrder
  FirstSets <- MCFirst
  FollowSets <- MCFollow
  CoreStates <- MCCores
  CanonicalStates <- MCCanonical
SPECIFICATION PipelineSpec
INVARIANT IdenticalCoresMerged
CHECK_DEADLOCK FALSE
