\* From every grammar to its tables, by the canonical, the merged and the propagated automaton.
CONSTANTS
  Grammars <- MCGrammars
  TextOrder <- MCTextOrder
  FirstSets <- MCFirst
  FollowSets <- MCFollow
  CoreStates <- MCCores
  CanonicalStates <- MCCanonical
SPECIFICATION FairPipeline
INVARIANTS SetsExact CollectionExact EdgesKeepCore CellsExact
PROPERTY TablesDone
CHECK_DEADLOCK FALSE
