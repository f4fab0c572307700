\* Every grammar of the catalogue, one behaviour each.
CONSTANT Cores <- MCCores
SPECIFICATION FairSpec
INVARIANTS NoLostWakeup ExactlyLalr
PROPERTIES ImplementsExploration Terminates
CHECK_DEADLOCK FALSE
