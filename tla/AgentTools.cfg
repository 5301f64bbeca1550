SPECIFICATION LiveSpec
CONSTANTS
  MaxCalls = 3
  Plans <- FewPlans
  MaxFaults = 1
  MaxResumes = 1
INVARIANTS
  WorkspaceAlone
  MutatedOnce
  ResultsAreTrue
  NoOrphans
PROPERTIES
  RunEnds
CHECK_DEADLOCK FALSE
