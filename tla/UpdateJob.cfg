SPECIFICATION FairSpec
CONSTANTS
  Versions = {v0, v1, v2}
  Legacy = {v0}
  Clients = {c1, c2}
  MaxJobs = 2
  MaxFaults = 2
  None = None
INVARIANTS
  GatedUpdates
  Recoverable
  OutcomeMatches
PROPERTIES
  UpdateEnds
