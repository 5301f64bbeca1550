SPECIFICATION Spec
CONSTANTS
  Versions = {v0, v1}
  Legacy = {v0}
  Clients = {c1, c2}
  MaxJobs = 2
  MaxFaults = 1
  None = None
INVARIANTS
  CopyKept
