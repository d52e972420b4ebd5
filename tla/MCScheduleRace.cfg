SPECIFICATION UplinkSpec
CONSTANTS
  c1 = c1
  c2 = c2
  p1 = p1
  p2 = p2
  t1 = t1
  t2 = t2
  None = None
  Commands <- MCCommands
  IdOrder <- MCIdOrder
  Dependencies <- MCDependencies
  max_retries = 2
  Passes <- MCPasses
  PassWindows <- MCPassWindows
  Estimate <- MCEstimate
  Callers <- MCCallers
  MaxTime = 3
  Entries = {c1, c2, p1}
  max_size = 2
  ttl_seconds = 1
  MaxValue = 2
  Moments = {0, 1, 2, 4, 7, 9}
  interpolation_window = 2
  max_age = 6
  ImmutableFor = 3
  max_fragments = 2
  FragmentPasses = {p1, p2, c1}
  SnapshotLimit = 2
  MaxTaken = 4
  batch_size = 3
  MaxSymbols = 7
  MaxBurstSymbols = 2
  Birds = {c1, c2, p1}
  BatchSizes = {0, 1, 2, 4}
  MaxStoreTime = 6
INVARIANTS
  RejectsConflicts
