SPECIFICATION HardwareSpec
CONSTANTS
  d1 = d1
  d2 = d2
  p1 = p1
  p2 = p2
  t1 = t1
  t2 = t2
  sdr = sdr
  None = None
  Devices <- MCDevices
  Types <- MCTypes
  TypeOf <- MCTypeOf
  Passes <- MCPasses
  Tasks <- MCTasks
  CIRCUIT_OPEN_THRESHOLD = 2
  MaxFailures = 3
  MaxRequest = 2
  ReaddHeld = FALSE
  Samples = {0, 1}
  Zero = 0
  Capacity = 4
  MaxBurst = 4
  snapshot_interval_samples = 5
  max_snapshots = 3
  MaxSamples = 40
  r1 = r1
  r2 = r2
  a1 = a1
  a2 = a2
  s1 = s1
  s2 = s2
  mount = mount
  spare = spare
  RequestLists <- MCRequestLists
  Existing <- MCExisting
  Sdrs <- MCSdrs
  ShadowSdrs <- MCShadows
  Antennas <- MCAntennas
  Rotators <- MCRotators
  FallbackSdr = s1
  FallbackAntenna = a1
  FallbackRotator = mount
  MaxShift = 2
  Hour = 12
  MinimumLength = 1
  max_iterations = 3
  MaxCalls = 1
  MaxScheduleTime = 1
  Profiles <- MCProfiles
  Threshold = 80
  typical_loss_duration_s = 3
  Customers = {t1, t2}
  ResourceTypes = {d1, d2}
  Capacities = {0, 2, 4}
  Amounts = {1, 2}
  Full = 4
  Scale = 10000000
  GrantSize = 10
  Uses = {3, 12}
  MaxAllocated = 3
  MaxGrants = 6
SYMMETRY PoolSymmetry
INVARIANTS
  Lossless
CHECK_DEADLOCK FALSE
