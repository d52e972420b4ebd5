SPECIFICATION RunSpec
CONSTANTS
  i1 = i1
  i2 = i2
  i3 = i3
  i4 = i4
  n1 = n1
  n2 = n2
  s1 = s1
  s2 = s2
  s3 = s3
  oct = oct
  gs = gs
  cloudy = cloudy
  Nothing = Nothing
  Unbounded = Unbounded
  None = None
  Absent = Absent
  Unlimited = Unlimited
  Ids <- MCIds
  Tenants <- MCTenants
  Terminals = {"oct1"}
  Windows <- MCWindows
  Powers = {1, 2}
  Quotas = {2, 3}
  Priorities = {"Critical", "Medium"}
  Satellites <- MCSatellites
  Carried <- MCCarried
  Claims <- MCClaims
  DefaultTenant = n1
  TotalWatts = 2
  Hour = 2
  MaxTime = 1
  MaxLive = 2
  Spacecraft <- MCSpacecraft
  Steps = {"SourceReleasing", "TargetBound"}
  MaxHandoffs = 3
  MaxTransitions = 4
  Craft <- MCCraft
  Forecasts <- MCForecasts
  Latencies = {1}
  Bucket = 10
  Intents <- MCIntents
  TerminalAssets = {oct}
  Host <- MCHost
  Stations <- MCStations
  Availability <- MCAvailability
  CloudCover <- MCCloudCover
  MaxIntents = 2
  MaxTasks = 3
  g1 = g1
  g2 = g2
  g3 = g3
  peer = peer
  Sites <- MCSites
  Managed <- MCSatellites
  Operators = {peer}
  Trusts = {4, 5}
  Validity = 2
  MaxRequests = 2
  MaxHistory = 2
  MaxPlaneTime = 3
  PlacementForecasts <- MCPlacementForecasts
  num_clusters = 2
  local_search_iterations = 2
  Distances = {9, 10, 12}
  handoff_threshold_ratio = 1
  Birds <- MCSatellites
  Epochs = {0, 2, 3}
  Unusable = {2}
  max_age_hours = 0
  MaxOrbitTime = 4
  Elevations = {0, 1, 2}
  min_elevation = 1
  Ranges = {1, 2}
  MaxSamples = 4
  StepSizes = {2}
SYMMETRY IdSymmetry
INVARIANTS
  SatellitesTypeOK
  IndexesAgree
  TerminalsAreExclusive
  PowerConserved
  RouteIsCheapest
  MissionsAreSound
  ControlPlaneIsSound
  ConstellationIsSound
PROPERTIES
  NoStepExceedsQuota
  AllocatorSpec
CHECK_DEADLOCK FALSE
