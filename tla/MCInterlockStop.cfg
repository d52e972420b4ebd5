SPECIFICATION StationSpec
CONSTANTS
  u1 = u1
  u2 = u2
  f1 = f1
  f2 = f2
  SwitchPositions = {1, 2}
  NumSwitches = 2
  FilterIds = {f1, f2}
  FilterSpecs <- MCFilterSpecs
  Frequencies = {1, 2, 3, 4}
  yig_min = 1
  yig_max = 4
  Updaters = {u1, u2}
  Temperatures = {25, 90, 100}
  max_temperature = 90
  gain_range <- MCGainRange
  Gains <- MCGains
  num_bits = 2
  AttenuatorLimit = 8
  OddStep = 3
  Levels = {0, 1, 2, 3, 4, 5, 6, 7, 8, 9}
  CalibrationPoints <- MCPoints
  MaxPoints = 3
  MaxDeviceCalls = 6
  snr = snr
  ber = ber
  Monitored = {snr, ber}
  PredictedInterval <- MCInterval
  ObservedValues = {0, 10, 23}
  SnapshotTimes = {1, 2, 3, 4}
  MaxTwinSnapshots = 2
  MaxObservations = 4
  r1 = r1
  r2 = r2
  Reporters <- MCReporters
  Amplifiers = {1, 2}
  Attenuators = {1, 2, 3}
  OperableAmplifiers = {1, 2}
  OperableAttenuators = {1, 3}
  Inputs <- MCInputs
  initial_level <- MCInitialLevel
  target_level <- MCTargetLevel
  min_gain = 0
  max_gain = 640
  hysteresis = 256
  AmplifierRange <- MCAmplifierRange
  MaxAttenuation = 4032
  step_size = 64
  ManualGains = {1024}
  MaxInterventions = 3
  MaxOverlaps = 1
  t1 = t1
  t2 = t2
  s1 = s1
  s2 = s2
  s3 = s3
  p1 = p1
  p2 = p2
  file = file
  v1 = v1
  v2 = v2
  k1 = k1
  k2 = k2
  c1 = c1
  c2 = c2
  q1 = q1
  q2 = q2
  op = op
  a1 = a1
  a2 = a2
  a3 = a3
  here = here
  via1 = via1
  via2 = via2
  there = there
  Tasks <- MCTasks
  Stoppers <- MCStoppers
  MaxTriggers = 3
  AxisMin = 1
  AxisMax = 4
  Commands = {0, 1, 3, 4, 5}
  Stow = 3
  Index = 2
  References = {1, 3}
  Passes <- MCPasses
  Paths <- MCPaths
  Versions <- MCVersions
  Schemas <- MCSchemas
  Contents <- MCContents
  MaxPid = 3
  Absent = Absent
  ProposalIds <- MCProposals
  Operators <- MCOperators
  MaxApprovals = 2
  PlanIds <- MCPlanIds
  AcquisitionPriorities = {1, 2}
  MaxQueued = 2
  Plans <- MCPlans
  TargetT0 <- MCTargetT0
  MaxPatTime = 2
  Residuals = {0, 20, 50}
  Qualities = {0, 1}
  Delays = {0, 2}
  max_history = 3
  Window = 1
  MaxAge = 1
  TargetInterval = 1
  Nodes <- MCNodes
  Links <- MCLinks
  Source = here
  Destination = there
  max_hops = 2
  MaxEdges = 4
  LinkPlans = {a1}
  LinkCauses = {"SignalLost"}
  LinkQualities <- MCLinkQualities
  link_snapshots = 2
  Readings <- MCReadings
  HistorySizes = {0, 4, 6}
  healthy_ber <- MCHealthyBer
  healthy_snr = 10
  threshold_ber <- MCThresholdBer
  threshold_snr = 10
  threshold_pointing = 200
  Strategies = {"Seamless", "BreakBeforeMake"}
  MaxLinkCalls = 4
  MaxReadings = 7
  MaxLinkHandoffs = 3
  MaxLinkTime = 2
INVARIANTS
  NormalMeansNotTriggered
CHECK_DEADLOCK FALSE
