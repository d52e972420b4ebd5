SPECIFICATION FederationSpec
CONSTANTS
  a = a
  b = b
  h1 = h1
  h2 = h2
  h3 = h3
  Peers = {b}
  Proofs <- MCProofs
  MAX_ATTESTATION_HISTORY = 3
  MAX_PASS_DURATION = 2
  MAX_BITEMPORAL_DRIFT = 1
  MaxUpdates = 6
  Stations <- MCStations
  Schedules <- MCSchedules
  MaxMessages = 2
  Hashes <- MCHashes
  Passes = {a, b}
  Times = {0, 1, 2}
  NoHash = NoHash
  MaxEntries = 3
  max_snapshots = 2
  Holders <- MCStations
  LinkHashes <- MCLinkHashes
  l1 = l1
  l2 = l2
  NoLink = NoLink
  EventTimes = {0, 1, 2}
  MaxLinks = 2
  Licensees <- MCStations
  Nested <- MCNested
  FrequencyBands <- MCBands
  Lowest <- MCLowest
  Highest <- MCHighest
  Grants <- MCGrants
  Hertz = {1, 2, 3}
  PowerLevels = {1, 2}
  MaxLicences = 2
  MaxLicenceTime = 3
SYMMETRY HashSymmetry
INVARIANTS
  FederationTypeOK
  TrustFollowsEvidence
  RecordsAreSound
  LicensingIsSound
PROPERTIES
  CoordinationIsSound
CHECK_DEADLOCK FALSE
