SPECIFICATION FairSpec
CONSTANTS
  j1 = j1  j2 = j2  j3 = j3
  r1 = r1  r2 = r2  r3 = r3
  h1 = h1
  s1 = s1  s2 = s2
  Starter = {s1, s2}
  Admin = {a1, a2}
  Job = {j1, j2, j3}
  Row = {r1, r2, r3}
  NewAsset = {x1, x2, x3}
  Host = {h1}
  Output <- MCOutput
  Instance <- MCInstance
  MaxCandidates = 2
  NoJob = NoJob
  NoRow = NoRow
  NoHost = NoHost
  NoAsset = NoAsset
INVARIANTS
  DiscoveryTypeOK
  HostRowsBounded
  PortChangesAlerted
  CompleteWatchAnnounced
  AssetsPerRowBounded
PROPERTIES
  JobsEnd
CHECK_DEADLOCK FALSE
