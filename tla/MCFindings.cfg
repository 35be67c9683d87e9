SPECIFICATION FindingsSpec
CONSTANTS
  f1 = f1  f2 = f2  f3 = f3  f4 = f4  f5 = f5
  web = web  db = db  q1 = q1  q2 = q2
  Finding = {f1, f2, f3, f4, f5}
  Request = {r1}
  Importer = {p1, p2}
  Retester = {q1, q2}
  Admin = {a1}
  Asset = {web, db}
  NoAsset = NoAsset
  NoFinding = NoFinding
  NoTitle = NoTitle
  Title <- MCTitle
  Tokens <- MCTokens
  Caller <- MCCaller
  AssetTraits <- MCAssetTraits
  Item <- MCItem
  Instance <- MCInstance
  DailyCap = 1
  MonthlyCap = 2
  MaxDrafts = 1
  MaxEntryPoints = 2
  MaxTargets = 4
  MaxCandidates = 3
SYMMETRY MCSymmetry
INVARIANTS
  FindingsTypeOK
  DuplicatesBounded
  StatusFollowsRetests
  ClustersSound
  CorroborationHelps
  AttackPathsComplete
  OvershootBounded
CHECK_DEADLOCK FALSE
