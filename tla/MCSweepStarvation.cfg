CONSTANTS
  e1 = e1
  Engagement = {e1}
  Envelope = {}
  Blob = {}
  SendRequest = {}
  CheckRequest = {}
  ScopeStatus = {"CLOSED"}
  OwnKeyed = {}
  ByokGranted = FALSE
  NoEngagement = NoEngagement
  NoEnvelope = NoEnvelope
  NoBlob = NoBlob
  FreeText = FreeText
  Asset = {w1, w2}
  Token = {}
  OfferedMethod = {"HTTP_FILE"}
  ProbeRequest = {}
  NoAsset = NoAsset
  NoToken = NoToken
  Justification = Justification
  EngagementOf <- MCEngagementOf
  Scannable = {w1, w2}
  Attempt = {k1, k2}
  Admin = {}
  Sweeper = {s1}
  MaxScansPerRun = 1
  TestStatus = {}
  MaxFaults = 0
  NoAttempt = NoAttempt
SPECIFICATION CronSpec
PROPERTY SweepReachesEveryAsset
