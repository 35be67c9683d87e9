CONSTANTS
  e1 = e1
  Engagement = {e1}
  Envelope = {v1}
  Blob = {}
  SendRequest = {q1}
  CheckRequest = {c1}
  ScopeStatus = {"CLOSED"}
  OwnKeyed = {}
  ByokGranted = FALSE
  NoEngagement = NoEngagement
  NoEnvelope = NoEnvelope
  NoBlob = NoBlob
  FreeText = FreeText
  Asset = {w1}
  Token = {t1}
  OfferedMethod = {"HTTP_FILE"}
  ProbeRequest = {p1}
  NoAsset = NoAsset
  NoToken = NoToken
  Justification = Justification
  EngagementOf <- MCEngagementOf
  Scannable = {w1}
  Attempt = {k1}
  Admin = {a1}
  Sweeper = {s1}
  MaxScansPerRun = 1
  TestStatus = {}
  MaxFaults = 0
  NoAttempt = NoAttempt
SPECIFICATION Spec
INVARIANTS
  TypeOK
  TestNeedsAuthorization
  ScanHasEvidence
SYMMETRY MCSymmetry
