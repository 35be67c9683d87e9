CONSTANTS
  e1 = e1
  Engagement = {e1}
  Envelope = {}
  Blob = {}
  SendRequest = {}
  CheckRequest = {}
  ScopeStatus = {"CLOSED"}
  OwnKeyed = {}
  ByokGranted = FALSE
  NoEngagement = NoEngagement
  NoEnvelope = NoEnvelope
  NoBlob = NoBlob
  FreeText = FreeText
  Asset = {w1}
  Token = {}
  OfferedMethod = {"HTTP_FILE"}
  ProbeRequest = {}
  NoAsset = NoAsset
  NoToken = NoToken
  Justification = Justification
  EngagementOf <- MCEngagementOf
  Scannable = {w1}
  Attempt = {k1, k2}
  Admin = {a1}
  Sweeper = {s1}
  MaxScansPerRun = 1
  TestStatus = {"COMPLETE"}
  MaxFaults = 1
  NoAttempt = NoAttempt
SPECIFICATION FairSpec
INVARIANTS
  ClosedTestHasOutcome
  LiveJobHasOwner
PROPERTIES
  OutcomeIsFinal
  RestartHeals
  TestsClose
