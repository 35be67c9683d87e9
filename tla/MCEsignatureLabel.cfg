CONSTANTS
  Engagement = {e1}
  Envelope = {v1}
  Blob = {b1}
  SendRequest = {p1}
  CheckRequest = {c1}
  ScopeStatus = {"CLOSED"}
  OwnKeyed = {}
  ByokGranted = FALSE
  NoEngagement = NoEngagement
  NoEnvelope = NoEnvelope
  NoBlob = NoBlob
  FreeText = FreeText
  Asset = {w1}
  Token = {}
  OfferedMethod = {}
  ProbeRequest = {}
  NoAsset = NoAsset
  NoToken = NoToken
  Justification = Justification
SPECIFICATION GatesSpec
INVARIANT EsignatureMeansConfirmed
