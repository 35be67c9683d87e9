CONSTANTS
  Engagement = {e1, e2}
  Envelope = {v1, v2}
  Blob = {b1, b2}
  SendRequest = {p1}
  CheckRequest = {c1, c2}
  ScopeStatus = {"CLOSED"}
  OwnKeyed = {e1}
  ByokGranted = FALSE
  NoEngagement = NoEngagement
  NoEnvelope = NoEnvelope
  NoBlob = NoBlob
  FreeText = FreeText
  Asset = {w1, w2}
  Token = {t1, t2}
  OfferedMethod = {"DNS_TXT", "HTTP_FILE"}
  ProbeRequest = {r1}
  NoAsset = NoAsset
  NoToken = NoToken
  Justification = Justification
SPECIFICATION GatesSpec
INVARIANTS
  AuthTypeOK
  SignedNeedsEvidence
  SignedRequestOpensGate
  StoredDocumentDecrypts
  VerTypeOK
  VerifiedNeedsProof
PROPERTY ImplementsGate
SYMMETRY MCSymmetry
