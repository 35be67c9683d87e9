CONSTANTS
  Token = {t1, t2}
  Enrollment = {x1, x2}
  Account = {root}
  Login = {root}
  service = root
  ServiceAccount <- MCServiceAccount
  Tries = 2
  NoToken = NoToken
  NoEnrollment = NoEnrollment
  Torn = Torn
SPECIFICATION AgentFairSpec
INVARIANTS
  AgentTypeOK
  ConfigHasCredential
PROPERTIES
  LateRetryDenied
  CheckinsContinue
