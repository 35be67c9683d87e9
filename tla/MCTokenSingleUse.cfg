CONSTANTS
  Token = {t1}
  Enrollment = {x1, x2}
  Account = {root}
  Login = {root}
  service = root
  ServiceAccount <- MCServiceAccount
  Tries = 2
  NoToken = NoToken
  NoEnrollment = NoEnrollment
  Torn = Torn
SPECIFICATION AgentSpec
INVARIANT TokenEnrollsOneDevice
