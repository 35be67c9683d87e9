CONSTANTS
  Token = {t1}
  Enrollment = {x1, x2}
  Account = {user, system}
  Login = {user}
  service = system
  ServiceAccount <- MCServiceAccount
  Tries = 2
  NoToken = NoToken
  NoEnrollment = NoEnrollment
  Torn = Torn
SPECIFICATION AgentSpec
INVARIANT ServiceReadsConfig
