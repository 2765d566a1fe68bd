SPECIFICATION Spec
CONSTANTS
  Request = {r1}
  Registries <- MCPrivateHub
  Path = {"app"}
  Credential = {login}
  NoAuth = NoAuth
  MaxTime = 4
INVARIANT
  CredentialGivesAccess
CHECK_DEADLOCK FALSE
