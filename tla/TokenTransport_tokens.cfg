SPECIFICATION Spec
CONSTANTS
  Request = {r1, r2, r3}
  Registries <- MCRegistries
  Path = {"app"}
  Credential = {login}
  NoAuth = NoAuth
  MaxTime = 3
SYMMETRY Symmetric
INVARIANTS
  TypeOK
  RefusedOnlyForExpiry
CHECK_DEADLOCK FALSE
