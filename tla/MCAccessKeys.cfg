SPECIFICATION Spec
CONSTANTS
  Administrators = {a1, a2}
  Applications = {p1}
  Requests = {r1, r2}
  NoKey = NoKey
  NoRequest = NoRequest
  Capacity = 1
  TTL = 1
  MaxNow = 1
  MaxSessions = 1
INVARIANTS AdministratorRemains RevokedNeverActs BootstrapAccessEnds ResourcesReturned
SYMMETRY MCSymmetry
CHECK_DEADLOCK FALSE
