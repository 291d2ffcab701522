SPECIFICATION Spec
CONSTANTS
  x1 = x1
  x2 = x2
  x3 = x3
  Customers <- MCCustomers
  Externals = {x1, x2, x3}
  Keys = {k1, k2}
  Requests = {r1, r2}
  Commands <- MCCommands
  Registered <- MCRegistered
  None = None
  MaxAttempts = 2
INVARIANT OneOwner
CHECK_DEADLOCK FALSE
