SPECIFICATION Spec
CONSTANTS
  Uploads = {f1}
  Storages = {"local"}
  MaxAttempts = 3
  PoolSize = 1
  MaxConnections = 2
  MaxRestarts = 0

INVARIANT SuccessIsStored
CHECK_DEADLOCK FALSE
