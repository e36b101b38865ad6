SPECIFICATION FairSpec
CONSTANTS
  Uploads = {f1, f2}
  Storages = {"local", "s3"}
  MaxAttempts = 2
  PoolSize = 1
  MaxConnections = 2
  MaxRestarts = 1
INVARIANTS TypeOK FailedHasCause WaitingOnlyIfMissed SettledAtCommit
PROPERTY UploaderIsTold
CHECK_DEADLOCK FALSE
