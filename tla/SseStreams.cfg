SPECIFICATION FairSpec
CONSTANTS
  Users = {ann, bob}
  Emitters = {e1, e2}
  Senders = {s1}
  Ping = ping
  FreshId = fresh
  MaxBusy = 3
INVARIANTS TypeOK NoDeadRetained LostHasCause
PROPERTY BrokenIsDropped
CHECK_DEADLOCK FALSE
