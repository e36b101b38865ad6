SPECIFICATION FairSpec
CONSTANTS
  Users = {ann, bob}
  Events = {v1, v2}
  Clients = {c1}
  MaxBusy = 2
  MaxRestarts = 1
INVARIANTS TypeOK StaleHasCause
PROPERTIES CommittedIsHandled DeliverySpec
CHECK_DEADLOCK FALSE
