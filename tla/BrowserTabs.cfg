SPECIFICATION FairSpec
CONSTANTS
  Users = {ann}
  Tabs = {t1, t2}
  Watched = {t1}
  Requests = {r1, r2}
  MaxLogins = 2
  MaxRestarts = 1
INVARIANTS TypeOK SignedOutIsDead FirstUserIsServed
PROPERTY RefusedSignsOut
CHECK_DEADLOCK FALSE
