SPECIFICATION Spec
CONSTANTS
  Users = {ann}
  Roles = {admin}
  Admin = admin
  Requests = {r1, r2}
  TicksPerSecond = 2
  AccessValidity = 1
  RefreshValidity = 2
  MaxTime = 3
  MaxSessions = 2
  MaxRestarts = 0
SYMMETRY Symmetry
INVARIANTS TypeOK RevokedStaysRevoked ClosedStaysClosed
PROPERTIES AdmittedIsLive GoodIsLostToStaleRead
