SPECIFICATION Spec
CONSTANTS
  Users = {ann}
  Roles = {admin, user}
  Admin = admin
  Requests = {r1}
  TicksPerSecond = 2
  AccessValidity = 1
  RefreshValidity = 2
  MaxTime = 5
  MaxSessions = 2
  MaxRestarts = 1
INVARIANT SessionCarriesRole
PROPERTY RegistrySpec
