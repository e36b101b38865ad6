SPECIFICATION Spec
CONSTANTS
  Users = {u1, u2}
  Names = {admin, ann}
  Admin = admin
  Files = {f1, f2}
  Requests = {r1, r2}
  MaxRequests = 5
  MaxStarts = 1
SYMMETRY Symmetry
INVARIANTS TypeOK UniqueNames OrphanHasCause ChangesHold UserListHasCause
CHECK_DEADLOCK FALSE
