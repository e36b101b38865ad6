SPECIFICATION Spec
CONSTANTS
  Users = {ann, bob, cat}
  Channels = {c1}
  Requests = {r1, r2}
  MaxRenames = 1
SYMMETRY Symmetry
INVARIANTS TypeOK PrivateListedToMembers WrongListHasCause
CHECK_DEADLOCK FALSE
