SPECIFICATION Spec
CONSTANTS
  Channels = {general, random}
  MaxMessages = 2
  PageSize = 1
  Fetches = {f1, f2}
SYMMETRY Symmetry
INVARIANTS TypeOK ViewIsComplete ForeignHasCause DeafHasCause
CHECK_DEADLOCK FALSE
