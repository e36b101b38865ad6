SPECIFICATION PagingSpec
CONSTANTS
  Authors = {ann}
  Messages = {m1, m2, m3, m4}
  PageSize = 2
  MaxTime = 3
SYMMETRY Symmetry
INVARIANTS PagingTypeOK PagesDescend MissedOnlyAtTie NoDanglingMessage
CHECK_DEADLOCK FALSE
