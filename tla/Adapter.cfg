CONSTANTS
  Sids = {s1, s2}
  Rooms = {a, b}
  All = All
  NoRoom = NoRoom
  MaxCalls = 2
  MaxActs = 4
SPECIFICATION Spec
SYMMETRY Symmetry
INVARIANTS TypeOK RoomsAgree ReachedOnce ClosedLeavesNothing
CHECK_DEADLOCK FALSE
