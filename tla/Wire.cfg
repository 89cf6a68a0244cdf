CONSTANTS
  MaxEmits = 3
  Small = 9
  Limit = 120
  Large = 70000
SPECIFICATION Spec
INVARIANTS ArrivesInOrder HandlerGets EmitSucceeds ConnectionKept
CHECK_DEADLOCK FALSE
