SPECIFICATION Spec
CONSTANTS
  Half = 4
  Cases <- ShiftCases
INVARIANTS AllValuesNonNegative
CHECK_DEADLOCK TRUE
