SPECIFICATION Spec
CONSTANTS
  Half = 4
  Cases <- MCCases
INVARIANTS TypeOK SamplesWholeBlocksEvenly ShiftedWhenTheRangeFits
CHECK_DEADLOCK TRUE
