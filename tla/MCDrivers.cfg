SPECIFICATION Spec
CONSTANTS
  Logical <- MCLogical
  Physical <- MCPhysical
  OptionSets <- MCOptions
  MaxFailures = 2
INVARIANTS RunsAllInOrder UnknownNamesRunNothing NoPairTwice OnlyANameOrATrapEndsComp CompositesShareNoCodec
CHECK_DEADLOCK TRUE
