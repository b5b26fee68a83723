SPECIFICATION Spec
CONSTANTS
  Half = 4
  Limit = 6
  Garble <- MCGarble
  Partials = {}
  Slots = 0
  MaxLen = 3
  MaxEncodes = 1
  Reuse = FALSE
  Kinds <- MCKinds
  Blocks <- MCBlocks
  Clean = Clean
  Spent = Spent
  Nothing = Nothing
INVARIANTS TypeOK DeliversTheBlock
PROPERTIES ImplementsContract
CHECK_DEADLOCK TRUE
