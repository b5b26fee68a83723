SPECIFICATION Spec
CONSTANTS
  Half = 3
  Limit = 5
  Garble <- MCGarble
  Partials = {}
  Slots = 0
  MaxLen = 2
  MaxEncodes = 3
  Reuse = TRUE
  Kinds <- MCKinds
  Blocks <- MCEdgeBlocks
  Clean = Clean
  Spent = Spent
  Nothing = Nothing
INVARIANTS DeliversTheBlock StaleBlockWins SizeIsOfTheBlock
PROPERTIES ThrowsUntilCleaned
CHECK_DEADLOCK TRUE
