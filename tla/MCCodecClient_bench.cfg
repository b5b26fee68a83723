SPECIFICATION Spec
CONSTANTS
  Half = 3
  Limit = 6
  Garble <- MCGarble
  Partials = {}
  Slots = 0
  MaxLen = 2
  MaxEncodes = 1
  Reuse = FALSE
  Kinds <- CascadeKinds
  Blocks <- MCEdgeBlocks
  Clean = Clean
  Spent = Spent
  Nothing = Nothing
PROPERTY BenchDecodeRestores
