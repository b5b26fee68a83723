SPECIFICATION Spec
CONSTANTS
  Kinds <- AllKinds
  Blocks <- MCBlocks
  MCLengths = {1, 15, 16, 32, 133}
  MCWidths = {0, 1, 8, 15, 32}
  Growth = 13
  MaxStreams = 2
  Nothing = Nothing
  Other = Other
INVARIANTS TypeOK EncodingFits SizeCoversTheReads DeliversTheBlock LeavesNothing UsedAsFresh
CHECK_DEADLOCK TRUE
