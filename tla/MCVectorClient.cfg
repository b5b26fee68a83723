SPECIFICATION Spec
CONSTANTS
  Half = 16
  SizeModulus = 32
  Lanes <- MCLanes
  Blocks <- MCBlocks
  MaxEncodes <- MCMaxEncodes
  Nothing = Nothing
INVARIANTS
  TypeOK
  OnlyShortSseBlocksOverrun
  RoundTripsExactlyWhenNarrow
  RleHealsUnlessBlocksGrow
  AgreesWithScalar
\* An overrun ends the program.
CHECK_DEADLOCK FALSE
