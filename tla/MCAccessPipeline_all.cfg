SPECIFICATION Spec
CONSTANTS
  Half = 32
  Classes = 4
  Shift = 17
  NumBlocks = 3
  NumReps = 2
  Settings <- AllSettings
  Rasters <- AllRasters
  PadSlots = 3
  Limit = 32
  Overruns = {Keep, 7}
  Keep = Keep
  MaxMissed = 1
INVARIANTS
  TypeOK CodecIsTheOneAsked BlocksTransformedOnce RepsAgree
  OrderingKeepsTheValues TrapsOnSmallOrWideBlocks DictionariesSuffice
PROPERTIES
   Terminates
