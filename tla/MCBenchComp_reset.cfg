SPECIFICATION Spec
CONSTANTS
  Half = 8
  Limit = 8
  Garble <- MCGarble
  Partials <- MCPartials
  Slots = 1
  Pool <- RegistryPool
  Blocks <- MCBlocks
  NumConfigs = 2
  NumWindows = 2
INVARIANT EveryResultIsStandalone
