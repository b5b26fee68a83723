SPECIFICATION Spec
CONSTANTS
  Half = 8
  Limit = 8
  Garble <- MCGarble
  Partials <- MCPartials
  Slots = 1
  Pool <- MCPool
  Blocks <- MCBlocks
  NumConfigs = 2
  NumWindows = 2
INVARIANTS TypeOK ResultsAreStandalone StatsLineUp RefusedForGood
PROPERTY Terminates
