SPECIFICATION PoolSpec
CONSTANTS
  Slots <- MCSlots
  MaxJoins = 2
  MaxMade = 4
  MaxLevels = 2
INVARIANTS PlayersMatch HandlersHear NoStrangers
