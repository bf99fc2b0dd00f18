SPECIFICATION MCSpec
CONSTANTS
  Log <- MCLog
  maxBatchSize = 2
  MaxItems = 3
  Handlers = {h1, h2}
  MaxFaults = 2
  SNACK_RATES <- MCRates
  SnackOrder <- MCOrder
  Clients = {"curl"}
  Unknown = {"Durian"}
  MaxWindows = 2
  MaxRestarts = 1
INVARIANTS
  AcknowledgedIsStored
  GrowthWithinRate
  BoardRanksAllSnacks
PROPERTIES
  TheFeedDrains
  TheWorkerGoesOn
CHECK_DEADLOCK FALSE
