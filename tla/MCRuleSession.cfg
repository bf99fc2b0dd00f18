SPECIFICATION Spec
CONSTANTS
  MaxLabels = 4
  Lower <- MCLower
  Crc32 <- MCCrc32
  Token <- MCToken
  Counts = {1, 3}
  Rules <- MCRules
  Batches <- MCBatches
  RawQueries <- MCRawQueries
  MaxRules = 2
PROPERTY StoreIsARuleTable
