SPECIFICATION MCSpec
CONSTANTS
  MaxLabels = 20
  Lower <- MCLower
  Crc32 <- MCCrc32
  Token <- MCToken
  NumRules = 7
  Rates <- MCRates
  TierSpecs <- MCTierSpecs
  BatchSize = 3
  NumBuckets = 3
  NumDomains = 2
  NumTlds = 2
  Arguments <- MCArguments
  Drawn <- MCDrawn
  LAYOUT_SEED = 1337
  OtherCounts = {2, 3}
INVARIANTS
  LoadedRulesAreHit
  RerunQueriesHit
  AsksWhatIsAskedFor
CHECK_DEADLOCK FALSE
