SPECIFICATION Spec
CONSTANTS
  w1 = w1  w2 = w2  r1 = r1  v1 = v1  v2 = v2  apex = apex  star = star  q1 = q1
  Cells = {apex, star}
  Catchall = {star}
  Values = {v1, v2}
  Counts = {2}
  Token <- MCToken
  Batches <- MCBatches
  Queries = {q1}
  Checksum <- MCChecksum
  Groups <- MCGroups
  Rank <- MCRank
  Blocked <- MCBlocked
  Writers = {w1, w2}
  Readers = {r1}
  MaxOpen = 2
  NoFlush = FALSE
  Lossy = TRUE
  NoRule = NoRule
  Torn = Torn
SYMMETRY WriterSymmetry
INVARIANTS
  TypeOK
  LookupSeesSettledRules
