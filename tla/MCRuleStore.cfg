SPECIFICATION Spec
CONSTANTS
  w1 = w1  w2 = w2  r1 = r1  v1 = v1  v2 = v2  apex = apex  star = star  q1 = q1
  Cells = {star}
  Catchall = {star}
  Values = {v1, v2}
  Counts = {2, 3}
  Token <- MCToken
  Batches <- MCStarBatches
  Queries = {q1}
  Checksum <- MCChecksum
  Groups <- MCGroups
  Rank <- MCRank
  Blocked <- MCBlocked
  Writers = {w1, w2}
  Readers = {}
  MaxOpen = 2
  NoFlush = FALSE
  Lossy = TRUE
  NoRule = NoRule
  Torn = Torn
SYMMETRY WriterSymmetry
INVARIANTS
  SettledReplicasAgree
  SettledRulesAreGuarded
  DeleteReportsExistence
