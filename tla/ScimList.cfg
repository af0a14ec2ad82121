SPECIFICATION FairSpec
CONSTANTS
  u1 = u1  u2 = u2  u3 = u3  u4 = u4
  Token <- MCToken
  Parse <- ParseFilter
  Selects <- Eval
  Keys <- MCKeys
  MaxFilterDepth = 2
  Filters <- MCFilters
  Counts <- MCCounts
  DefaultCount = 2
  MaxCount = 3
  Seed <- MCSeed
  Rows <- MCRows
  MaxWrites = 2
INVARIANTS FilterMeansGrammar MissedOnlyByRemovals RepeatedOnlyByArrivals
PROPERTIES ListEnds
