SPECIFICATION FairSpec
CONSTANTS
  h1 = h1  h2 = h2
  Handlers = {h1, h2}
  MaxPair = 2
  MaxDoc = 2
  PostOnly <- MCPostOnly
INVARIANTS TypeOK PairMatches OneIdentity OnlyTornCertBlocks MetadataSinceStart
PROPERTIES AllAnswered
