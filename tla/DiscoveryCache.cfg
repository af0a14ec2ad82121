SPECIFICATION FairSpec
CONSTANTS
  c1 = c1  c2 = c2  c3 = c3
  Callers = {c1, c2}
  TTL = 2
  MaxFetch = 1
  MaxVersion = 2
INVARIANTS TypeOK BoundedStaleness RestartFresh
PROPERTIES RotationSeen
