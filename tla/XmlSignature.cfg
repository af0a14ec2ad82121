SPECIFICATION Spec
CONSTANTS
  UriRank <- MCUriRank
  Assertions <- MCAssertions
  ResponseDecls <- MCResponseDecls
  MaxCanonDepth = 3
  MaxAssertions = 2
  LocalRank <- MCLocalRank
  ReadNames <- MCReadNames
  NewDecls <- MCNewDecls
  NewAttrs <- MCNewAttrs
  NewElements <- MCNewElements
INVARIANTS MeaningPreserved AcceptedIffUnchanged
