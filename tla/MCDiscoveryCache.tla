--------------------------- MODULE MCDiscoveryCache ---------------------------
(* Small instances of DiscoveryCache.                                      *)
EXTENDS DiscoveryCache, TLC

CONSTANTS c1, c2, c3

CallerSymmetry == Permutations(Callers)
=============================================================================
