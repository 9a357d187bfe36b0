--------------------------- MODULE MCCacheStore ---------------------------
EXTENDS CacheStore, TLC

Symmetry == Permutations(Windows)
============================================================================
