-------------------------- MODULE MCCacheDatabase --------------------------
EXTENDS CacheDatabase, TLC

\* Keys are interchangeable, and so are values.
Symmetry == Permutations(Keys) \cup Permutations(Values)
=============================================================================
