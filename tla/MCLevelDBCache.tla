--------------------------- MODULE MCLevelDBCache ---------------------------
EXTENDS LevelDBCache, TLC

MCCapacity == {0, 1, 2}
MCSymmetry == Permutations(Key) \union Permutations(User)
=============================================================================
