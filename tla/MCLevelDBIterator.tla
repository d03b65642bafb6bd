-------------------------- MODULE MCLevelDBIterator --------------------------
EXTENDS LevelDBIterator

MCKey == 1..3
=============================================================================
