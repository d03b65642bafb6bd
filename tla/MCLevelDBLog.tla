---------------------------- MODULE MCLevelDBLog ----------------------------
EXTENDS LevelDBLog

MCRecordSize == {0, 1, 3, 8}
=============================================================================
