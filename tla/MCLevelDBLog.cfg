SPECIFICATION FairSpec
CONSTANTS
  BlockSize = 6
  HeaderSize = 2
  RecordSize <- MCRecordSize
  MaxRecords = 3
  MaxFailures = 2
INVARIANTS ReadsOnlyRecords NothingLostBeforeFlaw TornTailIsNoCorruption
PROPERTY ReadEnds
CHECK_DEADLOCK FALSE
