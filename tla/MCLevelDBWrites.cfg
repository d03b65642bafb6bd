SPECIFICATION Spec
CONSTANTS
  plain = plain
  other = other
  synced = synced
  compact = compact
  None = None
  Writer <- MCWriter
  Sync <- MCSync
  Compact <- MCCompact
  Size <- MCSize
  SmallBatch = 1
  MaxGroup = 3
  MemLimit = 0
  L0Trigger = 1
  L0Stop = 2
  MaxRestarts = 1
  MaxFailures = 1
SYMMETRY MCSymmetry
INVARIANTS TypeOK NothingMissing NumbersFresh NobodyForgotten
PROPERTIES Promise
CHECK_DEADLOCK FALSE
