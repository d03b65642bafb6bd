SPECIFICATION Spec
CONSTANTS
  Key <- MCKey
  NumLevels = 3
  MaxMemLevel = 1
  ManualQuiet = TRUE
  Workload <- MCWorkload
  MaxReaders = 1
  None = None
INVARIANTS LastPutFound DeletedStaysDeleted HeldFilesExist LevelsDisjoint OlderBelow
CHECK_DEADLOCK FALSE
