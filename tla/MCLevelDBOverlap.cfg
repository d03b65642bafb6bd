SPECIFICATION Spec
CONSTANTS
  Key <- MCThreeKeys
  NumLevels = 3
  MaxMemLevel = 1
  ManualQuiet = FALSE
  Workload <- MCOneOrder
  MaxReaders = 0
  None = None
INVARIANT LevelsDisjoint
CHECK_DEADLOCK FALSE
