SPECIFICATION Spec
CONSTANTS
  Key = {f1, f2, f3}
  User = {u1, u2}
  Entry = {e1, e2, e3, e4}
  None = None
  Capacity <- MCCapacity
SYMMETRY MCSymmetry
INVARIANTS HandlesGood ListsRight UsageBounded EvictedAreClosed
CHECK_DEADLOCK FALSE
