CONSTANTS
  Text = {empty, short, long1, long2}
  Empty = empty
  Long = {long1, long2}
  MaxRequests = 2
SPECIFICATION Spec
INVARIANTS
  SpinnersLeft
  ListFreshUnlessLate
PROPERTY SpinnerGone
