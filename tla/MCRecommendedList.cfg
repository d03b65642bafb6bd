CONSTANTS
  Movie = {m1, m2}
  MaxObservers = 3
  MaxInbox = 3
SPECIFICATION Spec
INVARIANTS
  ListCurrentWhenQuiet
  RowsBeyondMoviesOnlyWhenEmptied
PROPERTY RowsCatchUp
