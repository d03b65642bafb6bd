CONSTANTS
  Movie = {m1, m2}
  Screen = {s1, s2, s3}
  NoID = NoID
  NoScreen = NoScreen
SPECIFICATION Spec
SYMMETRY Symmetry
INVARIANTS
  ListMatchesStore
  ButtonHonest
PROPERTIES
  OnlyTheTappedMovieChanges
  ImplementsFavouriteSet
