SPECIFICATION Spec
CONSTANTS
  Cell = {c1, c2}
  Url = {u1, u2}
  NoUrl = NoUrl
  Nothing = Nothing
  Placeholder = Placeholder
  MaxLoads = 2
INVARIANTS TypeOK PosterOfRow DownloadsWanted
PROPERTIES LoadsEnd
