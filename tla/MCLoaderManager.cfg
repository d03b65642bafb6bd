CONSTANTS
  l1 = l1
  l2 = l2
  l3 = l3
  v1 = v1
  v2 = v2
  Loader = {l1, l2, l3}
  View = {v1, v2}
  ParentView <- TwoViews
  MaxQueue = 3
SPECIFICATION LoaderSpec
INVARIANTS
  SettledAsAsked
PROPERTIES
  HiddenForGood
  ShownAtLast
