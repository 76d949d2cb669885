SPECIFICATION Spec
CONSTANTS
  Admins = {a1, a2}
  Sessions = {s1, s2}
  Corridors = {c1, c2}
  Assets = {usdt}
  Networks = {trc20, erc20}
  Providers = {p1, p2, p3, typo}
  Registered = {p1, p2, p3}
  BindingSets <- OneEach
  None = None
  MaxEdits = 4
SYMMETRY Symmetry
CHECK_DEADLOCK FALSE
INVARIANT BindingsAreOneEdit
PROPERTY UsedCorridorStays
