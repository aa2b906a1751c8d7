\* Two calls at a time, three links of which one gets too old, an address with one or two Google accounts.
CONSTANTS
  Calls = {c1, c2}
  GoogleIds = {g1, g2}
  None = None
  Unset = Unset
  LinkBound = 3
  LapseBound = 1
SPECIFICATION Spec
SYMMETRY Symmetry
INVARIANTS
  TypeOK
  DriverHasProfile
  DecisionsStand
  LinksWhole
  SpentLinkDead
  SessionsProven
  LogoutStands
