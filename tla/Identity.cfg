SPECIFICATION Spec
CONSTANTS
  Ids = {i1, i2, i3}
  Names = {oma, erika, chef}
  Mails = {x, y}
  Tokens = {t1, t2}
  Browsers = {b, c}
  Nets = {home}
  Limit = 2
  MaxRequests = 4
  First <- MCFirst
  FirstPromoted = {i1}
  None = None
  i1 = i1
  i2 = i2
  i3 = i3
  oma = oma
  erika = erika
  chef = chef
  x = x
  y = y
  t1 = t1
  t2 = t2
  b = b
  c = c
  home = home
SYMMETRY Symmetry
INVARIANTS
  TypeOK
  IdleSessionsAreLate
  LinksShareNoAddress
  AutheliaReachesItsOwn
  BudgetHolds
PROPERTIES
  AdministratorsStay
  DeadLinksStayDead
