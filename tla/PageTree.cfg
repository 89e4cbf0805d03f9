SPECIFICATION Spec
CONSTANTS
  p1 = p1
  p2 = p2
  p3 = p3
  a = a
  b = b
  ann = ann
  ben = ben
  cid = cid
  Pages = {p1, p2, p3}
  Slugs = {a, b}
  People = {ann, ben}
  Others = {cid}
  Admins = {ann}
  MaxDepth = 2
  MaxRequests = 4
  FirstTrees <- Trees
  FirstAcls <- Acls
  Grants <- Changes
  NoPage = NoPage
INVARIANTS
  TypeOK
  HolesComeFromCreates
  OrphansComeFromOvertakenChecks
  StrandedComeFromOvertakenChecks
  AddressesComeApartByMoves
  ForwardsYield
PROPERTIES
  MovesWidenNothing
