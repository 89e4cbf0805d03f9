SPECIFICATION Spec
CONSTANTS
  Pages = {p, q}
  Names = {n, o}
  Digests = {d, e}
  Uploads = {u, v}
  Nobody = Nobody
  p = p
  q = q
  n = n
  o = o
  d = d
  e = e
  u = u
  v = v
SYMMETRY Symmetry
INVARIANTS
  AttachedFilesAreThere
  FilesAndRowsPartByFailures
PROPERTIES
  SweepsAreExhaustive
