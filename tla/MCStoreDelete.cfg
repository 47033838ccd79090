CONSTANTS
  s1 = s1
  s2 = s2
  s3 = s3
  Ids = {s1, s2, s3}
  Names = {n1, n2}
  Requests = {r1, r2}
  Ops <- AllOps
  Unborn = Unborn
  Gone = Gone
  Untouched = Untouched
  Kept = Kept
  Nobody = Nobody
SPECIFICATION Spec
PROPERTIES OnlyCommitsChangeRows
SYMMETRY Symmetry
