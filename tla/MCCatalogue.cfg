CONSTANTS
  ta = ta
  tb = tb
  tc = tc
  b1 = b1
  b2 = b2
  c1 = c1
  m1 = m1
  m2 = m2
  m3 = m3
  s1 = s1
  n1 = n1
  n2 = n2
  u1 = u1
  u2 = u2
  x = x
  y = y
  Users = {u1, u2}
  Owner <- OwnerOf
  TypeName <- NameOf
  Types = {ta, tb, tc}
  Buildings = {b1, b2}
  Courses = {c1}
  Rooms = {m1, m2, m3}
  Sessions = {s1}
  Names = {n1, n2}
  Requests = {r1, r2}
  Ops <- AllOps
  Tables <- SomeTables
  Absent = Absent
  Untouched = Untouched
  None = None
  Kept = Kept
SPECIFICATION FairSpec
INVARIANTS TypeOK NoDanglingReference UniqueKeys
PROPERTIES ImplementsTables RefusedRightly EveryRequestEnds
