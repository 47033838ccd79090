------------------------------ MODULE MCCatalogue ------------------------------
(***************************************************************************)
(* Tables and requests for TLC: the least that lets every pair of          *)
(* operations meet over a row, a name, a reference or a room type.         *)
(***************************************************************************)
EXTENDS Catalogue

CONSTANTS u1, u2, ta, tb, tc, b1, b2, c1, m1, m2, m3, s1, n1, n2, x, y

\* tc and m3 are another user's; his room type has the name of ta, and his
\* room is in a building that is not his
OwnerOf == [i \in Items |-> IF i \in {tc, m3} THEN u2 ELSE u1]
NameOf == [i \in Types |-> IF i = tb THEN y ELSE x]

RowOf(n, p, type) == [name |-> n, parent |-> p, type |-> type]

\* the rows there may be at the start; b2, m2, m3 and s1 may also be created
Full ==
  [i \in Items |->
     CASE i \in Types -> RowOf(i, None, None)
       [] i = b1 -> RowOf(n1, None, None)
       [] i = b2 -> RowOf(n2, None, None)
       [] i = c1 -> RowOf(n1, None, None)
       [] i = m1 -> RowOf(n1, b1, ta)
       [] i = m2 -> RowOf(n2, b1, tb)
       [] i = m3 -> RowOf(n1, b1, tc)
       [] i = s1 -> RowOf(n1, c1, ta)]

SomeTables ==
  {[i \in Items |-> IF i \in missing THEN Absent ELSE Full[i]] :
     missing \in {{tc, m3}, {b2, m3, tc}, {m3, s1}, {m2, tb, m3}, {m1, s1}, {m1, s1, m3},
                  {c1, s1, tc, m3}, {m1, m2, s1, tc, m3}, {m1, m2, s1, tb, b2, m3}}}

Do(kind, i, set) == [user |-> OwnerOf[i], kind |-> kind, id |-> i, set |-> set]
Delete(i) == Do("delete", i, Nothing)
Rename(i, n) == Do("update", i, [Nothing EXCEPT !.name = n])
Retype(i, type) == Do("update", i, [Nothing EXCEPT !.type = type])
By(u, o) == [o EXCEPT !.user = u]

AllOps ==
  {Delete(i) : i \in {ta, tb, b1, c1, m1, s1}}
  \union {Do("create", type, RowOf(type, None, None)) : type \in Types}
  \union {Rename(ta, tb), Rename(tb, ta), Rename(tb, tb)}
  \union {Do("create", b2, RowOf(n1, None, None)), Do("create", b2, RowOf(n2, None, None)), Rename(b1, n2)}
  \union {Do("create", c1, RowOf(n1, None, None)), Rename(c1, n2)}
  \union {Do("create", m2, RowOf(n1, b1, tb)), Do("create", m2, RowOf(n2, b1, ta)),
          Do("create", m2, RowOf(n1, b2, ta)), Do("create", m3, RowOf(n1, b1, tc))}
  \union {Rename(m1, n2), Rename(m2, n1), Retype(m1, tb), Do("update", m1, Nothing)}
  \union {Do("update", m1, [Nothing EXCEPT !.parent = b2])}
  \union {Do("create", s1, RowOf(n1, c1, tb)), Rename(s1, n2), Retype(s1, tb)}
  \union {By(u2, Delete(b1)), By(u2, Rename(b1, n2)), By(u2, Delete(m1)), Delete(m3)}
=============================================================================
