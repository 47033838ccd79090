---------------------------- MODULE MCScheduleStore ----------------------------
(***************************************************************************)
(* Requests for TLC: what several tabs of one user may ask for at once.    *)
(***************************************************************************)
EXTENDS ScheduleStore, TLC

CONSTANTS s1, s2, s3   \* the members of Ids

Keep == [name |-> Kept, active |-> Kept, archived |-> Kept]

Do(kind, i) == [kind |-> kind, id |-> i, set |-> Keep]
Creation(i, n) == [kind |-> "create", id |-> i, set |-> [Keep EXCEPT !.name = n]]
Update(i, column, value) ==
  [kind |-> "update", id |-> i, set |-> [Keep EXCEPT ![column] = value]]

\* Every operation, with every kind of update, on every schedule it may
\* meet; s3 is the one that is created.
AllOps ==
  {Do(kind, s1) : kind \in Kinds \ {"create", "update"}}
  \union {Update(s1, "name", n) : n \in Names}
  \union {Update(s1, "active", a) : a \in BOOLEAN}
  \union {Update(s1, "archived", TRUE)}
  \union {Do(kind, s2) : kind \in {"setActive", "archive", "delete"}}
  \union {Update(s2, "active", TRUE)}
  \union {Creation(s3, n) : n \in Names}
  \union {Do("setActive", s3)}

Symmetry == Permutations(Requests)
=============================================================================
