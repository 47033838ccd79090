---------------------------- MODULE CatalogueTables ----------------------------
(***************************************************************************)
(* What the catalogue promises users whose requests overlap: each takes    *)
(* effect at most once, at one instant, on the tables as they are at that  *)
(* instant, or has no effect at all.  A row exists as long as another      *)
(* refers to it, and the keys of one user are unique.  A request changes   *)
(* one row, of its own user; a deletion of anything but a building does    *)
(* not ask whose the row is, and one of a room type takes the types of its *)
(* name, but may leave those that are created while it is at it.           *)
(***************************************************************************)
CONSTANTS
  Users, Types, Buildings, Courses, Rooms, Sessions,   \* the keys of the five tables
  Names,      \* names of buildings, courses and rooms, and types of sessions
  Owner, TypeName, Requests, Absent, None, Kept

VARIABLES
  rows,    \* key -> row, or Absent
  op,      \* request -> what it asks for
  ended    \* the requests that have had their effect or will have none

Items == Types \union Buildings \union Courses \union Rooms \union Sessions

\* A room belongs to a building and a session to a course, its parent; both
\* have a room type.  The name of a session is its type, lecture or lab.
Row == [name : Names \union Types, parent : Buildings \union Courses \union {None},
        type : Types \union {None}]

Live(row) == row # Absent

Refs(row) == {row.parent, row.type} \ {None}

SameIndex(i, j) ==
  /\ Owner[i] = Owner[j]
  /\ \E table \in {Types, Buildings, Courses, Rooms, Sessions} : i \in table /\ j \in table

\* the two rows have the same key in a unique index of their table
SameKey(i, row, j, other) ==
  SameIndex(i, j) /\ row.name = other.name /\ row.parent = other.parent

\* the row a request makes of this one
Asked(o, row) ==
  IF o.kind = "create" THEN o.set
  ELSE [name   |-> IF o.set.name = Kept THEN row.name ELSE o.set.name,
        parent |-> IF o.set.parent = Kept THEN row.parent ELSE o.set.parent,
        type   |-> IF o.set.type = Kept THEN row.type ELSE o.set.type]

\* its key: that of a room type is its name
Place(o) == IF o.id \in Types /\ o.set.name \in Types THEN o.set.name ELSE o.id

\* the request takes the row away from its key
Removes(o) == o.kind = "delete" \/ Place(o) # o.id

\* asked without a user
OnPool(o) == o.kind = "delete" /\ o.id \notin Buildings

\* the rows the request may change
Reachable(o) ==
  {i \in Items :
     /\ i = o.id \/ (o.kind = "delete" /\ {i, o.id} \subseteq Types
                       /\ TypeName[i] = TypeName[o.id])
     /\ OnPool(o) \/ Owner[i] = o.user}

\* the request may take its effect on these rows
Possible(o, some) ==
  /\ IF o.kind = "create" THEN some = {} ELSE some # {} /\ some \subseteq Reachable(o)
  /\ \A i \in some : Live(rows[i])
  /\ o.kind # "delete" =>
       LET new == Asked(o, rows[o.id])
       IN  /\ \A j \in Items : Live(rows[j]) /\ (o.kind = "create" \/ j # o.id) =>
                ~SameKey(Place(o), new, j, rows[j])
           /\ \A r \in Refs(new) : Live(rows[r])
  /\ Removes(o) => \A j \in Items : Live(rows[j]) => Refs(rows[j]) \cap some = {}

Effect(o, some) ==
  [i \in Items |-> IF o.kind # "delete" /\ i = Place(o) THEN Asked(o, rows[o.id])
                   ELSE IF i \in some THEN Absent
                   ELSE rows[i]]

Init == /\ rows \in [Items -> Row \union {Absent}]
        /\ ended = {}

TakeEffect(t) ==
  \E some \in SUBSET Reachable(op[t]) :
    Possible(op[t], some) /\ rows' = Effect(op[t], some)

NoEffect == UNCHANGED rows

End(t) ==
  /\ t \notin ended
  /\ ended' = ended \union {t}
  /\ TakeEffect(t) \/ NoEffect
  /\ UNCHANGED op

Next == \E t \in Requests : End(t)

Spec == Init /\ [][Next]_<<rows, op, ended>>
=============================================================================
