--------------------------- MODULE Catalogue_proofs ---------------------------
(***************************************************************************)
(* Theorems about module Catalogue, whatever the tables, the requests and  *)
(* their number: unique keys and foreign keys hold; each request takes its *)
(* whole effect at one instant, in a state that permits it, or none, which *)
(* is what CatalogueTables states; a refusal is right when it is decided.  *)
(***************************************************************************)
EXTENDS Catalogue, TLAPS

-----------------------------------------------------------------------------
(***************************************************************************)
(* Facts about the data                                                    *)
(***************************************************************************)
\* What an operation sets fits the table of its row.
LEMMA CreationShape ==
  ASSUME NEW ids \in SUBSET Items, NEW o \in Creation(ids)
  PROVE  o.kind = "create" /\ o.id \in ids /\ o.set \in RowsOf(o.id) /\ o.user = Owner[o.id]
BY DEF Creation

LEMMA DeletionShape ==
  ASSUME NEW ids \in SUBSET Items, NEW o \in Deletion(ids)
  PROVE  o.kind = "delete" /\ o.id \in ids /\ o.set = Nothing
BY DEF Deletion

UpdateShape(o) ==
  /\ o.kind = "update"
  /\ o.id \in Items
  /\ o.id \in Types => o.set.name \in Types
  /\ o.id \notin Types => o.set.name \in Names \union {Kept}
  /\ o.set.parent \in Buildings \union {Kept}
  /\ o.set.type \in OwnTypes(o.user) \union {Kept}
  /\ o.id \notin Rooms => o.set.parent = Kept
  /\ o.id \notin Rooms \union Sessions => o.set.type = Kept

LEMMA OpShape ==
  ASSUME NEW o \in Ops
  PROVE  /\ o.id \in Items
         /\ o.kind \in {"create", "update", "delete"}
         /\ o.kind = "create" => o.set \in RowsOf(o.id)
         /\ o.kind = "delete" => o.set = Nothing
         /\ o.kind = "update" => UpdateShape(o)
<1> USE KeysAssumption
<1> DEFINE tables == {Types, Buildings, Courses, Rooms, Sessions}
<1>1. \A ids \in tables : ids \in SUBSET Items
  BY DEF Items
<1>2. \/ \E ids \in tables : o \in Creation(ids)
      \/ \E ids \in tables : o \in Deletion(ids)
      \/ \E u \in Users : o \in Update(u, OwnTypes(u), OwnTypes(u), {Kept}, {Kept})
      \/ \E u \in Users, ids \in {Buildings, Courses} :
           o \in Update(u, ids, Names, {Kept}, {Kept})
      \/ \E u \in Users : o \in Update(u, Rooms, Names \union {Kept},
                                       Buildings \union {Kept}, OwnTypes(u) \union {Kept})
      \/ \E u \in Users : o \in Update(u, Sessions, Names \union {Kept}, {Kept},
                                       OwnTypes(u) \union {Kept})
  BY OpsAssumption DEF RoomTypeOps, BuildingOps, CourseOps, RoomOps, SessionOps
<1>3. CASE \E ids \in tables : o \in Creation(ids)
  BY <1>1, <1>3, CreationShape
<1>4. CASE \E ids \in tables : o \in Deletion(ids)
  BY <1>1, <1>4, DeletionShape
<1>5. CASE \E u \in Users : o \in Update(u, OwnTypes(u), OwnTypes(u), {Kept}, {Kept})
  BY <1>5 DEF UpdateShape, Update, Items, OwnTypes
<1>6. CASE \E u \in Users, ids \in {Buildings, Courses} :
             o \in Update(u, ids, Names, {Kept}, {Kept})
  BY <1>6 DEF UpdateShape, Update, Items
<1>7. CASE \E u \in Users : o \in Update(u, Rooms, Names \union {Kept},
                                         Buildings \union {Kept}, OwnTypes(u) \union {Kept})
  BY <1>7 DEF UpdateShape, Update, Items
<1>8. CASE \E u \in Users : o \in Update(u, Sessions, Names \union {Kept}, {Kept},
                                         OwnTypes(u) \union {Kept})
  BY <1>8 DEF UpdateShape, Update, Items
<1> QED BY <1>2, <1>3, <1>4, <1>5, <1>6, <1>7, <1>8

\* A row of a table is a row, and refers to rows of other tables.
LEMMA RowShape ==
  ASSUME NEW i \in Items, NEW row \in RowsOf(i)
  PROVE  /\ row \in Row
         /\ row.name \in Names \union Types
         /\ row.parent \in Buildings \union Courses \union {None}
         /\ row.type \in Types \union {None}
         /\ i \in Types => row.name = i
         /\ i \notin Rooms \union Sessions => row.parent = None /\ row.type = None
         /\ row # Absent /\ row # Untouched
         /\ Refs(row) \subseteq Items \ (Rooms \union Sessions)
         /\ i \in Types \union Buildings \union Courses => Refs(row) = {}
<1> USE KeysAssumption
<1>1. /\ row \in Row
      /\ row.name \in Names \union Types
      /\ row.parent \in Buildings \union Courses \union {None}
      /\ row.type \in Types \union {None}
      /\ i \in Types => row.name = i
      /\ i \notin Rooms \union Sessions => row.parent = None /\ row.type = None
  <2>1. CASE i \in Types
    BY <2>1 DEF RowsOf, Row
  <2>2. CASE i \in Rooms
    BY <2>2 DEF RowsOf, Row, OwnTypes
  <2>3. CASE i \in Sessions
    BY <2>3 DEF RowsOf, Row, OwnTypes
  <2>4. CASE i \notin Types \union Rooms \union Sessions
    BY <2>4 DEF RowsOf, Row
  <2> QED BY <2>1, <2>2, <2>3, <2>4
<1>2. row # Absent /\ row # Untouched
  BY <1>1, MarksAssumption
<1>3. Refs(row) \subseteq Items \ (Rooms \union Sessions)
  BY <1>1 DEF Refs, Items
<1>4. i \in Types \union Buildings \union Courses => Refs(row) = {}
  BY <1>1 DEF Refs
<1> QED BY <1>1, <1>2, <1>3, <1>4

-----------------------------------------------------------------------------
(***************************************************************************)
(* The inductive invariant                                                 *)
(***************************************************************************)
\* The statement of a transaction has succeeded, and is not committed yet.
Complete(t) == pc[t] = "answered" /\ status[t] = "2xx" /\ ~OnPool(t)

\* The statement has written its row.
Past(t) == pc[t] \in {"references", "referrers"} \/ Complete(t)

\* The statement has found its rows and locked them.
Holding(t) == op[t].kind # "create" /\ (pc[t] = "index" \/ Past(t))

\* A row that did not exist before: of a creation or a renamed room type.
NewPlace(t) == op[t].kind = "create" \/ Place(t) # Target(t)

\* What a statement has in front of it fits what it is asked for.
PhaseInv(t) ==
  /\ pc[t] \in {"find", "rows"} => op[t].kind # "create"
  /\ pc[t] = "index" => op[t].kind # "delete"
  /\ pc[t] = "references" => ~Removes(t)
  /\ pc[t] = "referrers" => Removes(t)

\* A statement finds only rows in its reach.
FoundInv(t) ==
  /\ found[t] \subseteq Reachable(t)
  /\ op[t].kind = "create" => found[t] = {}

\* A transaction has written its target as asked, made from the row that is
\* committed now, or taken away what it has found, and nothing else.
WrittenInv(t) ==
  \A i \in Items : written[t][i] =
    IF ~Past(t) THEN Untouched
    ELSE IF op[t].kind # "delete" /\ i = Place(t) THEN NewRow(t)
    ELSE IF i \in found[t] THEN Absent
    ELSE Untouched

\* A row that is locked stays in its table, and a transaction has the lock
\* that what it has written asks for.
LockInv(t) ==
  /\ Holding(t) => found[t] # {} /\ \A i \in found[t] : Writing(t, i)
  /\ Past(t) /\ NewPlace(t) => lock[t][Place(t)] = "key"
  /\ \A i \in Items : Writing(t, i) =>
       \/ /\ i \in found[t] /\ Live(db[i]) /\ lock[t][i] = LockMode(t)
          /\ pc[t] = "rows" \/ Holding(t)
       \/ Past(t) /\ op[t].kind # "delete" /\ i = Place(t) /\ NewPlace(t)
  /\ \A i \in Items : lock[t][i] = "share" => Past(t) /\ Live(db[i])

\* A new reference is still to be checked or is locked.
ReferenceInv(t) ==
  /\ todo[t] # {} => pc[t] = "references" /\ todo[t] \subseteq RefsToCheck(t)
  /\ Past(t) /\ op[t].kind # "delete" =>
       \A r \in RefsToCheck(t) : r \in todo[t] \/ lock[t][r] = "share"

\* A row about to lose its key has been found without referrers.
ReferrerInv(t) == Complete(t) /\ Removes(t) => Referrers(t) = {}

\* The id of a creation is nobody else's and not in its table yet.
FreshInv(t) ==
  op[t].kind = "create" /\ Target(t) \notin Types =>
    /\ pc[t] # "done" => ~Live(db[Target(t)])
    /\ \A u \in Requests \ {t} : op[u].kind = "create" => Target(u) # Target(t)

Local(t) == /\ PhaseInv(t) /\ FoundInv(t) /\ WrittenInv(t) /\ LockInv(t)
            /\ ReferenceInv(t) /\ ReferrerInv(t) /\ FreshInv(t)

\* Nobody else writes a row that is being written, and nobody else has a
\* lock on a row whose key may change.
Exclusive ==
  \A t, u \in Requests : t # u => \A i \in Items :
    /\ Writing(t, i) => ~Writing(u, i)
    /\ lock[t][i] = "key" => lock[u][i] = "none"

\* A written row has the key of no committed row and of no other written one.
NoClash ==
  \A t \in Requests : Past(t) /\ op[t].kind # "delete" =>
    \A j \in Items : /\ ~Clash(t, j, db[j])
                     /\ \A u \in Requests \ {t} : ~Clash(t, j, written[u][j])

CatalogueInv ==
  /\ TypeOK /\ UniqueKeys /\ NoDanglingReference
  /\ \A t \in Requests : Local(t)
  /\ Exclusive /\ NoClash

-----------------------------------------------------------------------------
(***************************************************************************)
(* What follows from the invariant in a state                              *)
(***************************************************************************)
\* A deletion has its target's place, and only a room type is ever renamed
\* in its key.
LEMMA PlaceFacts ==
  ASSUME TypeOK, NEW t \in Requests
  PROVE  /\ op[t] \in Ops
         /\ Target(t) \in Items /\ Place(t) \in Items
         /\ op[t].kind # "update" => Place(t) = Target(t)
         /\ Place(t) # Target(t) =>
              /\ op[t].kind = "update" /\ Target(t) \in Types
              /\ Place(t) \in Types /\ LockMode(t) = "key"
              /\ op[t].set.name = Place(t)
         /\ Target(t) \in Types => Place(t) \in Types
         /\ Target(t) \notin Types => Place(t) = Target(t)
         /\ Removes(t) => op[t].kind # "create" /\ LockMode(t) = "key"
         /\ LockMode(t) \in {"update", "key"}
<1> USE KeysAssumption, MarksAssumption
<1>1. op[t] \in Ops
  BY DEF TypeOK
<1>2. Target(t) \in Items
  BY <1>1, OpShape DEF Target
<1>3. LockMode(t) \in {"update", "key"}
  BY DEF LockMode
<1>4. CASE op[t].kind = "delete"
  <2>1. op[t].set.name = Kept
    BY <1>1, <1>4, OpShape DEF Nothing
  <2>2. Kept \notin Types
    BY DEF Items
  <2> QED BY <1>1, <1>2, <1>3, <1>4, <2>1, <2>2 DEF Place, Target, Removes, LockMode
<1>5. CASE op[t].kind = "create"
  <2>1. op[t].set \in RowsOf(Target(t))
    BY <1>1, <1>5, OpShape DEF Target
  <2>2. Target(t) \in Types => op[t].set.name = Target(t)
    BY <1>2, <2>1, RowShape
  <2> QED BY <1>1, <1>2, <1>3, <1>5, <2>2 DEF Place, Removes
<1>6. CASE op[t].kind = "update"
  <2>1. UpdateShape(op[t])
    BY <1>1, <1>6, OpShape
  <2>2. Target(t) \in Types => op[t].set.name \in Types /\ op[t].set.name # Kept
    BY <2>1 DEF UpdateShape, Target, Items
  <2> QED BY <1>1, <1>2, <1>3, <1>6, <2>2 DEF Place, Removes, LockMode, Items
<1> QED BY <1>1, <1>4, <1>5, <1>6, OpShape

\* The new row is one of its table, made from the row that is there.
LEMMA NewRowFacts ==
  ASSUME TypeOK, NEW t \in Requests, op[t].kind # "delete",
         op[t].kind = "update" => Live(db[Target(t)]) /\ Owner[Target(t)] = op[t].user
  PROVE  NewRow(t) \in RowsOf(Place(t))
<1> USE KeysAssumption, MarksAssumption
<1>1. CASE op[t].kind = "create"
  BY <1>1, PlaceFacts, OpShape DEF NewRow, Target
<1>2. CASE op[t].kind = "update"
  <2> DEFINE old == db[Target(t)]
             set == op[t].set
  <2>1. UpdateShape(op[t])
    BY <1>2, PlaceFacts, OpShape
  <2>2. old \in RowsOf(Target(t))
    BY <1>2, PlaceFacts DEF TypeOK, Live
  <2>3. NewRow(t) = [name   |-> IF set.name = Kept THEN old.name ELSE set.name,
                     parent |-> IF set.parent = Kept THEN old.parent ELSE set.parent,
                     type   |-> IF set.type = Kept THEN old.type ELSE set.type]
    BY <1>2 DEF NewRow
  <2>4. CASE Target(t) \in Types
    <3>1. Place(t) = set.name /\ set.name \in Types /\ set.name # Kept
      BY <2>1, <2>4 DEF UpdateShape, Target, Place, Items
    <3>2. set.parent = Kept /\ set.type = Kept
      BY <2>1, <2>4 DEF UpdateShape, Target
    <3> QED BY <2>2, <2>3, <2>4, <3>1, <3>2 DEF RowsOf
  <2>5. CASE Target(t) \notin Types
    <3>1. Place(t) = Target(t)
      BY <2>5, PlaceFacts
    <3>2. set.name \in Names \union {Kept}
      BY <2>1, <2>5 DEF UpdateShape, Target
    <3>3. CASE Target(t) \in Rooms
      <4>1. RowsOf(Target(t)) = [name : Names, parent : Buildings, type : OwnTypes(op[t].user)]
        BY <1>2, <2>5, <3>3 DEF RowsOf
      <4>2. set.parent \in Buildings \union {Kept} /\ set.type \in OwnTypes(op[t].user) \union {Kept}
        BY <2>1, <3>3 DEF UpdateShape, Target
      <4> QED BY <2>2, <2>3, <3>1, <3>2, <4>1, <4>2
    <3>4. CASE Target(t) \in Sessions
      <4>1. RowsOf(Target(t)) = [name : Names, parent : Courses, type : OwnTypes(op[t].user)]
        BY <1>2, <2>5, <3>4 DEF RowsOf
      <4>2. set.parent = Kept /\ set.type \in OwnTypes(op[t].user) \union {Kept}
        BY <2>1, <3>4 DEF UpdateShape, Target
      <4> QED BY <2>2, <2>3, <3>1, <3>2, <4>1, <4>2
    <3>5. CASE Target(t) \notin Rooms \union Sessions
      <4>1. RowsOf(Target(t)) = [name : Names, parent : {None}, type : {None}]
        BY <2>5, <3>5 DEF RowsOf
      <4>2. set.parent = Kept /\ set.type = Kept
        BY <2>1, <3>5 DEF UpdateShape, Target
      <4> QED BY <2>2, <2>3, <3>1, <3>2, <4>1, <4>2
    <3> QED BY <3>3, <3>4, <3>5
  <2> QED BY <2>4, <2>5
<1> QED BY <1>1, <1>2, PlaceFacts, OpShape

\* What a statement has found is locked and there; an UPDATE has found its
\* target, a row of its user.
LEMMA FoundFacts ==
  ASSUME TypeOK, NEW t \in Requests, FoundInv(t), LockInv(t)
  PROVE  /\ \A i \in found[t] : i \in Items
         /\ Holding(t) => \A i \in found[t] : Live(db[i]) /\ lock[t][i] = LockMode(t)
         /\ op[t].kind # "delete" => found[t] \subseteq {Target(t)}
         /\ Holding(t) /\ op[t].kind = "update" =>
              /\ found[t] = {Target(t)} /\ Live(db[Target(t)])
              /\ lock[t][Target(t)] = LockMode(t) /\ Owner[Target(t)] = op[t].user
<1>1. found[t] \subseteq Items
  BY DEF TypeOK
<1>2. op[t].kind # "delete" => found[t] \subseteq {Target(t)}
  BY DEF FoundInv, Reachable
<1>3. ASSUME Holding(t), NEW i \in found[t]
      PROVE  Live(db[i]) /\ lock[t][i] = LockMode(t)
  BY <1>1, <1>2, <1>3 DEF LockInv, NewPlace, Holding
<1>4. ASSUME Holding(t), op[t].kind = "update"
      PROVE  found[t] = {Target(t)} /\ Owner[Target(t)] = op[t].user
  <2>1. found[t] = {Target(t)}
    BY <1>2, <1>4 DEF LockInv
  <2> QED BY <1>4, <2>1 DEF FoundInv, Reachable, OnPool
<1> QED BY <1>1, <1>2, <1>3, <1>4

\* What a transaction has written it has locked, and a row it takes away it
\* has locked against references.
LEMMA WroteLocked ==
  ASSUME TypeOK, NEW t \in Requests, FoundInv(t), WrittenInv(t), LockInv(t),
         NEW i \in Items, Wrote(t, i)
  PROVE  /\ Past(t) /\ Writing(t, i)
         /\ i = Place(t) \/ i \in found[t]
         /\ Live(written[t][i]) =>
              /\ i = Place(t) /\ op[t].kind # "delete"
              /\ written[t][i] = NewRow(t) /\ NewRow(t) \in RowsOf(i)
         /\ ~Live(written[t][i]) =>
              /\ written[t][i] = Absent /\ lock[t][i] = "key"
              /\ i \in found[t] /\ Removes(t) /\ Holding(t)
<1>1. Past(t) /\ (i = Place(t) \/ i \in found[t])
  BY DEF WrittenInv, Wrote
<1>2. CASE op[t].kind # "delete" /\ i = Place(t)
  <2>1. written[t][i] = NewRow(t)
    BY <1>1, <1>2 DEF WrittenInv
  <2>2. op[t].kind = "update" => Live(db[Target(t)]) /\ Owner[Target(t)] = op[t].user
    BY <1>1, FoundFacts DEF Holding
  <2>3. NewRow(t) \in RowsOf(i)
    BY <1>2, <2>2, NewRowFacts
  <2>4. Live(NewRow(t))
    BY <2>3, RowShape DEF Live
  <2>5. Writing(t, i)
    <3>1. CASE NewPlace(t)
      BY <1>1, <1>2, <3>1 DEF LockInv, Writing
    <3>2. CASE ~NewPlace(t)
      <4>1. Holding(t) /\ op[t].kind = "update" /\ i = Target(t)
        BY <1>1, <1>2, <3>2, PlaceFacts, OpShape DEF NewPlace, Holding
      <4> QED BY <1>2, <4>1, PlaceFacts, FoundFacts DEF Writing
    <3> QED BY <3>1, <3>2
  <2> QED BY <1>1, <1>2, <2>1, <2>3, <2>4, <2>5
<1>3. CASE ~(op[t].kind # "delete" /\ i = Place(t))
  <2>1. i \in found[t] /\ written[t][i] = Absent
    BY <1>1, <1>3 DEF WrittenInv, Wrote
  <2>2. Removes(t) /\ op[t].kind # "create"
    BY <1>3, <2>1, PlaceFacts, FoundFacts DEF Removes, FoundInv
  <2>3. Holding(t) /\ lock[t][i] = "key"
    BY <1>1, <2>1, <2>2, PlaceFacts, FoundFacts DEF Holding
  <2>4. ~Live(Absent)
    BY DEF Live
  <2> QED BY <1>1, <2>1, <2>2, <2>3, <2>4 DEF Writing
<1> QED BY <1>2, <1>3

-----------------------------------------------------------------------------
(***************************************************************************)
(* What a step of one request leaves to the others                         *)
(***************************************************************************)
\* The requests are given: what does not depend on the tables never changes.
LEMMA SameRequest ==
  ASSUME op' = op, NEW t
  PROVE  /\ Target(t)' = Target(t) /\ Place(t)' = Place(t)
         /\ Removes(t)' = Removes(t) /\ OnPool(t)' = OnPool(t)
         /\ LockMode(t)' = LockMode(t) /\ NewPlace(t)' = NewPlace(t)
         /\ Reachable(t)' = Reachable(t)
BY DEF Target, Place, Removes, OnPool, LockMode, NewPlace, Reachable

LEMMA SamePhase ==
  ASSUME op' = op, NEW t, pc'[t] = pc[t], status'[t] = status[t]
  PROVE  Complete(t)' = Complete(t) /\ Past(t)' = Past(t) /\ Holding(t)' = Holding(t)
BY SameRequest DEF Complete, Past, Holding

\* The row a statement writes stays the same as long as its target does.
LEMMA SameNewRow ==
  ASSUME op' = op, NEW t, op[t].kind # "create" => db'[Target(t)] = db[Target(t)]
  PROVE  NewRow(t)' = NewRow(t) /\ RefsToCheck(t)' = RefsToCheck(t)
<1>1. Target(t)' = Target(t)
  BY SameRequest
<1>2. NewRow(t)' = NewRow(t)
  <2>1. CASE op[t].kind = "create"
    BY <2>1 DEF NewRow
  <2>2. CASE op[t].kind # "create"
    BY <1>1, <2>2 DEF NewRow
  <2> QED BY <2>1, <2>2
<1>3. RefsToCheck(t)' = RefsToCheck(t)
  <2>1. CASE op[t].kind = "create"
    BY <1>2, <2>1 DEF RefsToCheck, Refs
  <2>2. CASE op[t].kind # "create"
    BY <1>1, <1>2, <2>2 DEF RefsToCheck, Refs
  <2> QED BY <2>1, <2>2
<1> QED BY <1>2, <1>3

\* A request that does nothing itself keeps its part of the invariant while
\* the tables stay as they are.
LEMMA LocalKept ==
  ASSUME op' = op, db' = db, NEW u \in Requests, Local(u),
         pc'[u] = pc[u], status'[u] = status[u], written'[u] = written[u],
         lock'[u] = lock[u], found'[u] = found[u], todo'[u] = todo[u]
  PROVE  Local(u)'
<1>1. /\ \A v : Target(v)' = Target(v)
      /\ Place(u)' = Place(u) /\ Removes(u)' = Removes(u) /\ Reachable(u)' = Reachable(u)
      /\ LockMode(u)' = LockMode(u) /\ NewPlace(u)' = NewPlace(u)
  BY SameRequest
<1>2. Complete(u)' = Complete(u) /\ Past(u)' = Past(u) /\ Holding(u)' = Holding(u)
  BY SamePhase
<1>3. NewRow(u)' = NewRow(u) /\ RefsToCheck(u)' = RefsToCheck(u)
  BY SameNewRow
<1>4. Referrers(u)' = Referrers(u)
  BY DEF Referrers, Live, Refs
<1>5. PhaseInv(u)' /\ FoundInv(u)'
  BY <1>1 DEF Local, PhaseInv, FoundInv
<1>6. WrittenInv(u)'
  BY <1>1, <1>2, <1>3 DEF Local, WrittenInv
<1>7. LockInv(u)'
  BY <1>1, <1>2 DEF Local, LockInv, Writing, Live
<1>8. ReferenceInv(u)'
  BY <1>2, <1>3 DEF Local, ReferenceInv
<1>9. ReferrerInv(u)'
  BY <1>1, <1>2, <1>4 DEF Local, ReferrerInv
<1>10. FreshInv(u)'
  BY <1>1 DEF Local, FreshInv, Live
<1> QED BY <1>5, <1>6, <1>7, <1>8, <1>9, <1>10 DEF Local

\* A transaction that is released has written and locked nothing.
LEMMA ReleasedLocal ==
  ASSUME TypeOK, TypeOK', op' = op, NEW t \in Requests, Local(t), Release(t),
         pc[t] # "done", pc'[t] \in {"answered", "done"}, ~Complete(t)',
         pc'[t] # "done" => db' = db \/ op[t].kind = "delete"
  PROVE  Local(t)'
<1> USE DEF Local
<1>1. /\ \A i \in Items : written'[t][i] = Untouched /\ lock'[t][i] = "none"
      /\ todo'[t] = {} /\ found'[t] = {}
  BY DEF Release, TypeOK
<1>2. ~Past(t)' /\ ~Holding(t)'
  BY DEF Past, Holding
<1>3. PhaseInv(t)' /\ FoundInv(t)'
  BY <1>1 DEF PhaseInv, FoundInv
<1>4. WrittenInv(t)'
  BY <1>1, <1>2 DEF WrittenInv
<1>5. LockInv(t)'
  BY <1>1, <1>2 DEF LockInv, Writing
<1>6. ReferenceInv(t)' /\ ReferrerInv(t)'
  BY <1>1, <1>2 DEF ReferenceInv, ReferrerInv, Past
<1>7. FreshInv(t)'
  <2>1. \A v : Target(v)' = Target(v)
    BY SameRequest
  <2> QED BY <2>1 DEF FreshInv, Live
<1> QED BY <1>3, <1>4, <1>5, <1>6, <1>7

-----------------------------------------------------------------------------
(***************************************************************************)
(* The end of a transaction                                                *)
(***************************************************************************)
\* Nothing of a request but its own step, its own answer and what it holds.
OthersKept(t) ==
  /\ op' = op
  /\ \A u \in Requests \ {t} :
       /\ pc'[u] = pc[u] /\ status'[u] = status[u]
       /\ written'[u] = written[u] /\ lock'[u] = lock[u]
       /\ found'[u] = found[u] /\ todo'[u] = todo[u]

\* A transaction ends and nothing of it stays.
LEMMA EndWithoutEffect ==
  ASSUME CatalogueInv, TypeOK', NEW t \in Requests, OthersKept(t), Release(t), db' = db,
         pc[t] # "done", pc'[t] \in {"answered", "done"}, ~Complete(t)'
  PROVE  CatalogueInv'
<1> USE DEF CatalogueInv, OthersKept
<1>1. \A i \in Items : written'[t][i] = Untouched /\ lock'[t][i] = "none"
  BY DEF Release, TypeOK
<1>2. \A u \in Requests : Local(u)'
  <2>1. Local(t)'
    BY ReleasedLocal
  <2>2. ASSUME NEW u \in Requests \ {t} PROVE Local(u)'
    BY LocalKept
  <2> QED BY <2>1, <2>2
<1>3. Exclusive'
  BY <1>1 DEF Exclusive, Writing
<1>4. NoClash'
  <2> SUFFICES ASSUME NEW u \in Requests, Past(u)', op[u].kind # "delete", NEW j \in Items
               PROVE  /\ ~Clash(u, j, db[j])'
                      /\ \A v \in Requests \ {u} : ~Clash(u, j, written[v][j])'
    BY DEF NoClash
  <2>1. u # t
    BY DEF Past
  <2>2. Past(u) /\ Place(u)' = Place(u) /\ Target(u)' = Target(u) /\ NewRow(u)' = NewRow(u)
    BY <2>1, SameRequest, SamePhase, SameNewRow
  <2>3. /\ ~Clash(u, j, db[j])
        /\ \A v \in Requests \ {u} : ~Clash(u, j, written[v][j])
    BY <2>2 DEF NoClash
  <2>4. ~Clash(u, j, db[j])'
    BY <2>2, <2>3 DEF Clash, SameIndex, Live
  <2>5. ASSUME NEW v \in Requests \ {u} PROVE ~Clash(u, j, written[v][j])'
    <3>1. CASE v = t
      BY <1>1, <3>1 DEF Clash, Live
    <3>2. CASE v # t
      BY <2>2, <2>3, <3>2 DEF Clash, SameIndex, Live
    <3> QED BY <3>1, <3>2
  <2> QED BY <2>4, <2>5
<1>5. UniqueKeys' /\ NoDanglingReference'
  BY DEF UniqueKeys, NoDanglingReference, SameIndex, Live
<1> QED BY <1>2, <1>3, <1>4, <1>5

\* The transaction has nothing left to check.
Checked(t) == Past(t) /\ todo[t] = {} /\ (Removes(t) => Referrers(t) = {})

\* What the tables hold once a transaction has its effect.
LEMMA EffectRows ==
  ASSUME CatalogueInv, NEW t \in Requests, Checked(t), db' = [i \in Items |-> Seen(t, i)],
         NEW i \in Items
  PROVE  \/ ~Wrote(t, i) /\ db'[i] = db[i]
         \/ /\ Wrote(t, i) /\ Writing(t, i)
            /\ i = Place(t) /\ op[t].kind # "delete"
            /\ db'[i] = written[t][i] /\ db'[i] = NewRow(t)
            /\ NewRow(t) \in RowsOf(i) /\ Live(db'[i])
         \/ /\ Wrote(t, i) /\ Writing(t, i)
            /\ i \in found[t] /\ Removes(t) /\ lock[t][i] = "key"
            /\ db'[i] = Absent /\ ~Live(db'[i]) /\ db'[i] = written[t][i]
<1> USE DEF CatalogueInv, Local
<1>1. CASE ~Wrote(t, i)
  BY <1>1 DEF Seen
<1>2. CASE Wrote(t, i)
  <2>1. db'[i] = written[t][i]
    BY <1>2 DEF Seen
  <2>2. TypeOK /\ FoundInv(t) /\ WrittenInv(t) /\ LockInv(t)
    OBVIOUS
  <2>3. CASE Live(written[t][i])
    BY <1>2, <2>1, <2>2, <2>3, WroteLocked
  <2>4. CASE ~Live(written[t][i])
    BY <1>2, <2>1, <2>2, <2>4, WroteLocked
  <2> QED BY <2>3, <2>4
<1> QED BY <1>1, <1>2

\* What a checked transaction leaves in the tables still has unique keys.
LEMMA EffectUniqueKeys ==
  ASSUME CatalogueInv, NEW t \in Requests, Checked(t), db' = [i \in Items |-> Seen(t, i)]
  PROVE  UniqueKeys'
<1> USE DEF CatalogueInv, Local
<1> SUFFICES ASSUME NEW i \in Items, NEW j \in Items, i # j, SameIndex(i, j),
                    Live(db'[i]), Live(db'[j]),
                    db'[i].name = db'[j].name, db'[i].parent = db'[j].parent
             PROVE  FALSE
  BY DEF UniqueKeys, SameIndex, Live
<1>1. SameIndex(j, i)
  BY DEF SameIndex
<1>2. ASSUME NEW k \in Items, NEW l \in Items, k # l, SameIndex(k, l),
             Live(db'[k]), Live(db'[l]),
             db'[k].name = db'[l].name, db'[k].parent = db'[l].parent,
             Wrote(t, k)
      PROVE  FALSE
  <2>1. /\ k = Place(t) /\ op[t].kind # "delete" /\ db'[k] = NewRow(t)
    BY <1>2, EffectRows
  <2>2. ~Wrote(t, l) /\ db'[l] = db[l]
    BY <1>2, <2>1, EffectRows
  <2>3. ~Clash(t, l, db[l])
    BY <2>1 DEF NoClash, Checked
  <2>4. op[t].kind # "create" /\ l = Target(t)
    BY <1>2, <2>1, <2>2, <2>3 DEF Clash
  <2>5. l \in found[t]
    BY <2>1, <2>4, FoundFacts, PlaceFacts, OpShape DEF Checked, Holding
  <2>6. written[t][l] = Absent
    BY <1>2, <2>1, <2>5 DEF WrittenInv, Checked
  <2> QED BY <2>2, <2>6, MarksAssumption DEF Wrote
<1>3. CASE Wrote(t, i)
  BY <1>2, <1>3
<1>4. CASE Wrote(t, j)
  BY <1>1, <1>2, <1>4
<1>5. CASE ~Wrote(t, i) /\ ~Wrote(t, j)
  <2>1. db'[i] = db[i] /\ db'[j] = db[j]
    BY <1>5, EffectRows
  <2> QED BY <2>1 DEF UniqueKeys
<1> QED BY <1>3, <1>4, <1>5

\* ... and refers to nothing that is gone.
LEMMA EffectReferences ==
  ASSUME CatalogueInv, NEW t \in Requests, Checked(t), db' = [i \in Items |-> Seen(t, i)]
  PROVE  NoDanglingReference'
<1> USE DEF CatalogueInv, Local
<1>1. ASSUME NEW i \in Items, Live(db[i]), NEW r \in Refs(db[i])
      PROVE  r \in Items /\ r \notin Rooms \union Sessions /\ Live(db[r])
  <2>1. db[i] \in RowsOf(i)
    BY <1>1 DEF TypeOK, Live
  <2> QED BY <1>1, <2>1, RowShape DEF NoDanglingReference, Refs
<1> SUFFICES ASSUME NEW i \in Items, Live(db'[i]), NEW r \in Refs(db'[i])
             PROVE  Live(db'[r])
  BY DEF NoDanglingReference, Refs, Live
<1>2. CASE ~Wrote(t, i)
  <2>1. db'[i] = db[i]
    BY <1>2, EffectRows
  <2>2. r \in Items /\ Live(db[r])
    BY <1>1, <2>1
  <2>3. CASE ~Live(db'[r])
    <3>1. r \in found[t] /\ Removes(t)
      BY <2>2, <2>3, EffectRows
    <3>2. i \in Referrers(t)
      BY <2>1, <3>1 DEF Referrers
    <3> QED BY <3>1, <3>2 DEF Checked
  <2> QED BY <2>3
<1>3. CASE Wrote(t, i)
  <2>1. /\ i = Place(t) /\ op[t].kind # "delete"
        /\ db'[i] = NewRow(t) /\ NewRow(t) \in RowsOf(i)
    BY <1>3, EffectRows
  <2>2. r \in Items /\ r \notin Rooms \union Sessions
    BY <2>1, RowShape
  <2>3. i \in Rooms \union Sessions
    BY <2>1, RowShape DEF Items
  <2>4. Place(t) = Target(t)
    BY <2>1, <2>3, PlaceFacts, KeysAssumption
  <2>5. ~Wrote(t, r)
    BY <2>1, <2>2, <2>3, <2>4, EffectRows, FoundFacts
  <2>6. Live(db[r])
    <3>1. CASE r \in RefsToCheck(t)
      <4>1. lock[t][r] = "share"
        BY <2>1, <3>1 DEF ReferenceInv, Checked
      <4> QED BY <2>2, <4>1 DEF LockInv
    <3>2. CASE r \notin RefsToCheck(t)
      <4>1. op[t].kind # "create" /\ r \in Refs(db[Target(t)])
        BY <2>1, <3>2 DEF RefsToCheck
      <4>2. Live(db[Target(t)]) /\ Target(t) \in Items
        BY <2>1, <4>1, PlaceFacts, OpShape, FoundFacts DEF Holding, Checked
      <4> QED BY <1>1, <4>1, <4>2
    <3> QED BY <3>1, <3>2
  <2> QED BY <2>2, <2>5, <2>6, EffectRows
<1> QED BY <1>2, <1>3

\* A request that waits keeps the rows it has locked to write: nobody else
\* can write them.
LEMMA EffectOnOthers ==
  ASSUME CatalogueInv, NEW t \in Requests, Checked(t), OthersKept(t),
         db' = [i \in Items |-> Seen(t, i)], NEW u \in Requests \ {t}
  PROVE  /\ \A i \in Items : Writing(u, i) => db'[i] = db[i]
         /\ Past(u) /\ op[u].kind # "delete" =>
              NewRow(u)' = NewRow(u) /\ RefsToCheck(u)' = RefsToCheck(u)
<1> USE DEF CatalogueInv, Local, OthersKept
<1>1. ASSUME NEW i \in Items, Writing(u, i) PROVE db'[i] = db[i]
  <2>1. ~Writing(t, i)
    BY <1>1 DEF Exclusive
  <2> QED BY <2>1, EffectRows
<1>2. ASSUME Past(u), op[u].kind # "delete"
      PROVE  NewRow(u)' = NewRow(u) /\ RefsToCheck(u)' = RefsToCheck(u)
  <2>1. op[u].kind # "create" => db'[Target(u)] = db[Target(u)]
    BY <1>1, <1>2, PlaceFacts, OpShape, FoundFacts DEF LockInv, Holding
  <2> QED BY <2>1, SameNewRow
<1> QED BY <1>1, <1>2

LEMMA EffectLocal ==
  ASSUME CatalogueInv, NEW t \in Requests, Checked(t), OthersKept(t),
         db' = [i \in Items |-> Seen(t, i)], NEW u \in Requests \ {t}
  PROVE  Local(u)'
<1> USE DEF CatalogueInv, Local, OthersKept
<1>1. /\ \A v : Target(v)' = Target(v)
      /\ Place(u)' = Place(u) /\ Removes(u)' = Removes(u) /\ Reachable(u)' = Reachable(u)
      /\ LockMode(u)' = LockMode(u) /\ NewPlace(u)' = NewPlace(u)
  BY SameRequest
<1>2. Complete(u)' = Complete(u) /\ Past(u)' = Past(u) /\ Holding(u)' = Holding(u)
  BY SamePhase
<1>3. /\ \A i \in Items : Writing(u, i) => db'[i] = db[i]
      /\ Past(u) /\ op[u].kind # "delete" =>
           NewRow(u)' = NewRow(u) /\ RefsToCheck(u)' = RefsToCheck(u)
  BY EffectOnOthers
<1>4. PhaseInv(u)' /\ FoundInv(u)'
  BY <1>1 DEF PhaseInv, FoundInv
<1>5. WrittenInv(u)'
  BY <1>1, <1>2, <1>3 DEF WrittenInv
<1>6. LockInv(u)'
  <2>1. ASSUME NEW i \in Items, lock[u][i] = "share" PROVE Live(db'[i])
    <3>1. Live(db[i])
      BY <2>1 DEF LockInv
    <3>2. lock[t][i] # "key"
      BY <2>1 DEF Exclusive
    <3> QED BY <3>1, <3>2, EffectRows
  <2>2. \A i \in Items : Writing(u, i)' <=> Writing(u, i)
    BY DEF Writing
  <2>3. (Holding(u) => found[u] # {} /\ \A i \in found[u] : Writing(u, i))'
    BY <1>2, FoundFacts DEF LockInv, Writing
  <2>4. ASSUME NEW i \in Items, Writing(u, i)
        PROVE  \/ /\ i \in found[u] /\ Live(db'[i]) /\ lock[u][i] = LockMode(u)
                  /\ pc[u] = "rows" \/ Holding(u)
               \/ Past(u) /\ op[u].kind # "delete" /\ i = Place(u) /\ NewPlace(u)
    BY <1>3, <2>4 DEF LockInv
  <2>5. (Past(u) /\ NewPlace(u) => lock[u][Place(u)] = "key")'
    BY <1>1, <1>2 DEF LockInv
  <2> QED BY <1>1, <1>2, <2>1, <2>2, <2>3, <2>4, <2>5 DEF LockInv, Live
<1>7. ReferenceInv(u)'
  <2>1. todo[u] # {} => Past(u) /\ op[u].kind # "delete"
    BY DEF ReferenceInv, Past, PhaseInv, Removes
  <2> QED BY <1>2, <1>3, <2>1 DEF ReferenceInv
<1>8. ReferrerInv(u)'
  <2> SUFFICES ASSUME Complete(u), Removes(u), NEW j \in Items, Live(db'[j]),
                      NEW r \in found[u], r \in Refs(db'[j])
               PROVE  FALSE
    BY <1>1, <1>2 DEF ReferrerInv, Referrers, Live, Refs
  <2>1. Referrers(u) = {}
    BY DEF ReferrerInv
  <2>2. ~(Live(db[j]) /\ r \in Refs(db[j]))
    BY <2>1 DEF Referrers
  <2>3. j = Place(t) /\ op[t].kind # "delete" /\ db'[j] = NewRow(t)
    BY <2>2, EffectRows
  <2>4. lock[u][r] = "key" /\ r \in Items
    BY PlaceFacts, FoundFacts DEF Holding, Past
  <2>5. lock[t][r] = "none"
    BY <2>4 DEF Exclusive
  <2>6. r \notin RefsToCheck(t)
    BY <2>3, <2>5 DEF ReferenceInv, Checked
  <2>7. op[t].kind # "create" /\ r \in Refs(db[Target(t)])
    BY <2>3, <2>6 DEF RefsToCheck
  <2>8. Live(db[Target(t)]) /\ Target(t) \in Items
    BY <2>3, <2>7, PlaceFacts, OpShape, FoundFacts DEF Holding, Checked
  <2> QED BY <2>1, <2>7, <2>8 DEF Referrers
<1>9. FreshInv(u)'
  <2> SUFFICES ASSUME op[u].kind = "create", Target(u) \notin Types, pc[u] # "done",
                      Live(db'[Target(u)])
               PROVE  FALSE
    BY <1>1 DEF FreshInv, Live
  <2>1. ~Live(db[Target(u)]) /\ Target(u) \in Items
    BY PlaceFacts DEF FreshInv
  <2>2. Target(u) = Place(t) /\ op[t].kind # "delete"
    BY <2>1, EffectRows
  <2>3. Target(t) = Target(u)
    BY <2>2, PlaceFacts
  <2>4. op[t].kind # "create"
    BY <2>3 DEF FreshInv
  <2> QED BY <2>1, <2>2, <2>3, <2>4, PlaceFacts, OpShape, FoundFacts DEF Holding, Checked
<1> QED BY <1>4, <1>5, <1>6, <1>7, <1>8, <1>9

\* A transaction takes effect and ends.
LEMMA EndWithEffect ==
  ASSUME CatalogueInv, TypeOK', NEW t \in Requests, OthersKept(t), Release(t), Checked(t),
         db' = [i \in Items |-> Seen(t, i)],
         pc[t] # "done", pc'[t] \in {"answered", "done"}, ~Complete(t)',
         pc'[t] # "done" => op[t].kind = "delete"
  PROVE  CatalogueInv'
<1> USE DEF CatalogueInv, OthersKept
<1>1. \A i \in Items : written'[t][i] = Untouched /\ lock'[t][i] = "none"
  BY DEF Release, TypeOK
<1>2. \A u \in Requests : Local(u)'
  <2>1. Local(t)'
    BY ReleasedLocal
  <2> QED BY <2>1, EffectLocal
<1>3. Exclusive'
  BY <1>1 DEF Exclusive, Writing
<1>4. NoClash'
  <2> SUFFICES ASSUME NEW u \in Requests, Past(u)', op[u].kind # "delete", NEW j \in Items
               PROVE  /\ ~Clash(u, j, db[j])'
                      /\ \A v \in Requests \ {u} : ~Clash(u, j, written[v][j])'
    BY DEF NoClash
  <2>1. u # t
    BY DEF Past
  <2>2. Past(u) /\ Place(u)' = Place(u) /\ Target(u)' = Target(u)
    BY <2>1, SameRequest, SamePhase
  <2>3. NewRow(u)' = NewRow(u)
    BY <2>1, <2>2, EffectOnOthers
  <2>4. /\ ~Clash(u, j, db[j])
        /\ \A v \in Requests \ {u} : ~Clash(u, j, written[v][j])
    BY <2>2 DEF NoClash
  <2>5. ~Clash(u, j, db[j])'
    <3>1. CASE db'[j] = db[j]
      BY <2>2, <2>3, <2>4, <3>1 DEF Clash, SameIndex, Live
    <3>2. CASE db'[j] = written[t][j]
      BY <2>1, <2>2, <2>3, <2>4, <3>2 DEF Clash, SameIndex, Live
    <3> QED BY <3>1, <3>2, EffectRows
  <2>6. ASSUME NEW v \in Requests \ {u} PROVE ~Clash(u, j, written[v][j])'
    <3>1. CASE v = t
      BY <1>1, <3>1 DEF Clash, Live
    <3>2. CASE v # t
      BY <2>2, <2>3, <2>4, <3>2 DEF Clash, SameIndex, Live
    <3> QED BY <3>1, <3>2
  <2> QED BY <2>5, <2>6
<1>5. UniqueKeys' /\ NoDanglingReference'
  BY EffectUniqueKeys, EffectReferences
<1> QED BY <1>2, <1>3, <1>4, <1>5

-----------------------------------------------------------------------------
(***************************************************************************)
(* The steps of a statement                                                *)
(***************************************************************************)
LEMMA InitCatalogue == Init => CatalogueInv
<1> SUFFICES ASSUME Init PROVE CatalogueInv
  OBVIOUS
<1>1. \A t \in Requests :
        /\ pc[t] = "start" /\ status[t] = "none" /\ todo[t] = {} /\ found[t] = {}
        /\ \A i \in Items : written[t][i] = Untouched /\ lock[t][i] = "none"
  BY DEF Init
<1>2. TypeOK
  BY TablesAssumption DEF Init, TypeOK, Modes, Steps, Statuses
<1>3. ASSUME NEW t \in Requests PROVE Local(t)
  <2>1. ~Past(t) /\ ~Holding(t)
    BY <1>1 DEF Past, Holding, Complete
  <2>2. FreshInv(t)
    BY DEF Init, FreshInv, Target, Live
  <2>3. PhaseInv(t) /\ FoundInv(t) /\ WrittenInv(t) /\ LockInv(t)
    BY <1>1, <2>1 DEF PhaseInv, FoundInv, WrittenInv, LockInv, Writing
  <2>4. ReferenceInv(t) /\ ReferrerInv(t)
    BY <1>1, <2>1 DEF ReferenceInv, ReferrerInv, Past
  <2> QED BY <2>2, <2>3, <2>4 DEF Local
<1>4. Exclusive
  BY <1>1 DEF Exclusive, Writing
<1>5. NoClash
  BY <1>1 DEF NoClash, Past, Complete
<1> QED BY <1>2, <1>3, <1>4, <1>5 DEF CatalogueInv, Init

\* The answers and steps have their types, and only t's change.
LEMMA GotoKept ==
  ASSUME TypeOK, NEW t \in Requests, NEW step \in Steps, Goto(t, step)
  PROVE  /\ pc' \in [Requests -> Steps] /\ pc'[t] = step
         /\ \A u \in Requests \ {t} : pc'[u] = pc[u]
BY DEF TypeOK, Goto

LEMMA AnswerKept ==
  ASSUME TypeOK, NEW t \in Requests, NEW code \in Statuses, Answer(t, code)
  PROVE  /\ pc' \in [Requests -> Steps] /\ pc'[t] = "answered"
         /\ status' \in [Requests -> Statuses] /\ status'[t] = code
         /\ \A u \in Requests \ {t} : pc'[u] = pc[u] /\ status'[u] = status[u]
<1>1. Goto(t, "answered") /\ status' = [status EXCEPT ![t] = code]
  BY DEF Answer
<1> QED BY <1>1, GotoKept DEF TypeOK, Steps

LEMMA ReleaseKept ==
  ASSUME TypeOK, NEW t \in Requests, Release(t)
  PROVE  /\ op' = op
         /\ lock' \in [Requests -> [Items -> Modes]]
         /\ todo' \in [Requests -> SUBSET Items] /\ found' \in [Requests -> SUBSET Items]
         /\ written' \in [Requests -> [Items -> Row \union {Absent, Untouched}]]
         /\ \A i \in Items, u \in Requests :
              written'[u][i] \in RowsOf(i) \union {Absent, Untouched}
         /\ \A u \in Requests \ {t} :
              /\ written'[u] = written[u] /\ lock'[u] = lock[u]
              /\ found'[u] = found[u] /\ todo'[u] = todo[u]
<1>1. /\ op' = op
      /\ written' = [written EXCEPT ![t] = [i \in Items |-> Untouched]]
      /\ lock' = [lock EXCEPT ![t] = [i \in Items |-> "none"]]
      /\ todo' = [todo EXCEPT ![t] = {}] /\ found' = [found EXCEPT ![t] = {}]
  BY DEF Release
<1>2. /\ lock' \in [Requests -> [Items -> Modes]] /\ todo' \in [Requests -> SUBSET Items]
      /\ found' \in [Requests -> SUBSET Items]
  BY <1>1 DEF TypeOK, Modes
<1>3. /\ written' \in [Requests -> [Items -> Row \union {Absent, Untouched}]]
      /\ \A i \in Items, u \in Requests :
           written'[u][i] \in RowsOf(i) \union {Absent, Untouched}
  BY <1>1 DEF TypeOK
<1> QED BY <1>1, <1>2, <1>3 DEF TypeOK

\* Any step that ends a transaction without effect.
LEMMA Dropped ==
  ASSUME CatalogueInv, NEW t \in Requests, Release(t), db' = db, pc[t] # "done",
         \/ Answer(t, "4xx5xx")
         \/ Goto(t, "done") /\ status' = status
         \/ Goto(t, "done") /\ status' = [status EXCEPT ![t] = "cancelled"]
  PROVE  CatalogueInv'
<1>1. TypeOK
  BY DEF CatalogueInv
<1>2. /\ pc' \in [Requests -> Steps] /\ pc'[t] \in {"answered", "done"}
      /\ pc'[t] = "answered" => status'[t] = "4xx5xx"
      /\ status' \in [Requests -> Statuses]
      /\ \A u \in Requests \ {t} : pc'[u] = pc[u] /\ status'[u] = status[u]
  <2>1. CASE Answer(t, "4xx5xx")
    BY <1>1, <2>1, AnswerKept DEF Statuses
  <2>2. CASE Goto(t, "done") /\ status' = status
    BY <1>1, <2>2, GotoKept DEF Steps, TypeOK
  <2>3. CASE Goto(t, "done") /\ status' = [status EXCEPT ![t] = "cancelled"]
    BY <1>1, <2>3, GotoKept DEF Steps, Statuses, TypeOK
  <2> QED BY <2>1, <2>2, <2>3
<1>3. OthersKept(t)
  BY <1>1, <1>2, ReleaseKept DEF OthersKept
<1>4. TypeOK'
  <2>1. db' \in [Items -> Row \union {Absent}] /\ op' \in [Requests -> Ops]
    BY <1>1, ReleaseKept DEF TypeOK
  <2>2. \A i \in Items : db'[i] \in RowsOf(i) \union {Absent}
    BY <1>1 DEF TypeOK
  <2> QED BY <1>1, <1>2, <2>1, <2>2, ReleaseKept DEF TypeOK, RowsOf
<1>5. ~Complete(t)'
  BY <1>2 DEF Complete
<1> QED BY <1>2, <1>3, <1>4, <1>5, EndWithoutEffect

\* Any step with which a transaction takes effect.
LEMMA Effected ==
  ASSUME CatalogueInv, NEW t \in Requests, Release(t), Checked(t), pc[t] # "done",
         db' = [i \in Items |-> Seen(t, i)],
         \/ Goto(t, "done") /\ status' = status
         \/ Answer(t, "2xx") /\ OnPool(t)
  PROVE  CatalogueInv'
<1>1. TypeOK
  BY DEF CatalogueInv
<1>2. /\ pc' \in [Requests -> Steps] /\ pc'[t] \in {"answered", "done"}
      /\ pc'[t] = "answered" => OnPool(t)
      /\ status' \in [Requests -> Statuses]
      /\ \A u \in Requests \ {t} : pc'[u] = pc[u] /\ status'[u] = status[u]
  <2>1. CASE Goto(t, "done") /\ status' = status
    BY <1>1, <2>1, GotoKept DEF Steps, TypeOK
  <2>2. CASE Answer(t, "2xx") /\ OnPool(t)
    BY <1>1, <2>2, AnswerKept DEF Statuses
  <2> QED BY <2>1, <2>2
<1>3. OthersKept(t)
  BY <1>1, <1>2, ReleaseKept DEF OthersKept
<1>4. TypeOK'
  <2>1. ASSUME NEW i \in Items PROVE db'[i] \in RowsOf(i) \union {Absent}
    <3>1. db[i] \in RowsOf(i) \union {Absent}
      BY <1>1 DEF TypeOK
    <3>2. db'[i] = db[i] \/ db'[i] \in RowsOf(i) \/ db'[i] = Absent
      BY EffectRows
    <3> QED BY <3>1, <3>2
  <2>2. db' \in [Items -> Row \union {Absent}]
    BY <2>1, RowShape
  <2>3. op' \in [Requests -> Ops]
    BY <1>1, ReleaseKept DEF TypeOK
  <2> QED BY <1>1, <1>2, <2>1, <2>2, <2>3, ReleaseKept DEF TypeOK, RowsOf
<1>5. ~Complete(t)' /\ (pc'[t] # "done" => op[t].kind = "delete")
  <2>1. OnPool(t)' = OnPool(t)
    BY <1>3, SameRequest DEF OthersKept
  <2> QED BY <1>2, <2>1 DEF Complete, OnPool
<1> QED BY <1>2, <1>3, <1>4, <1>5, EndWithEffect

\* A step inside a transaction that writes no new row: what t itself keeps
\* is left to be shown.
LEMMA Quiet ==
  ASSUME CatalogueInv, NEW t \in Requests, TypeOK', OthersKept(t), db' = db,
         \A i \in Items : written'[t][i] = written[t][i] \/ written'[t][i] = Absent,
         Past(t)' /\ op[t].kind # "delete" => Past(t), Local(t)', Exclusive'
  PROVE  CatalogueInv'
<1> USE DEF CatalogueInv, OthersKept
<1>1. ASSUME NEW u \in Requests
      PROVE  /\ Target(u)' = Target(u) /\ Place(u)' = Place(u) /\ NewRow(u)' = NewRow(u)
             /\ Past(u)' /\ op[u].kind # "delete" => Past(u)
  BY SameRequest, SameNewRow, SamePhase
<1>2. \A u \in Requests : Local(u)'
  BY LocalKept
<1>3. NoClash'
  <2> SUFFICES ASSUME NEW u \in Requests, Past(u)', op[u].kind # "delete", NEW j \in Items
               PROVE  /\ ~Clash(u, j, db[j])'
                      /\ \A v \in Requests \ {u} : ~Clash(u, j, written[v][j])'
    BY DEF NoClash
  <2>1. /\ ~Clash(u, j, db[j])
        /\ \A v \in Requests \ {u} : ~Clash(u, j, written[v][j])
    BY <1>1 DEF NoClash
  <2>2. ~Clash(u, j, db[j])'
    BY <1>1, <2>1 DEF Clash, SameIndex, Live
  <2>3. ASSUME NEW v \in Requests \ {u} PROVE ~Clash(u, j, written[v][j])'
    <3>1. CASE written'[v][j] = written[v][j]
      BY <1>1, <2>1, <3>1 DEF Clash, SameIndex, Live
    <3>2. CASE written'[v][j] = Absent
      BY <3>2 DEF Clash, Live
    <3> QED BY <3>1, <3>2
  <2> QED BY <2>2, <2>3
<1>4. UniqueKeys' /\ NoDanglingReference'
  BY DEF UniqueKeys, NoDanglingReference, SameIndex, Live
<1> QED BY <1>2, <1>3, <1>4

\* A step that only changes where the request is: the request keeps what it
\* has, and is not further than what it has shown.
LEMMA Moved ==
  ASSUME CatalogueInv, NEW t \in Requests, TypeOK',
         UNCHANGED <<db, written, lock, op, todo>>, OthersKept(t), FoundInv(t)', LockInv(t)',
         pc[t] # "done", Past(t)' <=> Past(t), found'[t] = found[t] \/ ~Past(t),
         PhaseInv(t)', pc'[t] = "references" \/ todo[t] = {},
         Complete(t)' /\ Removes(t) => Referrers(t) = {}
  PROVE  CatalogueInv'
<1> USE DEF CatalogueInv, Local
<1>1. /\ Target(t)' = Target(t) /\ Place(t)' = Place(t) /\ Removes(t)' = Removes(t)
      /\ NewRow(t)' = NewRow(t) /\ RefsToCheck(t)' = RefsToCheck(t)
  BY SameRequest, SameNewRow
<1>2. WrittenInv(t)'
  BY <1>1 DEF WrittenInv
<1>3. ReferenceInv(t)'
  BY <1>1 DEF ReferenceInv
<1>4. ReferrerInv(t)'
  <2> SUFFICES ASSUME Complete(t)', Removes(t) PROVE Referrers(t)' = {}
    BY <1>1 DEF ReferrerInv
  <2>1. found'[t] = found[t]
    BY DEF Past
  <2> QED BY <2>1 DEF Referrers, Live, Refs
<1>5. FreshInv(t)'
  <2>1. \A u : Target(u)' = Target(u)
    BY SameRequest
  <2> QED BY <2>1 DEF FreshInv, Live
<1>6. Exclusive'
  BY DEF Exclusive, Writing
<1> QED BY <1>2, <1>3, <1>4, <1>5, <1>6, Quiet

LEMMA BeginStep ==
  ASSUME CatalogueInv, NEW t \in Requests, NEW kind, NEW table, Begin(t, kind, table)
  PROVE  CatalogueInv'
<1> DEFINE step == IF kind = "create" THEN "index" ELSE "find"
<1>1. TypeOK /\ Local(t)
  BY DEF CatalogueInv
<1>2. /\ UNCHANGED <<db, written, lock, op, found, todo, status>>
      /\ pc[t] = "start" /\ op[t].kind = kind /\ Goto(t, step) /\ step \in Steps
  BY DEF Begin, Steps
<1>3. /\ pc' \in [Requests -> Steps] /\ pc'[t] = step
      /\ \A u \in Requests \ {t} : pc'[u] = pc[u]
  BY <1>1, <1>2, GotoKept
<1>4. TypeOK'
  BY <1>1, <1>2, <1>3 DEF TypeOK, RowsOf
<1>5. /\ ~Past(t) /\ ~Past(t)' /\ ~Complete(t)'
      /\ ~Holding(t) /\ ~Holding(t)'
  BY <1>2, <1>3 DEF Past, Holding, Complete
<1>6. PhaseInv(t)' /\ FoundInv(t)'
  BY <1>1, <1>2, <1>3, SameRequest DEF PhaseInv, FoundInv, Local
<1>7. LockInv(t)'
  BY <1>1, <1>2, <1>5 DEF Local, LockInv, Writing
<1>8. todo[t] = {}
  BY <1>1, <1>2 DEF Local, ReferenceInv
<1> QED BY <1>2, <1>3, <1>4, <1>5, <1>6, <1>7, <1>8, Moved DEF OthersKept

\* The request is answered before it has locked or written anything.
LEMMA RefusedStep ==
  ASSUME CatalogueInv, NEW t \in Requests, pc[t] \in {"start", "find", "rows"},
         pc[t] = "rows" => \A i \in found[t] : ~Live(db[i]),
         NEW code \in Statuses \ {"2xx"}, Answer(t, code),
         UNCHANGED <<db, written, lock, op, found, todo>>
  PROVE  CatalogueInv'
<1>1. TypeOK /\ Local(t)
  BY DEF CatalogueInv
<1>2. /\ pc' \in [Requests -> Steps] /\ pc'[t] = "answered"
      /\ status' \in [Requests -> Statuses] /\ status'[t] = code
      /\ \A u \in Requests \ {t} : pc'[u] = pc[u] /\ status'[u] = status[u]
  BY <1>1, AnswerKept
<1>3. TypeOK'
  BY <1>1, <1>2 DEF TypeOK, RowsOf
<1>4. /\ ~Past(t) /\ ~Past(t)' /\ ~Complete(t)'
      /\ ~Holding(t) /\ ~Holding(t)'
  BY <1>2 DEF Past, Holding, Complete
<1>5. PhaseInv(t)' /\ FoundInv(t)'
  BY <1>1, <1>2, SameRequest DEF PhaseInv, FoundInv, Local
<1>6. LockInv(t)'
  <2>1. \A i \in Items : ~Writing(t, i)
    BY <1>1, <1>4 DEF Local, LockInv
  <2> QED BY <1>1, <1>4, <2>1 DEF Local, LockInv, Writing
<1>7. todo[t] = {}
  BY <1>1 DEF Local, ReferenceInv
<1> QED BY <1>2, <1>3, <1>4, <1>5, <1>6, <1>7, Moved DEF OthersKept

\* The statement is done: it takes effect on the pool, and waits for its
\* commit in a transaction.
LEMMA SucceedStep ==
  ASSUME CatalogueInv, NEW t \in Requests, pc[t] \in {"references", "referrers"},
         Checked(t), Succeed(t)
  PROVE  CatalogueInv'
<1>1. TypeOK /\ Local(t)
  BY DEF CatalogueInv
<1>2. CASE OnPool(t)
  BY <1>2, Effected DEF Succeed
<1>3. CASE ~OnPool(t)
  <2>1. UNCHANGED <<db, written, lock, op, found, todo>> /\ Answer(t, "2xx")
    BY <1>3 DEF Succeed
  <2>2. /\ pc' \in [Requests -> Steps] /\ pc'[t] = "answered"
        /\ status' \in [Requests -> Statuses] /\ status'[t] = "2xx"
        /\ \A u \in Requests \ {t} : pc'[u] = pc[u] /\ status'[u] = status[u]
    BY <1>1, <2>1, AnswerKept DEF Statuses
  <2>3. TypeOK'
    BY <1>1, <2>1, <2>2 DEF TypeOK, RowsOf
  <2>4. Complete(t)' /\ Past(t)' /\ Past(t)
    BY <1>3, <2>1, <2>2, SameRequest DEF Past, Complete
  <2>5. Holding(t)' <=> Holding(t)
    BY <2>1, <2>4 DEF Holding
  <2>6. PhaseInv(t)' /\ FoundInv(t)'
    BY <1>1, <2>1, <2>2, SameRequest DEF PhaseInv, FoundInv, Local
  <2>7. LockInv(t)'
    BY <1>1, <2>1, <2>2, <2>4, <2>5, SameRequest DEF Local, LockInv, Writing, Live
  <2> QED BY <2>1, <2>2, <2>3, <2>4, <2>6, <2>7, Moved DEF Checked, OthersKept
<1> QED BY <1>2, <1>3

\* An UPDATE or a DELETE selects its rows, and has locked none of them.
LEMMA FindRowsStep ==
  ASSUME CatalogueInv, NEW t \in Requests, FindRows(t)
  PROVE  CatalogueInv'
<1> DEFINE rows == {i \in Reachable(t) : Live(db[i])}
<1>1. TypeOK /\ Local(t)
  BY DEF CatalogueInv
<1>2. /\ UNCHANGED <<db, written, lock, op, todo, status>> /\ pc[t] = "find"
      /\ found' = [found EXCEPT ![t] = rows] /\ Goto(t, "rows") /\ rows \subseteq Items
  BY DEF FindRows, Reachable
<1>3. /\ pc' \in [Requests -> Steps] /\ pc'[t] = "rows"
      /\ \A u \in Requests \ {t} : pc'[u] = pc[u]
  BY <1>1, <1>2, GotoKept DEF Steps
<1>4. /\ found' \in [Requests -> SUBSET Items] /\ found'[t] = rows
      /\ \A u \in Requests \ {t} : found'[u] = found[u]
  BY <1>1, <1>2 DEF TypeOK
<1>5. TypeOK'
  BY <1>1, <1>2, <1>3, <1>4 DEF TypeOK, RowsOf
<1>6. /\ ~Past(t) /\ ~Past(t)' /\ ~Complete(t)'
      /\ ~Holding(t) /\ ~Holding(t)'
  BY <1>2, <1>3 DEF Past, Holding, Complete
<1>7. PhaseInv(t)' /\ FoundInv(t)'
  BY <1>1, <1>2, <1>3, <1>4, SameRequest DEF PhaseInv, FoundInv, Local
<1>8. LockInv(t)'
  <2>1. \A i \in Items : ~Writing(t, i)
    BY <1>1, <1>2, <1>6 DEF Local, LockInv
  <2> QED BY <1>1, <1>2, <1>6, <2>1 DEF Local, LockInv, Writing
<1>9. todo[t] = {}
  BY <1>1, <1>2 DEF Local, ReferenceInv
<1> QED BY <1>2, <1>3, <1>4, <1>5, <1>6, <1>7, <1>8, <1>9, Moved DEF OthersKept

\* It locks them one after the other, against everybody else.
LEMMA LockTargetStep ==
  ASSUME CatalogueInv, NEW t \in Requests, LockTarget(t)
  PROVE  CatalogueInv'
<1>1. TypeOK /\ Local(t)
  BY DEF CatalogueInv
<1>2. PICK r \in Unlocked(t) :
        Blockers(t, r, LockMode(t)) = {} /\ lock' = [lock EXCEPT ![t][r] = LockMode(t)]
  BY DEF LockTarget
<1>3. UNCHANGED <<db, written, op, pc, found, todo, status>> /\ pc[t] = "rows"
  BY DEF LockTarget
<1>4. r \in found[t] /\ r \in Items /\ Live(db[r]) /\ lock[t][r] = "none"
  BY <1>1 DEF Unlocked, TypeOK
<1>5. LockMode(t) \in {"update", "key"}
  BY <1>1, PlaceFacts
<1>6. /\ lock' \in [Requests -> [Items -> Modes]]
      /\ lock'[t][r] = LockMode(t) /\ \A i \in Items \ {r} : lock'[t][i] = lock[t][i]
      /\ \A u \in Requests \ {t} : lock'[u] = lock[u]
  BY <1>1, <1>2, <1>4, <1>5 DEF TypeOK, Modes
<1>7. TypeOK'
  BY <1>1, <1>3, <1>6 DEF TypeOK, RowsOf
<1>8. /\ ~Past(t) /\ ~Past(t)' /\ ~Complete(t)'
      /\ ~Holding(t) /\ ~Holding(t)'
  BY <1>3 DEF Past, Holding, Complete
<1>9. Local(t)'
  <2>1. PhaseInv(t)' /\ FoundInv(t)' /\ WrittenInv(t)'
    BY <1>1, <1>3, <1>8, SameRequest DEF PhaseInv, FoundInv, WrittenInv, Local
  <2>2. LockInv(t)'
    <3>1. LockMode(t)' = LockMode(t)
      BY <1>3, SameRequest
    <3>2. ASSUME NEW i \in Items, Writing(t, i)'
          PROVE  i \in found[t] /\ Live(db[i]) /\ lock'[t][i] = LockMode(t)
      <4>1. CASE i = r
        BY <1>4, <1>6, <4>1
      <4>2. CASE i # r
        BY <1>1, <1>6, <1>8, <3>2, <4>2 DEF Local, LockInv, Writing
      <4> QED BY <4>1, <4>2
    <3>3. \A i \in Items : lock'[t][i] # "share"
      BY <1>1, <1>5, <1>6, <1>8 DEF Local, LockInv
    <3> QED BY <1>3, <1>8, <3>1, <3>2, <3>3 DEF LockInv, Live
  <2>3. ReferenceInv(t)' /\ ReferrerInv(t)'
    BY <1>1, <1>3, <1>8 DEF ReferenceInv, ReferrerInv, Local
  <2>4. FreshInv(t)'
    BY <1>1, <1>3 DEF FreshInv, Local, PhaseInv
  <2> QED BY <2>1, <2>2, <2>3, <2>4 DEF Local
<1>10. Exclusive'
  <2>1. ASSUME NEW u \in Requests \ {t}
        PROVE  /\ lock[u][r] \notin {"update", "key"}
               /\ LockMode(t) = "key" => lock[u][r] = "none"
    <3>1. ~Excludes(LockMode(t), lock[u][r])
      BY <1>2 DEF Blockers
    <3> QED BY <1>5, <3>1 DEF Excludes
  <2> QED BY <1>5, <1>6, <2>1 DEF CatalogueInv, Exclusive, Writing
<1> QED BY <1>3, <1>6, <1>7, <1>8, <1>9, <1>10, Quiet DEF OthersKept

\* Of the rows it has selected, it keeps those it has locked, which are the
\* ones still there; a DELETE marks them as gone.
LEMMA TargetsLockedStep ==
  ASSUME CatalogueInv, NEW t \in Requests, TargetsLocked(t)
  PROVE  CatalogueInv'
<1> DEFINE rows == {i \in found[t] : lock[t][i] # "none"}
           step == IF op[t].kind = "delete" THEN "referrers" ELSE "index"
<1>1. TypeOK /\ Local(t)
  BY DEF CatalogueInv
<1>2. /\ UNCHANGED <<db, lock, op, todo, status>> /\ pc[t] = "rows" /\ rows # {}
      /\ found' = [found EXCEPT ![t] = rows] /\ Goto(t, step) /\ step \in Steps
      /\ op[t].kind = "delete" =>
           written' = [written EXCEPT ![t] = [i \in Items |->
                         IF i \in rows THEN Absent ELSE written[t][i]]]
      /\ op[t].kind # "delete" => written' = written
  BY DEF TargetsLocked, Steps
<1>3. /\ pc' \in [Requests -> Steps] /\ pc'[t] = step
      /\ \A u \in Requests \ {t} : pc'[u] = pc[u]
  BY <1>1, <1>2, GotoKept
<1>4. op[t].kind \in {"update", "delete"}
  BY <1>1, <1>2, PlaceFacts, OpShape DEF Local, PhaseInv
<1>5. ~Past(t) /\ ~Holding(t)
  BY <1>2 DEF Past, Holding, Complete
<1>6. \A i \in Items : written[t][i] = Untouched
  BY <1>1, <1>5 DEF Local, WrittenInv
<1>7. /\ found' \in [Requests -> SUBSET Items] /\ found'[t] = rows
      /\ \A u \in Requests \ {t} : found'[u] = found[u]
  BY <1>1, <1>2 DEF TypeOK
<1>8. /\ written' \in [Requests -> [Items -> Row \union {Absent, Untouched}]]
      /\ \A i \in Items : written'[t][i] =
           IF op[t].kind = "delete" /\ i \in rows THEN Absent ELSE Untouched
      /\ \A u \in Requests \ {t} : written'[u] = written[u]
  <2>1. CASE op[t].kind = "delete"
    <3>1. [i \in Items |-> IF i \in rows THEN Absent ELSE written[t][i]]
            \in [Items -> Row \union {Absent, Untouched}]
      BY <1>6
    <3> QED BY <1>1, <1>2, <1>6, <2>1, <3>1 DEF TypeOK
  <2>2. CASE op[t].kind # "delete"
    BY <1>1, <1>2, <1>6, <2>2 DEF TypeOK
  <2> QED BY <2>1, <2>2
<1>9. TypeOK'
  <2>1. \A u \in Requests, i \in Items : written'[u][i] \in RowsOf(i) \union {Absent, Untouched}
    BY <1>1, <1>8 DEF TypeOK
  <2> QED BY <1>1, <1>2, <1>3, <1>7, <1>8, <2>1 DEF TypeOK, RowsOf
<1>10. /\ Place(t)' = Place(t) /\ Target(t)' = Target(t) /\ Removes(t)' = Removes(t)
       /\ LockMode(t)' = LockMode(t) /\ NewPlace(t)' = NewPlace(t)
       /\ Reachable(t)' = Reachable(t)
  BY <1>2, SameRequest
<1>11. /\ Past(t)' <=> op[t].kind = "delete"
       /\ Holding(t)' /\ ~Complete(t)'
  BY <1>2, <1>3, <1>4 DEF Past, Holding, Complete
<1>12. Local(t)'
  <2>1. PhaseInv(t)' /\ FoundInv(t)'
    BY <1>1, <1>2, <1>3, <1>4, <1>7, <1>10 DEF PhaseInv, FoundInv, Removes, Local
  <2>2. WrittenInv(t)'
    BY <1>2, <1>7, <1>8, <1>10, <1>11 DEF WrittenInv
  <2>3. LockInv(t)'
    <3>1. \A i \in Items : lock[t][i] # "share"
      BY <1>1, <1>5 DEF Local, LockInv
    <3>2. ASSUME NEW i \in Items, Writing(t, i)
          PROVE  i \in rows /\ Live(db[i]) /\ lock[t][i] = LockMode(t)
      BY <1>1, <1>5, <3>2 DEF Local, LockInv, Writing
    <3>3. ASSUME NEW i \in rows PROVE Writing(t, i)
      BY <1>1, <3>1 DEF TypeOK, Modes, Writing
    <3>4. op[t].kind = "delete" => ~NewPlace(t)
      BY <1>1, PlaceFacts DEF NewPlace
    <3> HIDE DEF rows
    <3> QED BY <1>2, <1>7, <1>10, <1>11, <3>1, <3>2, <3>3, <3>4 DEF LockInv, Writing, Live
  <2>4. ReferenceInv(t)'
    BY <1>1, <1>2, <1>11 DEF Local, ReferenceInv
  <2>5. ReferrerInv(t)'
    BY <1>11 DEF ReferrerInv
  <2>6. FreshInv(t)'
    BY <1>2, <1>4 DEF FreshInv
  <2> QED BY <2>1, <2>2, <2>3, <2>4, <2>5, <2>6 DEF Local
<1>13. Exclusive'
  BY <1>2 DEF CatalogueInv, Exclusive, Writing
<1>14. \A i \in Items : written'[t][i] = written[t][i] \/ written'[t][i] = Absent
  BY <1>6, <1>8
<1> HIDE DEF rows, step
<1> QED BY <1>2, <1>3, <1>7, <1>8, <1>9, <1>11, <1>12, <1>13, <1>14, Quiet DEF OthersKept

\* When the index check passes, no committed and no written row has the key.
LEMMA IndexPassed ==
  ASSUME CatalogueInv, NEW t \in Requests, Writers(t) = {}, ~Duplicate(t), NEW j \in Items
  PROVE  /\ ~Clash(t, j, db[j])
         /\ \A u \in Requests \ {t} : ~Clash(t, j, written[u][j])
<1> USE DEF CatalogueInv, Local
<1>1. ASSUME Clash(t, j, db[j]) PROVE FALSE
  <2>1. PICK u \in Requests \ {t} : Writing(u, j)
    BY <1>1 DEF Duplicate
  <2> QED BY <1>1, <2>1 DEF Writers
<1>2. ASSUME NEW u \in Requests \ {t}, Clash(t, j, written[u][j]) PROVE FALSE
  <2>1. Wrote(u, j)
    BY <1>2 DEF Clash, Live, Wrote
  <2>2. Writing(u, j)
    BY <2>1, WroteLocked
  <2> QED BY <1>2, <2>2 DEF Writers
<1> QED BY <1>1, <1>2

\* Then nobody else has to do with the place of a new row.
LEMMA PlaceFree ==
  ASSUME CatalogueInv, NEW t \in Requests, pc[t] = "index", Writers(t) = {}, ~Duplicate(t),
         NewPlace(t), NewRow(t) \in RowsOf(Place(t)), NEW u \in Requests \ {t}
  PROVE  lock[u][Place(t)] = "none"
<1> USE DEF CatalogueInv, Local
<1> DEFINE p == Place(t)
<1>1. p \in Items /\ Target(t) \in Items
  BY PlaceFacts
<1>2. ASSUME NEW row \in RowsOf(p), p \in Types, row = db[p] \/ row = written[u][p]
      PROVE  FALSE
  <2>1. row.name = p /\ NewRow(t).name = p
    BY <1>1, <1>2, RowShape
  <2>2. row.parent = None /\ NewRow(t).parent = None
    BY <1>1, <1>2, RowShape, KeysAssumption
  <2>3. Live(row)
    BY <1>1, <1>2, RowShape DEF Live
  <2>4. op[t].kind = "create" \/ p # Target(t)
    BY DEF NewPlace
  <2>5. SameIndex(p, p)
    BY <1>2 DEF SameIndex
  <2>6. Clash(t, p, row)
    BY <2>1, <2>2, <2>3, <2>4, <2>5 DEF Clash
  <2> QED BY <1>1, <1>2, <2>6, IndexPassed
<1>3. p \notin Types => op[t].kind = "create" /\ Target(t) = p /\ Target(t) \notin Types
  BY PlaceFacts DEF NewPlace
<1>4. ~Live(db[p])
  <2>1. CASE p \in Types
    BY <1>1, <1>2, <2>1 DEF TypeOK, Live
  <2>2. CASE p \notin Types
    BY <1>3, <2>2 DEF FreshInv
  <2> QED BY <2>1, <2>2
<1>5. ~Writing(u, p)
  <2>1. SUFFICES ASSUME Writing(u, p) PROVE FALSE
    OBVIOUS
  <2>2. Past(u) /\ op[u].kind # "delete" /\ p = Place(u) /\ NewPlace(u)
    BY <1>1, <1>4, <2>1 DEF LockInv
  <2>3. CASE p \in Types
    <3>1. op[u].kind = "update" => Live(db[Target(u)]) /\ Owner[Target(u)] = op[u].user
      BY <2>2, FoundFacts DEF Holding
    <3>2. NewRow(u) \in RowsOf(p)
      BY <2>2, <3>1, NewRowFacts
    <3>3. written[u][p] = NewRow(u)
      BY <1>1, <2>2 DEF WrittenInv
    <3> QED BY <1>2, <2>3, <3>2, <3>3
  <2>4. CASE p \notin Types
    <3>1. op[u].kind = "create" /\ Target(u) = p
      BY <2>2, <2>4, PlaceFacts DEF NewPlace
    <3> QED BY <1>3, <2>4, <3>1 DEF FreshInv
  <2> QED BY <2>3, <2>4
<1>6. lock[u][p] # "share"
  BY <1>1, <1>4 DEF LockInv
<1> QED BY <1>1, <1>5, <1>6 DEF TypeOK, Modes, Writing

\* An INSERT or an UPDATE writes its row.
LEMMA WriteRowStep ==
  ASSUME CatalogueInv, NEW t \in Requests, WriteRow(t)
  PROVE  CatalogueInv'
<1> USE DEF CatalogueInv
<1> DEFINE x == Target(t)
           p == Place(t)
           step == IF Removes(t) THEN "referrers" ELSE "references"
<1>1. TypeOK /\ Local(t) /\ x \in Items /\ p \in Items
  BY PlaceFacts
<1>2. /\ UNCHANGED <<db, op, found, status>>
      /\ pc[t] = "index" /\ Writers(t) = {} /\ ~Duplicate(t)
      /\ written' = [written EXCEPT ![t] = [i \in Items |->
           IF i = p THEN NewRow(t) ELSE IF i = x THEN Absent ELSE written[t][i]]]
      /\ lock' = [lock EXCEPT ![t][p] = IF lock[t][p] = "none" THEN "key" ELSE lock[t][p]]
      /\ todo' = [todo EXCEPT ![t] = RefsToCheck(t)]
      /\ Goto(t, step) /\ step \in Steps
  BY DEF WriteRow, Steps
<1>3. /\ pc' \in [Requests -> Steps] /\ pc'[t] = step
      /\ \A u \in Requests \ {t} : pc'[u] = pc[u]
  BY <1>1, <1>2, GotoKept
<1>4. /\ op[t].kind \in {"create", "update"}
      /\ LockMode(t) \in {"update", "key"}
  BY <1>2, PlaceFacts, OpShape DEF Local, PhaseInv
<1>5. /\ ~Past(t) /\ (Holding(t) <=> op[t].kind = "update")
      /\ Past(t)' /\ (Holding(t)' <=> op[t].kind = "update") /\ ~Complete(t)'
  BY <1>2, <1>3, <1>4 DEF Past, Holding, Complete
<1>6. /\ \A i \in Items : written[t][i] = Untouched
      /\ Holding(t) => /\ found[t] = {x} /\ Live(db[x]) /\ lock[t][x] = LockMode(t)
                       /\ Owner[x] = op[t].user
      /\ \A i \in Items : lock[t][i] # "none" => Holding(t) /\ i = x
  <2>1. \A i \in Items : written[t][i] = Untouched
    BY <1>1, <1>5 DEF Local, WrittenInv
  <2>2. Holding(t) => /\ found[t] = {x} /\ Live(db[x]) /\ lock[t][x] = LockMode(t)
                      /\ Owner[x] = op[t].user
    BY <1>1, <1>5, FoundFacts DEF Local
  <2>3. ASSUME NEW i \in Items, lock[t][i] # "none" PROVE Holding(t) /\ i = x
    <3>1. Writing(t, i)
      BY <1>1, <1>5, <2>3 DEF Local, LockInv, Writing, TypeOK, Modes
    <3>2. i \in found[t] /\ Holding(t)
      BY <1>1, <1>2, <1>5, <3>1 DEF Local, LockInv
    <3> QED BY <2>2, <3>2
  <2> QED BY <2>1, <2>2, <2>3
<1>7. NewRow(t) \in RowsOf(p)
  BY <1>1, <1>4, <1>5, <1>6, NewRowFacts
<1>8. /\ \A v : Target(v)' = Target(v)
      /\ \A u \in Requests :
           /\ Place(u)' = Place(u) /\ Removes(u)' = Removes(u) /\ Reachable(u)' = Reachable(u)
           /\ LockMode(u)' = LockMode(u) /\ NewPlace(u)' = NewPlace(u)
           /\ NewRow(u)' = NewRow(u) /\ RefsToCheck(u)' = RefsToCheck(u)
  BY <1>2, SameRequest, SameNewRow
<1>9. /\ \A i \in Items : written'[t][i] =
           IF i = p THEN NewRow(t) ELSE IF i = x THEN Absent ELSE Untouched
      /\ \A u \in Requests \ {t} : written'[u] = written[u]
      /\ written' \in [Requests -> [Items -> Row \union {Absent, Untouched}]]
  <2>1. NewRow(t) \in Row
    BY <1>1, <1>7, RowShape
  <2>2. /\ \A i \in Items : written'[t][i] =
             IF i = p THEN NewRow(t) ELSE IF i = x THEN Absent ELSE Untouched
        /\ \A u \in Requests \ {t} : written'[u] = written[u]
    BY <1>2, <1>6 DEF TypeOK
  <2>3. [i \in Items |-> IF i = p THEN NewRow(t) ELSE IF i = x THEN Absent ELSE written[t][i]]
          \in [Items -> Row \union {Absent, Untouched}]
    BY <1>6, <2>1
  <2> QED BY <1>2, <2>2, <2>3 DEF TypeOK
<1>10. /\ lock' \in [Requests -> [Items -> Modes]]
       /\ lock'[t][p] = IF NewPlace(t) THEN "key" ELSE LockMode(t)
       /\ \A i \in Items \ {p} : lock'[t][i] = lock[t][i]
       /\ \A u \in Requests \ {t} : lock'[u] = lock[u]
  <2>1. lock[t][p] = IF NewPlace(t) THEN "none" ELSE LockMode(t)
    BY <1>1, <1>4, <1>5, <1>6 DEF NewPlace
  <2> QED BY <1>1, <1>2, <1>4, <2>1 DEF TypeOK, Modes
<1>11. RefsToCheck(t) \subseteq Items /\ (Removes(t) => RefsToCheck(t) = {})
  <2>1. RefsToCheck(t) \subseteq Refs(NewRow(t))
    BY DEF RefsToCheck
  <2>2. Removes(t) => p \in Types
    BY <1>4, PlaceFacts DEF Removes
  <2> QED BY <1>1, <1>7, <2>1, <2>2, RowShape
<1>12. /\ todo'[t] = RefsToCheck(t) /\ todo' \in [Requests -> SUBSET Items]
       /\ \A u \in Requests \ {t} : todo'[u] = todo[u]
  BY <1>2, <1>11 DEF TypeOK
<1>13. TypeOK'
  <2>1. \A u \in Requests, i \in Items : written'[u][i] \in RowsOf(i) \union {Absent, Untouched}
    BY <1>7, <1>9 DEF TypeOK
  <2> QED BY <1>2, <1>3, <1>9, <1>10, <1>12, <2>1 DEF TypeOK, RowsOf
<1>14. ASSUME NEW u \in Requests \ {t} PROVE Local(u)' /\ (Past(u)' <=> Past(u))
  BY <1>2, <1>3, <1>9, <1>10, <1>12, LocalKept, SamePhase
<1>15. Local(t)'
  <2>1. PhaseInv(t)' /\ FoundInv(t)'
    BY <1>1, <1>2, <1>3, <1>8 DEF PhaseInv, FoundInv, Local
  <2>2. WrittenInv(t)'
    <3>1. /\ Past(t)' /\ op'[t].kind # "delete" /\ found'[t] = found[t]
          /\ Place(t)' = p /\ Target(t)' = x /\ NewRow(t)' = NewRow(t)
      BY <1>2, <1>4, <1>5, <1>8
    <3>2. \A i \in Items \ {p} : i = x <=> i \in found[t]
      <4>1. CASE op[t].kind = "create"
        BY <1>1, <4>1, PlaceFacts DEF Local, FoundInv
      <4>2. CASE op[t].kind = "update"
        BY <1>5, <1>6, <4>2
      <4> QED BY <1>4, <4>1, <4>2
    <3> QED BY <1>9, <3>1, <3>2 DEF WrittenInv
  <2>3. LockInv(t)'
    <3>1. Holding(t) => lock'[t][x] = LockMode(t)
      BY <1>1, <1>5, <1>6, <1>10 DEF NewPlace
    <3>2. Holding(t)' => found[t] # {} /\ \A i \in found[t] : Writing(t, i)'
      BY <1>4, <1>5, <1>6, <3>1 DEF Writing
    <3>3. ASSUME NEW i \in Items, Writing(t, i)'
          PROVE  \/ i \in found[t] /\ Live(db[i]) /\ lock'[t][i] = LockMode(t) /\ Holding(t)
                 \/ i = p /\ NewPlace(t)
      <4>1. CASE i = p /\ NewPlace(t)
        BY <4>1
      <4>2. CASE i # p
        BY <1>6, <1>10, <3>3, <4>2 DEF Writing
      <4>3. CASE i = p /\ ~NewPlace(t)
        BY <1>4, <1>5, <1>6, <1>10, <4>3 DEF NewPlace
      <4> QED BY <4>1, <4>2, <4>3
    <3>4. \A i \in Items : lock'[t][i] # "share"
      BY <1>4, <1>6, <1>10
    <3>5. NewPlace(t) => lock'[t][p] = "key"
      BY <1>10
    <3> QED BY <1>2, <1>4, <1>5, <1>8, <3>2, <3>3, <3>4, <3>5 DEF LockInv, Live
  <2>4. ReferenceInv(t)'
    BY <1>3, <1>8, <1>11, <1>12 DEF ReferenceInv
  <2>5. ReferrerInv(t)'
    BY <1>5 DEF ReferrerInv
  <2>6. FreshInv(t)'
    BY <1>1, <1>2, <1>8 DEF FreshInv, Live, Local
  <2> QED BY <2>1, <2>2, <2>3, <2>4, <2>5, <2>6 DEF Local
<1>16. Exclusive'
  <2>1. NewPlace(t) => \A u \in Requests \ {t} : lock[u][p] = "none"
    BY <1>2, <1>7, PlaceFree
  <2>2. ~NewPlace(t) => \A i \in Items : lock'[t][i] = lock[t][i]
    BY <1>1, <1>4, <1>5, <1>6, <1>10 DEF NewPlace
  <2> QED BY <1>10, <2>1, <2>2 DEF Exclusive, Writing
<1>17. ASSUME NEW u \in Requests \ {t}, Past(u), op[u].kind # "delete", Clash(u, p, NewRow(t))
       PROVE  FALSE
  <2> DEFINE q == Place(u)
  <2>1. q \in Items /\ TypeOK /\ FoundInv(u) /\ WrittenInv(u) /\ LockInv(u)
    BY PlaceFacts DEF Local
  <2>2. written[u][q] = NewRow(u)
    BY <1>17, <2>1 DEF WrittenInv
  <2>3. NewRow(u) \in RowsOf(q)
    BY <1>17, <2>1, NewRowFacts, FoundFacts DEF Holding
  <2>4. Live(NewRow(u)) /\ Wrote(u, q)
    BY <2>1, <2>2, <2>3, RowShape DEF Live, Wrote
  <2>5. Writing(u, q)
    BY <2>1, <2>4, WroteLocked
  <2>6. op[t].kind = "create" \/ q # x
    BY <1>1, <1>4, <1>5, <1>6, <2>5 DEF Exclusive, Writing
  <2>7. Clash(t, q, written[u][q])
    BY <1>17, <2>2, <2>4, <2>6 DEF Clash, SameIndex
  <2> QED BY <1>2, <2>1, <2>7, IndexPassed
<1>18. NoClash'
  <2> SUFFICES ASSUME NEW u \in Requests, Past(u)', op[u].kind # "delete", NEW j \in Items
               PROVE  /\ ~Clash(u, j, db[j])'
                      /\ \A v \in Requests \ {u} : ~Clash(u, j, written[v][j])'
    BY <1>2 DEF NoClash
  <2>1. /\ ~Clash(u, j, db[j])
        /\ \A v \in Requests \ {u} : ~Clash(u, j, written[v][j])
    <3>1. CASE u = t
      BY <1>2, <3>1, IndexPassed
    <3>2. CASE u # t
      BY <1>14, <3>2 DEF NoClash
    <3> QED BY <3>1, <3>2
  <2>2. ~Clash(u, j, db[j])'
    BY <1>2, <1>8, <2>1 DEF Clash, SameIndex, Live
  <2>3. ASSUME NEW v \in Requests \ {u} PROVE ~Clash(u, j, written[v][j])'
    <3>1. CASE v # t
      BY <1>2, <1>8, <1>9, <2>1, <3>1 DEF Clash, SameIndex, Live
    <3>2. CASE v = t /\ j # p
      BY <1>9, <3>2 DEF Clash, Live
    <3>3. CASE v = t /\ j = p
      <4>1. ~Clash(u, p, NewRow(t))
        BY <1>14, <1>17, <3>3
      <4> QED BY <1>2, <1>8, <1>9, <3>3, <4>1 DEF Clash, SameIndex, Live
    <3> QED BY <3>1, <3>2, <3>3
  <2> QED BY <2>2, <2>3
<1>19. UniqueKeys' /\ NoDanglingReference'
  BY <1>2 DEF UniqueKeys, NoDanglingReference, SameIndex, Live
<1> QED BY <1>13, <1>14, <1>15, <1>16, <1>18, <1>19

\* A row is locked against deletion for a reference to it.
LEMMA LockReferenceStep ==
  ASSUME CatalogueInv, NEW t \in Requests, LockReference(t)
  PROVE  CatalogueInv'
<1> USE DEF CatalogueInv
<1> DEFINE x == Target(t)
           p == Place(t)
<1>1. TypeOK /\ Local(t) /\ x \in Items /\ p \in Items
  BY PlaceFacts
<1>2. PICK r \in todo[t] :
        /\ Live(db[r]) /\ Blockers(t, r, "share") = {}
        /\ lock' = [lock EXCEPT ![t][r] = "share"]
        /\ todo' = [todo EXCEPT ![t] = todo[t] \ {r}]
  BY DEF LockReference
<1>3. UNCHANGED <<db, written, op, pc, found, status>> /\ pc[t] = "references"
  BY DEF LockReference
<1>4. /\ op[t].kind # "delete" /\ Past(t)
      /\ op[t].kind = "update" => Live(db[x]) /\ Owner[x] = op[t].user
  BY <1>1, <1>3, FoundFacts DEF Local, PhaseInv, Removes, Past, Holding
<1>5. r \in RefsToCheck(t) /\ r \in Refs(NewRow(t)) /\ NewRow(t) \in RowsOf(p)
  BY <1>1, <1>2, <1>4, NewRowFacts DEF Local, ReferenceInv, RefsToCheck
<1>6. r \in Items /\ r # p /\ r # x
  <2>1. r \in Items \ (Rooms \union Sessions) /\ p \in Rooms \union Sessions
    BY <1>1, <1>5, RowShape DEF Items
  <2>2. p = x
    BY <1>1, <2>1, PlaceFacts, KeysAssumption
  <2> QED BY <2>1, <2>2
<1>7. ~Writing(t, r)
  BY <1>1, <1>4, <1>6, FoundFacts DEF Local, LockInv
<1>8. /\ lock' \in [Requests -> [Items -> Modes]]
      /\ lock'[t][r] = "share" /\ \A i \in Items \ {r} : lock'[t][i] = lock[t][i]
      /\ \A u \in Requests \ {t} : lock'[u] = lock[u]
  BY <1>1, <1>2, <1>6 DEF TypeOK, Modes
<1>9. /\ todo' \in [Requests -> SUBSET Items] /\ todo'[t] = todo[t] \ {r}
      /\ \A u \in Requests \ {t} : todo'[u] = todo[u]
  BY <1>1, <1>2 DEF TypeOK
<1>10. TypeOK'
  BY <1>3, <1>8, <1>9 DEF TypeOK, RowsOf
<1>11. /\ Target(t)' = Target(t) /\ Place(t)' = Place(t) /\ Reachable(t)' = Reachable(t)
       /\ LockMode(t)' = LockMode(t) /\ NewPlace(t)' = NewPlace(t)
       /\ NewRow(t)' = NewRow(t) /\ RefsToCheck(t)' = RefsToCheck(t)
       /\ Past(t)' = Past(t) /\ Holding(t)' = Holding(t)
  BY <1>3, SameRequest, SameNewRow, SamePhase
<1>12. Local(t)'
  <2> USE DEF Local
  <2>1. PhaseInv(t)' /\ FoundInv(t)' /\ WrittenInv(t)'
    BY <1>1, <1>3, <1>4, <1>11, SameRequest DEF PhaseInv, FoundInv, WrittenInv
  <2>2. LockInv(t)'
    <3>1. \A i \in Items : Writing(t, i)' <=> Writing(t, i)
      BY <1>7, <1>8 DEF Writing
    <3>2. (Holding(t) => found[t] # {} /\ \A i \in found[t] : Writing(t, i))'
      BY <1>1, <1>3, <1>11, <3>1, FoundFacts DEF LockInv
    <3>3. (Past(t) /\ NewPlace(t) => lock[t][Place(t)] = "key")'
      BY <1>1, <1>6, <1>8, <1>11 DEF LockInv
    <3>4. ASSUME NEW i \in Items, Writing(t, i)
          PROVE  lock'[t][i] = lock[t][i]
      BY <1>7, <1>8, <3>4
    <3>5. ASSUME NEW i \in Items, lock'[t][i] = "share" PROVE Past(t) /\ Live(db[i])
      BY <1>1, <1>2, <1>4, <1>8, <3>5 DEF LockInv
    <3> QED BY <1>1, <1>3, <1>11, <3>1, <3>2, <3>3, <3>4, <3>5 DEF LockInv, Live
  <2>3. ReferenceInv(t)'
    <3>1. RefsToCheck(t) \subseteq Items
      BY <1>1, <1>5, RowShape DEF RefsToCheck
    <3> QED BY <1>1, <1>3, <1>8, <1>9, <1>11, <3>1 DEF ReferenceInv
  <2>4. ReferrerInv(t)'
    BY <1>3 DEF ReferrerInv, Complete
  <2>5. FreshInv(t)'
    <3>1. \A u : Target(u)' = Target(u)
      BY <1>3, SameRequest
    <3> QED BY <1>1, <1>3, <3>1 DEF FreshInv, Live
  <2> QED BY <2>1, <2>2, <2>3, <2>4, <2>5
<1>13. Exclusive'
  <2>1. \A u \in Requests \ {t} : lock[u][r] # "key"
    BY <1>2 DEF Blockers, Excludes
  <2> QED BY <1>7, <1>8, <2>1 DEF Exclusive, Writing
<1> QED BY <1>3, <1>8, <1>9, <1>10, <1>11, <1>12, <1>13, Quiet DEF OthersKept

-----------------------------------------------------------------------------
(***************************************************************************)
(* The theorems                                                            *)
(***************************************************************************)
\* Each of the operations starts its statement and does nothing else.
LEMMA OperationStep ==
  ASSUME NEW t,
         \/ CreateRoomType(t) \/ UpdateRoomType(t) \/ DeleteRoomType(t)
         \/ CreateBuilding(t) \/ UpdateBuilding(t) \/ DeleteBuilding(t)
         \/ CreateCourse(t) \/ UpdateCourse(t) \/ DeleteCourse(t)
         \/ CreateRoom(t) \/ UpdateRoom(t) \/ DeleteRoom(t)
         \/ CreateSession(t) \/ UpdateSession(t) \/ DeleteSession(t)
  PROVE  \E kind, table : Begin(t, kind, table)
BY DEF CreateRoomType, UpdateRoomType, DeleteRoomType, CreateBuilding, UpdateBuilding,
       DeleteBuilding, CreateCourse, UpdateCourse, DeleteCourse, CreateRoom, UpdateRoom,
       DeleteRoom, CreateSession, UpdateSession, DeleteSession

\* A statement that fails is one of these, and a request that waits is not
\* done.
LEMMA FailStep ==
  ASSUME CatalogueInv, NEW t \in Requests,
         \/ DuplicateKey(t) \/ ReferenceMissing(t) \/ StillReferenced(t) \/ DeadlockDetected(t)
  PROVE  Fail(t) /\ pc[t] # "done" /\ CatalogueInv'
<1>1. Fail(t)
  BY DEF DuplicateKey, ReferenceMissing, StillReferenced, DeadlockDetected
<1>2. pc[t] # "done"
  <2>1. CASE DeadlockDetected(t)
    <3>1. WaitsFor(t) # {}
      BY <2>1 DEF DeadlockDetected, WaitCycle
    <3> QED BY <3>1 DEF WaitsFor
  <2> QED BY <2>1 DEF DuplicateKey, ReferenceMissing, StillReferenced
<1> QED BY <1>1, <1>2, Dropped DEF Fail

\* A transaction whose only statement went to the pool commits nothing.
LEMMA CommitOnPool ==
  ASSUME CatalogueInv, NEW t \in Requests, pc[t] = "answered", OnPool(t),
         db' = [i \in Items |-> Seen(t, i)]
  PROVE  db' = db
<1>1. ~Past(t)
  BY DEF Past, Complete
<1>2. \A i \in Items : db'[i] = db[i]
  BY <1>1 DEF CatalogueInv, Local, WrittenInv, Seen, Wrote
<1> QED BY <1>2 DEF CatalogueInv, TypeOK

LEMMA NextCatalogue ==
  ASSUME CatalogueInv, [Next]_vars
  PROVE  CatalogueInv'
<1>1. ASSUME NEW t \in Requests, Handle(t) PROVE CatalogueInv'
  <2>1. CASE TargetMissing(t)
    <3>1. pc[t] = "rows" => \A i \in found[t] : ~Live(db[i])
      BY <2>1 DEF TargetMissing, Candidates
    <3> QED BY <1>1, <2>1, <3>1, RefusedStep DEF TargetMissing, Statuses
  <2>2. CASE FindRows(t) \/ LockTarget(t) \/ TargetsLocked(t)
    BY <1>1, <2>2, FindRowsStep, LockTargetStep, TargetsLockedStep
  <2>3. CASE WriteRow(t)
    BY <1>1, <2>3, WriteRowStep
  <2>4. CASE LockReference(t)
    BY <1>1, <2>4, LockReferenceStep
  <2>5. CASE ReferencesChecked(t)
    <3>1. Checked(t)
      BY <1>1, <2>5 DEF ReferencesChecked, Checked, Past, CatalogueInv, Local, PhaseInv
    <3> QED BY <1>1, <2>5, <3>1, SucceedStep DEF ReferencesChecked
  <2>6. CASE NotReferenced(t)
    <3>1. Checked(t)
      BY <1>1, <2>6 DEF NotReferenced, Checked, Past, CatalogueInv, Local, ReferenceInv
    <3> QED BY <1>1, <2>6, <3>1, SucceedStep DEF NotReferenced
  <2>7. CASE DuplicateKey(t) \/ ReferenceMissing(t) \/ StillReferenced(t) \/ DeadlockDetected(t)
    BY <1>1, <2>7, FailStep
  <2>8. CASE Commit(t)
    <3>1. Release(t) /\ Goto(t, "done") /\ status' = status
      BY <2>8 DEF Commit
    <3>2. db' = [i \in Items |-> Seen(t, i)] /\ pc[t] = "answered" /\ status[t] = "2xx"
      BY <2>8 DEF Commit
    <3>3. CASE OnPool(t)
      <4>1. db' = db
        BY <1>1, <3>2, <3>3, CommitOnPool
      <4> QED BY <1>1, <3>1, <3>2, <4>1, Dropped
    <3>4. CASE ~OnPool(t)
      <4>1. Checked(t)
        BY <1>1, <3>2, <3>4
           DEF Checked, Past, Complete, CatalogueInv, Local, ReferenceInv, ReferrerInv
      <4> QED BY <1>1, <3>1, <3>2, <4>1, Effected
    <3> QED BY <3>3, <3>4
  <2>9. CASE Rollback(t)
    BY <1>1, <2>9, Dropped DEF Rollback
  <2>10. CASE \E kind, table : Begin(t, kind, table)
    BY <1>1, <2>10, BeginStep
  <2> QED BY <1>1, <2>1, <2>2, <2>3, <2>4, <2>5, <2>6, <2>7, <2>8, <2>9, <2>10, OperationStep
          DEF Handle
<1>2. ASSUME NEW t \in Requests, Refuse(t) PROVE CatalogueInv'
  BY <1>2, RefusedStep DEF Refuse, Statuses
<1>3. ASSUME NEW t \in Requests, CommitLost(t) \/ Cancel(t) PROVE CatalogueInv'
  BY <1>3, Dropped DEF CommitLost, Cancel
<1>4. CASE UNCHANGED vars
  <2>1. /\ \A t : /\ Target(t)' = Target(t) /\ Place(t)' = Place(t) /\ Removes(t)' = Removes(t)
                  /\ NewRow(t)' = NewRow(t) /\ Past(t)' = Past(t)
    BY <1>4, SameRequest, SameNewRow, SamePhase DEF vars
  <2>2. TypeOK' /\ UniqueKeys' /\ NoDanglingReference' /\ Exclusive'
    BY <1>4 DEF vars, CatalogueInv, TypeOK, RowsOf, UniqueKeys, NoDanglingReference,
                SameIndex, Live, Exclusive, Writing
  <2>3. \A t \in Requests : Local(t)'
    BY <1>4, LocalKept DEF vars, CatalogueInv
  <2>4. NoClash'
    BY <1>4, <2>1 DEF vars, CatalogueInv, NoClash, Clash, SameIndex, Live
  <2> QED BY <2>2, <2>3, <2>4 DEF CatalogueInv
<1> QED BY <1>1, <1>2, <1>3, <1>4 DEF Next, AllDone

\* The invariant of the catalogue.
THEOREM CatalogueInvariant == Spec => []CatalogueInv
<1> QED BY InitCatalogue, NextCatalogue, PTL DEF Spec

\* Every table only ever holds rows of its own, and every request is where
\* its operation can take it.
THEOREM CatalogueTypeCorrect == Spec => []TypeOK
<1>1. CatalogueInv => TypeOK
  BY DEF CatalogueInv
<1> QED BY <1>1, CatalogueInvariant, PTL

\* No two rows of one user in a table have the same key, however the index
\* checks of overlapping requests interleave.
THEOREM UniqueKeysHolds == Spec => []UniqueKeys
<1>1. CatalogueInv => UniqueKeys
  BY DEF CatalogueInv
<1> QED BY <1>1, CatalogueInvariant, PTL

\* No row refers to one that is gone, whatever is deleted, renamed, created
\* and moved at the same time.
THEOREM NoDanglingReferenceHolds == Spec => []NoDanglingReference
<1>1. CatalogueInv => NoDanglingReference
  BY DEF CatalogueInv
<1> QED BY <1>1, CatalogueInvariant, PTL

-----------------------------------------------------------------------------
(***************************************************************************)
(* The abstract operations on the committed tables                         *)
(***************************************************************************)
\* A committed row is a row or absent, for both specifications.
LEMMA SameLive ==
  ASSUME TypeOK, NEW i \in Items
  PROVE  Live(db[i]) <=> Promise!Live(db[i])
<1>1. db[i] \in Row \union {Absent}
  BY DEF TypeOK
<1> QED BY <1>1, MarksAssumption DEF Live, Promise!Live

\* What a request asks for, in terms of its statement.
LEMMA SameAsked ==
  ASSUME NEW t, op[t].kind # "delete"
  PROVE  Promise!Asked(op[t], db[Target(t)]) = NewRow(t)
BY DEF Promise!Asked, NewRow, Target

LEMMA SameTerms ==
  ASSUME NEW t
  PROVE  /\ op[t].id = Target(t) /\ Promise!Place(op[t]) = Place(t)
         /\ Promise!Removes(op[t]) <=> Removes(t)
         /\ Promise!Items = Items
         /\ \A row : Promise!Refs(row) = Refs(row)
BY DEF Target, Place, Removes, Promise!Place, Promise!Removes, Promise!Items, Items,
       Promise!Refs, Refs

\* A clash of keys is one in the abstract tables.
LEMMA SameClash ==
  ASSUME TypeOK, NEW t, NEW j \in Items
  PROVE  Clash(t, j, db[j])
           <=> /\ Promise!Live(db[j]) /\ (op[t].kind = "create" \/ j # op[t].id)
               /\ Promise!SameKey(Promise!Place(op[t]), NewRow(t), j, db[j])
BY SameLive, SameTerms DEF Clash, SameIndex, Promise!SameKey, Promise!SameIndex

LEMMA SameReach ==
  ASSUME NEW t
  PROVE  Promise!Reachable(op[t]) = Reachable(t)
BY SameTerms DEF Reachable, OnPool, Target, Promise!Reachable, Promise!OnPool

\* A checked statement may take effect, on the tables as they are now: what
\* it has found out is still true, though it was found out earlier.
LEMMA CheckedIsPossible ==
  ASSUME CatalogueInv, NEW t \in Requests, Checked(t)
  PROVE  Promise!Possible(op[t], found[t])
<1> USE DEF CatalogueInv, Local
<1>1. Target(t) \in Items /\ Place(t) \in Items
  BY PlaceFacts
<1>2. op[t].kind = "update" => Live(db[Target(t)]) /\ Owner[Target(t)] = op[t].user
  BY FoundFacts DEF Holding, Checked
<1>3. /\ IF op[t].kind = "create" THEN found[t] = {}
         ELSE found[t] # {} /\ found[t] \subseteq Promise!Reachable(op[t])
      /\ \A i \in found[t] : Promise!Live(db[i])
  <2>1. op[t].kind # "create" => Holding(t)
    BY DEF Holding, Checked
  <2>2. found[t] # {} => op[t].kind # "create"
    BY DEF FoundInv
  <2>3. \A i \in found[t] : Live(db[i]) /\ i \in Items
    BY <2>1, <2>2, FoundFacts
  <2> QED BY <2>1, <2>3, SameLive, SameReach DEF FoundInv, LockInv
<1>4. ASSUME op[t].kind # "delete", NEW j \in Items, Promise!Live(db[j]),
             op[t].kind = "create" \/ j # op[t].id
      PROVE  ~Promise!SameKey(Promise!Place(op[t]), NewRow(t), j, db[j])
  <2>1. ~Clash(t, j, db[j])
    BY <1>4 DEF NoClash, Checked
  <2> QED BY <1>4, <2>1, SameClash
<1>5. ASSUME op[t].kind # "delete", NEW r \in Refs(NewRow(t))
      PROVE  Promise!Live(db[r])
  <2>1. r \in Items
    BY <1>1, <1>2, <1>5, NewRowFacts, RowShape
  <2>2. CASE r \in RefsToCheck(t)
    <3>1. lock[t][r] = "share"
      BY <1>5, <2>2 DEF ReferenceInv, Checked
    <3> QED BY <2>1, <3>1, SameLive DEF LockInv
  <2>3. CASE r \notin RefsToCheck(t)
    <3>1. op[t].kind # "create" /\ r \in Refs(db[Target(t)])
      BY <1>5, <2>3 DEF RefsToCheck
    <3>2. Live(db[r])
      BY <1>1, <1>2, <1>5, <3>1, PlaceFacts, OpShape DEF NoDanglingReference, Refs
    <3> QED BY <2>1, <3>2, SameLive
  <2> QED BY <2>2, <2>3
<1>6. ASSUME Removes(t), NEW j \in Items, Promise!Live(db[j])
      PROVE  Refs(db[j]) \cap found[t] = {}
  BY <1>6, SameLive DEF Checked, Referrers
<1> QED BY <1>3, <1>4, <1>5, <1>6, SameTerms, SameAsked DEF Promise!Possible

\* What it leaves is the abstract effect.
LEMMA CheckedEffect ==
  ASSUME CatalogueInv, NEW t \in Requests, Checked(t), db' = [i \in Items |-> Seen(t, i)]
  PROVE  db' = Promise!Effect(op[t], found[t])
<1> USE DEF CatalogueInv, Local
<1>1. \A i \in Items : Seen(t, i) =
        IF op[t].kind # "delete" /\ i = Place(t) THEN NewRow(t)
        ELSE IF i \in found[t] THEN Absent ELSE db[i]
  <2> SUFFICES ASSUME NEW i \in Items
               PROVE  Seen(t, i) = IF op[t].kind # "delete" /\ i = Place(t) THEN NewRow(t)
                                   ELSE IF i \in found[t] THEN Absent ELSE db[i]
    OBVIOUS
  <2>1. written[t][i] = IF op[t].kind # "delete" /\ i = Place(t) THEN NewRow(t)
                        ELSE IF i \in found[t] THEN Absent ELSE Untouched
    BY DEF WrittenInv, Checked
  <2>2. op[t].kind # "delete" => NewRow(t) # Untouched
    <3>1. op[t].kind = "update" => Live(db[Target(t)]) /\ Owner[Target(t)] = op[t].user
      BY FoundFacts DEF Holding, Checked
    <3> QED BY <3>1, PlaceFacts, NewRowFacts, RowShape
  <2> QED BY <2>1, <2>2, MarksAssumption DEF Seen, Wrote
<1> QED BY <1>1, SameTerms, SameAsked DEF Promise!Effect

-----------------------------------------------------------------------------
(***************************************************************************)
(* The step simulation                                                     *)
(***************************************************************************)
AbstractStep == [Promise!Next]_<<db, op, Ended>>

\* Whether t has ended is decided by its own step.
LEMMA EndedAfter ==
  ASSUME NEW t \in Requests, op' = op, \A u \in Requests \ {t} : pc'[u] = pc[u]
  PROVE  /\ pc'[t] = "done" \/ (OnPool(t) /\ pc'[t] = "answered")
              => Ended' = Ended \union {t}
         /\ ~(pc'[t] = "done" \/ (OnPool(t) /\ pc'[t] = "answered"))
              => Ended' = Ended \ {t}
<1>1. \A u : OnPool(u)' = OnPool(u)
  BY SameRequest
<1>2. \A u \in Requests : u \in Ended' <=> pc'[u] = "done" \/ (OnPool(u) /\ pc'[u] = "answered")
  BY <1>1 DEF Ended
<1>3. Ended \subseteq Requests /\ Ended' \subseteq Requests
  BY DEF Ended
<1> QED BY <1>2, <1>3 DEF Ended

\* A step without effect on the tables ends a request without effect, or
\* is not visible.
LEMMA QuietIsAbstract ==
  ASSUME NEW t \in Requests, op' = op, db' = db, \A u \in Requests \ {t} : pc'[u] = pc[u],
         t \in Ended => pc'[t] = "done" \/ (OnPool(t) /\ pc'[t] = "answered")
  PROVE  AbstractStep
<1>1. CASE pc'[t] = "done" \/ (OnPool(t) /\ pc'[t] = "answered")
  <2>1. Ended' = Ended \union {t}
    BY <1>1, EndedAfter
  <2>2. CASE t \in Ended
    BY <2>1, <2>2 DEF AbstractStep
  <2>3. CASE t \notin Ended
    BY <2>1, <2>3 DEF AbstractStep, Promise!Next, Promise!End, Promise!NoEffect
  <2> QED BY <2>2, <2>3
<1>2. CASE ~(pc'[t] = "done" \/ (OnPool(t) /\ pc'[t] = "answered"))
  BY <1>2, EndedAfter DEF AbstractStep
<1> QED BY <1>1, <1>2

\* A step that takes effect takes the abstract effect.
LEMMA EffectIsAbstract ==
  ASSUME CatalogueInv, NEW t \in Requests, Checked(t), op' = op,
         db' = [i \in Items |-> Seen(t, i)],
         \A u \in Requests \ {t} : pc'[u] = pc[u],
         pc'[t] = "done" \/ (OnPool(t) /\ pc'[t] = "answered")
  PROVE  AbstractStep
<1>1. Ended' = Ended \union {t}
  BY EndedAfter
<1>2. t \notin Ended
  BY DEF Ended, Checked, Past, Complete
<1>3. Promise!TakeEffect(t)
  <2>1. found[t] \in SUBSET Promise!Reachable(op[t])
    BY SameReach DEF CatalogueInv, Local, FoundInv
  <2>2. Promise!Possible(op[t], found[t]) /\ db' = Promise!Effect(op[t], found[t])
    BY CheckedIsPossible, CheckedEffect
  <2> QED BY <2>1, <2>2 DEF Promise!TakeEffect
<1> QED BY <1>1, <1>2, <1>3 DEF AbstractStep, Promise!Next, Promise!End

LEMMA SucceedIsAbstract ==
  ASSUME CatalogueInv, NEW t \in Requests, pc[t] \in {"references", "referrers"},
         Checked(t), Succeed(t)
  PROVE  AbstractStep
<1>1. TypeOK /\ Answer(t, "2xx")
  BY DEF CatalogueInv, Succeed
<1>2. pc'[t] = "answered" /\ \A u \in Requests \ {t} : pc'[u] = pc[u]
  BY <1>1, AnswerKept DEF Statuses
<1>3. CASE OnPool(t)
  <2>1. db' = [i \in Items |-> Seen(t, i)] /\ op' = op
    BY <1>3 DEF Succeed, Release
  <2> QED BY <1>2, <1>3, <2>1, EffectIsAbstract
<1>4. CASE ~OnPool(t)
  <2>1. db' = db /\ op' = op
    BY <1>4 DEF Succeed
  <2>2. t \notin Ended
    BY <1>4 DEF Ended
  <2> QED BY <1>2, <2>1, <2>2, QuietIsAbstract
<1> QED BY <1>3, <1>4

LEMMA StepIsAbstract ==
  ASSUME CatalogueInv, [Next]_vars
  PROVE  AbstractStep
<1>1. TypeOK
  BY DEF CatalogueInv
<1>2. ASSUME NEW t \in Requests, NEW step \in Steps \ {"answered", "done"},
             Goto(t, step), op' = op, db' = db, pc[t] \notin {"answered", "done"}
      PROVE  AbstractStep
  <2>1. t \notin Ended
    BY <1>2 DEF Ended
  <2> QED BY <1>1, <1>2, <2>1, GotoKept, QuietIsAbstract
<1>3. ASSUME NEW t \in Requests, NEW code \in Statuses, Answer(t, code), op' = op, db' = db,
             pc[t] # "done"
      PROVE  AbstractStep
  <2>1. t \in Ended => OnPool(t)
    BY <1>3 DEF Ended
  <2> QED BY <1>1, <1>3, <2>1, AnswerKept, QuietIsAbstract
<1>4. ASSUME NEW t \in Requests, Goto(t, "done"), op' = op, db' = db
      PROVE  AbstractStep
  BY <1>1, <1>4, GotoKept, QuietIsAbstract DEF Steps
<1>5. ASSUME NEW t \in Requests, Handle(t) PROVE AbstractStep
  <2>1. CASE TargetMissing(t)
    BY <1>3, <1>5, <2>1 DEF TargetMissing, Statuses
  <2>2. CASE FindRows(t) \/ TargetsLocked(t)
    BY <1>2, <1>5, <2>2 DEF FindRows, TargetsLocked, Steps
  <2>3. CASE WriteRow(t)
    BY <1>2, <1>5, <2>3 DEF WriteRow, Steps
  <2>4. CASE LockTarget(t) \/ LockReference(t)
    <3>1. t \notin Ended /\ pc' = pc /\ op' = op /\ db' = db
      BY <2>4 DEF LockTarget, LockReference, Ended
    <3> QED BY <1>5, <3>1, QuietIsAbstract
  <2>5. CASE ReferencesChecked(t)
    <3>1. Checked(t)
      BY <1>5, <2>5 DEF ReferencesChecked, Checked, Past, CatalogueInv, Local, PhaseInv
    <3> QED BY <1>5, <2>5, <3>1, SucceedIsAbstract DEF ReferencesChecked
  <2>6. CASE NotReferenced(t)
    <3>1. Checked(t)
      BY <1>5, <2>6 DEF NotReferenced, Checked, Past, CatalogueInv, Local, ReferenceInv
    <3> QED BY <1>5, <2>6, <3>1, SucceedIsAbstract DEF NotReferenced
  <2>7. CASE DuplicateKey(t) \/ ReferenceMissing(t) \/ StillReferenced(t) \/ DeadlockDetected(t)
    <3>1. Fail(t) /\ pc[t] # "done"
      BY <1>5, <2>7, FailStep
    <3> QED BY <1>3, <1>5, <3>1 DEF Fail, Release, Statuses
  <2>8. CASE Commit(t)
    <3>1. /\ Release(t) /\ Goto(t, "done") /\ db' = [i \in Items |-> Seen(t, i)]
          /\ pc[t] = "answered" /\ status[t] = "2xx" /\ op' = op
      BY <2>8 DEF Commit, Release
    <3>2. pc'[t] = "done" /\ \A u \in Requests \ {t} : pc'[u] = pc[u]
      BY <1>1, <1>5, <3>1, GotoKept DEF Steps
    <3>3. CASE OnPool(t)
      <4>1. db' = db
        BY <1>5, <3>1, <3>3, CommitOnPool
      <4> QED BY <1>4, <1>5, <3>1, <4>1
    <3>4. CASE ~OnPool(t)
      <4>1. Checked(t)
        BY <1>5, <3>1, <3>4
           DEF Checked, Past, Complete, CatalogueInv, Local, ReferenceInv, ReferrerInv
      <4> QED BY <1>5, <3>1, <3>2, <4>1, EffectIsAbstract
    <3> QED BY <3>3, <3>4
  <2>9. CASE Rollback(t)
    BY <1>4, <1>5, <2>9 DEF Rollback, Release
  <2>10. CASE \E kind, table : Begin(t, kind, table)
    BY <1>2, <1>5, <2>10 DEF Begin, Steps
  <2> QED BY <1>5, <2>1, <2>2, <2>3, <2>4, <2>5, <2>6, <2>7, <2>8, <2>9, <2>10, OperationStep
          DEF Handle
<1>6. ASSUME NEW t \in Requests, Refuse(t) PROVE AbstractStep
  BY <1>3, <1>6 DEF Refuse, Statuses
<1>7. ASSUME NEW t \in Requests, CommitLost(t) \/ Cancel(t) PROVE AbstractStep
  BY <1>4, <1>7 DEF CommitLost, Cancel, Release
<1>8. CASE UNCHANGED vars
  <2>1. op' = op /\ db' = db /\ pc' = pc
    BY <1>8 DEF vars
  <2>2. Ended' = Ended
    BY <2>1, SameRequest DEF Ended
  <2> QED BY <2>1, <2>2 DEF AbstractStep
<1> QED BY <1>5, <1>6, <1>7, <1>8 DEF Next, AllDone

LEMMA InitIsAbstract == Init => Promise!Init
<1> SUFFICES ASSUME Init PROVE Promise!Init
  OBVIOUS
<1>1. db \in [Promise!Items -> Promise!Row \union {Absent}]
  BY TablesAssumption DEF Init, Promise!Items, Items, Promise!Row, Row
<1>2. Ended = {}
  BY DEF Init, Ended
<1> QED BY <1>1, <1>2 DEF Promise!Init

\* Requests that overlap do what they would do one at a time: each takes its
\* whole effect at one instant, in a state that permits it, or none.  Only a
\* deletion on the pool reaches a row of another user, and only the row it
\* names or, of room types, those of the name.
THEOREM CatalogueImplements == Spec => ImplementsTables
<1>1. CatalogueInv /\ [Next]_vars => [Promise!Next]_<<db, op, Ended>>
  BY StepIsAbstract DEF AbstractStep
<1> QED BY <1>1, InitIsAbstract, CatalogueInvariant, PTL
        DEF Spec, ImplementsTables, Promise!Spec

-----------------------------------------------------------------------------
(***************************************************************************)
(* Refusals                                                                *)
(***************************************************************************)
LEMMA MissingIsRight ==
  ASSUME CatalogueInv, NEW t \in Requests, TargetMissing(t), NEW rows \in SUBSET Candidates(t)
  PROVE  ~Promise!Possible(op[t], rows)
<1>1. op[t].kind # "create" /\ \A i \in rows : ~Live(db[i])
  BY DEF TargetMissing, CatalogueInv, Local, PhaseInv
<1>2. \A i \in rows : i \in Items
  BY DEF CatalogueInv, TypeOK, Candidates, Reachable
<1> QED BY <1>1, <1>2, SameLive DEF CatalogueInv, Promise!Possible

LEMMA RefusalIsRight ==
  ASSUME CatalogueInv, NEW t \in Requests,
         DuplicateKey(t) \/ ReferenceMissing(t) \/ StillReferenced(t)
  PROVE  ~Promise!Possible(op[t], found[t])
<1> USE DEF CatalogueInv, Local
<1>1. SUFFICES ASSUME Promise!Possible(op[t], found[t]) PROVE FALSE
  OBVIOUS
<1>2. CASE DuplicateKey(t)
  <2>1. op[t].kind # "delete"
    BY <1>2 DEF DuplicateKey, PhaseInv
  <2>2. PICK j \in Items : Clash(t, j, db[j])
    BY <1>2 DEF DuplicateKey, Duplicate
  <2> QED BY <1>1, <2>1, <2>2, SameClash, SameAsked, SameTerms DEF Promise!Possible
<1>3. CASE ReferenceMissing(t)
  <2>1. op[t].kind # "delete" /\ pc[t] = "references"
    BY <1>3 DEF ReferenceMissing, PhaseInv, Removes
  <2>2. PICK r \in todo[t] : ~Live(db[r])
    BY <1>3 DEF ReferenceMissing
  <2>3. r \in Refs(NewRow(t)) /\ r \in Items
    BY <2>2 DEF ReferenceInv, RefsToCheck, TypeOK
  <2> QED BY <1>1, <2>1, <2>2, <2>3, SameLive, SameAsked, SameTerms DEF Promise!Possible
<1>4. CASE StillReferenced(t)
  <2>1. Removes(t)
    BY <1>4 DEF StillReferenced, PhaseInv
  <2>2. PICK j \in Items : Live(db[j]) /\ Refs(db[j]) \cap found[t] # {}
    BY <1>4 DEF StillReferenced, Referrers
  <2> QED BY <1>1, <2>1, <2>2, SameLive, SameTerms DEF Promise!Possible
<1> QED BY <1>2, <1>3, <1>4

\* A missing row, a key in use or a violated reference is never answered for
\* what another request has not committed; a row of another user is a reason
\* only if it refers to a row the request has found.
THEOREM RefusedRightlyHolds == Spec => RefusedRightly
<1>1. CatalogueInv /\ [Next]_vars =>
        [\A t \in Requests :
           /\ TargetMissing(t) =>
                \A rows \in SUBSET Candidates(t) : ~Promise!Possible(op[t], rows)
           /\ DuplicateKey(t) \/ ReferenceMissing(t) \/ StillReferenced(t) =>
                ~Promise!Possible(op[t], found[t])]_vars
  BY MissingIsRight, RefusalIsRight
<1> QED BY <1>1, CatalogueInvariant, PTL DEF Spec, RefusedRightly
=============================================================================
