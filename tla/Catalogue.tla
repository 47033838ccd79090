------------------------------- MODULE Catalogue -------------------------------
(***************************************************************************)
(* The catalogue: the room types, buildings, courses, rooms and course     *)
(* sessions of all users, with the foreign keys and the unique indexes of  *)
(* migrations 2, 4, 5, 6 and 9, and the statements of their repositories.  *)
(* Every request sends one statement, in a transaction of its own that the *)
(* middleware ends; a deletion of anything but a building is sent to the   *)
(* pool instead and is a transaction by itself.                            *)
(*                                                                         *)
(* A statement selects its rows and locks them one by one, writes them     *)
(* with their entries in the unique index, and has its references checked: *)
(* a row it refers to is locked against deletion to the end of the         *)
(* transaction, and a row that takes its key away must not be referred to  *)
(* any more.  In a transaction a statement finds the rows of its user      *)
(* only; on the pool, and in the checks of indexes and foreign keys, there *)
(* is no user.  A room type deleted and created again by the same user     *)
(* while a statement waits for it is the same row.  Capacities, durations  *)
(* and counts are left out.                                                *)
(***************************************************************************)
EXTENDS FiniteSets

CONSTANTS
  Users,
  Types,      \* keys of room types: the name with the user
  Buildings, Courses, Rooms, Sessions,   \* ids
  Names,      \* names of buildings, courses and rooms, and types of sessions
  Owner,      \* item -> user whose row it is
  TypeName,   \* room type -> its name; two users may have types of one name
  Requests,   \* requests, each in a goroutine of its own
  Ops,        \* what a request may ask for
  Tables,     \* what the tables may hold when the requests arrive
  Absent,     \* the row of a key that is not in its table
  Untouched,  \* a row the transaction has not written
  None,       \* the reference of a row that has none
  Kept        \* a column the statement does not set

Items == Types \union Buildings \union Courses \union Rooms \union Sessions

\* A room belongs to a building and a session to a course, its parent; both
\* name a room type.  The name of a session is its type.
Row == [name : Names \union Types, parent : Buildings \union Courses \union {None},
        type : Types \union {None}]

OwnTypes(u) == {y \in Types : Owner[y] = u}

\* the rows each table takes; the key of a type is its name and its user, and
\* a reference to a type has the user of the row that refers
RowsOf(i) ==
  IF i \in Types THEN [name : {i}, parent : {None}, type : {None}]
  ELSE IF i \in Rooms THEN [name : Names, parent : Buildings, type : OwnTypes(Owner[i])]
  ELSE IF i \in Sessions THEN [name : Names, parent : Courses, type : OwnTypes(Owner[i])]
  ELSE [name : Names, parent : {None}, type : {None}]

Nothing == [name |-> Kept, parent |-> Kept, type |-> Kept]

\* a trigger makes the user of the request the owner of a new row
Creation(ids) ==
  UNION {[user : {Owner[i]}, kind : {"create"}, id : {i}, set : RowsOf(i)] : i \in ids}

Deletion(ids) == [user : Users, kind : {"delete"}, id : ids, set : {Nothing}]

\* What the handlers pass on: the fields of each model and of its update.  A
\* room or session update that sets none of these sets numbers only.
Update(u, ids, names, parents, types) ==
  [user : {u}, kind : {"update"}, id : ids, set : [name : names, parent : parents, type : types]]

RoomTypeOps ==
  Creation(Types) \union Deletion(Types)
  \union UNION {Update(u, OwnTypes(u), OwnTypes(u), {Kept}, {Kept}) : u \in Users}

BuildingOps ==
  Creation(Buildings) \union Deletion(Buildings)
  \union UNION {Update(u, Buildings, Names, {Kept}, {Kept}) : u \in Users}

CourseOps ==
  Creation(Courses) \union Deletion(Courses)
  \union UNION {Update(u, Courses, Names, {Kept}, {Kept}) : u \in Users}

RoomOps ==
  Creation(Rooms) \union Deletion(Rooms)
  \union UNION {Update(u, Rooms, Names \union {Kept}, Buildings \union {Kept},
                       OwnTypes(u) \union {Kept}) : u \in Users}

SessionOps ==
  Creation(Sessions) \union Deletion(Sessions)
  \union UNION {Update(u, Sessions, Names \union {Kept}, {Kept},
                       OwnTypes(u) \union {Kept}) : u \in Users}

ASSUME OpsAssumption ==
  Ops \subseteq RoomTypeOps \union BuildingOps \union CourseOps \union RoomOps \union SessionOps

ASSUME OwnersAssumption == Owner \in [Items -> Users]

ASSUME TablesAssumption ==
  \A table \in Tables :
    /\ table \in [Items -> Row \union {Absent}]
    /\ \A i \in Items : table[i] \in RowsOf(i) \union {Absent}

ASSUME KeysAssumption ==
  /\ Types \cap (Buildings \union Courses \union Rooms \union Sessions) = {}
  /\ Buildings \cap (Courses \union Rooms \union Sessions) = {}
  /\ Courses \cap (Rooms \union Sessions) = {}
  /\ Rooms \cap Sessions = {}
  /\ Names \cap Types = {}

ASSUME MarksAssumption ==
  /\ Absent \notin Row /\ Untouched \notin Row /\ Absent # Untouched
  /\ None \notin Items
  /\ Kept \notin Names \union Items \union {None}

VARIABLES
  db,      \* key -> committed row
  written, \* request -> key -> row its transaction wrote, or Untouched
  lock,    \* request -> key -> the lock its transaction has on the row
  op,      \* request -> what it asks for
  pc,      \* request -> next step
  found,   \* request -> rows its UPDATE or DELETE has selected, then locked
  todo,    \* request -> references its statement has yet to check
  status   \* request -> the answer

vars == <<db, written, lock, op, pc, found, todo, status>>

\* FOR KEY SHARE, FOR NO KEY UPDATE and FOR UPDATE
Modes == {"none", "share", "update", "key"}

Steps == {"start", "find", "rows", "index", "references", "referrers", "answered", "done"}

Statuses == {"none", "2xx", "404", "4xx5xx", "cancelled"}

Live(row) == row \notin {Absent, Untouched}

TypeOK ==
  /\ db \in [Items -> Row \union {Absent}]
  /\ written \in [Requests -> [Items -> Row \union {Absent, Untouched}]]
  /\ \A i \in Items : /\ db[i] \in RowsOf(i) \union {Absent}
                      /\ \A t \in Requests : written[t][i] \in RowsOf(i) \union {Absent, Untouched}
  /\ lock \in [Requests -> [Items -> Modes]]
  /\ op \in [Requests -> Ops]
  /\ pc \in [Requests -> Steps]
  /\ found \in [Requests -> SUBSET Items]
  /\ todo \in [Requests -> SUBSET Items]
  /\ status \in [Requests -> Statuses]

-----------------------------------------------------------------------------
(***************************************************************************)
(* Rows and keys                                                           *)
(***************************************************************************)
Target(t) == op[t].id

\* mutant of OnPool: buildings are deleted on the pool like the rest
BuildingsToo(t) == op[t].kind = "delete"

\* Deletions are executed on the pool, r.db, except those of buildings.
OnPool(t) == op[t].kind = "delete" /\ Target(t) \notin Buildings

\* The rows a statement would find in full tables: a deletion of a room type
\* goes by its name, and row level security hides the rows of other users
\* from a transaction but not from the pool.
Reachable(t) ==
  {i \in Items :
     /\ i = Target(t) \/ (op[t].kind = "delete" /\ {i, Target(t)} \subseteq Types
                            /\ TypeName[i] = TypeName[Target(t)])
     /\ OnPool(t) \/ Owner[i] = op[t].user}

\* where the written row is: a room type that is renamed changes its key
Place(t) ==
  IF Target(t) \in Types /\ op[t].set.name \in Types THEN op[t].set.name ELSE Target(t)

\* the row's key disappears from its table
Removes(t) == op[t].kind = "delete" \/ Place(t) # Target(t)

Wrote(t, i) == written[t][i] # Untouched

\* the row as transaction t sees it
Seen(t, i) == IF Wrote(t, i) THEN written[t][i] ELSE db[i]

\* mutant of NewRow: the parent is always written
ParentAlwaysSet(t) ==
  LET old == db[Target(t)]
      set == op[t].set
  IN  IF op[t].kind = "create" THEN set
      ELSE [name   |-> IF set.name = Kept THEN old.name ELSE set.name,
            parent |-> set.parent,
            type   |-> IF set.type = Kept THEN old.type ELSE set.type]

\* the row the INSERT or the UPDATE writes; only the columns set change
NewRow(t) ==
  LET old == db[Target(t)]
      set == op[t].set
  IN  IF op[t].kind = "create" THEN set
      ELSE [name   |-> IF set.name = Kept THEN old.name ELSE set.name,
            parent |-> IF set.parent = Kept THEN old.parent ELSE set.parent,
            type   |-> IF set.type = Kept THEN old.type ELSE set.type]

\* mutant of Refs: migration 9 drops the foreign keys to the room types and
\* does not add them again
RefsToParents(row) == {row.parent} \ {None}

Refs(row) == {row.parent, row.type} \ {None}

\* the foreign keys an UPDATE does not change are not checked again
RefsToCheck(t) ==
  IF op[t].kind = "create" THEN Refs(NewRow(t)) ELSE Refs(NewRow(t)) \ Refs(db[Target(t)])

\* in one table, of one user: every unique index has created_by
SameIndex(i, j) ==
  /\ Owner[i] = Owner[j]
  /\ \E table \in {Types, Buildings, Courses, Rooms, Sessions} : i \in table /\ j \in table

\* mutant of Clash: no unique index on rooms
ClashOutsideRooms(t, j, row) ==
  /\ Live(row)
  /\ op[t].kind = "create" \/ j # Target(t)
  /\ SameIndex(Place(t), j) /\ j \notin Rooms
  /\ NewRow(t).name = row.name /\ NewRow(t).parent = row.parent

\* mutant of Clash: room names are unique over all buildings
ClashOfNames(t, j, row) ==
  /\ Live(row)
  /\ op[t].kind = "create" \/ j # Target(t)
  /\ SameIndex(Place(t), j)
  /\ NewRow(t).name = row.name

\* the row t writes has the key that row, of j, has in the same unique
\* index: the name, in its building or course if it has one
Clash(t, j, row) ==
  /\ Live(row)
  /\ op[t].kind = "create" \/ j # Target(t)
  /\ SameIndex(Place(t), j)
  /\ NewRow(t).name = row.name /\ NewRow(t).parent = row.parent

-----------------------------------------------------------------------------
(***************************************************************************)
(* Locks                                                                   *)
(***************************************************************************)
\* An UPDATE that sets a column of a unique index takes the lock that
\* excludes references.
LockMode(t) ==
  IF op[t].kind = "delete" \/ op[t].set.name # Kept \/ op[t].set.parent # Kept
  THEN "key" ELSE "update"

Excludes(mode, held) ==
  \/ mode = "key" /\ held # "none"
  \/ mode = "update" /\ held \in {"update", "key"}
  \/ mode = "share" /\ held = "key"

\* the transactions that must end before t can lock i in this mode
Blockers(t, i, mode) == {u \in Requests \ {t} : Excludes(mode, lock[u][i])}

Writing(u, i) == lock[u][i] \in {"update", "key"}

\* the transactions the index check of t's row waits for: they are writing a
\* row whose old or new version clashes
Writers(t) ==
  {u \in Requests \ {t} : \E j \in Items :
     Writing(u, j) /\ (Clash(t, j, db[j]) \/ Clash(t, j, written[u][j]))}

Duplicate(t) ==
  \E j \in Items : Clash(t, j, db[j]) /\ \A u \in Requests \ {t} : ~Writing(u, j)

\* the rows, of any user, that refer to what t takes away; of those an open
\* transaction has written, only the committed versions count
Referrers(t) == {j \in Items : Live(db[j]) /\ Refs(db[j]) \cap found[t] # {}}

\* selected, not locked, and still there
Unlocked(t) == {i \in found[t] : lock[t][i] = "none" /\ Live(db[i])}

\* the transactions request t is waiting for
WaitsFor(t) ==
  CASE pc[t] = "rows" -> UNION {Blockers(t, i, LockMode(t)) : i \in Unlocked(t)}
    [] pc[t] = "index" -> Writers(t)
    [] pc[t] = "references" ->
         UNION {Blockers(t, r, "share") : r \in {s \in todo[t] : Live(db[s])}}
    [] pc[t] = "referrers" -> UNION {Blockers(t, j, "share") : j \in Referrers(t)}
    [] OTHER -> {}

\* a set of requests that all wait for a member of it, and no smaller one
WaitCycle(C) ==
  /\ C # {}
  /\ \A t \in C : WaitsFor(t) \cap C # {}
  /\ \A D \in SUBSET C : D \notin {{}, C} => \E t \in D : WaitsFor(t) \cap D = {}

-----------------------------------------------------------------------------
(***************************************************************************)
(* The end of a statement and of a transaction                             *)
(***************************************************************************)
Goto(t, step) == pc' = [pc EXCEPT ![t] = step]

Answer(t, code) ==
  /\ status' = [status EXCEPT ![t] = code]
  /\ Goto(t, "answered")

\* PostgreSQL ends the transaction
Release(t) ==
  /\ written' = [written EXCEPT ![t] = [i \in Items |-> Untouched]]
  /\ lock' = [lock EXCEPT ![t] = [i \in Items |-> "none"]]
  /\ found' = [found EXCEPT ![t] = {}]
  /\ todo' = [todo EXCEPT ![t] = {}]
  /\ UNCHANGED op

\* The statement fails and takes its transaction with it; the handlers
\* answer 500.
Fail(t) ==
  /\ Answer(t, "4xx5xx")
  /\ Release(t)
  /\ UNCHANGED db

\* The statement succeeds; on the pool, that commits it.
Succeed(t) ==
  /\ Answer(t, "2xx")
  /\ IF OnPool(t)
     THEN /\ db' = [i \in Items |-> Seen(t, i)]
          /\ Release(t)
     ELSE UNCHANGED <<db, written, lock, op, found, todo>>

\* mutant of Commit: not after 204, the answer to a deletion
NotAfterDeletion(t) ==
  /\ pc[t] = "answered"
  /\ status[t] = "2xx"
  /\ IF op[t].kind = "delete"
     THEN UNCHANGED <<db, written, lock, op, found, todo>>
     ELSE db' = [i \in Items |-> Seen(t, i)] /\ Release(t)
  /\ Goto(t, "done")
  /\ UNCHANGED status

Commit(t) ==
  /\ pc[t] = "answered"
  /\ status[t] = "2xx"
  /\ db' = [i \in Items |-> Seen(t, i)]
  /\ Release(t)
  /\ Goto(t, "done")
  /\ UNCHANGED status

Rollback(t) ==
  /\ pc[t] = "answered"
  /\ status[t] # "2xx"
  /\ Release(t)
  /\ Goto(t, "done")
  /\ UNCHANGED <<db, status>>

\* tx.Commit() fails, the connection being lost: its error is ignored and
\* the answer stays what it was
CommitLost(t) ==
  /\ pc[t] = "answered"
  /\ status[t] = "2xx"
  /\ Release(t)
  /\ Goto(t, "done")
  /\ UNCHANGED <<db, status>>

\* The client goes away: the request's context is cancelled and
\* database/sql rolls back the transaction, or the statement on the pool.
Cancel(t) ==
  /\ pc[t] # "done"
  /\ status' = [status EXCEPT ![t] = "cancelled"]
  /\ Release(t)
  /\ Goto(t, "done")
  /\ UNCHANGED db

-----------------------------------------------------------------------------
(***************************************************************************)
(* The operations                                                          *)
(***************************************************************************)
\* the id or the body does not parse, a field is not valid, no field is set,
\* or the database cannot be reached
Refuse(t) ==
  /\ pc[t] = "start"
  /\ Answer(t, "4xx5xx")
  /\ UNCHANGED <<db, written, lock, op, found, todo>>

\* an INSERT writes at once, UPDATE and DELETE look for their row first
Begin(t, kind, table) ==
  /\ pc[t] = "start"
  /\ op[t].kind = kind
  /\ Target(t) \in table
  /\ Goto(t, IF kind = "create" THEN "index" ELSE "find")
  /\ UNCHANGED <<db, written, lock, op, found, todo, status>>

CreateRoomType(t) == Begin(t, "create", Types)
UpdateRoomType(t) == Begin(t, "update", Types)
DeleteRoomType(t) == Begin(t, "delete", Types)
CreateBuilding(t) == Begin(t, "create", Buildings)
UpdateBuilding(t) == Begin(t, "update", Buildings)
DeleteBuilding(t) == Begin(t, "delete", Buildings)
CreateCourse(t) == Begin(t, "create", Courses)
UpdateCourse(t) == Begin(t, "update", Courses)
DeleteCourse(t) == Begin(t, "delete", Courses)
CreateRoom(t) == Begin(t, "create", Rooms)
UpdateRoom(t) == Begin(t, "update", Rooms)
DeleteRoom(t) == Begin(t, "delete", Rooms)
CreateSession(t) == Begin(t, "create", Sessions)
UpdateSession(t) == Begin(t, "update", Sessions)
DeleteSession(t) == Begin(t, "delete", Sessions)

\* What the WHERE clause selects from the committed rows.
FindRows(t) ==
  /\ pc[t] = "find"
  /\ \E i \in Reachable(t) : Live(db[i])
  /\ found' = [found EXCEPT ![t] = {i \in Reachable(t) : Live(db[i])}]
  /\ Goto(t, "rows")
  /\ UNCHANGED <<db, written, lock, op, todo, status>>

\* the rows a statement may still come to change
Candidates(t) == IF pc[t] = "find" THEN Reachable(t) ELSE found[t]

\* no row, or none left: qrm.ErrNoRows, or no rows affected
TargetMissing(t) ==
  /\ pc[t] \in {"find", "rows"}
  /\ \A i \in Candidates(t) : ~Live(db[i])
  /\ Answer(t, "404")
  /\ UNCHANGED <<db, written, lock, op, found, todo>>

LockTarget(t) ==
  /\ pc[t] = "rows"
  /\ \E i \in Unlocked(t) :
       /\ Blockers(t, i, LockMode(t)) = {}
       /\ lock' = [lock EXCEPT ![t][i] = LockMode(t)]
  /\ UNCHANGED <<db, written, op, pc, found, todo, status>>

\* Every row selected is locked, or gone and skipped; a DELETE marks the
\* rows it has locked.
TargetsLocked(t) ==
  /\ pc[t] = "rows"
  /\ Unlocked(t) = {}
  /\ LET rows == {i \in found[t] : lock[t][i] # "none"}
     IN  /\ rows # {}
         /\ found' = [found EXCEPT ![t] = rows]
         /\ IF op[t].kind = "delete"
            THEN /\ written' = [written EXCEPT ![t] = [i \in Items |->
                      IF i \in rows THEN Absent ELSE @[i]]]
                 /\ Goto(t, "referrers")
            ELSE UNCHANGED written /\ Goto(t, "index")
  /\ UNCHANGED <<db, lock, op, todo, status>>

WriteRow(t) ==
  /\ pc[t] = "index"
  /\ Writers(t) = {}
  /\ ~Duplicate(t)
  /\ written' = [written EXCEPT ![t] = [i \in Items |->
       IF i = Place(t) THEN NewRow(t) ELSE IF i = Target(t) THEN Absent ELSE @[i]]]
  /\ lock' = [lock EXCEPT ![t][Place(t)] = IF @ = "none" THEN "key" ELSE @]
  /\ todo' = [todo EXCEPT ![t] = RefsToCheck(t)]
  /\ Goto(t, IF Removes(t) THEN "referrers" ELSE "references")
  /\ UNCHANGED <<db, op, found, status>>

DuplicateKey(t) ==
  /\ pc[t] = "index"
  /\ Duplicate(t)
  /\ Fail(t)

\* The foreign key check of one reference: the row it refers to is locked,
\* and looked at again if that took a wait.
LockReference(t) ==
  /\ pc[t] = "references"
  /\ \E r \in todo[t] :
       /\ Live(db[r])
       /\ Blockers(t, r, "share") = {}
       /\ lock' = [lock EXCEPT ![t][r] = "share"]
       /\ todo' = [todo EXCEPT ![t] = @ \ {r}]
  /\ UNCHANGED <<db, written, op, pc, found, status>>

ReferenceMissing(t) ==
  /\ pc[t] = "references"
  /\ \E r \in todo[t] : ~Live(db[r])
  /\ Fail(t)

ReferencesChecked(t) ==
  /\ pc[t] = "references"
  /\ todo[t] = {}
  /\ Succeed(t)

\* The check on the other side: a row that still refers to one of the rows,
\* and is not about to be changed in its key, or nothing does.
StillReferenced(t) ==
  /\ pc[t] = "referrers"
  /\ \E j \in Referrers(t) : Blockers(t, j, "share") = {}
  /\ Fail(t)

NotReferenced(t) ==
  /\ pc[t] = "referrers"
  /\ Referrers(t) = {}
  /\ Succeed(t)

\* PostgreSQL aborts one of the transactions that wait for each other
DeadlockDetected(t) ==
  /\ \E C \in SUBSET Requests : t \in C /\ WaitCycle(C)
  /\ Fail(t)

Handle(t) ==
  \/ CreateRoomType(t) \/ UpdateRoomType(t) \/ DeleteRoomType(t)
  \/ CreateBuilding(t) \/ UpdateBuilding(t) \/ DeleteBuilding(t)
  \/ CreateCourse(t) \/ UpdateCourse(t) \/ DeleteCourse(t)
  \/ CreateRoom(t) \/ UpdateRoom(t) \/ DeleteRoom(t)
  \/ CreateSession(t) \/ UpdateSession(t) \/ DeleteSession(t)
  \/ FindRows(t) \/ TargetMissing(t) \/ LockTarget(t) \/ TargetsLocked(t)
  \/ WriteRow(t) \/ DuplicateKey(t)
  \/ LockReference(t) \/ ReferenceMissing(t) \/ ReferencesChecked(t)
  \/ StillReferenced(t) \/ NotReferenced(t) \/ DeadlockDetected(t)
  \/ Commit(t) \/ Rollback(t)

AllDone ==
  /\ \A t \in Requests : pc[t] = "done"
  /\ UNCHANGED vars

Next ==
  \/ \E t \in Requests : Handle(t) \/ Refuse(t) \/ CommitLost(t) \/ Cancel(t)
  \/ AllDone

-----------------------------------------------------------------------------
(***************************************************************************)
(* Properties                                                              *)
(***************************************************************************)
\* Whatever requests overlap, no committed row refers to one that is gone
\* (the foreign keys of migrations 4, 6 and 9): the scheduler service, which
\* reads rooms and sessions by their types, depends on it.
NoDanglingReference ==
  \A i \in Items : Live(db[i]) =>
    \A r \in {db[i].parent, db[i].type} \ {None} : Live(db[r])

\* No two committed rows of one user in a table have the same key
\* (migration 9).
UniqueKeys ==
  \A i, j \in Items : i # j /\ SameIndex(i, j) /\ Live(db[i]) /\ Live(db[j]) =>
    db[i].name # db[j].name \/ db[i].parent # db[j].parent

\* Ids are random: no two creations have the same, and none has the id of a
\* row there is.  The names of room types are chosen by their users.
Init ==
  /\ db \in Tables
  /\ NoDanglingReference /\ UniqueKeys
  /\ op \in [Requests -> Ops]
  /\ \A t \in Requests : op[t].kind = "create" /\ op[t].id \notin Types =>
       /\ db[op[t].id] = Absent
       /\ \A u \in Requests \ {t} : op[u].kind = "create" => op[u].id # op[t].id
  /\ written = [t \in Requests |-> [i \in Items |-> Untouched]]
  /\ lock = [t \in Requests |-> [i \in Items |-> "none"]]
  /\ pc = [t \in Requests |-> "start"]
  /\ found = [t \in Requests |-> {}]
  /\ todo = [t \in Requests |-> {}]
  /\ status = [t \in Requests |-> "none"]

Spec == Init /\ [][Next]_vars

\* A request's goroutine is always scheduled and the database carries out
\* the statements it is sent; nobody has to go away for a request to end.
FairSpec == Spec /\ \A t \in Requests : WF_vars(Handle(t))

\* Every request takes effect once, at one instant, or not at all: a
\* deletion on the pool when it is executed, any other when it commits.  It
\* changes the row it names, of its own user, except that a deletion on the
\* pool asks for no user and, of room types, takes every one of the name.
Ended == {t \in Requests : pc[t] = "done" \/ (OnPool(t) /\ pc[t] = "answered")}

Promise == INSTANCE CatalogueTables WITH rows <- db, ended <- Ended

ImplementsTables == Promise!Spec

\* A request is refused for a missing row, a key in use or a reference only
\* if the committed tables rule it out at that instant, for the rows it has
\* come to, never for something another request has not committed and may
\* not commit.  A reference to another user's room type of the name is a
\* reason to refuse the deletion of one's own.
RefusedRightly ==
  [][\A t \in Requests :
       /\ TargetMissing(t) =>
            \A rows \in SUBSET Candidates(t) : ~Promise!Possible(op[t], rows)
       /\ DuplicateKey(t) \/ ReferenceMissing(t) \/ StillReferenced(t) =>
            ~Promise!Possible(op[t], found[t])]_vars

\* Every request ends, though requests wait for each other's locks and in
\* cycles.
EveryRequestEnds == \A t \in Requests : <>(pc[t] = "done")
=============================================================================
