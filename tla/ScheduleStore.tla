----------------------------- MODULE ScheduleStore -----------------------------
(***************************************************************************)
(* The schedules of one user: the table with its triggers and unique       *)
(* indexes (migrations 6, 8, 9, 10), the statements of the schedule        *)
(* repository, and the SQL transaction the middleware wraps around every   *)
(* request.  Row level security hides the rows of other users from all of  *)
(* it, so one user's rows are the whole table.                             *)
(*                                                                         *)
(* Transactions are READ COMMITTED.  A statement selects its rows from the *)
(* committed state and its own writes, takes each row's lock, which is     *)
(* held to the end of the transaction, and looks at the row again once it  *)
(* has the lock.  A unique index makes a writer wait for the transaction   *)
(* that wrote a conflicting entry, and fail if the entry stays.  Writing a *)
(* row and its entries in the two unique indexes is one step.              *)
(***************************************************************************)
EXTENDS FiniteSets

CONSTANTS
  Ids,        \* schedule ids
  Names,      \* schedule names
  Requests,   \* requests, each in a goroutine of its own
  Ops,        \* what a request may ask for
  Unborn,     \* the row of an id not inserted yet
  Gone,       \* the row of an id that was deleted
  Untouched,  \* a row the transaction has not written
  Kept,       \* a column the statement does not set
  Nobody      \* the holder of a free row lock

Row == [name : Names, active : BOOLEAN, archived : BOOLEAN]
Rows == Row \union {Unborn, Gone}

\* what an UPDATE sets each column to
Assignment == [name : Names \union {Kept}, active : BOOLEAN \union {Kept},
               archived : BOOLEAN \union {Kept}]

Kinds == {"create", "setActive", "archive", "unarchive", "update", "delete"}

Op == [kind : Kinds, id : Ids, set : Assignment]

ASSUME OpsAssumption ==
  /\ Ops \subseteq Op
  /\ \A o \in Ops : o.kind = "create" => o.set.name \in Names

ASSUME MarksAssumption ==
  /\ {Unborn, Gone, Untouched} \cap Row = {}
  /\ Unborn # Gone /\ Unborn # Untouched /\ Gone # Untouched
  /\ Kept \notin Names \union BOOLEAN
  /\ Nobody \notin Requests

VARIABLES
  db,      \* id -> committed row
  written, \* request -> id -> row its transaction wrote, or Untouched
  lock,    \* id -> request whose transaction holds the row's lock
  op,      \* request -> what it asks for
  pc,      \* request -> next step
  todo,    \* request -> rows its deactivating UPDATE has selected
  status,  \* request -> the answer
  risen    \* history: request -> the schedules that commits of other requests
           \* made active since its trigger selected the active ones

vars == <<db, written, lock, op, pc, todo, status, risen>>

Steps == {"start", "bulk", "bulkRows", "target", "trigger", "triggerRows",
          "write", "poolDelete", "answered", "done"}

Statuses == {"none", "2xx", "404", "4xx5xx", "cancelled"}

Live(row) == row \notin {Unborn, Gone}

TypeOK ==
  /\ db \in [Ids -> Rows]
  /\ written \in [Requests -> [Ids -> Row \union {Untouched}]]
  /\ lock \in [Ids -> Requests \union {Nobody}]
  /\ op \in [Requests -> Ops]
  /\ pc \in [Requests -> Steps]
  /\ todo \in [Requests -> SUBSET Ids]
  /\ status \in [Requests -> Statuses]
  /\ risen \in [Requests -> SUBSET Ids]

-----------------------------------------------------------------------------
(***************************************************************************)
(* What a transaction sees and waits for                                   *)
(***************************************************************************)
Target(t) == op[t].id

Wrote(t, i) == written[t][i] # Untouched

\* the row as transaction t sees it
Seen(t, i) == IF Wrote(t, i) THEN written[t][i] ELSE db[i]

Active(row) == Live(row) /\ row.active

ActiveIds(t) == {i \in Ids : Active(Seen(t, i))}

LockedByOther(t, i) == lock[i] \notin {t, Nobody}

\* the columns each statement sets; an INSERT leaves is_active and
\* is_archived to their defaults
Assigned(t) ==
  CASE op[t].kind = "create" -> [name |-> op[t].set.name, active |-> TRUE, archived |-> FALSE]
    [] op[t].kind = "setActive" -> [name |-> Kept, active |-> TRUE, archived |-> Kept]
    [] op[t].kind = "archive" -> [name |-> Kept, active |-> FALSE, archived |-> TRUE]
    [] op[t].kind = "unarchive" -> [name |-> Kept, active |-> Kept, archived |-> FALSE]
    [] OTHER -> op[t].set

\* mutant of NewRow: the name is written even if the request leaves it out
NameAlwaysSet(t) ==
  LET old == Seen(t, Target(t))
      set == Assigned(t)
  IN  [name     |-> set.name,
       active   |-> IF set.active = Kept THEN old.active ELSE set.active,
       archived |-> IF set.archived = Kept THEN old.archived ELSE set.archived]

\* mutant of NewRow: a column the request leaves out falls back to its default
DefaultsRestored(t) ==
  LET old == Seen(t, Target(t))
      set == Assigned(t)
  IN  [name     |-> IF set.name = Kept THEN old.name ELSE set.name,
       active   |-> IF set.active = Kept THEN old.active ELSE set.active,
       archived |-> IF set.archived = Kept THEN FALSE ELSE set.archived]

\* the row the INSERT or the UPDATE of the target writes
NewRow(t) ==
  LET old == Seen(t, Target(t))
      set == Assigned(t)
  IN  [name     |-> IF set.name = Kept THEN old.name ELSE set.name,
       active   |-> IF set.active = Kept THEN old.active ELSE set.active,
       archived |-> IF set.archived = Kept THEN old.archived ELSE set.archived]

\* mutant of Activates: no trigger
NoTrigger(t) == FALSE

\* the condition of both triggers: an inactive or new row becomes active
Activates(t) == NewRow(t).active /\ ~Active(Seen(t, Target(t)))

\* mutant of Clash: no index on the active row
ClashOfNames(row, other) == Live(other) /\ row.name = other.name

\* the two rows have the same key in a unique index
Clash(row, other) ==
  Live(other) /\ (row.name = other.name \/ (row.active /\ other.active))

\* the transactions whose end the index check of t's row waits for: they
\* have written a row whose old or new version clashes
Writers(t) ==
  {u \in Requests \ {t} : \E i \in Ids \ {Target(t)} :
     Wrote(u, i) /\ (Clash(NewRow(t), db[i]) \/ Clash(NewRow(t), written[u][i]))}

DuplicateKey(t) ==
  \E i \in Ids \ {Target(t)} :
    /\ \A u \in Requests \ {t} : ~Wrote(u, i)
    /\ Clash(NewRow(t), Seen(t, i))

\* the transactions request t is waiting for
WaitsFor(t) ==
  CASE pc[t] \in {"bulkRows", "triggerRows"} -> {lock[i] : i \in todo[t]} \ {t, Nobody}
    [] pc[t] \in {"target", "poolDelete"} /\ Live(Seen(t, Target(t))) ->
         {lock[Target(t)]} \ {t, Nobody}
    [] pc[t] = "write" -> Writers(t)
    [] OTHER -> {}

\* a set of requests that all wait for a member of it, and no smaller one
WaitCycle(C) ==
  /\ C # {}
  /\ \A t \in C : WaitsFor(t) \cap C # {}
  /\ \A D \in SUBSET C : D \notin {{}, C} => \E t \in D : WaitsFor(t) \cap D = {}

-----------------------------------------------------------------------------
(***************************************************************************)
(* The handlers                                                            *)
(***************************************************************************)
Goto(t, step) == pc' = [pc EXCEPT ![t] = step]

Answer(t, code) ==
  /\ status' = [status EXCEPT ![t] = code]
  /\ Goto(t, "answered")

TakeLock(t, i) == lock' = [lock EXCEPT ![i] = t]

\* the id or the body does not parse, the update is empty, or the database
\* cannot be reached: answered before any statement of the repository
Refuse(t) ==
  /\ pc[t] = "start"
  /\ Answer(t, "4xx5xx")
  /\ UNCHANGED <<db, written, lock, op, todo, risen>>

\* the first statement of each operation; only an INSERT has its trigger
\* run before there is a row to lock
Begin(t) ==
  /\ pc[t] = "start"
  /\ Goto(t, CASE op[t].kind = "setActive" -> "bulk"
               [] op[t].kind = "create" -> "trigger"
               [] op[t].kind = "delete" -> "poolDelete"
               [] OTHER -> "target")
  /\ UNCHANGED <<db, written, lock, op, todo, status, risen>>

\* SetActive: UPDATE ... SET is_active = FALSE WHERE is_active = TRUE
BulkScan(t) ==
  /\ pc[t] = "bulk"
  /\ todo' = [todo EXCEPT ![t] = ActiveIds(t)]
  /\ Goto(t, "bulkRows")
  /\ UNCHANGED <<db, written, lock, op, status, risen>>

\* deactivate_other_schedules(): the same on every row but the one written
TriggerScan(t) ==
  /\ pc[t] = "trigger"
  /\ todo' = [todo EXCEPT ![t] = ActiveIds(t) \ {Target(t)}]
  /\ Goto(t, "triggerRows")
  /\ UNCHANGED <<db, written, lock, op, status, risen>>

\* One row of either UPDATE: locked, then looked at again, and skipped if
\* it was deactivated or deleted since the scan.
DeactivateRow(t) ==
  /\ pc[t] \in {"bulkRows", "triggerRows"}
  /\ \E i \in todo[t] :
       /\ ~LockedByOther(t, i)
       /\ todo' = [todo EXCEPT ![t] = @ \ {i}]
       /\ IF Live(db[i]) THEN TakeLock(t, i) ELSE UNCHANGED lock
       /\ IF Active(Seen(t, i))
          THEN written' = [written EXCEPT ![t][i] = [Seen(t, i) EXCEPT !.active = FALSE]]
          ELSE UNCHANGED written
  /\ UNCHANGED <<db, op, pc, status, risen>>

RowsDone(t) ==
  /\ pc[t] \in {"bulkRows", "triggerRows"}
  /\ todo[t] = {}
  /\ Goto(t, IF pc[t] = "bulkRows" THEN "target" ELSE "write")
  /\ UNCHANGED <<db, written, lock, op, todo, status, risen>>

\* UPDATE ... WHERE id = ... RETURNING: no row, so qrm.ErrNoRows
TargetMissing(t) ==
  /\ pc[t] = "target"
  /\ ~Live(Seen(t, Target(t)))
  /\ Answer(t, "404")
  /\ UNCHANGED <<db, written, lock, op, todo, risen>>

\* The same with a row: locked, then the trigger if the update activates it.
LockTarget(t) ==
  /\ pc[t] = "target"
  /\ Live(Seen(t, Target(t)))
  /\ ~LockedByOther(t, Target(t))
  /\ TakeLock(t, Target(t))
  /\ Goto(t, IF Activates(t) THEN "trigger" ELSE "write")
  /\ UNCHANGED <<db, written, op, todo, status, risen>>

Write(t) ==
  /\ pc[t] = "write"
  /\ Writers(t) = {}
  /\ ~DuplicateKey(t)
  /\ written' = [written EXCEPT ![t][Target(t)] = NewRow(t)]
  /\ TakeLock(t, Target(t))
  /\ Answer(t, "2xx")
  /\ UNCHANGED <<db, op, todo, risen>>

WriteFails(t) ==
  /\ pc[t] = "write"
  /\ DuplicateKey(t)
  /\ Answer(t, "4xx5xx")
  /\ UNCHANGED <<db, written, lock, op, todo, risen>>

\* Delete is executed on the pool, r.db, outside the request's transaction:
\* a transaction of its own, committed as soon as the row's lock is free.
PoolDelete(t) ==
  /\ pc[t] = "poolDelete"
  /\ IF Live(db[Target(t)])
     THEN /\ ~LockedByOther(t, Target(t))
          /\ db' = [db EXCEPT ![Target(t)] = Gone]
          /\ Answer(t, "2xx")
     ELSE Answer(t, "404") /\ UNCHANGED db
  /\ UNCHANGED <<written, lock, op, todo, risen>>

-----------------------------------------------------------------------------
(***************************************************************************)
(* The end of a transaction                                                *)
(***************************************************************************)
\* what a request remembers of the commits of others
Selected == {"triggerRows", "write"}

Release(t) ==
  /\ risen' = [u \in Requests |->
       IF u = t \/ pc[u] \notin Selected THEN {}
       ELSE risen[u] \union {i \in Ids : ~Active(db[i]) /\ Active(db'[i])}]
  /\ written' = [written EXCEPT ![t] = [i \in Ids |-> Untouched]]
  /\ lock' = [i \in Ids |-> IF lock[i] = t THEN Nobody ELSE lock[i]]
  /\ todo' = [todo EXCEPT ![t] = {}]
  /\ Goto(t, "done")
  /\ UNCHANGED op

\* mutant of Succeeded: any answer commits
AnyAnswer(t) == status[t] # "none"

Succeeded(t) == status[t] = "2xx"

Commit(t) ==
  /\ pc[t] = "answered"
  /\ Succeeded(t)
  /\ db' = [i \in Ids |-> Seen(t, i)]
  /\ Release(t)
  /\ UNCHANGED status

\* mutant of Rollback: the transaction of a failed request is left open
LeftOpen(t) ==
  /\ pc[t] = "answered"
  /\ ~Succeeded(t)
  /\ Goto(t, "done")
  /\ UNCHANGED <<db, written, lock, op, todo, status, risen>>

Rollback(t) ==
  /\ pc[t] = "answered"
  /\ ~Succeeded(t)
  /\ UNCHANGED <<db, status>>
  /\ Release(t)

\* tx.Commit() fails, the connection being lost: its error is ignored and
\* the answer stays what it was
CommitLost(t) ==
  /\ pc[t] = "answered"
  /\ Succeeded(t)
  /\ UNCHANGED <<db, status>>
  /\ Release(t)

\* The client goes away: the request's context is cancelled and
\* database/sql rolls the transaction back.
Cancel(t) ==
  /\ pc[t] # "done"
  /\ status' = [status EXCEPT ![t] = "cancelled"]
  /\ UNCHANGED db
  /\ Release(t)

\* PostgreSQL aborts one of the transactions that wait for each other; the
\* statement's error is answered with 500
DeadlockDetected(t) ==
  /\ \E C \in SUBSET Requests : t \in C /\ WaitCycle(C)
  /\ Answer(t, "4xx5xx")
  /\ UNCHANGED <<db, written, lock, op, todo, risen>>

Handle(t) ==
  \/ Begin(t) \/ BulkScan(t) \/ TriggerScan(t) \/ DeactivateRow(t) \/ RowsDone(t)
  \/ TargetMissing(t) \/ LockTarget(t) \/ Write(t) \/ WriteFails(t)
  \/ PoolDelete(t) \/ DeadlockDetected(t) \/ Commit(t) \/ Rollback(t)

AllDone ==
  /\ \A t \in Requests : pc[t] = "done"
  /\ UNCHANGED vars

Next ==
  \/ \E t \in Requests : Handle(t) \/ Refuse(t) \/ CommitLost(t) \/ Cancel(t)
  \/ AllDone

\* Whatever requests overlap, no two schedules of the user are active and no
\* two have the same name (migrations 9 and 10).
UniqueRows ==
  \A i, j \in Ids :
    i # j /\ Live(db[i]) /\ Live(db[j]) =>
      db[i].name # db[j].name /\ ~(db[i].active /\ db[j].active)

\* Any table the indexes allow.  Ids are random: no two creations have the
\* same, and none has the id of a row there was before.
Init ==
  /\ db \in [Ids -> Row \union {Unborn}]
  /\ UniqueRows
  /\ op \in [Requests -> Ops]
  /\ \A t \in Requests : op[t].kind = "create" =>
       /\ db[op[t].id] = Unborn
       /\ \A u \in Requests \ {t} : op[u].kind = "create" => op[u].id # op[t].id
  /\ written = [t \in Requests |-> [i \in Ids |-> Untouched]]
  /\ lock = [i \in Ids |-> Nobody]
  /\ pc = [t \in Requests |-> "start"]
  /\ todo = [t \in Requests |-> {}]
  /\ status = [t \in Requests |-> "none"]
  /\ risen = [t \in Requests |-> {}]

Spec == Init /\ [][Next]_vars

\* A request's goroutine is always scheduled and the database carries out
\* the statements it is sent; nobody has to go away for a request to end.
FairSpec == Spec /\ \A t \in Requests : WF_vars(Handle(t))

-----------------------------------------------------------------------------
(***************************************************************************)
(* Properties                                                              *)
(***************************************************************************)
\* Every request takes effect once, at one instant, or not at all: a delete
\* when it is executed, any other request when it commits.  The columns it
\* does not set keep what was committed last, whoever wrote them between its
\* statements.
Ended ==
  {t \in Requests : pc[t] = "done" \/ (op[t].kind = "delete" /\ pc[t] = "answered")}

Promise == INSTANCE ActiveSchedules WITH rows <- db, ended <- Ended

ImplementsActiveSchedules == Promise!Spec

\* A user with an active schedule keeps one until a request archives,
\* deactivates or deletes it: SetActive, which deactivates before it knows
\* that its target exists, never leaves the user without.
ActiveStays ==
  [][(\E i \in Ids : Active(db[i])) /\ (\A i \in Ids : ~Active(db'[i])) =>
       \E t \in Requests : /\ op[t].kind \in {"archive", "update", "delete"}
                           /\ pc'[t] # pc[t] /\ status'[t] = "2xx"]_vars

\* An activation meets another active schedule, and is refused by the
\* unique index, only if that very schedule was made active by a commit of
\* another request after the trigger had selected the active ones: whatever
\* was active before, the triggers have cleared.
RefusedOnlyByRace ==
  \A t \in Requests, i \in Ids :
    pc[t] = "write" /\ NewRow(t).active /\ i # Target(t) /\ Active(Seen(t, i))
      => i \in risen[t]

\* Every request ends, though requests wait for each other's locks and in
\* cycles.
EveryRequestEnds == \A t \in Requests : <>(pc[t] = "done")

\* What a test of the repository says of archiving: "Archived schedules
\* should not be active".  No request makes a schedule both.
ArchivedNotActive ==
  [][\A i \in Ids : Active(db'[i]) /\ db'[i].archived =>
       Active(db[i]) /\ db[i].archived]_vars

\* What the executor says: repositories use the request's transaction.  The
\* table changes only when a transaction commits, at the end of a request
\* answered 2xx.
OnlyCommitsChangeRows == [][\E t \in Requests : Commit(t)]_db
=============================================================================
