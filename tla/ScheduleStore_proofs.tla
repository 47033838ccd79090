------------------------- MODULE ScheduleStore_proofs -------------------------
(***************************************************************************)
(* Theorems about module ScheduleStore, for every number of schedules,     *)
(* names and overlapping requests.                                         *)
(***************************************************************************)
EXTENDS ScheduleStore, TLAPS

\* from locking the target to writing it
Late == {"trigger", "triggerRows", "write"}

\* the steps an operation has
OwnSteps(t) ==
  /\ pc[t] \in {"bulk", "bulkRows"} => op[t].kind = "setActive"
  /\ pc[t] = "target" => op[t].kind \notin {"create", "delete"}
  /\ pc[t] = "poolDelete" => op[t].kind = "delete"
  /\ pc[t] \in Late => op[t].kind # "delete"

\* t has written only rows it has locked, which exist or which it creates
WritesLocked(t) ==
  \A i \in Ids : Wrote(t, i) =>
    /\ lock[i] = t /\ op[t].kind # "delete"
    /\ Live(db[i]) \/ (op[t].kind = "create" /\ i = Target(t))

\* once its target is locked, nobody deletes it
TargetHeld(t) ==
  pc[t] \in Late /\ op[t].kind # "create" =>
    lock[Target(t)] = t /\ Live(db[Target(t)])

\* nobody else inserts the row t creates
TargetFree(t) ==
  op[t].kind = "create" /\ pc[t] # "done" => db[Target(t)] = Unborn

Own(t) == OwnSteps(t) /\ WritesLocked(t) /\ TargetHeld(t) /\ TargetFree(t)

\* random ids: no two creations have the same
FreshIds ==
  \A t, u \in Requests :
    t # u /\ op[t].kind = "create" /\ op[u].kind = "create" => Target(t) # Target(u)

\* No row a transaction has written has the key of another row, neither of
\* the version that is committed nor of one that may be.
NoClash ==
  /\ \A t \in Requests, i, j \in Ids :
       i # j /\ Wrote(t, i) /\ ~Wrote(t, j) => ~Clash(written[t][i], db[j])
  /\ \A t, u \in Requests, i, j \in Ids :
       i # j /\ Wrote(t, i) /\ Wrote(u, j) => ~Clash(written[t][i], written[u][j])

StoreInv ==
  TypeOK /\ FreshIds /\ UniqueRows /\ NoClash /\ \A t \in Requests : Own(t)

-----------------------------------------------------------------------------
(***************************************************************************)
(* Rows                                                                    *)
(***************************************************************************)
\* A row that is there has a name and its two flags.
LEMMA LiveRows ==
  /\ \A row \in Row : Live(row) /\ row # Untouched
  /\ \A row \in Rows : Live(row) => row \in Row
BY MarksAssumption DEF Live, Rows

\* What a transaction has written is a row.
LEMMA WrittenRows ==
  ASSUME TypeOK, NEW t \in Requests, NEW i \in Ids, Wrote(t, i)
  PROVE  written[t][i] \in Row
BY DEF TypeOK, Wrote

\* The row a transaction sees is a row, if there is one.
LEMMA SeenRows ==
  ASSUME TypeOK, NEW t \in Requests, NEW i \in Ids, Live(Seen(t, i))
  PROVE  Seen(t, i) \in Row
BY LiveRows, WrittenRows DEF TypeOK, Seen

\* Having the same key is symmetric.
LEMMA ClashSymmetric ==
  ASSUME NEW a \in Row, NEW b \in Row
  PROVE  Clash(a, b) <=> Clash(b, a)
BY LiveRows DEF Clash, Row

\* The target of a request is a schedule.
LEMMA Targets ==
  ASSUME TypeOK, NEW t \in Requests
  PROVE  op[t] \in Op /\ Target(t) \in Ids
BY OpsAssumption DEF TypeOK, Target, Op

\* What a statement sets is an assignment, and an INSERT sets every column.
LEMMA Assignments ==
  ASSUME TypeOK, NEW t \in Requests
  PROVE  /\ Assigned(t) \in Assignment
         /\ op[t].kind = "create" => Assigned(t) \in Row
<1>1. op[t] \in Op /\ op[t] \in Ops
  BY Targets DEF TypeOK
<1>2. op[t].set \in Assignment /\ op[t].set.name \in Names \union {Kept}
  BY <1>1 DEF Op, Assignment
<1>3. op[t].kind = "create" => op[t].set.name \in Names
  BY <1>1, OpsAssumption
<1>4. CASE op[t].kind = "create"
  BY <1>3, <1>4 DEF Assigned, Assignment, Row
<1>5. CASE op[t].kind # "create"
  BY <1>2, <1>5 DEF Assigned, Assignment
<1> QED BY <1>4, <1>5

\* The row a statement makes is a row, if it inserts it or finds one.
LEMMA NewRows ==
  ASSUME TypeOK, NEW t \in Requests,
         op[t].kind = "create" \/ Live(Seen(t, Target(t)))
  PROVE  NewRow(t) \in Row
<1> DEFINE set == Assigned(t)
           old == Seen(t, Target(t))
<1>1. CASE op[t].kind = "create"
  <2>1. set.name \in Names /\ set.active \in BOOLEAN /\ set.archived \in BOOLEAN
    BY <1>1, Assignments DEF Row
  <2>2. set.name # Kept /\ set.active # Kept /\ set.archived # Kept
    BY <2>1, MarksAssumption
  <2> QED BY <2>1, <2>2 DEF NewRow, Row
<1>2. CASE Live(old)
  <2>1. old.name \in Names /\ old.active \in BOOLEAN /\ old.archived \in BOOLEAN
    BY <1>2, SeenRows, Targets DEF Row
  <2>2. /\ set.name \in Names \union {Kept}
        /\ set.active \in BOOLEAN \union {Kept}
        /\ set.archived \in BOOLEAN \union {Kept}
    BY Assignments DEF Assignment
  <2> QED BY <2>1, <2>2 DEF NewRow, Row
<1> QED BY <1>1, <1>2

-----------------------------------------------------------------------------
(***************************************************************************)
(* Steps that write nothing                                                *)
(***************************************************************************)
\* A step that changes neither rows nor locks preserves the invariant if it
\* stays within the steps of its operation.
LEMMA QuietStep ==
  ASSUME StoreInv, NEW t \in Requests, NEW s \in Steps,
         UNCHANGED <<db, written, lock, op>>,
         pc' = [pc EXCEPT ![t] = s],
         todo' \in [Requests -> SUBSET Ids], status' \in [Requests -> Statuses],
         risen' = risen,
         pc[t] # "done", OwnSteps(t)', TargetHeld(t)'
  PROVE  StoreInv'
<1>1. TypeOK' /\ UniqueRows' /\ NoClash' /\ FreshIds'
  <2>1. TypeOK'
    BY DEF StoreInv, TypeOK
  <2>2. UniqueRows' /\ NoClash' /\ FreshIds'
    BY DEF StoreInv, UniqueRows, NoClash, FreshIds, Wrote, Target, Live, Clash
  <2> QED BY <2>1, <2>2
<1>2. ASSUME NEW u \in Requests
      PROVE  Own(u)'
  <2>1. Own(u) /\ op' = op /\ db' = db /\ lock' = lock /\ written' = written
    BY DEF StoreInv
  <2>2. pc \in [Requests -> Steps]
    BY DEF StoreInv, TypeOK
  <2>3. OwnSteps(u)' /\ TargetHeld(u)'
    BY <2>1, <2>2 DEF Own, OwnSteps, TargetHeld, Target, Late, Live
  <2>4. WritesLocked(u)'
    BY <2>1 DEF Own, WritesLocked, Wrote, Target, Live
  <2>5. TargetFree(u)'
    BY <2>1, <2>2 DEF Own, TargetFree, Target
  <2> QED BY <2>3, <2>4, <2>5 DEF Own
<1> QED BY <1>1, <1>2 DEF StoreInv

\* An operation begins with its first statement.
LEMMA BeginStep ==
  ASSUME StoreInv, NEW t \in Requests, Begin(t)
  PROVE  StoreInv'
<1>1. op[t].kind \in Kinds /\ pc \in [Requests -> Steps]
  BY Targets DEF StoreInv, TypeOK, Op
<1>2. PICK s \in Steps : /\ pc' = [pc EXCEPT ![t] = s]
                         /\ s = "bulk" => op[t].kind = "setActive"
                         /\ s = "trigger" => op[t].kind = "create"
                         /\ s = "poolDelete" => op[t].kind = "delete"
                         /\ s = "target" => op[t].kind \notin {"create", "delete"}
                         /\ s \in {"bulk", "trigger", "poolDelete", "target"}
  <2>1. CASE op[t].kind = "setActive"
    BY <2>1 DEF Begin, Goto, Steps
  <2>2. CASE op[t].kind = "create"
    BY <2>2 DEF Begin, Goto, Steps
  <2>3. CASE op[t].kind = "delete"
    BY <2>3 DEF Begin, Goto, Steps
  <2>4. CASE op[t].kind \notin {"setActive", "create", "delete"}
    BY <2>4 DEF Begin, Goto, Steps
  <2> QED BY <2>1, <2>2, <2>3, <2>4
<1>3. UNCHANGED <<db, written, lock, op, todo, status, risen>> /\ pc[t] # "done"
  BY DEF Begin
<1>4. OwnSteps(t)' /\ TargetHeld(t)'
  BY <1>1, <1>2, <1>3 DEF OwnSteps, TargetHeld, Late
<1> QED
  BY <1>2, <1>3, <1>4, QuietStep DEF StoreInv, TypeOK

\* A request in a cycle is waiting.
LEMMA WaitingSteps ==
  ASSUME NEW C \in SUBSET Requests, NEW t \in C, WaitCycle(C)
  PROVE  pc[t] \in {"bulkRows", "triggerRows", "target", "poolDelete", "write"}
<1>1. WaitsFor(t) # {}
  BY DEF WaitCycle
<1> QED BY <1>1 DEF WaitsFor

\* The steps that only answer or select rows preserve the invariant.
LEMMA QuietSteps ==
  ASSUME StoreInv, NEW t \in Requests,
         \/ Refuse(t) \/ BulkScan(t) \/ TriggerScan(t) \/ RowsDone(t)
         \/ TargetMissing(t) \/ WriteFails(t) \/ DeadlockDetected(t)
  PROVE  StoreInv'
<1>1. /\ pc \in [Requests -> Steps] /\ todo \in [Requests -> SUBSET Ids]
      /\ status \in [Requests -> Statuses]
  BY DEF StoreInv, TypeOK
<1>2. Own(t)
  BY DEF StoreInv
<1>3. ASSUME NEW code \in Statuses, Answer(t, code), pc[t] # "done",
             UNCHANGED <<db, written, lock, op, todo, risen>>
      PROVE  StoreInv'
  <2>1. pc' = [pc EXCEPT ![t] = "answered"] /\ status' \in [Requests -> Statuses]
    BY <1>1, <1>3 DEF Answer, Goto
  <2>2. OwnSteps(t)' /\ TargetHeld(t)'
    BY <1>1, <2>1 DEF OwnSteps, TargetHeld, Late
  <2> QED BY <1>1, <1>3, <2>1, <2>2, QuietStep DEF Steps
<1>4. CASE Refuse(t) \/ TargetMissing(t) \/ WriteFails(t) \/ DeadlockDetected(t)
  <2>1. CASE Refuse(t)
    BY <1>3, <2>1 DEF Refuse, Statuses
  <2>2. CASE TargetMissing(t)
    BY <1>3, <2>2 DEF TargetMissing, Statuses
  <2>3. CASE WriteFails(t)
    BY <1>3, <2>3 DEF WriteFails, Statuses
  <2>4. CASE DeadlockDetected(t)
    BY <1>3, <2>4, WaitingSteps DEF DeadlockDetected, Statuses
  <2> QED BY <1>4, <2>1, <2>2, <2>3, <2>4
<1>5. CASE BulkScan(t)
  <2>1. pc' = [pc EXCEPT ![t] = "bulkRows"] /\ pc[t] = "bulk"
    BY <1>5 DEF BulkScan, Goto
  <2>2. todo' \in [Requests -> SUBSET Ids]
    BY <1>1, <1>5 DEF BulkScan, ActiveIds
  <2>3. OwnSteps(t)' /\ TargetHeld(t)'
    BY <1>1, <1>2, <1>5, <2>1 DEF BulkScan, Own, OwnSteps, TargetHeld, Late
  <2> QED BY <1>1, <1>5, <2>1, <2>2, <2>3, QuietStep DEF BulkScan, Steps
<1>6. CASE TriggerScan(t)
  <2>1. pc' = [pc EXCEPT ![t] = "triggerRows"] /\ pc[t] = "trigger"
    BY <1>6 DEF TriggerScan, Goto
  <2>2. todo' \in [Requests -> SUBSET Ids]
    BY <1>1, <1>6 DEF TriggerScan, ActiveIds
  <2>3. OwnSteps(t)' /\ TargetHeld(t)'
    BY <1>1, <1>2, <1>6, <2>1 DEF TriggerScan, Own, OwnSteps, TargetHeld, Late, Target, Live
  <2> QED BY <1>1, <1>6, <2>1, <2>2, <2>3, QuietStep DEF TriggerScan, Steps
<1>7. CASE RowsDone(t)
  <2>1. CASE pc[t] = "bulkRows"
    <3>1. pc' = [pc EXCEPT ![t] = "target"]
      BY <1>7, <2>1 DEF RowsDone, Goto
    <3>2. OwnSteps(t)' /\ TargetHeld(t)'
      BY <1>1, <1>2, <1>7, <2>1, <3>1 DEF RowsDone, Own, OwnSteps, TargetHeld, Late
    <3> QED BY <1>1, <1>7, <2>1, <3>1, <3>2, QuietStep DEF RowsDone, Steps
  <2>2. CASE pc[t] = "triggerRows"
    <3>1. pc' = [pc EXCEPT ![t] = "write"]
      BY <1>7, <2>2 DEF RowsDone, Goto
    <3>2. OwnSteps(t)' /\ TargetHeld(t)'
      BY <1>1, <1>2, <1>7, <2>2, <3>1 DEF RowsDone, Own, OwnSteps, TargetHeld, Late, Target, Live
    <3> QED BY <1>1, <1>7, <2>2, <3>1, <3>2, QuietStep DEF RowsDone, Steps
  <2> QED BY <1>7, <2>1, <2>2 DEF RowsDone
<1> QED BY <1>4, <1>5, <1>6, <1>7

-----------------------------------------------------------------------------
(***************************************************************************)
(* Steps that lock and write                                               *)
(***************************************************************************)
\* The lock of a row another transaction has written is held by it.
LEMMA OthersWrites ==
  ASSUME StoreInv, NEW t \in Requests, NEW u \in Requests \ {t}, NEW i \in Ids,
         ~LockedByOther(t, i)
  PROVE  ~Wrote(u, i)
<1>1. lock[i] # u
  BY MarksAssumption DEF LockedByOther
<1>2. Wrote(u, i) => lock[i] = u
  BY DEF StoreInv, Own, WritesLocked
<1> QED BY <1>1, <1>2

\* A transaction that takes a free lock takes none from the others.
LEMMA OthersKeep ==
  ASSUME StoreInv, NEW t \in Requests, NEW u \in Requests \ {t}, NEW i \in Ids,
         ~LockedByOther(t, i), UNCHANGED <<db, op>>,
         lock' = [lock EXCEPT ![i] = t] \/ lock' = lock,
         written'[u] = written[u], pc'[u] = pc[u]
  PROVE  Own(u)'
<1>1. Own(u) /\ lock \in [Ids -> Requests \union {Nobody}] /\ Target(u) \in Ids
  BY Targets DEF StoreInv, TypeOK
<1>2. lock[i] # u
  BY MarksAssumption DEF LockedByOther
<1>3. \A j \in Ids : lock[j] = u => lock'[j] = u
  BY <1>1, <1>2
<1>4. OwnSteps(u)' /\ TargetFree(u)'
  BY <1>1 DEF Own, OwnSteps, TargetFree, Target
<1>5. TargetHeld(u)'
  BY <1>1, <1>3 DEF Own, TargetHeld, Target, Live
<1>6. WritesLocked(u)'
  BY <1>1, <1>3 DEF Own, WritesLocked, Wrote, Target, Live
<1> QED BY <1>4, <1>5, <1>6 DEF Own

\* Locking the target preserves the invariant.
LEMMA LockTargetStep ==
  ASSUME StoreInv, NEW t \in Requests, LockTarget(t)
  PROVE  StoreInv'
<1>1. /\ pc \in [Requests -> Steps] /\ lock \in [Ids -> Requests \union {Nobody}]
      /\ Target(t) \in Ids /\ Own(t)
  BY Targets DEF StoreInv, TypeOK
<1>2. PICK s \in {"trigger", "write"} : pc' = [pc EXCEPT ![t] = s]
  BY DEF LockTarget, Goto
<1>3. /\ lock' = [lock EXCEPT ![Target(t)] = t]
      /\ pc[t] = "target" /\ ~LockedByOther(t, Target(t)) /\ Live(Seen(t, Target(t)))
      /\ UNCHANGED <<db, written, op, todo, status, risen>>
  BY DEF LockTarget, TakeLock
<1>4. op[t].kind \notin {"create", "delete"}
  BY <1>1, <1>3 DEF Own, OwnSteps
<1>5. TypeOK'
  BY <1>1, <1>2, <1>3 DEF StoreInv, TypeOK, Steps
<1>6. UniqueRows' /\ NoClash' /\ FreshIds'
  BY <1>3 DEF StoreInv, UniqueRows, NoClash, FreshIds, Wrote, Target, Live, Clash
<1>7. Own(t)'
  <2>1. OwnSteps(t)' /\ TargetFree(t)'
    BY <1>1, <1>2, <1>3, <1>4 DEF OwnSteps, TargetFree, Late
  <2>2. WritesLocked(t)'
    BY <1>1, <1>3 DEF Own, WritesLocked, Wrote, Target, Live
  <2>3. Live(db[Target(t)])
    BY <1>1, <1>3, <1>4 DEF Own, WritesLocked, Seen
  <2>4. TargetHeld(t)'
    BY <1>1, <1>3, <2>3 DEF TargetHeld, Target, Live
  <2> QED BY <2>1, <2>2, <2>4 DEF Own
<1>8. ASSUME NEW u \in Requests \ {t}
      PROVE  Own(u)'
  BY <1>1, <1>2, <1>3, OthersKeep
<1> QED BY <1>5, <1>6, <1>7, <1>8 DEF StoreInv

\* A row written with a key that no other version of another row has
\* preserves the absence of clashes.
LEMMA WriteOne ==
  ASSUME StoreInv, NEW t \in Requests, NEW i \in Ids, NEW new \in Row,
         db' = db, written' = [written EXCEPT ![t][i] = new],
         \A j \in Ids \ {i} : ~Wrote(t, j) => ~Clash(new, db[j]),
         \A u \in Requests, j \in Ids \ {i} : Wrote(u, j) => ~Clash(new, written[u][j]),
         \A u \in Requests \ {t} : ~Wrote(u, i)
  PROVE  NoClash'
<1>1. written \in [Requests -> [Ids -> Row \union {Untouched}]] /\ new # Untouched
  BY LiveRows DEF StoreInv, TypeOK
<1>2. /\ written'[t][i] = new
      /\ \A u \in Requests, j \in Ids : u # t \/ j # i => written'[u][j] = written[u][j]
  BY <1>1
<1>3. ASSUME NEW u \in Requests, NEW j \in Ids, NEW k \in Ids, j # k,
             Wrote(u, j)', ~Wrote(u, k)'
      PROVE  ~Clash(written[u][j], db[k])'
  <2>1. CASE u = t /\ j = i
    <3>1. ~Wrote(t, k)
      BY <1>2, <1>3, <2>1 DEF Wrote
    <3> QED BY <1>2, <1>3, <2>1, <3>1 DEF Clash, Live
  <2>2. CASE u # t \/ j # i
    <3>1. Wrote(u, j) /\ ~Wrote(u, k)
      BY <1>1, <1>2, <1>3, <2>2 DEF Wrote
    <3>2. ~Clash(written[u][j], db[k])
      BY <1>3, <3>1 DEF StoreInv, NoClash
    <3> QED BY <1>2, <2>2, <3>2 DEF Clash, Live
  <2> QED BY <2>1, <2>2
<1>4. ASSUME NEW u \in Requests, NEW v \in Requests, NEW j \in Ids, NEW k \in Ids,
             j # k, Wrote(u, j)', Wrote(v, k)'
      PROVE  ~Clash(written[u][j], written[v][k])'
  <2>1. CASE u = t /\ j = i
    <3>1. Wrote(v, k) /\ written'[v][k] = written[v][k]
      BY <1>2, <1>4, <2>1 DEF Wrote
    <3> QED BY <1>2, <1>4, <2>1, <3>1 DEF Clash, Live
  <2>2. CASE v = t /\ k = i
    <3>1. Wrote(u, j) /\ written'[u][j] = written[u][j]
      BY <1>2, <1>4, <2>2 DEF Wrote
    <3>2. ~Clash(new, written[u][j])
      BY <1>4, <2>2, <3>1
    <3>3. written[u][j] \in Row
      BY <3>1, WrittenRows DEF StoreInv
    <3>4. ~Clash(written[u][j], new)
      BY <3>2, <3>3, ClashSymmetric
    <3> QED BY <1>2, <2>2, <3>1, <3>4 DEF Clash, Live
  <2>3. CASE (u # t \/ j # i) /\ (v # t \/ k # i)
    <3>1. Wrote(u, j) /\ Wrote(v, k)
      BY <1>2, <1>4, <2>3 DEF Wrote
    <3>2. ~Clash(written[u][j], written[v][k])
      BY <1>4, <3>1 DEF StoreInv, NoClash
    <3> QED BY <1>2, <2>3, <3>2 DEF Clash, Live
  <2> QED BY <2>1, <2>2, <2>3
<1> QED BY <1>3, <1>4 DEF NoClash

\* Deactivating one row preserves the invariant.
LEMMA DeactivateRowStep ==
  ASSUME StoreInv, NEW t \in Requests, DeactivateRow(t)
  PROVE  StoreInv'
<1>1. /\ pc \in [Requests -> Steps] /\ lock \in [Ids -> Requests \union {Nobody}]
      /\ todo \in [Requests -> SUBSET Ids]
      /\ written \in [Requests -> [Ids -> Row \union {Untouched}]]
      /\ Target(t) \in Ids /\ Own(t)
  BY Targets DEF StoreInv, TypeOK
<1>2. PICK i \in todo[t] :
        /\ ~LockedByOther(t, i)
        /\ todo' = [todo EXCEPT ![t] = @ \ {i}]
        /\ IF Live(db[i]) THEN TakeLock(t, i) ELSE UNCHANGED lock
        /\ IF Active(Seen(t, i))
           THEN written' = [written EXCEPT ![t][i] = [Seen(t, i) EXCEPT !.active = FALSE]]
           ELSE UNCHANGED written
  BY DEF DeactivateRow
<1>3. /\ pc[t] \in {"bulkRows", "triggerRows"} /\ UNCHANGED <<db, op, pc, status, risen>>
      /\ i \in Ids
  BY <1>1, <1>2 DEF DeactivateRow
<1>4. lock' = [lock EXCEPT ![i] = t] \/ lock' = lock
  BY <1>2 DEF TakeLock
<1>5. op[t].kind # "delete"
  BY <1>1, <1>3 DEF Own, OwnSteps, Late
<1>6. FreshIds' /\ UniqueRows'
  BY <1>3 DEF StoreInv, FreshIds, UniqueRows, Target, Live
<1>7. ASSUME NEW u \in Requests \ {t}
      PROVE  Own(u)'
  <2>1. written'[u] = written[u]
    BY <1>1, <1>2
  <2> QED BY <1>2, <1>3, <1>4, <2>1, OthersKeep
<1>8. OwnSteps(t)' /\ TargetHeld(t)' /\ TargetFree(t)'
  BY <1>1, <1>2, <1>3, <1>4 DEF Own, OwnSteps, TargetHeld, TargetFree, Target, Live
<1>9. /\ lock' \in [Ids -> Requests \union {Nobody}] /\ todo' \in [Requests -> SUBSET Ids]
      /\ \A j \in Ids : lock[j] = t => lock'[j] = t
  BY <1>1, <1>2, <1>3, <1>4
<1>10. CASE Active(Seen(t, i))
  <2> DEFINE new == [Seen(t, i) EXCEPT !.active = FALSE]
  <2>1. Seen(t, i) \in Row /\ written' = [written EXCEPT ![t][i] = new]
    BY <1>2, <1>3, <1>10, SeenRows DEF Active, StoreInv
  <2>2. new \in Row /\ new.name = Seen(t, i).name /\ new.active = FALSE
    BY <2>1 DEF Row
  <2> HIDE DEF new
  <2>3. TypeOK'
    <3>1. written' \in [Requests -> [Ids -> Row \union {Untouched}]]
      BY <1>1, <1>3, <2>1, <2>2
    <3> QED BY <1>3, <1>9, <3>1 DEF StoreInv, TypeOK
  <2>4. lock'[i] = t
    BY <1>1, <1>2, <1>3, <1>9, <1>10 DEF Active, Seen, Own, WritesLocked, TakeLock
  <2>5. Live(db[i]) \/ (op[t].kind = "create" /\ i = Target(t))
    BY <1>1, <1>3, <1>10 DEF Active, Seen, Own, WritesLocked
  <2>6. \A j \in Ids \ {i} : Wrote(t, j)' <=> Wrote(t, j)
    BY <1>1, <2>1 DEF Wrote
  <2>7. WritesLocked(t)'
    BY <1>1, <1>3, <1>5, <1>9, <2>4, <2>5, <2>6 DEF Own, WritesLocked, Target, Live
  <2>8. \A u \in Requests \ {t} : ~Wrote(u, i)
    BY <1>2, <1>3, OthersWrites
  <2>9. ASSUME NEW j \in Ids \ {i}, ~Wrote(t, j), Clash(new, db[j])
        PROVE  FALSE
    <3>1. Live(db[j]) /\ db[j].name = Seen(t, i).name
      BY <2>2, <2>9 DEF Clash
    <3>2. CASE Wrote(t, i)
      BY <1>3, <2>9, <3>1, <3>2 DEF StoreInv, NoClash, Clash, Seen
    <3>3. CASE ~Wrote(t, i)
      BY <1>3, <1>10, <3>1, <3>3 DEF StoreInv, UniqueRows, Active, Seen
    <3> QED BY <3>2, <3>3
  <2>10. ASSUME NEW u \in Requests, NEW j \in Ids \ {i}, Wrote(u, j),
                Clash(new, written[u][j])
         PROVE  FALSE
    <3>1. written[u][j].name = Seen(t, i).name /\ written[u][j] \in Row
      BY <2>2, <2>10, WrittenRows DEF Clash, StoreInv
    <3>2. CASE Wrote(t, i)
      <4>1. ~Clash(written[u][j], written[t][i])
        BY <1>3, <2>10, <3>2 DEF StoreInv, NoClash
      <4> QED BY <1>10, <3>1, <3>2, <4>1 DEF Clash, Seen, Active
    <3>3. CASE ~Wrote(t, i)
      <4>1. ~Wrote(u, i)
        BY <2>8, <3>3
      <4>2. ~Clash(written[u][j], db[i])
        BY <1>3, <2>10, <4>1 DEF StoreInv, NoClash
      <4> QED BY <1>10, <3>1, <3>3, <4>2 DEF Clash, Seen, Active
    <3> QED BY <3>2, <3>3
  <2>11. NoClash'
    BY <1>3, <2>1, <2>2, <2>8, <2>9, <2>10, WriteOne
  <2> QED BY <1>6, <1>7, <1>8, <2>3, <2>7, <2>11 DEF StoreInv, Own
<1>11. CASE ~Active(Seen(t, i))
  <2>1. written' = written
    BY <1>2, <1>11
  <2>2. TypeOK' /\ NoClash'
    BY <1>3, <1>9, <2>1 DEF StoreInv, TypeOK, NoClash, Wrote, Clash, Live
  <2>3. WritesLocked(t)'
    BY <1>1, <1>3, <1>9, <2>1 DEF Own, WritesLocked, Wrote, Target, Live
  <2> QED BY <1>6, <1>7, <1>8, <2>2, <2>3 DEF StoreInv, Own
<1> QED BY <1>10, <1>11

\* Writing the target preserves the invariant: the index check has waited
\* for the writers of clashing rows and found no clash.
LEMMA WriteStep ==
  ASSUME StoreInv, NEW t \in Requests, Write(t)
  PROVE  StoreInv'
<1> DEFINE i == Target(t)
           new == NewRow(t)
<1>1. /\ pc \in [Requests -> Steps] /\ lock \in [Ids -> Requests \union {Nobody}]
      /\ written \in [Requests -> [Ids -> Row \union {Untouched}]]
      /\ i \in Ids /\ Own(t) /\ op[t].kind # "delete"
  BY Targets DEF StoreInv, TypeOK, Write, Own, OwnSteps, Late
<1>2. /\ pc[t] = "write" /\ Writers(t) = {} /\ ~DuplicateKey(t)
      /\ written' = [written EXCEPT ![t][i] = new]
      /\ lock' = [lock EXCEPT ![i] = t]
      /\ pc' = [pc EXCEPT ![t] = "answered"] /\ status' = [status EXCEPT ![t] = "2xx"]
      /\ UNCHANGED <<db, op, todo, risen>>
  BY DEF Write, TakeLock, Answer, Goto
<1>4. op[t].kind # "create" => lock[i] = t /\ Live(db[i])
  BY <1>1, <1>2 DEF Own, TargetHeld, Late
<1>5. op[t].kind = "create" => db[i] = Unborn
  BY <1>1, <1>2 DEF Own, TargetFree
<1>6. new \in Row
  <2>1. op[t].kind # "create" => Live(Seen(t, i))
    BY <1>1, <1>4, LiveRows, WrittenRows DEF Seen, StoreInv
  <2> QED BY <2>1, NewRows DEF StoreInv
<1> HIDE DEF new
<1>7. TypeOK'
  <2>1. written' \in [Requests -> [Ids -> Row \union {Untouched}]]
    BY <1>1, <1>2, <1>6
  <2>2. lock' \in [Ids -> Requests \union {Nobody}]
    BY <1>1, <1>2
  <2> QED BY <1>2, <2>1, <2>2 DEF StoreInv, TypeOK, Steps, Statuses
<1>8. FreshIds' /\ UniqueRows'
  BY <1>2 DEF StoreInv, FreshIds, UniqueRows, Target, Live
<1>9. ASSUME NEW u \in Requests \ {t}
      PROVE  ~Wrote(u, i) /\ ~(pc[u] \in Late /\ op[u].kind # "create" /\ Target(u) = i)
  <2>1. Own(u)
    BY DEF StoreInv
  <2>2. CASE op[t].kind = "create"
    <3>1. ~Live(db[i])
      BY <1>5, <2>2 DEF Live
    <3>2. ~(op[u].kind = "create" /\ Target(u) = i)
      BY <2>2 DEF StoreInv, FreshIds
    <3> QED BY <1>1, <2>1, <3>1, <3>2 DEF Own, WritesLocked, TargetHeld
  <2>3. CASE op[t].kind # "create"
    BY <1>1, <1>4, <2>1, <2>3 DEF Own, WritesLocked, TargetHeld
  <2> QED BY <2>2, <2>3
<1>10. ASSUME NEW u \in Requests \ {t}
       PROVE  Own(u)'
  <2>1. Own(u) /\ written'[u] = written[u] /\ pc'[u] = pc[u] /\ Target(u) \in Ids
    BY <1>1, <1>2, Targets DEF StoreInv
  <2>2. OwnSteps(u)' /\ TargetFree(u)'
    BY <1>2, <2>1 DEF Own, OwnSteps, TargetFree, Target
  <2>3. \A j \in Ids \ {i} : lock'[j] = lock[j]
    BY <1>1, <1>2
  <2>4. TargetHeld(u)'
    BY <1>2, <1>9, <2>1, <2>3 DEF Own, TargetHeld, Target, Live
  <2>5. WritesLocked(u)'
    BY <1>2, <1>9, <2>1, <2>3 DEF Own, WritesLocked, Wrote, Target, Live
  <2> QED BY <2>2, <2>4, <2>5 DEF Own
<1>11. Own(t)'
  <2>1. pc'[t] = "answered" /\ lock'[i] = t /\ \A j \in Ids : lock[j] = t => lock'[j] = t
    BY <1>1, <1>2
  <2>2. OwnSteps(t)' /\ TargetHeld(t)'
    BY <2>1 DEF OwnSteps, TargetHeld, Late
  <2>3. TargetFree(t)'
    BY <1>2, <1>5 DEF TargetFree, Target
  <2>4. \A j \in Ids \ {i} : Wrote(t, j)' <=> Wrote(t, j)
    BY <1>1, <1>2 DEF Wrote
  <2>5. WritesLocked(t)'
    BY <1>1, <1>2, <1>4, <2>1, <2>4 DEF Own, WritesLocked, Target, Live
  <2> QED BY <2>2, <2>3, <2>5 DEF Own
<1>12. ASSUME NEW j \in Ids \ {i}, ~Wrote(t, j)
       PROVE  ~Clash(new, db[j])
  <2>1. CASE \E u \in Requests \ {t} : Wrote(u, j)
    BY <1>2, <2>1 DEF Writers, new
  <2>2. CASE \A u \in Requests \ {t} : ~Wrote(u, j)
    BY <1>2, <1>12, <2>2 DEF DuplicateKey, Seen, new
  <2> QED BY <2>1, <2>2
<1>13. ASSUME NEW u \in Requests, NEW j \in Ids \ {i}, Wrote(u, j)
       PROVE  ~Clash(new, written[u][j])
  <2>1. CASE u # t
    BY <1>2, <1>13, <2>1 DEF Writers, new
  <2>2. CASE u = t
    <3>1. \A v \in Requests \ {t} : ~Wrote(v, j)
      BY <1>1, <1>13, <2>2 DEF StoreInv, Own, WritesLocked
    <3> QED BY <1>2, <1>13, <2>2, <3>1 DEF DuplicateKey, Seen, new
  <2> QED BY <2>1, <2>2
<1>14. NoClash'
  BY <1>1, <1>2, <1>6, <1>9, <1>12, <1>13, WriteOne
<1> QED BY <1>7, <1>8, <1>10, <1>11, <1>14 DEF StoreInv

\* A deletion preserves the invariant: no transaction has written or locked
\* the row it removes.
LEMMA PoolDeleteStep ==
  ASSUME StoreInv, NEW t \in Requests, PoolDelete(t)
  PROVE  StoreInv'
<1> DEFINE i == Target(t)
<1>1. /\ pc \in [Requests -> Steps] /\ lock \in [Ids -> Requests \union {Nobody}]
      /\ db \in [Ids -> Rows] /\ status \in [Requests -> Statuses]
      /\ i \in Ids /\ Own(t)
  BY Targets DEF StoreInv, TypeOK
<1>2. PICK code \in Statuses :
        pc' = [pc EXCEPT ![t] = "answered"] /\ status' = [status EXCEPT ![t] = code]
  BY DEF PoolDelete, Answer, Goto, Statuses
<1>3. /\ pc[t] = "poolDelete" /\ op[t].kind = "delete" /\ UNCHANGED <<written, lock, op, todo, risen>>
      /\ IF Live(db[i]) THEN ~LockedByOther(t, i) /\ db' = [db EXCEPT ![i] = Gone]
                        ELSE UNCHANGED db
  BY <1>1 DEF PoolDelete, Own, OwnSteps
<1>4. /\ \A j \in Ids : db'[j] = db[j] \/ (j = i /\ Live(db[i]) /\ db'[j] = Gone)
      /\ db' \in [Ids -> Rows]
  BY <1>1, <1>3 DEF Rows
<1>5. Live(db[i]) => lock[i] \in {t, Nobody}
  BY <1>3 DEF LockedByOther
<1>6. TypeOK'
  <2>1. pc' \in [Requests -> Steps] /\ status' \in [Requests -> Statuses]
    BY <1>1, <1>2 DEF Steps
  <2> QED BY <1>3, <1>4, <2>1 DEF StoreInv, TypeOK
<1>7. FreshIds'
  BY <1>3 DEF StoreInv, FreshIds, Target
<1>8. UniqueRows' /\ NoClash'
  <2>1. \A j \in Ids : Live(db'[j]) => db'[j] = db[j]
    BY <1>4 DEF Live
  <2>2. UniqueRows'
    BY <2>1 DEF StoreInv, UniqueRows, Live
  <2>3. NoClash'
    BY <1>3, <2>1 DEF StoreInv, NoClash, Wrote, Clash, Live
  <2> QED BY <2>2, <2>3
<1>9. ASSUME NEW u \in Requests
      PROVE  Own(u)'
  <2>1. Own(u) /\ Target(u) \in Ids
    BY Targets DEF StoreInv
  <2>2. OwnSteps(u)'
    BY <1>1, <1>2, <1>3, <2>1 DEF Own, OwnSteps, Late
  <2>3. TargetHeld(u)'
    <3>1. SUFFICES ASSUME pc'[u] \in Late, op[u].kind # "create"
                   PROVE  lock[Target(u)] = u /\ Live(db'[Target(u)])
      BY <1>3 DEF TargetHeld, Target, Live
    <3>2. u # t /\ pc[u] \in Late
      BY <1>1, <1>2, <3>1 DEF Late
    <3>3. lock[Target(u)] = u /\ Live(db[Target(u)])
      BY <2>1, <3>1, <3>2 DEF Own, TargetHeld
    <3> QED BY <1>4, <1>5, <2>1, <3>2, <3>3, MarksAssumption
  <2>4. TargetFree(u)'
    BY <1>1, <1>2, <1>3, <1>4, <2>1 DEF Own, TargetFree, Target, Live
  <2>5. WritesLocked(u)'
    <3>1. \A j \in Ids : Wrote(u, j) => u # t /\ lock[j] = u
      BY <1>3, <2>1 DEF Own, WritesLocked
    <3>2. \A j \in Ids : Wrote(u, j) => db'[j] = db[j]
      BY <1>4, <1>5, <3>1, MarksAssumption
    <3> QED BY <1>3, <2>1, <3>2 DEF Own, WritesLocked, Wrote, Target, Live
  <2> QED BY <2>2, <2>3, <2>4, <2>5 DEF Own
<1> QED BY <1>6, <1>7, <1>8, <1>9 DEF StoreInv

\* The end of a transaction preserves the invariant, whether what it has
\* written is committed or thrown away.
LEMMA ReleaseStep ==
  ASSUME StoreInv, NEW t \in Requests, Release(t),
         db' = db \/ db' = [i \in Ids |-> Seen(t, i)],
         status' \in [Requests -> Statuses]
  PROVE  StoreInv'
<1>1. /\ pc \in [Requests -> Steps] /\ lock \in [Ids -> Requests \union {Nobody}]
      /\ db \in [Ids -> Rows] /\ todo \in [Requests -> SUBSET Ids]
      /\ written \in [Requests -> [Ids -> Row \union {Untouched}]] /\ Own(t)
  BY DEF StoreInv, TypeOK
<1>2. /\ written' = [written EXCEPT ![t] = [i \in Ids |-> Untouched]]
      /\ lock' = [i \in Ids |-> IF lock[i] = t THEN Nobody ELSE lock[i]]
      /\ todo' = [todo EXCEPT ![t] = {}] /\ pc' = [pc EXCEPT ![t] = "done"] /\ op' = op
  BY DEF Release, Goto
<1>3. /\ \A i \in Ids : ~Wrote(t, i)'
      /\ \A u \in Requests \ {t} : written'[u] = written[u] /\ pc'[u] = pc[u]
      /\ \A i \in Ids : lock[i] # t => lock'[i] = lock[i]
  BY <1>1, <1>2 DEF Wrote
<1>4. /\ \A i \in Ids : db'[i] = db[i] \/ (Wrote(t, i) /\ db'[i] = written[t][i])
      /\ db' \in [Ids -> Rows]
  <2>1. \A i \in Ids : Wrote(t, i) => written[t][i] \in Rows
    BY WrittenRows DEF StoreInv, Rows
  <2> QED BY <1>1, <2>1 DEF Seen
<1>5. TypeOK'
  <2>1. written' \in [Requests -> [Ids -> Row \union {Untouched}]]
    BY <1>1, <1>2
  <2>2. lock' \in [Ids -> Requests \union {Nobody}] /\ pc' \in [Requests -> Steps]
    BY <1>1, <1>2 DEF Steps
  <2>3. todo' \in [Requests -> SUBSET Ids]
    BY <1>1, <1>2
  <2>4. risen' \in [Requests -> SUBSET Ids]
    <3>1. risen \in [Requests -> SUBSET Ids]
      BY DEF StoreInv, TypeOK
    <3> QED BY <3>1 DEF Release
  <2> QED BY <1>2, <1>4, <2>1, <2>2, <2>3, <2>4 DEF StoreInv, TypeOK
<1>6. FreshIds'
  BY <1>2 DEF StoreInv, FreshIds, Target
<1>7. UniqueRows'
  <2>1. CASE db' = db
    BY <2>1 DEF StoreInv, UniqueRows, Live
  <2>2. CASE db' = [i \in Ids |-> Seen(t, i)]
    <3>1. ASSUME NEW i \in Ids, NEW j \in Ids, i # j, Live(Seen(t, i)), Live(Seen(t, j))
          PROVE  ~Clash(Seen(t, i), Seen(t, j))
      <4>1. CASE Wrote(t, i)
        BY <3>1, <4>1 DEF StoreInv, NoClash, Seen
      <4>2. CASE ~Wrote(t, i) /\ Wrote(t, j)
        <5>1. ~Clash(Seen(t, j), Seen(t, i))
          BY <3>1, <4>2 DEF StoreInv, NoClash, Seen
        <5> QED BY <3>1, <5>1, SeenRows, ClashSymmetric DEF StoreInv
      <4>3. CASE ~Wrote(t, i) /\ ~Wrote(t, j)
        BY <3>1, <4>3 DEF StoreInv, UniqueRows, Seen, Clash
      <4> QED BY <4>1, <4>2, <4>3
    <3>2. \A i \in Ids : db'[i] = Seen(t, i)
      BY <2>2
    <3> QED BY <3>1, <3>2 DEF UniqueRows, Clash, Live
  <2> QED BY <2>1, <2>2
<1>8. NoClash'
  <2>1. ASSUME NEW u \in Requests, NEW i \in Ids, NEW j \in Ids,
               i # j, Wrote(u, i)', ~Wrote(u, j)'
        PROVE  ~Clash(written[u][i], db[j])'
    <3>1. u # t /\ Wrote(u, i) /\ ~Wrote(u, j) /\ written'[u] = written[u]
      BY <1>3, <2>1 DEF Wrote
    <3>2. ~Clash(written[u][i], db'[j])
      BY <1>4, <2>1, <3>1 DEF StoreInv, NoClash
    <3> QED BY <3>1, <3>2 DEF Clash, Live
  <2>2. ASSUME NEW u \in Requests, NEW v \in Requests, NEW i \in Ids, NEW j \in Ids,
               i # j, Wrote(u, i)', Wrote(v, j)'
        PROVE  ~Clash(written[u][i], written[v][j])'
    <3>1. /\ Wrote(u, i) /\ Wrote(v, j)
          /\ written'[u] = written[u] /\ written'[v] = written[v]
      BY <1>3, <2>2 DEF Wrote
    <3>2. ~Clash(written[u][i], written[v][j])
      BY <2>2, <3>1 DEF StoreInv, NoClash
    <3> QED BY <3>1, <3>2 DEF Clash, Live
  <2> QED BY <2>1, <2>2 DEF NoClash
<1>9. ASSUME NEW u \in Requests \ {t}
      PROVE  Own(u)'
  <2>1. Own(u) /\ Target(u) \in Ids
    BY Targets DEF StoreInv
  <2>2. \A i \in Ids : lock[i] = u => lock'[i] = u /\ db'[i] = db[i]
    BY <1>1, <1>3, <1>4 DEF Own, WritesLocked
  <2>3. OwnSteps(u)'
    BY <1>2, <1>3, <2>1 DEF Own, OwnSteps
  <2>4. TargetHeld(u)'
    BY <1>2, <1>3, <2>1, <2>2 DEF Own, TargetHeld, Target, Live
  <2>5. WritesLocked(u)'
    BY <1>2, <1>3, <2>1, <2>2 DEF Own, WritesLocked, Wrote, Target, Live
  <2>6. TargetFree(u)'
    <3>1. SUFFICES ASSUME op[u].kind = "create", pc[u] # "done"
                   PROVE  db'[Target(u)] = Unborn
      BY <1>2, <1>3 DEF TargetFree, Target
    <3>2. db[Target(u)] = Unborn
      BY <2>1, <3>1 DEF Own, TargetFree
    <3>3. ~Wrote(t, Target(u))
      BY <1>1, <2>1, <3>1, <3>2 DEF StoreInv, FreshIds, Own, WritesLocked, Live
    <3> QED BY <1>4, <2>1, <3>2, <3>3
  <2> QED BY <2>3, <2>4, <2>5, <2>6 DEF Own
<1>10. Own(t)'
  <2>1. pc'[t] = "done"
    BY <1>1, <1>2
  <2> QED BY <1>3, <2>1 DEF Own, OwnSteps, WritesLocked, TargetHeld, TargetFree, Late
<1> QED BY <1>5, <1>6, <1>7, <1>8, <1>9, <1>10 DEF StoreInv

-----------------------------------------------------------------------------
(***************************************************************************)
(* The invariant                                                           *)
(***************************************************************************)
\* The invariant holds in every table the indexes allow, with requests that
\* have not begun.
LEMMA StoreInit == Init => StoreInv
<1> SUFFICES ASSUME Init PROVE StoreInv
  OBVIOUS
<1>1. TypeOK
  BY DEF Init, TypeOK, Rows, Steps, Statuses
<1>2. /\ \A t \in Requests : pc[t] = "start"
      /\ \A t \in Requests, i \in Ids : ~Wrote(t, i)
  BY DEF Init, Wrote
<1>3. UniqueRows /\ FreshIds
  BY DEF Init, FreshIds, Target
<1>4. NoClash
  BY <1>2 DEF NoClash
<1>5. ASSUME NEW t \in Requests
      PROVE  Own(t)
  <2>1. TargetFree(t)
    BY DEF Init, TargetFree, Target
  <2> QED BY <1>2, <2>1 DEF Own, OwnSteps, WritesLocked, TargetHeld, Late
<1> QED BY <1>1, <1>3, <1>4, <1>5 DEF StoreInv

\* Every step preserves the invariant.
LEMMA StoreStep == StoreInv /\ [Next]_vars => StoreInv'
<1> SUFFICES ASSUME StoreInv, [Next]_vars PROVE StoreInv'
  OBVIOUS
<1>1. CASE UNCHANGED vars
  <2>1. UNCHANGED <<db, written, lock, op, pc, todo, status, risen>>
    BY <1>1 DEF vars
  <2>2. TypeOK' /\ FreshIds' /\ UniqueRows' /\ NoClash'
    BY <2>1 DEF StoreInv, TypeOK, FreshIds, UniqueRows, NoClash, Target, Wrote, Clash, Live
  <2>3. \A t \in Requests : Own(t)'
    BY <2>1 DEF StoreInv, Own, OwnSteps, WritesLocked, TargetHeld, TargetFree,
                Target, Wrote, Live
  <2> QED BY <2>2, <2>3 DEF StoreInv
<1>2. ASSUME NEW t \in Requests, Handle(t) \/ Refuse(t) \/ CommitLost(t) \/ Cancel(t)
      PROVE  StoreInv'
  <2>1. CASE Commit(t)
    BY <2>1, ReleaseStep DEF Commit, StoreInv, TypeOK
  <2>2. CASE Rollback(t)
    BY <2>2, ReleaseStep DEF Rollback, StoreInv, TypeOK
  <2>3. CASE CommitLost(t)
    BY <2>3, ReleaseStep DEF CommitLost, StoreInv, TypeOK
  <2>4. CASE Cancel(t)
    BY <2>4, ReleaseStep DEF Cancel, StoreInv, TypeOK, Statuses
  <2> QED
    BY <1>2, <2>1, <2>2, <2>3, <2>4, BeginStep, QuietSteps, LockTargetStep,
       DeactivateRowStep, WriteStep, PoolDeleteStep DEF Handle
<1> QED BY <1>1, <1>2 DEF Next, AllDone

\* The invariant holds in every reachable state.
LEMMA StoreInvariant == Spec => []StoreInv
BY StoreInit, StoreStep, PTL DEF Spec

\* The table, the locks and the transactions of any overlapping requests
\* stay what they should be: in particular every row written is a row, since
\* no statement updates a row that is not there.
THEOREM StoreTypeCorrect == Spec => []TypeOK
<1>1. StoreInv => TypeOK
  BY DEF StoreInv
<1> QED BY <1>1, StoreInvariant, PTL

\* However many requests overlap, and whichever are cancelled or lost, no two
\* schedules of the user are active and no two have the same name.
THEOREM UniqueRowsHolds == Spec => []UniqueRows
<1>1. StoreInv => UniqueRows
  BY DEF StoreInv
<1> QED BY <1>1, StoreInvariant, PTL
=============================================================================
