------------------------ MODULE ScheduleStoreRefinement ------------------------
(***************************************************************************)
(* Module ScheduleStore implements module ActiveSchedules: each request    *)
(* takes its whole effect at one instant, or none.  The invariant it needs *)
(* also shows how the active schedule changes, and when an activation is   *)
(* refused.                                                                *)
(***************************************************************************)
EXTENDS ScheduleStore_proofs

\* t has deactivated row i, which is active for everybody else
Deactivated(t, i) ==
  /\ db[i] \in Row /\ db[i].active
  /\ written[t][i] = [db[i] EXCEPT !.active = FALSE]

\* only a request that makes its target active deactivates others
Wakening(t) ==
  /\ pc[t] \in {"trigger", "triggerRows"} => Assigned(t).active = TRUE
  /\ pc[t] = "triggerRows" => Target(t) \notin todo[t]
  /\ \A i \in Ids \ {Target(t)} : Wrote(t, i) => Deactivated(t, i) /\ Assigned(t).active = TRUE

\* before the target is written, only SetActive's first statement touches it
TargetPending(t) ==
  pc[t] # "answered" /\ Wrote(t, Target(t)) =>
    op[t].kind = "setActive" /\ Deactivated(t, Target(t))

\* a request answered 2xx has made of its target what it was asked to
TargetWritten(t) ==
  pc[t] = "answered" /\ status[t] = "2xx" /\ op[t].kind # "delete" =>
    /\ Wrote(t, Target(t))
    /\ written[t][Target(t)] = Promise!Asked(op[t], db[Target(t)])

EffectOf(t) == Wakening(t) /\ TargetPending(t) /\ TargetWritten(t)

EffectInv == \A t \in Requests : EffectOf(t)

-----------------------------------------------------------------------------
(***************************************************************************)
(* What a request asks for                                                 *)
(***************************************************************************)
\* Two rows with the same columns are the same row.
LEMMA SameRow ==
  ASSUME NEW a \in Row, NEW b \in Row,
         a.name = b.name, a.active = b.active, a.archived = b.archived
  PROVE  a = b
BY DEF Row

\* The columns of the row asked for, operation by operation.
LEMMA AskedColumns ==
  ASSUME NEW o \in Op, NEW row, o.kind # "delete",
         row \in Row \/ o.kind = "create", o.kind = "create" => o.set.name \in Names,
         NEW new, new = Promise!Asked(o, row)
  PROVE  /\ new \in Row
         /\ o.kind = "create" =>
              new.name = o.set.name /\ new.active = TRUE /\ new.archived = FALSE
         /\ o.kind = "setActive" =>
              new.name = row.name /\ new.active = TRUE /\ new.archived = row.archived
         /\ o.kind = "archive" =>
              new.name = row.name /\ new.active = FALSE /\ new.archived = TRUE
         /\ o.kind = "unarchive" =>
              new.name = row.name /\ new.active = row.active /\ new.archived = FALSE
         /\ o.kind = "update" =>
              /\ new.name = IF o.set.name = Kept THEN row.name ELSE o.set.name
              /\ new.active = IF o.set.active = Kept THEN row.active ELSE o.set.active
              /\ new.archived = IF o.set.archived = Kept THEN row.archived
                                                         ELSE o.set.archived
<1>1. CASE o.kind = "create"
  <2>1. new = [name |-> o.set.name, active |-> TRUE, archived |-> FALSE]
    BY <1>1 DEF Promise!Asked
  <2> QED BY <1>1, <2>1 DEF Row
<1>2. CASE o.kind = "setActive"
  <2>1. new = [row EXCEPT !.active = TRUE]
    BY <1>2 DEF Promise!Asked
  <2> QED BY <1>2, <2>1 DEF Row
<1>3. CASE o.kind = "archive"
  <2>1. new = [row EXCEPT !.archived = TRUE, !.active = FALSE]
    BY <1>3 DEF Promise!Asked
  <2> QED BY <1>3, <2>1 DEF Row
<1>4. CASE o.kind = "unarchive"
  <2>1. new = [row EXCEPT !.archived = FALSE]
    BY <1>4 DEF Promise!Asked
  <2> QED BY <1>4, <2>1 DEF Row
<1>5. CASE o.kind = "update"
  <2>1. new = [c \in DOMAIN row |-> IF o.set[c] = Kept THEN row[c] ELSE o.set[c]]
    BY <1>5 DEF Promise!Asked
  <2>2. DOMAIN row = {"name", "active", "archived"}
    BY <1>5 DEF Row
  <2>3. /\ new.name = IF o.set.name = Kept THEN row.name ELSE o.set.name
        /\ new.active = IF o.set.active = Kept THEN row.active ELSE o.set.active
        /\ new.archived = IF o.set.archived = Kept THEN row.archived ELSE o.set.archived
    BY <2>1, <2>2
  <2>4. new = [name |-> new.name, active |-> new.active, archived |-> new.archived]
    BY <2>1, <2>2
  <2>5. row.name \in Names /\ row.active \in BOOLEAN /\ row.archived \in BOOLEAN
    BY <1>5 DEF Row
  <2>6. /\ o.set.name \in Names \union {Kept}
        /\ o.set.active \in BOOLEAN \union {Kept}
        /\ o.set.archived \in BOOLEAN \union {Kept}
    BY DEF Op, Assignment
  <2>7. new.name \in Names /\ new.active \in BOOLEAN /\ new.archived \in BOOLEAN
    BY <2>3, <2>5, <2>6
  <2>8. new \in Row
    BY <2>4, <2>7 DEF Row
  <2> QED BY <1>5, <2>3, <2>8
<1> QED BY <1>1, <1>2, <1>3, <1>4, <1>5 DEF Op, Kinds

\* What the statement of a request sets is_active to.
LEMMA AssignedActive ==
  ASSUME NEW t \in Requests
  PROVE  /\ op[t].kind \in {"create", "setActive"} => Assigned(t).active = TRUE
         /\ op[t].kind = "archive" => Assigned(t).active = FALSE
         /\ op[t].kind = "unarchive" => Assigned(t).active = Kept
         /\ op[t].kind = "update" => Assigned(t).active = op[t].set.active
<1>1. CASE op[t].kind = "create"
  <2>1. Assigned(t) = [name |-> op[t].set.name, active |-> TRUE, archived |-> FALSE]
    BY <1>1 DEF Assigned
  <2> QED BY <1>1, <2>1
<1>2. CASE op[t].kind = "setActive"
  <2>1. Assigned(t) = [name |-> Kept, active |-> TRUE, archived |-> Kept]
    BY <1>2 DEF Assigned
  <2> QED BY <1>2, <2>1
<1>3. CASE op[t].kind = "archive"
  <2>1. Assigned(t) = [name |-> Kept, active |-> FALSE, archived |-> TRUE]
    BY <1>3 DEF Assigned
  <2> QED BY <1>3, <2>1
<1>4. CASE op[t].kind = "unarchive"
  <2>1. Assigned(t) = [name |-> Kept, active |-> Kept, archived |-> FALSE]
    BY <1>4 DEF Assigned
  <2> QED BY <1>4, <2>1
<1>5. CASE op[t].kind = "update"
  <2>1. Assigned(t) = op[t].set
    BY <1>5 DEF Assigned
  <2> QED BY <1>5, <2>1
<1> QED BY <1>1, <1>2, <1>3, <1>4, <1>5

\* The row a request is about to write is the one it was asked for.
LEMMA WritesAsked ==
  ASSUME StoreInv, NEW t \in Requests, EffectOf(t), pc[t] = "write"
  PROVE  NewRow(t) = Promise!Asked(op[t], db[Target(t)])
<1> DEFINE old == Seen(t, Target(t))
           row == db[Target(t)]
           set == Assigned(t)
<1>1. /\ op[t] \in Op /\ Target(t) \in Ids /\ Own(t) /\ op[t].kind # "delete"
      /\ op[t].kind \in Kinds /\ row \in Rows
  BY Targets DEF StoreInv, TypeOK, Own, OwnSteps, Late, Op
<1>2. op[t].kind # "create" => row \in Row
  BY <1>1, LiveRows DEF Own, TargetHeld, Late
<1>3. op[t].kind = "create" => op[t].set.name \in Names
  BY OpsAssumption DEF StoreInv, TypeOK
<1>4. CASE op[t].kind = "create"
  <2>1. set = [name |-> op[t].set.name, active |-> TRUE, archived |-> FALSE]
    BY <1>4 DEF Assigned
  <2>2. op[t].set.name # Kept /\ TRUE # Kept /\ FALSE # Kept
    BY <1>3, <1>4, MarksAssumption
  <2>3. NewRow(t) = [name |-> op[t].set.name, active |-> TRUE, archived |-> FALSE]
    BY <2>1, <2>2 DEF NewRow
  <2> QED BY <1>4, <2>3 DEF Promise!Asked
<1>5. CASE op[t].kind # "create"
  <2>1. /\ old \in Row /\ old.name = row.name /\ old.archived = row.archived
        /\ op[t].kind # "setActive" => old.active = row.active
    <3>1. CASE Wrote(t, Target(t))
      <4>1. old = [row EXCEPT !.active = FALSE] /\ op[t].kind = "setActive"
        BY <1>1, <3>1 DEF EffectOf, TargetPending, Deactivated, Seen
      <4> QED BY <1>2, <1>5, <4>1 DEF Row
    <3>2. CASE ~Wrote(t, Target(t))
      BY <1>2, <1>5, <3>2 DEF Seen
    <3> QED BY <3>1, <3>2
  <2>2. /\ NewRow(t) \in Row
        /\ NewRow(t).name = IF set.name = Kept THEN old.name ELSE set.name
        /\ NewRow(t).active = IF set.active = Kept THEN old.active ELSE set.active
        /\ NewRow(t).archived = IF set.archived = Kept THEN old.archived ELSE set.archived
    <3>1. NewRow(t) \in Row
      BY <2>1, LiveRows, NewRows DEF StoreInv
    <3> QED BY <3>1 DEF NewRow
  <2>3. /\ TRUE # Kept /\ FALSE # Kept
        /\ op[t].kind = "setActive" =>
             set.name = Kept /\ set.active = TRUE /\ set.archived = Kept
        /\ op[t].kind = "archive" =>
             set.name = Kept /\ set.active = FALSE /\ set.archived = TRUE
        /\ op[t].kind = "unarchive" =>
             set.name = Kept /\ set.active = Kept /\ set.archived = FALSE
        /\ op[t].kind = "update" => set = op[t].set
    <3>1. TRUE # Kept /\ FALSE # Kept
      BY MarksAssumption
    <3>2. CASE op[t].kind = "setActive"
      <4>1. set = [name |-> Kept, active |-> TRUE, archived |-> Kept]
        BY <3>2 DEF Assigned
      <4>2. set.name = Kept /\ set.active = TRUE /\ set.archived = Kept
        BY <4>1
      <4> HIDE DEF set
      <4> QED BY <3>1, <3>2, <4>2
    <3>3. CASE op[t].kind = "archive"
      <4>1. set = [name |-> Kept, active |-> FALSE, archived |-> TRUE]
        BY <3>3 DEF Assigned
      <4>2. set.name = Kept /\ set.active = FALSE /\ set.archived = TRUE
        BY <4>1
      <4> HIDE DEF set
      <4> QED BY <3>1, <3>3, <4>2
    <3>4. CASE op[t].kind = "unarchive"
      <4>1. set = [name |-> Kept, active |-> Kept, archived |-> FALSE]
        BY <3>4 DEF Assigned
      <4>2. set.name = Kept /\ set.active = Kept /\ set.archived = FALSE
        BY <4>1
      <4> HIDE DEF set
      <4> QED BY <3>1, <3>4, <4>2
    <3>5. CASE op[t].kind = "update"
      <4>1. set = op[t].set
        BY <3>5 DEF Assigned
      <4> QED BY <3>1, <3>5, <4>1
    <3> QED BY <1>1, <1>5, <3>1, <3>2, <3>3, <3>4, <3>5 DEF Kinds
  <2> DEFINE new == Promise!Asked(op[t], row)
  <2>4. /\ new \in Row
        /\ op[t].kind = "setActive" =>
             new.name = row.name /\ new.active = TRUE /\ new.archived = row.archived
        /\ op[t].kind = "archive" =>
             new.name = row.name /\ new.active = FALSE /\ new.archived = TRUE
        /\ op[t].kind = "unarchive" =>
             new.name = row.name /\ new.active = row.active /\ new.archived = FALSE
        /\ op[t].kind = "update" =>
             /\ new.name = IF op[t].set.name = Kept THEN row.name ELSE op[t].set.name
             /\ new.active = IF op[t].set.active = Kept THEN row.active ELSE op[t].set.active
             /\ new.archived = IF op[t].set.archived = Kept THEN row.archived
                                                            ELSE op[t].set.archived
    BY <1>1, <1>2, <1>5, AskedColumns
  <2> HIDE DEF old, set, row, new
  <2>5. new.name = NewRow(t).name /\ new.active = NewRow(t).active
          /\ new.archived = NewRow(t).archived
    <3>1. CASE op[t].kind = "setActive"
      BY <2>1, <2>2, <2>3, <2>4, <3>1
    <3>2. CASE op[t].kind = "archive"
      BY <2>1, <2>2, <2>3, <2>4, <3>2
    <3>3. CASE op[t].kind = "unarchive"
      BY <2>1, <2>2, <2>3, <2>4, <3>3
    <3>4. CASE op[t].kind = "update"
      BY <2>1, <2>2, <2>3, <2>4, <3>4
    <3> QED BY <1>1, <1>5, <3>1, <3>2, <3>3, <3>4 DEF Kinds
  <2>6. new = NewRow(t)
    BY <2>2, <2>4, <2>5, SameRow
  <2> QED BY <2>6 DEF new, row
<1> QED BY <1>4, <1>5

\* A request whose statement activates asks for an active row.
LEMMA AskedActive ==
  ASSUME TypeOK, NEW t \in Requests, Assigned(t).active = TRUE, op[t].kind # "delete",
         NEW row, row \in Row \/ op[t].kind = "create"
  PROVE  Promise!Asked(op[t], row).active
<1> DEFINE new == Promise!Asked(op[t], row)
<1>1. /\ op[t] \in Op /\ op[t].kind \in Kinds
      /\ op[t].kind = "create" => op[t].set.name \in Names
      /\ TRUE # Kept /\ FALSE # Kept
  BY Targets, OpsAssumption, MarksAssumption DEF TypeOK, Op
<1>2. /\ op[t].kind = "create" => new.active = TRUE
      /\ op[t].kind = "setActive" => new.active = TRUE
      /\ op[t].kind = "unarchive" => new.active = row.active
      /\ op[t].kind = "update" =>
           new.active = IF op[t].set.active = Kept THEN row.active ELSE op[t].set.active
  BY <1>1, AskedColumns
<1> SUFFICES new.active
  OBVIOUS
<1> HIDE DEF new
<1>3. op[t].kind \notin {"archive", "unarchive"}
  BY <1>1, AssignedActive
<1>4. CASE op[t].kind = "update"
  <2>1. op[t].set.active = TRUE
    BY <1>4, AssignedActive
  <2> QED BY <1>1, <1>2, <1>4, <2>1
<1>5. CASE op[t].kind \in {"create", "setActive"}
  BY <1>2, <1>5
<1> QED BY <1>1, <1>3, <1>4, <1>5 DEF Kinds

-----------------------------------------------------------------------------
(***************************************************************************)
(* What a transaction has written                                          *)
(***************************************************************************)
Step(t) == Handle(t) \/ Refuse(t) \/ CommitLost(t) \/ Cancel(t)

\* No step of one request changes what another has.
LEMMA OthersUnchanged ==
  ASSUME TypeOK, NEW u \in Requests, Step(u), NEW t \in Requests \ {u}
  PROVE  /\ op' = op /\ written'[t] = written[t] /\ pc'[t] = pc[t]
         /\ todo'[t] = todo[t] /\ status'[t] = status[t]
<1>1. /\ pc \in [Requests -> Steps] /\ todo \in [Requests -> SUBSET Ids]
      /\ status \in [Requests -> Statuses]
      /\ written \in [Requests -> [Ids -> Row \union {Untouched}]]
  BY DEF TypeOK
<1>2. CASE Refuse(u) \/ TargetMissing(u) \/ WriteFails(u) \/ DeadlockDetected(u)
  BY <1>1, <1>2 DEF Refuse, TargetMissing, WriteFails, DeadlockDetected, Answer, Goto
<1>3. CASE Begin(u)
  <2>1. PICK s : pc' = [pc EXCEPT ![u] = s]
    BY <1>3 DEF Begin, Goto
  <2> QED BY <1>1, <1>3, <2>1 DEF Begin
<1>4. CASE BulkScan(u) \/ TriggerScan(u) \/ RowsDone(u) \/ LockTarget(u)
  BY <1>1, <1>4 DEF BulkScan, TriggerScan, RowsDone, LockTarget, Goto
<1>5. CASE DeactivateRow(u)
  <2>1. PICK i \in todo[u] :
          /\ todo' = [todo EXCEPT ![u] = @ \ {i}]
          /\ \/ written' = [written EXCEPT ![u][i] = [Seen(u, i) EXCEPT !.active = FALSE]]
             \/ written' = written
    BY <1>5 DEF DeactivateRow
  <2> QED BY <1>1, <1>5, <2>1 DEF DeactivateRow
<1>6. CASE Write(u)
  BY <1>1, <1>6 DEF Write, Answer, Goto
<1>7. CASE PoolDelete(u)
  BY <1>1, <1>7 DEF PoolDelete, Answer, Goto
<1>8. CASE Commit(u) \/ Rollback(u) \/ CommitLost(u) \/ Cancel(u)
  BY <1>1, <1>8 DEF Commit, Rollback, CommitLost, Cancel, Release, Goto
<1> QED BY <1>2, <1>3, <1>4, <1>5, <1>6, <1>7, <1>8 DEF Step, Handle

\* No step of one request changes a row another has locked.
LEMMA LockedRowsKept ==
  ASSUME StoreInv, NEW u \in Requests, Step(u), NEW t \in Requests \ {u},
         NEW i \in Ids, lock[i] = t
  PROVE  db'[i] = db[i]
<1>1. lock[i] = t /\ db \in [Ids -> Rows]
  BY DEF StoreInv, TypeOK
<1>2. CASE PoolDelete(u)
  BY <1>1, <1>2, MarksAssumption DEF PoolDelete, LockedByOther
<1>3. CASE Commit(u)
  <2>1. ~Wrote(u, i)
    BY <1>1 DEF StoreInv, Own, WritesLocked
  <2> QED BY <1>3, <2>1 DEF Commit, Seen
<1>4. CASE ~PoolDelete(u) /\ ~Commit(u)
  BY <1>4 DEF Step, Handle, Begin, BulkScan, TriggerScan, DeactivateRow, RowsDone,
     TargetMissing, LockTarget, Write, WriteFails, DeadlockDetected, Rollback,
     Refuse, CommitLost, Cancel
<1> QED BY <1>2, <1>3, <1>4

\* What others do leaves the effect of a request as it is.
LEMMA OthersEffect ==
  ASSUME StoreInv, NEW u \in Requests, Step(u), NEW t \in Requests \ {u}, EffectOf(t)
  PROVE  EffectOf(t)'
<1>1. /\ op' = op /\ written'[t] = written[t] /\ pc'[t] = pc[t]
      /\ todo'[t] = todo[t] /\ status'[t] = status[t]
  BY OthersUnchanged DEF StoreInv
<1>2. \A i \in Ids : /\ Wrote(t, i)' <=> Wrote(t, i)
                     /\ Wrote(t, i) => db'[i] = db[i]
  <2>1. \A i \in Ids : Wrote(t, i) => lock[i] = t
    BY DEF StoreInv, Own, WritesLocked
  <2> QED BY <1>1, <2>1, LockedRowsKept DEF Wrote
<1>3. Target(t)' = Target(t) /\ Target(t) \in Ids /\ Assigned(t)' = Assigned(t)
  BY <1>1, Targets DEF StoreInv, Target, Assigned
<1>4. \A i \in Ids : Wrote(t, i) /\ Deactivated(t, i) => Deactivated(t, i)'
  BY <1>1, <1>2 DEF Deactivated
<1>5. Wakening(t)'
  BY <1>1, <1>2, <1>3, <1>4 DEF EffectOf, Wakening
<1>6. TargetPending(t)'
  BY <1>1, <1>2, <1>3, <1>4 DEF EffectOf, TargetPending
<1>7. TargetWritten(t)'
  <2>1. SUFFICES ASSUME pc[t] = "answered", status[t] = "2xx", op[t].kind # "delete"
                 PROVE  /\ Wrote(t, Target(t))'
                        /\ written'[t][Target(t)] = Promise!Asked(op[t], db'[Target(t)])
    BY <1>1, <1>3 DEF TargetWritten, Promise!Asked
  <2>2. Wrote(t, Target(t)) /\ written[t][Target(t)] = Promise!Asked(op[t], db[Target(t)])
    BY <2>1 DEF EffectOf, TargetWritten
  <2> QED BY <1>1, <1>2, <1>3, <2>2
<1> QED BY <1>5, <1>6, <1>7 DEF EffectOf

\* A step that writes nothing keeps the effect of its request.
LEMMA QuietEffect ==
  ASSUME StoreInv, NEW t \in Requests, EffectOf(t), UNCHANGED <<db, written, op>>,
         pc[t] # "answered",
         pc'[t] \in {"trigger", "triggerRows"} => Assigned(t).active = TRUE,
         pc'[t] = "triggerRows" => Target(t) \notin todo'[t],
         pc'[t] = "answered" => status'[t] # "2xx"
  PROVE  EffectOf(t)'
<1>1. Target(t)' = Target(t) /\ Assigned(t)' = Assigned(t)
  BY DEF Target, Assigned
<1>2. \A i \in Ids : (Wrote(t, i)' <=> Wrote(t, i)) /\ (Deactivated(t, i)' <=> Deactivated(t, i))
  BY DEF Wrote, Deactivated
<1>3. Target(t) \in Ids
  BY Targets DEF StoreInv
<1>4. Wakening(t)'
  BY <1>1, <1>2 DEF EffectOf, Wakening
<1>5. TargetPending(t)'
  BY <1>1, <1>2, <1>3 DEF EffectOf, TargetPending
<1>6. TargetWritten(t)'
  BY DEF TargetWritten
<1> QED BY <1>4, <1>5, <1>6 DEF EffectOf

\* An update that has a trigger activates its target.
LEMMA TriggerActivates ==
  ASSUME TypeOK, NEW t \in Requests, Activates(t), Live(Seen(t, Target(t)))
  PROVE  Assigned(t).active = TRUE
<1> DEFINE old == Seen(t, Target(t))
           set == Assigned(t)
<1>1. ~Active(old) /\ old \in Row /\ set.active \in BOOLEAN \union {Kept}
  BY Targets, SeenRows, Assignments DEF Activates, Assignment
<1>2. old.active = FALSE
  BY <1>1, LiveRows DEF Active, Row
<1>3. IF set.active = Kept THEN old.active ELSE set.active
  BY DEF Activates, NewRow
<1> HIDE DEF old, set
<1>4. set.active = TRUE
  BY <1>1, <1>2, <1>3
<1> QED BY <1>4 DEF set

\* Each step of a request before it writes its target keeps its effect.
LEMMA QuietEffects ==
  ASSUME StoreInv, NEW t \in Requests, EffectOf(t),
         \/ Refuse(t) \/ Begin(t) \/ BulkScan(t) \/ TriggerScan(t) \/ RowsDone(t)
         \/ TargetMissing(t) \/ LockTarget(t) \/ WriteFails(t) \/ DeadlockDetected(t)
  PROVE  EffectOf(t)'
<1>1. /\ pc \in [Requests -> Steps] /\ todo \in [Requests -> SUBSET Ids]
      /\ status \in [Requests -> Statuses] /\ Own(t) /\ op[t].kind \in Kinds
  BY Targets DEF StoreInv, TypeOK, Op
<1>2. op[t].kind \in {"create", "setActive"} => Assigned(t).active = TRUE
  BY AssignedActive
<1>3. CASE Refuse(t) \/ TargetMissing(t) \/ WriteFails(t) \/ DeadlockDetected(t)
  <2>1. PICK code \in Statuses \ {"2xx"} : Answer(t, code)
    BY <1>3 DEF Refuse, TargetMissing, WriteFails, DeadlockDetected, Statuses
  <2>2. pc'[t] = "answered" /\ status'[t] # "2xx"
    BY <1>1, <2>1 DEF Answer, Goto
  <2>3. pc[t] # "answered" /\ UNCHANGED <<db, written, op>>
    BY <1>3, WaitingSteps DEF Refuse, TargetMissing, WriteFails, DeadlockDetected
  <2> QED BY <2>2, <2>3, QuietEffect
<1>4. CASE Begin(t)
  <2>1. pc'[t] \in {"bulk", "target", "poolDelete"} \/
          (pc'[t] = "trigger" /\ op[t].kind = "create")
    <3>1. CASE op[t].kind = "setActive"
      BY <1>1, <1>4, <3>1 DEF Begin, Goto
    <3>2. CASE op[t].kind = "create"
      BY <1>1, <1>4, <3>2 DEF Begin, Goto
    <3>3. CASE op[t].kind = "delete"
      BY <1>1, <1>4, <3>3 DEF Begin, Goto
    <3>4. CASE op[t].kind \notin {"setActive", "create", "delete"}
      BY <1>1, <1>4, <3>4 DEF Begin, Goto
    <3> QED BY <3>1, <3>2, <3>3, <3>4
  <2>2. pc[t] # "answered" /\ UNCHANGED <<db, written, op>>
    BY <1>4 DEF Begin
  <2> QED BY <1>2, <2>1, <2>2, QuietEffect
<1>5. CASE BulkScan(t) \/ RowsDone(t)
  <2>1. pc'[t] \in {"bulkRows", "target", "write"}
    BY <1>1, <1>5 DEF BulkScan, RowsDone, Goto
  <2>2. pc[t] # "answered" /\ UNCHANGED <<db, written, op>>
    BY <1>5 DEF BulkScan, RowsDone
  <2> QED BY <2>1, <2>2, QuietEffect
<1>6. CASE TriggerScan(t)
  <2>1. pc'[t] = "triggerRows" /\ Target(t) \notin todo'[t]
    BY <1>1, <1>6 DEF TriggerScan, Goto
  <2>2. pc[t] = "trigger" /\ UNCHANGED <<db, written, op>>
    BY <1>6 DEF TriggerScan
  <2>3. Assigned(t).active = TRUE
    BY <2>2 DEF EffectOf, Wakening
  <2> QED BY <2>1, <2>2, <2>3, QuietEffect
<1>7. CASE LockTarget(t)
  <2>1. pc'[t] = "write" \/ (pc'[t] = "trigger" /\ Activates(t))
    BY <1>1, <1>7 DEF LockTarget, Goto
  <2>2. pc[t] # "answered" /\ UNCHANGED <<db, written, op>> /\ Live(Seen(t, Target(t)))
    BY <1>7 DEF LockTarget
  <2>3. Activates(t) => Assigned(t).active = TRUE
    BY <2>2, TriggerActivates DEF StoreInv
  <2> QED BY <2>1, <2>2, <2>3, QuietEffect
<1> QED BY <1>3, <1>4, <1>5, <1>6, <1>7

\* Deactivating a row keeps the effect: the row was active, for everybody.
LEMMA DeactivateEffect ==
  ASSUME StoreInv, NEW t \in Requests, EffectOf(t), DeactivateRow(t)
  PROVE  EffectOf(t)'
<1>1. /\ todo \in [Requests -> SUBSET Ids] /\ Target(t) \in Ids /\ Own(t)
      /\ written \in [Requests -> [Ids -> Row \union {Untouched}]]
  BY Targets DEF StoreInv, TypeOK
<1>2. /\ pc[t] \in {"bulkRows", "triggerRows"} /\ UNCHANGED <<db, op, pc, status>>
  BY DEF DeactivateRow
<1>3. PICK i \in todo[t] :
        /\ todo' = [todo EXCEPT ![t] = @ \ {i}]
        /\ IF Active(Seen(t, i))
           THEN written' = [written EXCEPT ![t][i] = [Seen(t, i) EXCEPT !.active = FALSE]]
           ELSE UNCHANGED written
  BY DEF DeactivateRow
<1>4. i \in Ids /\ todo'[t] = todo[t] \ {i}
  BY <1>1, <1>3
<1>5. Assigned(t).active = TRUE /\ (i = Target(t) => op[t].kind = "setActive")
  <2>1. CASE pc[t] = "bulkRows"
    <3>1. op[t].kind = "setActive"
      BY <1>1, <2>1 DEF Own, OwnSteps
    <3> QED BY <3>1, AssignedActive
  <2>2. CASE pc[t] = "triggerRows"
    BY <1>3, <2>2 DEF EffectOf, Wakening
  <2> QED BY <1>2, <2>1, <2>2
<1>6. Target(t)' = Target(t) /\ Assigned(t)' = Assigned(t)
  BY <1>2 DEF Target, Assigned
<1>7. \A j \in Ids \ {i} : /\ written'[t][j] = written[t][j]
                           /\ Wrote(t, j)' <=> Wrote(t, j)
                           /\ Deactivated(t, j)' <=> Deactivated(t, j)
  <2>1. \A j \in Ids \ {i} : written'[t][j] = written[t][j]
    BY <1>1, <1>3
  <2> QED BY <1>2, <2>1 DEF Wrote, Deactivated
<1>8. Wrote(t, i)' => Deactivated(t, i)'
  <2>1. CASE Wrote(t, i)
    <3>1. Deactivated(t, i)
      BY <1>2, <1>4, <2>1 DEF EffectOf, Wakening, TargetPending
    <3>2. ~Active(Seen(t, i))
      BY <2>1, <3>1 DEF Deactivated, Active, Seen, Row
    <3> QED BY <1>2, <1>3, <3>1, <3>2 DEF Deactivated
  <2>2. CASE ~Wrote(t, i)
    <3>1. CASE Active(Seen(t, i))
      <4>1. Seen(t, i) = db[i] /\ db[i] \in Row /\ db[i].active
        BY <1>4, <2>2, <3>1, SeenRows DEF Seen, Active, StoreInv
      <4> DEFINE new == [Seen(t, i) EXCEPT !.active = FALSE]
      <4>2. written' = [written EXCEPT ![t][i] = new]
        BY <1>3, <3>1
      <4>3. written'[t][i] = new
        <5> HIDE DEF new
        <5> QED BY <1>1, <1>4, <4>2
      <4> QED BY <1>2, <4>1, <4>3 DEF Deactivated
    <3>2. CASE ~Active(Seen(t, i))
      BY <1>3, <2>2, <3>2 DEF Wrote
    <3> QED BY <3>1, <3>2
  <2> QED BY <2>1, <2>2
<1>9. Wakening(t)'
  BY <1>2, <1>4, <1>5, <1>6, <1>7, <1>8 DEF EffectOf, Wakening
<1>10. TargetPending(t)'
  BY <1>1, <1>2, <1>5, <1>6, <1>7, <1>8 DEF EffectOf, TargetPending
<1>11. TargetWritten(t)'
  BY <1>2 DEF TargetWritten
<1> QED BY <1>9, <1>10, <1>11 DEF EffectOf

\* Writing the target completes the effect.
LEMMA WriteEffect ==
  ASSUME StoreInv, NEW t \in Requests, EffectOf(t), Write(t)
  PROVE  EffectOf(t)'
<1>1. /\ written \in [Requests -> [Ids -> Row \union {Untouched}]] /\ Target(t) \in Ids
      /\ pc'[t] = "answered" /\ UNCHANGED <<db, op>> /\ pc[t] = "write"
  BY Targets DEF StoreInv, TypeOK, Write, Answer, Goto
<1>2. /\ written'[t][Target(t)] = NewRow(t)
      /\ \A j \in Ids \ {Target(t)} : written'[t][j] = written[t][j]
  BY <1>1 DEF Write
<1>3. Target(t)' = Target(t) /\ Assigned(t)' = Assigned(t)
  BY <1>1 DEF Target, Assigned
<1>4. Wakening(t)'
  BY <1>1, <1>2, <1>3 DEF EffectOf, Wakening, Wrote, Deactivated
<1>5. TargetWritten(t)'
  <2>1. NewRow(t) = Promise!Asked(op[t], db[Target(t)])
    BY <1>1, WritesAsked
  <2>2. NewRow(t) # Untouched
    <3>1. op[t].kind = "create" \/ Live(Seen(t, Target(t)))
      BY <1>1, LiveRows, WrittenRows DEF StoreInv, Own, TargetHeld, Late, Seen
    <3> QED BY <3>1, NewRows, LiveRows DEF StoreInv
  <2> QED
    BY <1>1, <1>2, <1>3, <2>1, <2>2 DEF TargetWritten, Wrote
<1> QED BY <1>1, <1>4, <1>5 DEF EffectOf, TargetPending

\* The effect invariant holds initially.
LEMMA EffectInit == Init => EffectInv
<1> SUFFICES ASSUME Init, NEW t \in Requests PROVE EffectOf(t)
  BY DEF EffectInv
<1>1. pc[t] = "start" /\ \A i \in Ids : ~Wrote(t, i)
  BY DEF Init, Wrote
<1>2. Target(t) \in Ids
  BY StoreInit, Targets DEF StoreInv
<1> QED BY <1>1, <1>2 DEF EffectOf, Wakening, TargetPending, TargetWritten

\* Every step preserves it.
LEMMA EffectStep == StoreInv /\ EffectInv /\ [Next]_vars => EffectInv'
<1> SUFFICES ASSUME StoreInv, EffectInv, [Next]_vars PROVE EffectInv'
  OBVIOUS
<1>1. CASE UNCHANGED vars
  <2>1. UNCHANGED <<db, written, lock, op, pc, todo, status, risen>>
    BY <1>1 DEF vars
  <2>2. ASSUME NEW t \in Requests
        PROVE  EffectOf(t)'
    <3>1. Target(t)' = Target(t) /\ Assigned(t)' = Assigned(t) /\ EffectOf(t)
      BY <2>1 DEF Target, Assigned, EffectInv
    <3>2. \A i \in Ids : (Wrote(t, i)' <=> Wrote(t, i)) /\ (Deactivated(t, i)' <=> Deactivated(t, i))
      BY <2>1 DEF Wrote, Deactivated
    <3>3. Wakening(t)' /\ TargetPending(t)'
      BY <2>1, <3>1, <3>2, Targets DEF StoreInv, EffectOf, Wakening, TargetPending
    <3>4. TargetWritten(t)'
      BY <2>1, <3>1 DEF EffectOf, TargetWritten, Wrote
    <3> QED BY <3>3, <3>4 DEF EffectOf
  <2> QED BY <2>2 DEF EffectInv
<1>2. ASSUME NEW u \in Requests, Step(u), NEW t \in Requests
      PROVE  EffectOf(t)'
  <2>1. EffectOf(t)
    BY DEF EffectInv
  <2>2. CASE t # u
    BY <1>2, <2>1, <2>2, OthersEffect
  <2>3. CASE t = u
    <3>1. CASE PoolDelete(t)
      <4>1. /\ pc'[t] = "answered" /\ op' = op /\ written' = written
        BY <3>1 DEF PoolDelete, Answer, Goto, StoreInv, TypeOK
      <4>2. op[t].kind = "delete" /\ \A i \in Ids : ~Wrote(t, i)
        BY <3>1 DEF PoolDelete, StoreInv, Own, OwnSteps, WritesLocked
      <4> QED BY <4>1, <4>2 DEF EffectOf, Wakening, TargetPending, TargetWritten, Wrote, Target
    <3>2. CASE Commit(t) \/ Rollback(t) \/ CommitLost(t) \/ Cancel(t)
      <4>1. Release(t) /\ op' = op
        BY <3>2 DEF Commit, Rollback, CommitLost, Cancel, Release
      <4>2. pc'[t] = "done" /\ \A i \in Ids : ~Wrote(t, i)'
        BY <4>1 DEF Release, Goto, StoreInv, TypeOK, Wrote
      <4>3. Target(t)' \in Ids
        BY <4>1, Targets DEF StoreInv, Target
      <4> QED BY <4>2, <4>3 DEF EffectOf, Wakening, TargetPending, TargetWritten
    <3> QED BY <1>2, <2>1, <2>3, <3>1, <3>2, QuietEffects, DeactivateEffect, WriteEffect
            DEF Step, Handle
  <2> QED BY <2>2, <2>3
<1> QED BY <1>1, <1>2 DEF Next, AllDone, Step, EffectInv

-----------------------------------------------------------------------------
(***************************************************************************)
(* The refinement                                                          *)
(***************************************************************************)
\* A step that changes no committed row is no step of the promise, or the
\* end of a request without effect.
LEMMA QuietPromise ==
  ASSUME TypeOK, NEW t \in Requests, NEW s \in Steps, UNCHANGED <<db, op>>,
         pc' = [pc EXCEPT ![t] = s], pc[t] # "done", pc[t] = "answered" => s = "done"
  PROVE  [Promise!Next]_<<db, op, Ended>>
<1>1. /\ \A u \in Requests \ {t} : pc'[u] = pc[u]
      /\ pc'[t] = s
  BY DEF TypeOK
<1>2. Ended' = Ended \/ (t \notin Ended /\ Ended' = Ended \union {t})
  BY <1>1 DEF Ended
<1> QED BY <1>2 DEF Promise!Next, Promise!End, Promise!NoEffect, Ended

\* A deletion takes effect when it is executed.
LEMMA DeletePromise ==
  ASSUME StoreInv, NEW t \in Requests, PoolDelete(t)
  PROVE  [Promise!Next]_<<db, op, Ended>>
<1> DEFINE i == Target(t)
<1>1. /\ pc' = [pc EXCEPT ![t] = "answered"] /\ pc[t] = "poolDelete" /\ op' = op
      /\ op[t].kind = "delete" /\ i = op[t].id /\ i \in Ids /\ pc \in [Requests -> Steps]
      /\ db \in [Ids -> Rows]
  BY Targets DEF PoolDelete, Answer, Goto, StoreInv, TypeOK, Own, OwnSteps, Target
<1>2. CASE ~Live(db[i])
  BY <1>1, <1>2, QuietPromise DEF PoolDelete, StoreInv, Steps
<1>3. CASE Live(db[i])
  <2>1. t \notin Ended /\ Ended' = Ended \union {t}
    BY <1>1 DEF Ended
  <2>2. Promise!Asked(op[t], db[i]) = Gone
    BY <1>1 DEF Promise!Asked
  <2>3. Promise!Possible(op[t])
    BY <1>1, <1>3, <2>2 DEF Promise!Possible, Promise!Live, Live
  <2>4. db' = [db EXCEPT ![i] = Gone]
    BY <1>3 DEF PoolDelete
  <2>5. ~Promise!Wakes(db[i], Gone)
    BY DEF Promise!Wakes, Promise!Live
  <2>6. Promise!Effect(op[t]) = [j \in Ids |-> IF j = i THEN Gone ELSE db[j]]
    BY <1>1, <2>2, <2>5 DEF Promise!Effect
  <2>7. db' = Promise!Effect(op[t])
    BY <1>1, <2>4, <2>6
  <2> QED BY <1>1, <2>1, <2>3, <2>7 DEF Promise!Next, Promise!End, Promise!TakeEffect
<1> QED BY <1>2, <1>3

\* Any other request takes effect when its transaction commits: the target
\* is as it was asked to be, the others are inactive if it has become active.
LEMMA CommitPromise ==
  ASSUME StoreInv, EffectInv, NEW t \in Requests, Commit(t)
  PROVE  [Promise!Next]_<<db, op, Ended>>
<1> DEFINE i == Target(t)
           new == written[t][i]
<1>1. /\ pc' = [pc EXCEPT ![t] = "done"] /\ pc[t] = "answered" /\ op' = op
      /\ status[t] = "2xx" /\ db' = [j \in Ids |-> Seen(t, j)]
      /\ op[t] \in Op /\ i = op[t].id /\ i \in Ids /\ pc \in [Requests -> Steps]
      /\ db \in [Ids -> Rows] /\ Own(t) /\ EffectOf(t)
  BY Targets DEF Commit, Succeeded, Release, Goto, StoreInv, TypeOK, EffectInv, Target
<1>2. CASE op[t].kind = "delete"
  <2>1. \A j \in Ids : ~Wrote(t, j)
    BY <1>1, <1>2 DEF Own, WritesLocked
  <2>2. db' = db
    BY <1>1, <2>1 DEF Seen
  <2> QED BY <1>1, <2>2, QuietPromise DEF StoreInv, Steps
<1>3. CASE op[t].kind # "delete"
  <2>1. /\ t \notin Ended /\ Ended' = Ended \union {t}
        /\ Wrote(t, i) /\ new = Promise!Asked(op[t], db[i]) /\ new \in Row
    BY <1>1, <1>3, WrittenRows DEF Ended, EffectOf, TargetWritten, StoreInv
  <2>2. /\ op[t].kind = "create" => db[i] = Unborn
        /\ op[t].kind # "create" => Live(db[i]) /\ db[i] \in Row
    BY <1>1, <2>1, LiveRows DEF Own, TargetFree, WritesLocked
  <2>3. ASSUME NEW j \in Ids \ {i}, Live(db[j])
        PROVE  db[j].name # new.name /\ (~Wrote(t, j) /\ new.active => ~db[j].active)
    <3>1. CASE Wrote(t, j)
      <4>1. ~Clash(new, written[t][j]) /\ written[t][j] \in Row
        BY <1>1, <2>1, <2>3, <3>1, WrittenRows DEF StoreInv, NoClash
      <4>2. db[j] \in Row /\ written[t][j] = [db[j] EXCEPT !.active = FALSE]
        BY <1>1, <2>3, <3>1 DEF EffectOf, Wakening, Deactivated
      <4>3. written[t][j].name = db[j].name
        BY <4>2 DEF Row
      <4> QED BY <3>1, <4>1, <4>3, LiveRows DEF Clash
    <3>2. CASE ~Wrote(t, j)
      <4>1. ~Clash(new, db[j])
        BY <1>1, <2>1, <2>3, <3>2 DEF StoreInv, NoClash
      <4> QED BY <2>3, <4>1 DEF Clash
    <3> QED BY <3>1, <3>2
  <2>4. Promise!Possible(op[t])
    BY <1>1, <2>1, <2>2, <2>3 DEF Promise!Possible, Promise!Live, Live
  <2>5. ASSUME NEW j \in Ids \ {i}
        PROVE  Seen(t, j) = IF Promise!Wakes(db[i], new) /\ Live(db[j])
                            THEN [db[j] EXCEPT !.active = FALSE] ELSE db[j]
    <3>1. CASE Wrote(t, j)
      <4>1. /\ Deactivated(t, j) /\ Assigned(t).active = TRUE
            /\ Seen(t, j) = [db[j] EXCEPT !.active = FALSE]
        BY <1>1, <3>1 DEF EffectOf, Wakening, Deactivated, Seen
      <4>2. Live(db[j]) /\ db[j].active
        BY <4>1, LiveRows DEF Deactivated
      <4>3. Live(db[i]) => ~db[i].active
        BY <1>1, <4>2 DEF StoreInv, UniqueRows
      <4>4. new.active
        BY <1>3, <2>1, <2>2, <4>1, AskedActive DEF StoreInv
      <4>5. Promise!Wakes(db[i], new)
        BY <2>1, <4>3, <4>4, LiveRows DEF Promise!Wakes, Promise!Live, Live
      <4> QED BY <4>1, <4>2, <4>5
    <3>2. CASE ~Wrote(t, j)
      <4>1. Seen(t, j) = db[j]
        BY <3>2 DEF Seen
      <4>2. ASSUME Promise!Wakes(db[i], new), Live(db[j])
            PROVE  db[j] = [db[j] EXCEPT !.active = FALSE]
        <5>1. ~db[j].active /\ db[j] \in Row
          BY <1>1, <2>3, <3>2, <4>2, LiveRows DEF Promise!Wakes
        <5> QED BY <5>1 DEF Row
      <4> QED BY <4>1, <4>2
    <3> QED BY <3>1, <3>2
  <2>6. Seen(t, i) = new
    BY <2>1 DEF Seen
  <2>7. db' = Promise!Effect(op[t])
    BY <1>1, <2>1, <2>5, <2>6 DEF Promise!Effect, Promise!Live, Live
  <2> QED BY <1>1, <2>1, <2>4, <2>7 DEF Promise!Next, Promise!End, Promise!TakeEffect
<1> QED BY <1>2, <1>3

\* Every step is the end of one request, with its whole effect or none, or
\* nothing to the promise.
LEMMA PromiseStep ==
  StoreInv /\ EffectInv /\ [Next]_vars => [Promise!Next]_<<db, op, Ended>>
<1> SUFFICES ASSUME StoreInv, EffectInv, [Next]_vars
             PROVE  [Promise!Next]_<<db, op, Ended>>
  OBVIOUS
<1>1. CASE UNCHANGED vars
  BY <1>1 DEF vars, Ended
<1>2. ASSUME NEW t \in Requests, Step(t)
      PROVE  [Promise!Next]_<<db, op, Ended>>
  <2>1. /\ pc \in [Requests -> Steps] /\ TypeOK /\ op[t].kind \in Kinds
        /\ {"bulk", "bulkRows", "target", "trigger", "triggerRows", "write", "poolDelete",
            "answered", "done"} \subseteq Steps
    BY Targets DEF StoreInv, TypeOK, Op, Steps
  <2>2. CASE Refuse(t) \/ TargetMissing(t) \/ WriteFails(t) \/ DeadlockDetected(t) \/ Write(t)
    <3>1. pc' = [pc EXCEPT ![t] = "answered"] /\ UNCHANGED <<db, op>>
      BY <2>2 DEF Refuse, TargetMissing, WriteFails, DeadlockDetected, Write, Answer, Goto
    <3>2. pc[t] # "done" /\ pc[t] # "answered"
      BY <2>2, WaitingSteps DEF Refuse, TargetMissing, WriteFails, DeadlockDetected, Write
    <3> QED BY <2>1, <3>1, <3>2, QuietPromise
  <2>3. CASE Begin(t)
    <3>1. PICK s \in Steps : pc' = [pc EXCEPT ![t] = s]
      <4>1. CASE op[t].kind = "setActive"
        BY <2>1, <2>3, <4>1 DEF Begin, Goto
      <4>2. CASE op[t].kind = "create"
        BY <2>1, <2>3, <4>2 DEF Begin, Goto
      <4>3. CASE op[t].kind = "delete"
        BY <2>1, <2>3, <4>3 DEF Begin, Goto
      <4>4. CASE op[t].kind \notin {"setActive", "create", "delete"}
        BY <2>1, <2>3, <4>4 DEF Begin, Goto
      <4> QED BY <4>1, <4>2, <4>3, <4>4
    <3> QED BY <2>1, <2>3, <3>1, QuietPromise DEF Begin
  <2>4. CASE BulkScan(t) \/ TriggerScan(t) \/ RowsDone(t) \/ LockTarget(t)
    <3>1. PICK s \in Steps : pc' = [pc EXCEPT ![t] = s]
      BY <2>1, <2>4 DEF BulkScan, TriggerScan, RowsDone, LockTarget, Goto
    <3> QED
      BY <2>1, <2>4, <3>1, QuietPromise DEF BulkScan, TriggerScan, RowsDone, LockTarget
  <2>5. CASE DeactivateRow(t)
    BY <2>5 DEF DeactivateRow, Ended
  <2>6. CASE Rollback(t) \/ CommitLost(t) \/ Cancel(t)
    <3>1. pc' = [pc EXCEPT ![t] = "done"] /\ UNCHANGED <<db, op>> /\ pc[t] # "done"
      BY <2>6 DEF Rollback, CommitLost, Cancel, Release, Goto
    <3> QED BY <2>1, <3>1, QuietPromise
  <2> QED
    BY <1>2, <2>2, <2>3, <2>4, <2>5, <2>6, DeletePromise, CommitPromise DEF Step, Handle
<1> QED BY <1>1, <1>2 DEF Next, AllDone, Step

\* Every request of a user takes its whole effect at one instant, on the
\* table as it is at that instant, or has none: however their statements
\* interleave, and wherever they are cancelled, lost or aborted.
THEOREM StoreImplements == Spec => ImplementsActiveSchedules
<1>1. Init => Promise!Init
  BY DEF Init, Promise!Init, Promise!Row, Row, Ended
<1>2. Spec => []EffectInv
  BY StoreInvariant, EffectInit, EffectStep, PTL DEF Spec
<1> QED
  BY <1>1, <1>2, StoreInvariant, PromiseStep, PTL
     DEF Spec, ImplementsActiveSchedules, Promise!Spec

-----------------------------------------------------------------------------
(***************************************************************************)
(* The active schedule                                                     *)
(***************************************************************************)
\* A commit that leaves no schedule active is that of a request to archive
\* or deactivate one.
LEMMA CommitKeepsActive ==
  ASSUME StoreInv, EffectInv, NEW t \in Requests, Commit(t),
         \E i \in Ids : Active(db[i]), \A i \in Ids : ~Active(db'[i])
  PROVE  op[t].kind \in {"archive", "update", "delete"}
<1> DEFINE i == Target(t)
           new == written[t][i]
<1>1. /\ pc[t] = "answered" /\ status[t] = "2xx"
      /\ \A j \in Ids : db'[j] = Seen(t, j)
      /\ op[t] \in Op /\ op[t].kind \in Kinds /\ i \in Ids /\ EffectOf(t) /\ Own(t)
      /\ db \in [Ids -> Rows] /\ op[t] \in Ops
  BY Targets DEF Commit, Succeeded, StoreInv, TypeOK, EffectInv, Op
<1>2. SUFFICES ASSUME op[t].kind \in {"create", "setActive", "unarchive"}
               PROVE  FALSE
  BY <1>1 DEF Kinds
<1>3. Wrote(t, i) /\ new = Promise!Asked(op[t], db[i]) /\ new \in Row /\ Seen(t, i) = new
  BY <1>1, <1>2, WrittenRows DEF EffectOf, TargetWritten, StoreInv, Seen
<1>4. op[t].kind = "create" \/ db[i] \in Row
  BY <1>1, <1>3, LiveRows DEF Own, WritesLocked
<1>5. ~new.active
  BY <1>1, <1>3, LiveRows DEF Active
<1>6. CASE op[t].kind \in {"create", "setActive"}
  <2>1. Assigned(t).active = TRUE
    BY <1>6, AssignedActive
  <2> QED BY <1>2, <1>3, <1>4, <1>5, <2>1, AskedActive DEF StoreInv
<1>7. CASE op[t].kind = "unarchive"
  <2>1. new.active = db[i].active
    <3> HIDE DEF new
    <3> QED BY <1>1, <1>3, <1>4, <1>7, AskedColumns
  <2>2. ~Active(db[i])
    BY <1>5, <2>1 DEF Active
  <2>3. Assigned(t).active # TRUE
    BY <1>7, AssignedActive, MarksAssumption
  <2>4. \A j \in Ids \ {i} : ~Wrote(t, j)
    BY <1>1, <2>3 DEF EffectOf, Wakening
  <2>5. \A j \in Ids \ {i} : db'[j] = db[j]
    BY <1>1, <2>4 DEF Seen
  <2> QED BY <2>2, <2>5 DEF Active, Live
<1> QED BY <1>2, <1>6, <1>7

\* A user with an active schedule keeps one until a request archives,
\* deactivates or deletes it, and is answered 2xx.
THEOREM ActiveStaysHolds == Spec => ActiveStays
<1>1. StoreInv /\ EffectInv /\ [Next]_vars =>
        [(\E i \in Ids : Active(db[i])) /\ (\A i \in Ids : ~Active(db'[i])) =>
           \E t \in Requests : /\ op[t].kind \in {"archive", "update", "delete"}
                               /\ pc'[t] # pc[t] /\ status'[t] = "2xx"]_vars
  <2> SUFFICES ASSUME StoreInv, EffectInv, [Next]_vars,
                      \E i \in Ids : Active(db[i]), \A i \in Ids : ~Active(db'[i])
               PROVE  \E t \in Requests : /\ op[t].kind \in {"archive", "update", "delete"}
                                          /\ pc'[t] # pc[t] /\ status'[t] = "2xx"
    OBVIOUS
  <2>1. db' # db
    BY DEF Active, Live
  <2>2. PICK t \in Requests : Step(t)
    BY <2>1 DEF Next, AllDone, Step, vars
  <2>3. PoolDelete(t) \/ Commit(t)
    BY <2>1, <2>2 DEF Step, Handle, Begin, BulkScan, TriggerScan, DeactivateRow,
       RowsDone, TargetMissing, LockTarget, Write, WriteFails, DeadlockDetected,
       Rollback, Refuse, CommitLost, Cancel
  <2>4. pc \in [Requests -> Steps] /\ status \in [Requests -> Statuses] /\ Own(t)
    BY DEF StoreInv, TypeOK
  <2>5. CASE PoolDelete(t)
    <3>1. op[t].kind = "delete" /\ Live(db[Target(t)])
      BY <2>1, <2>4, <2>5 DEF PoolDelete, Own, OwnSteps
    <3> QED BY <2>4, <2>5, <3>1 DEF PoolDelete, Answer, Goto
  <2>6. CASE Commit(t)
    <3>1. op[t].kind \in {"archive", "update", "delete"}
      BY <2>6, CommitKeepsActive
    <3> QED BY <2>4, <2>6, <3>1 DEF Commit, Succeeded, Release, Goto
  <2> QED BY <2>3, <2>5, <2>6
<1>2. Spec => []EffectInv
  BY StoreInvariant, EffectInit, EffectStep, PTL DEF Spec
<1> QED BY <1>1, <1>2, StoreInvariant, PTL DEF Spec, ActiveStays

-----------------------------------------------------------------------------
(***************************************************************************)
(* Refused activations                                                     *)
(***************************************************************************)
\* t has cleared what its trigger selected, and anything else that is active
\* became so since
Cleared(t) ==
  /\ pc[t] \in {"start", "target", "write"} => todo[t] = {}
  /\ pc[t] \in Selected /\ NewRow(t).active =>
       \A i \in Ids \ {Target(t)} :
         Active(Seen(t, i)) => i \in todo[t] \union risen[t]

ClearedInv == \A t \in Requests : Cleared(t)

\* The row another request makes active is remembered; so is what was.
LEMMA RisenGrows ==
  ASSUME StoreInv, NEW u \in Requests, Step(u), NEW t \in Requests \ {u},
         pc[t] \in Selected
  PROVE  /\ risen[t] \subseteq risen'[t]
         /\ \A i \in Ids : ~Active(db[i]) /\ Active(db'[i]) => i \in risen'[t]
<1>1. CASE Release(u)
  BY <1>1 DEF Release
<1>2. CASE ~Release(u)
  <2>1. risen' = risen
    BY <1>2 DEF Step, Handle, Begin, BulkScan, TriggerScan, DeactivateRow, RowsDone,
       TargetMissing, LockTarget, Write, WriteFails, PoolDelete, DeadlockDetected,
       Commit, Rollback, Refuse, CommitLost, Cancel
  <2>2. \A i \in Ids : db'[i] = db[i] \/ db'[i] = Gone
    <3>1. db' = db \/ PoolDelete(u)
      BY <1>2 DEF Step, Handle, Begin, BulkScan, TriggerScan, DeactivateRow, RowsDone,
         TargetMissing, LockTarget, Write, WriteFails, DeadlockDetected,
         Commit, Rollback, Refuse, CommitLost, Cancel
    <3>2. db \in [Ids -> Rows]
      BY DEF StoreInv, TypeOK
    <3> QED BY <3>1, <3>2 DEF PoolDelete
  <2> QED BY <2>1, <2>2 DEF Active, Live
<1> QED BY <1>1, <1>2

\* What others do keeps the claim: an activation is remembered.
LEMMA OthersCleared ==
  ASSUME StoreInv, EffectInv, NEW u \in Requests, Step(u), NEW t \in Requests \ {u},
         Cleared(t)
  PROVE  Cleared(t)'
<1>1. /\ op' = op /\ written'[t] = written[t] /\ pc'[t] = pc[t] /\ todo'[t] = todo[t]
      /\ \A v \in Requests \ {u} : pc'[v] = pc[v]
  BY OthersUnchanged DEF StoreInv
<1>2. Target(t)' = Target(t) /\ Target(t) \in Ids /\ Assigned(t)' = Assigned(t) /\ Own(t)
  BY <1>1, Targets DEF StoreInv, Target, Assigned
<1>4. SUFFICES ASSUME pc[t] \in Selected, NewRow(t)'.active,
                      NEW i \in Ids \ {Target(t)}, Active(Seen(t, i))', i \notin todo[t]
               PROVE  i \in risen'[t]
  BY <1>1, <1>2 DEF Cleared
<1>3. /\ risen[t] \subseteq risen'[t]
      /\ ~Active(db[i]) /\ Active(db'[i]) => i \in risen'[t]
  BY <1>4, RisenGrows
<1>5. NewRow(t).active
  <2>1. CASE op[t].kind = "create"
    <3>1. Assigned(t).active = TRUE
      BY <2>1, AssignedActive
    <3>2. TRUE # Kept
      BY MarksAssumption
    <3> QED BY <3>1, <3>2 DEF NewRow
  <2>2. CASE op[t].kind # "create"
    <3>1. db'[Target(t)] = db[Target(t)]
      BY <1>2, <1>4, <2>2, LockedRowsKept DEF Own, TargetHeld, Late, Selected
    <3>2. Seen(t, Target(t))' = Seen(t, Target(t))
      BY <1>1, <1>2, <3>1 DEF Seen, Wrote
    <3> QED BY <1>2, <1>4, <3>2 DEF NewRow
  <2> QED BY <2>1, <2>2
<1>6. CASE Active(Seen(t, i))
  BY <1>3, <1>4, <1>5, <1>6 DEF Cleared
<1>7. CASE ~Active(Seen(t, i))
  <2>1. ~Active(db[i]) /\ Active(db'[i])
    BY <1>1, <1>4, <1>7 DEF Seen, Wrote, Active, Live
  <2> QED BY <1>3, <2>1
<1> QED BY <1>6, <1>7

\* A request's own steps keep the claim: it selects what is active and
\* deactivates it row by row.
LEMMA OwnCleared ==
  ASSUME StoreInv, EffectInv, NEW t \in Requests, Step(t), Cleared(t)
  PROVE  Cleared(t)'
<1>1. /\ pc \in [Requests -> Steps] /\ todo \in [Requests -> SUBSET Ids]
      /\ written \in [Requests -> [Ids -> Row \union {Untouched}]]
      /\ Target(t) \in Ids /\ EffectOf(t) /\ Own(t) /\ op[t].kind \in Kinds
  BY Targets DEF StoreInv, TypeOK, EffectInv, Op
<1>2. CASE Refuse(t) \/ TargetMissing(t) \/ WriteFails(t) \/ DeadlockDetected(t)
           \/ Write(t) \/ PoolDelete(t)
  <2>1. pc'[t] = "answered"
    BY <1>1, <1>2 DEF Refuse, TargetMissing, WriteFails, DeadlockDetected, Write,
       PoolDelete, Answer, Goto
  <2> QED BY <2>1 DEF Cleared, Selected
<1>3. CASE Commit(t) \/ Rollback(t) \/ CommitLost(t) \/ Cancel(t)
  <2>1. pc'[t] = "done"
    BY <1>1, <1>3 DEF Commit, Rollback, CommitLost, Cancel, Release, Goto
  <2> QED BY <2>1 DEF Cleared, Selected
<1>4. CASE Begin(t)
  <2>1. pc'[t] \notin {"triggerRows", "write"}
    <3>1. CASE op[t].kind = "setActive"
      BY <1>1, <1>4, <3>1 DEF Begin, Goto
    <3>2. CASE op[t].kind = "create"
      BY <1>1, <1>4, <3>2 DEF Begin, Goto
    <3>3. CASE op[t].kind = "delete"
      BY <1>1, <1>4, <3>3 DEF Begin, Goto
    <3>4. CASE op[t].kind \notin {"setActive", "create", "delete"}
      BY <1>1, <1>4, <3>4 DEF Begin, Goto
    <3> QED BY <3>1, <3>2, <3>3, <3>4
  <2>2. todo'[t] = {}
    BY <1>4 DEF Begin, Cleared
  <2> QED BY <2>1, <2>2 DEF Cleared, Selected
<1>5. CASE BulkScan(t)
  <2>1. pc'[t] = "bulkRows"
    BY <1>1, <1>5 DEF BulkScan, Goto
  <2> QED BY <2>1 DEF Cleared, Selected
<1>6. CASE TriggerScan(t)
  <2>1. /\ pc'[t] = "triggerRows" /\ todo'[t] = ActiveIds(t) \ {Target(t)}
        /\ UNCHANGED <<db, written, op>>
    BY <1>1, <1>6 DEF TriggerScan, Goto
  <2>2. \A i \in Ids \ {Target(t)} : Active(Seen(t, i))' => i \in todo'[t]
    BY <2>1 DEF ActiveIds, Active, Live, Seen, Wrote
  <2> QED BY <2>1, <2>2 DEF Cleared, Target
<1>7. CASE RowsDone(t)
  <2>1. todo[t] = {} /\ UNCHANGED <<db, written, lock, op, todo>>
    BY <1>7 DEF RowsDone
  <2>2. CASE pc[t] = "bulkRows"
    <3>1. pc'[t] = "target"
      BY <1>1, <1>7, <2>2 DEF RowsDone, Goto
    <3> QED BY <2>1, <3>1 DEF Cleared, Selected
  <2>3. CASE pc[t] = "triggerRows"
    <3>1. pc'[t] = "write" /\ \A u \in Requests \ {t} : pc'[u] = pc[u]
      BY <1>1, <1>7, <2>3 DEF RowsDone, Goto
    <3>2. Target(t)' = Target(t) /\ NewRow(t)' = NewRow(t)
      BY <2>1 DEF Target, NewRow, Assigned, Seen, Wrote
    <3>3. \A i \in Ids : Active(Seen(t, i))' <=> Active(Seen(t, i))
      BY <2>1 DEF Active, Live, Seen, Wrote
    <3>4. risen' = risen
      BY <1>7 DEF RowsDone
    <3> QED BY <2>1, <2>3, <3>1, <3>2, <3>3, <3>4 DEF Cleared, Selected
  <2> QED BY <1>7, <2>2, <2>3 DEF RowsDone
<1>8. CASE LockTarget(t)
  <2>1. /\ pc[t] = "target" /\ Live(Seen(t, Target(t))) /\ UNCHANGED <<db, written, op, todo>>
        /\ pc'[t] = IF Activates(t) THEN "trigger" ELSE "write"
    BY <1>1, <1>8 DEF LockTarget, Goto
  <2>2. ASSUME ~Activates(t), NewRow(t).active, NEW i \in Ids \ {Target(t)}
        PROVE  ~Active(Seen(t, i))
    <3>1. Active(Seen(t, Target(t)))
      BY <2>2 DEF Activates
    <3>2. ~Wrote(t, Target(t))
      BY <1>1, <2>1, <3>1 DEF EffectOf, TargetPending, Deactivated, Active, Seen, Row
    <3>3. Live(db[Target(t)]) /\ db[Target(t)].active
      BY <3>1, <3>2 DEF Active, Seen
    <3>4. CASE Wrote(t, i)
      BY <1>1, <3>4 DEF EffectOf, Wakening, Deactivated, Active, Seen, Row
    <3>5. CASE ~Wrote(t, i)
      BY <1>1, <3>3, <3>5 DEF StoreInv, UniqueRows, Active, Seen
    <3> QED BY <3>4, <3>5
  <2>3. Target(t)' = Target(t) /\ NewRow(t)' = NewRow(t)
    BY <2>1 DEF Target, NewRow, Assigned, Seen, Wrote
  <2>4. \A i \in Ids : Active(Seen(t, i))' <=> Active(Seen(t, i))
    BY <2>1 DEF Active, Live, Seen, Wrote
  <2> QED BY <2>1, <2>2, <2>3, <2>4 DEF Cleared, Selected
<1>9. CASE DeactivateRow(t)
  <2>1. /\ pc[t] \in {"bulkRows", "triggerRows"} /\ UNCHANGED <<db, op, pc, status>>
    BY <1>9 DEF DeactivateRow
  <2>2. PICK i \in todo[t] :
          /\ todo' = [todo EXCEPT ![t] = @ \ {i}]
          /\ IF Active(Seen(t, i))
             THEN written' = [written EXCEPT ![t][i] = [Seen(t, i) EXCEPT !.active = FALSE]]
             ELSE UNCHANGED written
    BY <1>9 DEF DeactivateRow
  <2>3. i \in Ids /\ todo'[t] = todo[t] \ {i}
    BY <1>1, <2>2
  <2>4. \A j \in Ids \ {i} : Seen(t, j)' = Seen(t, j)
    <3>1. \A j \in Ids \ {i} : written'[t][j] = written[t][j]
      BY <1>1, <2>2
    <3> QED BY <2>1, <3>1 DEF Seen, Wrote
  <2>5. ~Active(Seen(t, i))'
    <3>1. CASE Active(Seen(t, i))
      <4> DEFINE new == [Seen(t, i) EXCEPT !.active = FALSE]
      <4>1. new \in Row /\ ~new.active
        <5>1. Seen(t, i) \in Row
          BY <2>3, <3>1, SeenRows DEF StoreInv, Active
        <5> QED BY <5>1 DEF Row
      <4>2. written' = [written EXCEPT ![t][i] = new]
        BY <2>2, <3>1
      <4> HIDE DEF new
      <4>3. written'[t][i] = new
        BY <1>1, <2>3, <4>2
      <4> QED BY <4>1, <4>3, LiveRows DEF Active, Seen, Wrote
    <3>2. CASE ~Active(Seen(t, i))
      BY <2>1, <2>2, <3>2 DEF Active, Live, Seen, Wrote
    <3> QED BY <3>1, <3>2
  <2>6. CASE pc[t] = "bulkRows"
    BY <2>1, <2>6 DEF Cleared, Selected
  <2>7. CASE pc[t] = "triggerRows"
    <3>1. i # Target(t)
      BY <1>1, <2>2, <2>7 DEF EffectOf, Wakening
    <3>2. Target(t)' = Target(t) /\ NewRow(t)' = NewRow(t)
      <4>1. Assigned(t)' = Assigned(t) /\ Target(t)' = Target(t)
        BY <2>1 DEF Assigned, Target
      <4> QED BY <1>1, <2>4, <3>1, <4>1 DEF NewRow
    <3>3. risen' = risen
      BY <1>9 DEF DeactivateRow
    <3>4. \A j \in Ids \ {i} : Active(Seen(t, j))' <=> Active(Seen(t, j))
      BY <2>4 DEF Active, Live
    <3> QED BY <2>1, <2>3, <2>5, <2>7, <3>2, <3>3, <3>4 DEF Cleared, Selected
  <2> QED BY <2>1, <2>6, <2>7
<1> QED BY <1>2, <1>3, <1>4, <1>5, <1>6, <1>7, <1>8, <1>9 DEF Step, Handle

\* An activation is refused for another active schedule only if a commit of
\* another request made that schedule active after the trigger of this one
\* had selected the active schedules.
THEOREM RefusedOnlyByRaceHolds == Spec => []RefusedOnlyByRace
<1>1. Init => ClearedInv
  BY DEF Init, ClearedInv, Cleared, Selected
<1>2. StoreInv /\ EffectInv /\ ClearedInv /\ [Next]_vars => ClearedInv'
  <2> SUFFICES ASSUME StoreInv, EffectInv, ClearedInv, [Next]_vars PROVE ClearedInv'
    OBVIOUS
  <2>1. CASE UNCHANGED vars
    <3>1. UNCHANGED <<db, written, lock, op, pc, todo, status, risen>>
      BY <2>1 DEF vars
    <3>2. ASSUME NEW t \in Requests
          PROVE  Cleared(t)'
      <4>1. Target(t)' = Target(t) /\ NewRow(t)' = NewRow(t)
        BY <3>1 DEF NewRow, Assigned, Target, Seen, Wrote
      <4>2. \A i \in Ids : Active(Seen(t, i))' <=> Active(Seen(t, i))
        BY <3>1 DEF Active, Live, Seen, Wrote
      <4> QED BY <3>1, <4>1, <4>2 DEF ClearedInv, Cleared
    <3> QED BY <3>2 DEF ClearedInv
  <2>2. ASSUME NEW u \in Requests, Step(u), NEW t \in Requests
        PROVE  Cleared(t)'
    BY <2>2, OwnCleared, OthersCleared DEF ClearedInv
  <2> QED BY <2>1, <2>2 DEF Next, AllDone, Step, ClearedInv
<1>3. ClearedInv => RefusedOnlyByRace
  BY DEF ClearedInv, Cleared, RefusedOnlyByRace, Selected
<1>4. Spec => []EffectInv
  BY StoreInvariant, EffectInit, EffectStep, PTL DEF Spec
<1> QED BY <1>1, <1>2, <1>3, <1>4, StoreInvariant, PTL DEF Spec
=============================================================================
