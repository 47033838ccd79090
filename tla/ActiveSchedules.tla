---------------------------- MODULE ActiveSchedules ----------------------------
(***************************************************************************)
(* What the schedule table promises one user whose requests overlap: each  *)
(* request takes effect at most once, at one instant, on the table as it   *)
(* is at that instant, or has no effect at all; schedule names are unique, *)
(* and a schedule that becomes active makes every other one inactive.      *)
(***************************************************************************)
CONSTANTS Ids, Names, Requests, Unborn, Gone, Kept

VARIABLES
  rows,    \* id -> row, Unborn before its creation, Gone after its deletion
  op,      \* request -> what it asks for
  ended    \* the requests that have had their effect or will have none

Row == [name : Names, active : BOOLEAN, archived : BOOLEAN]

Live(row) == row \notin {Unborn, Gone}

\* the row a request makes of this one
Asked(o, row) ==
  CASE o.kind = "create" -> [name |-> o.set.name, active |-> TRUE, archived |-> FALSE]
    [] o.kind = "setActive" -> [row EXCEPT !.active = TRUE]
    [] o.kind = "archive" -> [row EXCEPT !.archived = TRUE, !.active = FALSE]
    [] o.kind = "unarchive" -> [row EXCEPT !.archived = FALSE]
    [] o.kind = "update" ->
         [c \in DOMAIN row |-> IF o.set[c] = Kept THEN row[c] ELSE o.set[c]]
    [] o.kind = "delete" -> Gone

Wakes(old, new) == Live(new) /\ new.active /\ (Live(old) => ~old.active)

Effect(o) ==
  LET new == Asked(o, rows[o.id])
  IN  [i \in Ids |->
         IF i = o.id THEN new
         ELSE IF Wakes(rows[o.id], new) /\ Live(rows[i])
              THEN [rows[i] EXCEPT !.active = FALSE]
         ELSE rows[i]]

Possible(o) ==
  /\ IF o.kind = "create" THEN rows[o.id] = Unborn ELSE Live(rows[o.id])
  /\ LET new == Asked(o, rows[o.id])
     IN  Live(new) =>
           \A i \in Ids \ {o.id} : Live(rows[i]) => rows[i].name # new.name

Init == /\ rows \in [Ids -> Row \union {Unborn, Gone}]
        /\ ended = {}

TakeEffect(t) == /\ Possible(op[t])
                 /\ rows' = Effect(op[t])

NoEffect == UNCHANGED rows

End(t) ==
  /\ t \notin ended
  /\ ended' = ended \union {t}
  /\ TakeEffect(t) \/ NoEffect
  /\ UNCHANGED op

Next == \E t \in Requests : End(t)

Spec == Init /\ [][Next]_<<rows, op, ended>>
=============================================================================
