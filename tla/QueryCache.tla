------------------------------ MODULE QueryCache ------------------------------
(***************************************************************************)
(* The lists the client holds: the hooks of frontend/src/hooks over the    *)
(* query library, the requests they send, and the server they send them    *)
(* to.  A row is a value: 0 when it is not in the list, otherwise a number *)
(* that grows with every save (for schedules: 1, or 2 when it is active).  *)
(*                                                                         *)
(* How the library treats fetches and invalidations is external: it is     *)
(* modelled from the options the code gives it (a stale time of five       *)
(* minutes, one retry) and from its documented behaviour.  A behaviour     *)
(* lasts less than the stale time.                                         *)
(***************************************************************************)
EXTENDS Integers, FiniteSets

CONSTANT Rows  \* the rows a list can hold (bound)

\* 0 stands for "no row".
ASSUME RowsAssumption == Rows \subseteq Nat \ {0} /\ IsFiniteSet(Rows)

Catalogue     == {"buildings", "roomTypes", "rooms", "courses", "sessions"}
ScheduleLists == {"schedules", "archived"}
Lists         == Catalogue \union ScheduleLists

VARIABLES
  server,    \* the rows the server holds
  followed,  \* the lists this behaviour is about; the others are left alone
  observed,  \* the lists a mounted component uses
  cache,     \* per list: what was fetched, whether it is stale, the fetch
  requests,  \* the mutations under way
  missed,    \* ghost: lists with a change no later fetch is known to show
  budget     \* what is left of each bound

cacheVars == <<server, followed, observed, cache, requests, missed, budget>>

NoRows == [r \in Rows |-> 0]
Free(rows) == {r \in Rows : rows[r] = 0}

Unfetched == [loaded |-> FALSE, rows |-> NoRows, stale |-> FALSE,
              failed |-> FALSE, fetch |-> "idle", snap |-> NoRows]

Spend(kind) == /\ budget[kind] > 0
               /\ budget' = [budget EXCEPT ![kind] = @ - 1]

-----------------------------------------------------------------------------
(* Which lists each hook marks stale when its request has succeeded.       *)

UseBuildings == [op \in {"create", "update", "remove"} |-> {"buildings"}]
UseRoomTypes == [op \in {"create", "update", "remove"} |-> {"roomTypes"}]
UseRooms     == [op \in {"create", "update", "remove"} |-> {"rooms"}]
UseCourses   == [op \in {"create", "update", "remove"} |-> {"courses"}]
UseSessions  == [op \in {"create", "update", "remove"} |-> {"sessions"}]

\* mutant of UseSchedules: restoring marks the schedules and not the archive
UseSchedulesListOnly ==
  [op \in {"create", "update", "remove", "setActive", "archive", "unarchive"} |->
     IF op \in {"setActive", "archive"} THEN ScheduleLists ELSE {"schedules"}]

UseSchedules ==
  [op \in {"create", "update", "remove", "setActive", "archive", "unarchive"} |->
     IF op \in {"setActive", "archive", "unarchive"} THEN ScheduleLists
                                                     ELSE {"schedules"}]
UseGenerateAndSave == [op \in {"generate"} |-> {"schedules"}]

Marks(q) ==
  CASE q.op = "generate"      -> UseGenerateAndSave[q.op]
    [] q.list = "buildings"   -> UseBuildings[q.op]
    [] q.list = "roomTypes"   -> UseRoomTypes[q.op]
    [] q.list = "rooms"       -> UseRooms[q.op]
    [] q.list = "courses"     -> UseCourses[q.op]
    [] q.list = "sessions"    -> UseSessions[q.op]
    [] q.list = "schedules" /\ q.op # "generate" -> UseSchedules[q.op]

-----------------------------------------------------------------------------
(* Fetches.  An entry is fetched when a component that uses it mounts and   *)
(* it has no data or stale data; one fetch serves all components.           *)

Started(e) == [e EXCEPT !.fetch = "sent", !.snap = NoRows,
                        !.failed = e.loaded /\ @]

\* mutant of Wanted: a list that has data is not fetched when a page mounts
WantedEmpty(e) == e.fetch = "idle" /\ ~e.loaded

Wanted(e) == e.fetch = "idle" /\ (~e.loaded \/ e.stale)

\* Components that use the lists mount; "all" are the lists in use from now on.
Observe(lists, all) ==
  /\ observed' = all \intersect followed
  /\ cache' = [l \in followed |->
                 IF l \in lists /\ Wanted(cache[l]) THEN Started(cache[l]) ELSE cache[l]]
  /\ missed' = missed \ {l \in lists \intersect followed : Wanted(cache[l])}

ServerReads(l) ==
  /\ cache[l].fetch = "sent"
  /\ cache' = [cache EXCEPT ![l].fetch = "read", ![l].snap = server[l]]
  /\ UNCHANGED <<server, followed, observed, requests, missed, budget>>

Answer(l) ==
  /\ cache[l].fetch = "read"
  /\ cache' = [cache EXCEPT ![l] = [Unfetched EXCEPT !.loaded = TRUE,
                                                     !.rows = cache[l].snap]]
  /\ UNCHANGED <<server, followed, observed, requests, missed, budget>>

\* The fetch and its retry fail.
FetchFails(l) ==
  /\ cache[l].fetch \in {"sent", "read"}
  /\ Spend("failures")
  /\ cache' = [cache EXCEPT ![l].fetch = "idle", ![l].snap = NoRows, ![l].failed = TRUE]
  /\ UNCHANGED <<server, followed, observed, requests, missed>>

\* An invalidated list in use is fetched again; the fetch under way is
\* cancelled only if the list has data, otherwise it goes on.
Restarts(l) == l \in observed /\ (cache[l].fetch = "idle" \/ cache[l].loaded)

Invalidated(lists) ==
  [l \in followed |->
     CASE l \notin lists -> cache[l]
       [] l \in lists /\ Restarts(l) -> Started([cache[l] EXCEPT !.stale = TRUE])
       [] l \in lists /\ ~Restarts(l) -> [cache[l] EXCEPT !.stale = TRUE]]

\* The answer of a fetch that goes on clears the mark set while it was read.
Overtaken(lists) == {l \in lists \intersect followed :
                       ~Restarts(l) /\ cache[l].fetch # "idle"}

-----------------------------------------------------------------------------
(* Mutations.                                                              *)

\* A request of the mounted page; the callbacks given to an earlier call of
\* the same hook are dropped.
Request(op, list, row, base, fill, calm) ==
  [op |-> op, list |-> list, row |-> row, base |-> base, fill |-> fill,
   calm |-> calm, phase |-> "sent", attached |-> TRUE, n |-> budget.requests]

SameHook(p, q) == p.op = q.op /\ p.list = q.list

Send(q) ==
  /\ Spend("requests")
  /\ requests' = {q} \union {[p EXCEPT !.attached = @ /\ ~SameHook(p, q),
                                       !.calm = @ /\ ~(p.list = q.list /\ p.row = q.row)] :
                               p \in requests}

\* isPending of the hook of the mounted page
Pending(op, list) == \E q \in requests : q.op = op /\ q.list = list /\ q.attached

Missing(q) ==
  /\ q.op \notin {"create", "generate"}
  /\ server[q.list][q.row] = 0
  /\ q.list = "schedules" => server["archived"][q.row] = 0

(* What the server may hold after a request it grants.                     *)

Deactivated(rows) == [r \in Rows |-> IF rows[r] = 0 THEN 0 ELSE 1]

\* Of the schedules of a user one is active; a new one is.
Activated(list, row) ==
  [server EXCEPT !["schedules"] = Deactivated(@), !["archived"] = Deactivated(@),
                 ![list][row] = 2]

ScheduleOutcomes(q) ==
  CASE q.op \in {"create", "generate"} ->
         {Activated("schedules", r) :
            r \in Free(server["schedules"]) \intersect Free(server["archived"])}
    [] q.op = "setActive" /\ server["schedules"][q.row] # 0 -> {Activated("schedules", q.row)}
    [] q.op = "setActive" /\ server["schedules"][q.row] = 0 -> {Activated("archived", q.row)}
    [] q.op = "archive" ->   \* or archives again
         {[server EXCEPT !["schedules"][q.row] = 0, !["archived"][q.row] = 1]}
    [] q.op = "unarchive" /\ server["archived"][q.row] = 0 -> {server}  \* restored before
    [] q.op = "unarchive" /\ server["archived"][q.row] # 0 ->
         {[server EXCEPT !["schedules"][q.row] = server["archived"][q.row],
                         !["archived"][q.row] = 0]}

CatalogueOutcomes(q) ==
  CASE q.op = "create" -> {[server EXCEPT ![q.list][r] = 1] : r \in Free(server[q.list])}
    [] q.op = "remove" -> {[server EXCEPT ![q.list][q.row] = 0]}
    [] q.op = "update" /\ q.list = "roomTypes" ->   \* the name is the key
         {[server EXCEPT ![q.list][q.row] = 0, ![q.list][r] = 1] : r \in Free(server[q.list])}
    [] q.op = "update" /\ q.list # "roomTypes" -> {[server EXCEPT ![q.list][q.row] = @ + 1]}

Outcomes(q) == IF q.list = "schedules" THEN ScheduleOutcomes(q) ELSE CatalogueOutcomes(q)

Answered(q, phase) == (requests \ {q}) \union {[q EXCEPT !.phase = phase]}

ServerGrants(q) ==
  /\ q.phase = "sent" /\ ~Missing(q)
  /\ server' \in Outcomes(q)
  /\ requests' = Answered(q, "granted")
  /\ UNCHANGED <<followed, observed, cache, missed, budget>>

\* The row is gone.
ServerMisses(q) ==
  /\ q.phase = "sent" /\ Missing(q)
  /\ requests' = Answered(q, "refused")
  /\ UNCHANGED <<server, followed, observed, cache, missed, budget>>

\* The server refuses (a duplicate name, a row others refer to).
ServerRefuses(q) ==
  /\ q.phase = "sent" /\ Spend("failures")
  /\ requests' = Answered(q, "refused")
  /\ UNCHANGED <<server, followed, observed, cache, missed>>

\* The answer of a granted request is lost: the client sees an error.
AnswerLost(q) ==
  /\ q.phase = "granted" /\ Spend("failures")
  /\ requests' = Answered(q, "refused")
  /\ missed' = missed \union (Marks(q) \intersect followed)
  /\ UNCHANGED <<server, followed, observed, cache>>

\* The hook's own callback: it runs whether or not the page is still there.
Settle(q) ==
  /\ q.phase \in {"granted", "refused"}
  /\ requests' = requests \ {q}
  /\ IF q.phase = "granted"
     THEN /\ cache' = Invalidated(Marks(q))
          /\ missed' = (missed \ {l \in Marks(q) : Restarts(l)}) \union Overtaken(Marks(q))
     ELSE UNCHANGED <<cache, missed>>
  /\ UNCHANGED <<server, followed, observed, budget>>

\* The page's component unmounts: its callbacks are dropped.
Detached == {[q EXCEPT !.attached = FALSE] : q \in requests}

CacheNext ==
  \/ \E l \in followed : ServerReads(l) \/ Answer(l)
  \/ \E q \in requests : \/ ServerGrants(q) \/ ServerMisses(q)
                         \/ ServerRefuses(q) \/ AnswerLost(q)
=============================================================================
