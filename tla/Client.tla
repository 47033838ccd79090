-------------------------------- MODULE Client --------------------------------
(***************************************************************************)
(* The client as a whole: the session, the pages, the lists they hold and   *)
(* the server behind them, and the timetable that is drawn.                *)
(*                                                                         *)
(* A behaviour is about some of the lists, a start page and so many events, *)
(* all chosen at the start; lists it is not about are left alone, and a    *)
(* page is not held up by them.  So the parts are checked one next to the  *)
(* other and not every combination of them.                                *)
(***************************************************************************)
EXTENDS ClientSession, TimetableView

CONSTANT Scenarios  \* [lists, rows, start, user, dismissed, budget, draws]

Pages  == AppPages \union Guest \union {"marketing", "reset"}
Bounds == [requests : Nat, failures : Nat, fills : Nat, visits : Nat,
           calls : Nat, refreshes : Nat, losses : Nat, refusals : Nat]

ASSUME ScenariosAssumption ==
  \A s \in Scenarios :
    /\ s.lists \subseteq Lists /\ s.rows \subseteq [Lists -> [Rows -> Nat]]
    /\ s.start \in Pages /\ s.user \in BOOLEAN /\ s.dismissed \in BOOLEAN
    /\ s.budget \in Bounds /\ s.draws \in BOOLEAN

clientVars == <<cacheVars, screenVars, scheduleVars, home, sessionVars>>
vars == <<clientVars, viewVars>>

\* The start page has mounted and asked for its lists.
Started0(s) == s.start \in AppPages /\ s.user

ScenarioInit(s) ==
  /\ followed = s.lists /\ server \in s.rows /\ budget = s.budget
  /\ session = [stored |-> s.user, user |-> s.user, loading |-> FALSE]
  /\ page = s.start
  /\ observed = IF Started0(s) THEN (AppSidebar \union PageOf(s.start).reads) \intersect s.lists
                               ELSE {}
  /\ cache = [l \in s.lists |-> IF l \in observed THEN Started(Unfetched) ELSE Unfetched]
  /\ home = HomeMounted(s.dismissed)
  /\ IF s.draws THEN TimetableViewInit
     ELSE /\ timetable = {} /\ hidden = {} /\ weekday = 0 /\ details = {}
          /\ tab = "week" /\ order = AsStored
          /\ clock \in {CHOOSE m \in Moments : TRUE}
          /\ day = {} /\ column = [m \in {} |-> 0]

Init ==
  /\ \E s \in Scenarios : ScenarioInit(s)
  /\ requests = {} /\ missed = {}
  /\ dialog = Closed /\ draft = 0 /\ ticked = {}
  /\ selected = NoRow /\ generation = NoGeneration
  /\ calls = <<>> /\ notice = "none" /\ pending = {} /\ out = FALSE

-----------------------------------------------------------------------------
\* A list fails to load, and the content of the page that needs it goes.
ListFails(l) ==
  /\ FetchFails(l) /\ ContentUnmounts(l)
  /\ UNCHANGED <<session, page, ticked, scheduleVars, home, sessionVars, viewVars>>

\* The answer of a request: the hook's callback, then those of the page.
RequestSettles(q) ==
  /\ Settle(q) /\ CatalogueCallback(q) /\ ScheduleCallback(q)
  /\ UNCHANGED <<session, page, ticked, home, sessionVars, viewVars>>

LibraryNext ==
  /\ CacheNext
  /\ UNCHANGED <<screenVars, scheduleVars, home, sessionVars, viewVars>>

PagesNext ==
  \/ CatalogueScreensNext /\ UNCHANGED <<scheduleVars, home, sessionVars, viewVars>>
  \/ ScheduleScreensNext /\ UNCHANGED <<home, sessionVars, viewVars>>
  \/ DashboardNext /\ UNCHANGED <<sessionVars, viewVars>>

ViewNext ==
  /\ timetable # {}
  /\ TimetableViewNext
  /\ UNCHANGED clientVars

Next ==
  \/ LibraryNext
  \/ \E l \in followed : ListFails(l)
  \/ \E q \in requests : RequestSettles(q)
  \/ PagesNext
  \/ ClientSessionNext /\ UNCHANGED viewVars
  \/ ViewNext

\* The network delivers and the library, React and the router run what is due.
Fairness ==
  /\ \A l \in Lists :
       WF_vars(/\ l \in followed /\ (ServerReads(l) \/ Answer(l))
               /\ UNCHANGED <<screenVars, scheduleVars, home, sessionVars, viewVars>>)
  /\ WF_vars(GetSession /\ UNCHANGED viewVars)
  /\ WF_vars(RedirectToSignIn /\ UNCHANGED viewVars)
  /\ WF_vars(RedirectToApp /\ UNCHANGED viewVars)

Spec == Init /\ [][Next]_vars /\ Fairness

-----------------------------------------------------------------------------
ClientTypeOK ==
  /\ followed \subseteq Lists /\ observed \subseteq followed /\ missed \subseteq followed
  /\ DOMAIN server = Lists /\ DOMAIN cache = followed
  /\ \A l \in followed :
       /\ cache[l].rows \in [Rows -> Nat] /\ server[l] \in [Rows -> Nat]
       /\ cache[l].fetch \in {"idle", "sent", "read"}
  /\ \A q \in requests : q.phase \in {"sent", "granted", "refused"} /\ q.list \in followed
  /\ page \in Pages
  /\ session \in [stored : BOOLEAN, user : BOOLEAN, loading : BOOLEAN]
  /\ dialog.kind \in {"closed", "create", "edit", "confirm", "archive", "sheet"}
  /\ ticked \subseteq Rows /\ selected \in Rows \union {NoRow}
  /\ home.slide \in 0..Slides
  /\ details \subseteq timetable

\* What is on show of a list: of the archive, which schedules are in it.
OnShow(l, rows) == IF l = "archived" THEN {r \in Rows : rows[r] # 0} ELSE rows

\* Once nothing is under way, a list in use shows what the server holds, but
\* for a change whose answer was lost or was overtaken by an older answer.
\* Which lists a request makes stale is written once per hook, and a fetch
\* may be on its way with what was true before.
RestShowsServer ==
  requests = {} =>
    \A l \in observed \ missed :
      cache[l].fetch = "idle" /\ cache[l].loaded /\ ~cache[l].failed
        => OnShow(l, cache[l].rows) = OnShow(l, server[l])

\* Saving a row does not put back what this client saved before: a form that
\* was opened when its list was at rest, and sent with nothing else sent for
\* that row since, reaches a row that is still the one it was filled from (or
\* is gone), though it sends every field.  The server has no other client
\* here: what another tab saves while a list is fresh is overwritten.
SavesKeepOwnSaves ==
  \A q \in requests :
    (/\ q.op = "update" /\ q.calm /\ q.phase = "sent"
     /\ q.list # "roomTypes" /\ Cardinality(EditModal(q.list).fields) > 1)
      => server[q.list][q.row] \in {0, q.base}

\* What the user typed once is not sent twice at the same time.  Some forms
\* wait for the answer, the others are emptied when they are sent.
NoDoubleSubmit ==
  \A p, q \in requests :
    p # q /\ p.fill # 0 /\ p.list = q.list /\ p.op = q.op => p.fill # q.fill

\* After signing out nothing of the application is shown until the user signs
\* in again, whatever is loaded again, refreshed or answered in between; a
\* sign-out that failed does not count.
SignedOutStaysOut == out => ~session.stored /\ ~session.user

UpToDate(l) == cache[l].fetch = "idle" /\ cache[l].loaded /\ ~cache[l].stale

\* The list a page waits for arrives, or the page says that it did not.
ListsLoad ==
  \A l \in Lists :
    l \in observed ~> l \notin observed \/ cache[l].failed \/ UpToDate(l)

\* A page and the session come to agree: nobody who is signed out stays at a
\* page of the application, and nobody signed in at a page for guests.
SessionSettles ==
  /\ (page \in AppPages /\ ~session.user) ~> (page \notin AppPages \/ session.user)
  /\ (page \in Guest /\ session.user) ~> (page \notin Guest \/ ~session.user)

\* "Switch to another schedule if we archived the current one": the schedule
\* the page switches to when its archiving is answered is one the user still
\* has, as long as there is one.
SwitchesToKept ==
  [][(/\ selected' # selected /\ requests' # requests /\ page' = page
      /\ \E r \in Rows : server["schedules"][r] # 0)
       => server["schedules"][selected'] # 0]_vars
=============================================================================
