---------------------------- MODULE Client_proofs ----------------------------
(***************************************************************************)
(* Theorems about module Client, for any rows, any scenarios and any       *)
(* timetables: the bounds on what happens in a behaviour are those of the   *)
(* scenario it starts from, whatever they are.                             *)
(***************************************************************************)
EXTENDS Client, TimetableLayout_proofs

-----------------------------------------------------------------------------
(***************************************************************************)
(* The inductive invariant, in parts                                       *)
(***************************************************************************)

Contents == [Rows -> Nat]

Entry == [loaded : BOOLEAN, rows : Contents, stale : BOOLEAN, failed : BOOLEAN,
          fetch : {"idle", "sent", "read"}, snap : Contents]

CacheTyped ==
  /\ followed \subseteq Lists /\ observed \subseteq followed /\ missed \subseteq followed
  /\ server \in [Lists -> Contents]
  /\ cache \in [followed -> Entry]
  /\ budget \in Bounds

\* What a page may ask of a list.
OpsOn(list) == CASE list \in Catalogue   -> {"create", "update", "remove"}
                 [] list = "schedules" -> {"generate", "setActive", "archive", "unarchive"}
                 [] list = "archived"  -> {}

OpNames == {"create", "update", "remove", "generate", "setActive", "archive", "unarchive"}

RequestFields == [op : OpNames, list : Lists, row : Rows \union {NoRow}, base : Nat, fill : Nat,
                  calm : BOOLEAN, phase : {"sent", "granted", "refused"},
                  attached : BOOLEAN, n : Nat]

RequestOK(q) ==
  /\ q \in RequestFields /\ q.list \in followed /\ q.op \in OpsOn(q.list)
  /\ q.op \notin {"create", "generate"} => q.row \in Rows
  /\ q.op = "archive" => q.base \in Rows \union {NoRow}

RequestsTyped == \A q \in requests : RequestOK(q)

DialogFields == [kind : {"closed", "create", "edit", "confirm", "archive", "sheet"},
                 list : Lists \union {"none"}, row : Rows \union {NoRow}, base : Nat,
                 fill : Nat, calm : BOOLEAN]

DialogOK ==
  /\ dialog \in DialogFields
  /\ dialog.kind \in {"create", "edit", "confirm"} => dialog.list \in Catalogue \intersect followed
  /\ dialog.kind \in {"edit", "confirm", "archive"} => dialog.row \in Rows
  /\ dialog.kind \in {"archive", "sheet"} => ScheduleLists \subseteq followed

SessionFields == [stored : BOOLEAN, user : BOOLEAN, loading : BOOLEAN]

ScreenTyped ==
  /\ session \in SessionFields /\ page \in Pages
  /\ draft \in Nat
  /\ ticked \subseteq Rows /\ (ticked # {} => "courses" \in followed)
  /\ selected \in Rows \union {NoRow}
  /\ generation \in [name : Nat, days : SUBSET OfferedDays,
                     progress : {"none", "running", "done"}, result : BOOLEAN]
  /\ home \in [slide : 0..Slides, showTip : BOOLEAN, dismissed : BOOLEAN]

TypeInv == CacheTyped /\ RequestsTyped /\ DialogOK /\ ScreenTyped

\* The lists in use are those of the page on show and of the side bar.
InUse == observed = IF Mounted THEN (AppSidebar \union PageOf(page).reads) \intersect followed
                    ELSE {}

\* A granted request has changed the list, and its answer is on its way.
Due(l) == \E q \in requests : q.phase = "granted" /\ l \in Marks(q)

\* What was fetched is what the server holds, unless the entry says that it
\* is stale or failed, a change of it is still to be answered, or it was
\* missed.
Accurate(l) ==
  (l \notin missed /\ ~Due(l)) =>
    /\ (/\ cache[l].fetch = "idle" /\ cache[l].loaded
        /\ ~cache[l].stale /\ ~cache[l].failed)
         => OnShow(l, cache[l].rows) = OnShow(l, server[l])
    /\ cache[l].fetch = "read" => OnShow(l, cache[l].snap) = OnShow(l, server[l])

\* A list in use is not left stale, but by a fetch that failed.
NotLeftStale(l) ==
  l \in observed /\ cache[l].fetch = "idle" /\ cache[l].stale => cache[l].failed

EmptyUnlessLoaded(l) == ~cache[l].loaded => cache[l].rows = NoRows

CacheInv ==
  /\ InUse
  /\ \A l \in followed : Accurate(l) /\ NotLeftStale(l) /\ EmptyUnlessLoaded(l)

\* The form of an editing dialog that was filled at rest, and not sent since,
\* holds the row of the server, and nothing is sent for its list.
CalmForm ==
  dialog.kind = "edit" /\ dialog.calm =>
    /\ dialog.base # 0 /\ server[dialog.list][dialog.row] = dialog.base
    /\ \A q \in requests : q.list # dialog.list

\* The rooms and the sessions: no other request was sent for the row of a
\* calm one, which is therefore still the row the form was filled from.
Calm(q) ==
  q.op = "update" /\ q.calm /\ q.phase = "sent" /\ q.list \in {"rooms", "sessions"}

Alone(q) ==
  /\ q.base # 0 /\ server[q.list][q.row] = q.base
  /\ \A p \in requests : p # q /\ p.list = q.list => p.row # q.row

CalmRequest == \A q \in requests : Calm(q) => Alone(q)

\* What is typed is new: no form and no request has a number yet to be used.
Fills     == {dialog.fill, draft, generation.name} \union {q.fill : q \in requests}
FillsUsed == \A fill \in Fills : fill # 0 => budget.fills < fill

\* The creation dialogs that keep what was typed when they close.
Keeping == {"rooms", "courses"}

Unsent(fill, sent) ==
  \A q \in sent : q.op = "create" /\ q.list \in Keeping => q.fill # fill

\* What is in a form, if it was sent, is in a request the form waits for;
\* what is in a form that keeps it, or is kept for it, was not sent.
FormsWait ==
  /\ dialog.kind \in {"create", "edit"} /\ dialog.fill # 0 =>
       \A q \in requests :
         q.fill = dialog.fill /\ q.list = dialog.list /\ q.op = OpOf(dialog)
           => q.attached /\ Modal(dialog).waits
  /\ dialog.kind = "create" /\ dialog.fill # 0 => Unsent(dialog.fill, requests)
  /\ dialog.kind # "create" /\ draft # 0 => Unsent(draft, requests)
  /\ generation.name # 0 =>
       \A q \in requests : q.op = "generate" /\ q.fill = generation.name => q.attached

FillInv == FillsUsed /\ FormsWait /\ NoDoubleSubmit

\* The timetable on show is one of those there are, the layout is that of its
\* meetings of the day, and the details are those of one of its meetings.  A
\* behaviour that is not about the timetable shows none.
Drawn ==
  /\ timetable \in Timetables /\ details \subseteq timetable
  /\ day = DaySessions(timetable, hidden, weekday)
  /\ LayoutInv

Blank == timetable = {} /\ details = {} /\ day = {} /\ Placed = {}

ViewInv == Blank \/ Drawn

CalmInv == CalmForm /\ CalmRequest

ClientInv == TypeInv /\ CacheInv /\ CalmInv /\ FillInv /\ SignedOutStaysOut /\ ViewInv

-----------------------------------------------------------------------------
(***************************************************************************)
(* Steps by what they do to the parts                                      *)
(***************************************************************************)

\* A bound that is used shrinks, and the number for what is typed next does
\* not grow.
Pays == budget' \in Bounds /\ budget'.fills <= budget.fills

LEMMA SpendPays ==
  ASSUME CacheTyped, NEW kind \in DOMAIN budget, Spend(kind)
  PROVE  Pays /\ (kind = "fills" => budget'.fills < budget.fills)
<1>1. budget \in Bounds /\ budget[kind] > 0 /\ budget' = [budget EXCEPT ![kind] = budget[kind] - 1]
  BY DEF CacheTyped, Spend
<1>2. budget' \in Bounds
  BY <1>1 DEF Bounds
<1>3. budget'.fills <= budget.fills /\ (kind = "fills" => budget'.fills < budget.fills)
  BY <1>1 DEF Bounds
<1> QED BY <1>2, <1>3 DEF Pays

LEMMA BoundNames ==
  ASSUME CacheTyped
  PROVE  {"requests", "failures", "fills", "visits",
          "calls", "refreshes", "losses", "refusals"} \subseteq DOMAIN budget
BY DEF CacheTyped, Bounds

LEMMA UnspentPays ==
  ASSUME CacheTyped, budget' = budget
  PROVE  Pays
BY DEF CacheTyped, Pays, Bounds

\* The steps of the session: the client comes to a page, the document loads
\* again, or the page stays with all that belongs to it.
Arrives == \E p \in Pages, s \in SessionFields : Arrive(p, s)
Reloads == \E p \in Pages, stored \in BOOLEAN, kept \in SUBSET pending : Reload(p, stored, kept)
Stays ==
  /\ UNCHANGED <<observed, cache, requests, missed, page, dialog, draft, ticked,
                 selected, generation, home>>
  /\ session' \in SessionFields /\ Mounted' = Mounted

SessionStep == cachedVars' = cachedVars /\ Pays /\ (Arrives \/ Reloads \/ Stays)

LEMMA AnnounceStep ==
  ASSUME TypeInv, NEW user \in BOOLEAN, NEW stored \in BOOLEAN, Announce(user, stored)
  PROVE  Arrives \/ Stays
<1> DEFINE s == [Announced(user) EXCEPT !.stored = stored]
<1>1. session \in SessionFields
  BY DEF TypeInv, ScreenTyped
<1>2. s \in SessionFields /\ s.user = user /\ ~s.loading
  BY <1>1 DEF SessionFields, Announced
<1>3. CASE s.user = session.user /\ ~session.loading
  <2>1. session' = s /\ UNCHANGED <<cache, observed, requests, missed, page, dialog, draft,
                                    ticked, selected, generation, home>>
    BY <1>3 DEF Announce
  <2> QED BY <2>1, <1>2, <1>3 DEF Stays, Mounted
<1>4. CASE ~(s.user = session.user /\ ~session.loading)
  <2>1. Arrive(page, s)
    BY <1>4 DEF Announce
  <2> QED BY <2>1, <1>2 DEF Arrives, TypeInv, ScreenTyped
<1> QED BY <1>3, <1>4

\* A call that is sent, or answered with nothing to announce.
LEMMA SameStays ==
  ASSUME TypeInv, UNCHANGED <<observed, cache, requests, missed, screenVars, scheduleVars, home>>
  PROVE  Stays
BY DEF Stays, Mounted, screenVars, scheduleVars, TypeInv, ScreenTyped

LEMMA CallStays ==
  ASSUME TypeInv, NEW name, Calls(name)
  PROVE  SessionStep
<1>1. Pays
  BY SpendPays, BoundNames DEF TypeInv, Calls
<1>2. cachedVars' = cachedVars /\ Stays
  BY SameStays DEF Calls, cachedVars
<1> QED BY <1>1, <1>2 DEF SessionStep

LEMMA SessionSteps ==
  ASSUME TypeInv, ClientSessionNext
  PROVE  SessionStep
<1> USE SpendPays, UnspentPays, BoundNames
<1>1. /\ session \in SessionFields /\ page \in Pages /\ CacheTyped
      /\ session.stored \in BOOLEAN /\ session.user \in BOOLEAN
      /\ {"home", "signin", "reset"} \union Guest \union {"marketing", "home"} \subseteq Pages
      /\ AppPages \subseteq Pages
  BY DEF TypeInv, ScreenTyped, SessionFields, Pages, AppPages, Guest
<1>2. /\ [stored |-> TRUE, user |-> TRUE, loading |-> FALSE] \in SessionFields
      /\ [stored |-> FALSE, user |-> FALSE, loading |-> FALSE] \in SessionFields
      /\ [session EXCEPT !.user = FALSE, !.loading = FALSE] \in SessionFields
  BY <1>1 DEF SessionFields
<1>3. CASE GetSession
  BY <1>3, <1>1, AnnounceStep DEF GetSession, SessionStep, cachedVars
<1>4. CASE TokenRefreshed
  BY <1>4, <1>1, AnnounceStep DEF TokenRefreshed, SessionStep, cachedVars
<1>5. CASE SessionLost
  BY <1>5, <1>1, AnnounceStep DEF SessionLost, SessionStep, cachedVars
<1>6. CASE SignIn \/ SignUp \/ ForgotPassword \/ ResetPassword
           \/ SaveProfile \/ ChangePassword \/ SignOut
  BY <1>6, CallStays DEF SignIn, SignUp, ForgotPassword, ResetPassword,
                         SaveProfile, ChangePassword, SignOut
<1>7. CASE FormRefuses
  BY <1>7, <1>1, SameStays DEF FormRefuses, SessionStep, cachedVars, cacheVars
<1>8. CASE SignedIn
  BY <1>8, <1>1, <1>2 DEF SignedIn, Served, SessionStep, Arrives
<1>9. ASSUME NEW confirmed \in BOOLEAN, SignedUp(confirmed) PROVE SessionStep
  BY <1>9, <1>1, <1>2, SameStays DEF SignedUp, Served, SessionStep, Arrives
<1>10. CASE MailSent
  BY <1>10, <1>1, SameStays DEF MailSent, Served, SessionStep
<1>11. CASE UserUpdated
  BY <1>11, <1>1, SameStays, AnnounceStep DEF UserUpdated, Served, SessionStep
<1>12. CASE SignedOut
  BY <1>12, <1>1, <1>2 DEF SignedOut, SignOutEnds, Served, SessionStep, Arrives
<1>13. CASE CallFails
  BY <1>13, <1>1, <1>2, SameStays DEF CallFails, Served, SessionStep, Arrives
<1>14. CASE UpdateRefused
  BY <1>14, <1>1, SameStays DEF UpdateRefused, Served, SessionStep
<1>15. CASE RedirectToSignIn \/ RedirectToApp
  BY <1>15, <1>1 DEF RedirectToSignIn, RedirectToApp, SessionStep, Arrives, cachedVars
<1>16. CASE ResetTimer
  BY <1>16, <1>1, SameStays DEF ResetTimer, SessionStep, Arrives, cachedVars
<1>17. CASE Unauthorized
  BY <1>17, <1>1 DEF Unauthorized, SessionStep, Reloads, cachedVars
<1>18. ASSUME NEW p \in AppPages, Visit(p) PROVE SessionStep
  BY <1>18, <1>1 DEF Visit, SessionStep, Arrives, cachedVars
<1>19. ASSUME NEW p \in Guest \union {"marketing", "home"}, VisitGuest(p) PROVE SessionStep
  BY <1>19, <1>1 DEF VisitGuest, SessionStep, Arrives, cachedVars
<1>20. CASE BreadcrumbHome
  BY <1>20, <1>1 DEF BreadcrumbHome, SessionStep, Reloads, cachedVars
<1>21. CASE OpenResetLink
  BY <1>21, <1>1 DEF OpenResetLink, SessionStep, Reloads, cachedVars
<1> QED
  BY <1>3, <1>4, <1>5, <1>6, <1>7, <1>8, <1>9, <1>10, <1>11, <1>12, <1>13, <1>14,
     <1>15, <1>16, <1>17, <1>18, <1>19, <1>20, <1>21 DEF ClientSessionNext

-----------------------------------------------------------------------------
\* The steps of the pages leave the session, the route, the lists in use, the
\* server and the timetable alone; only a retry changes what was fetched.
PageStep ==
  /\ UNCHANGED <<server, followed, observed, session, page, sessionVars, viewVars>>
  /\ Pays
  /\ UNCHANGED <<cache, missed>> \/ Retry

LEMMA CatalogueScreensStep ==
  ASSUME TypeInv, CatalogueScreensNext, UNCHANGED <<scheduleVars, home, sessionVars, viewVars>>
  PROVE  PageStep
<1> USE SpendPays, UnspentPays, BoundNames DEF PageStep
<1>1. CacheTyped
  BY DEF TypeInv
<1>2. CASE Retry
  BY <1>1, <1>2 DEF Retry, screenVars
<1>3. ASSUME NEW list \in Managed, OpenCreate(list) PROVE PageStep
  BY <1>1, <1>3 DEF OpenCreate, cacheVars
<1>4. ASSUME NEW list \in Managed, NEW row \in Rows,
             OpenEdit(list, row) \/ OpenConfirm(list, row) PROVE PageStep
  BY <1>1, <1>4 DEF OpenEdit, OpenConfirm, cacheVars
<1>5. ASSUME NEW list \in Managed, NEW row \in Rows, RemoveNow(list, row) PROVE PageStep
  BY <1>1, <1>5 DEF RemoveNow, Send, screenVars
<1>6. CASE Fill
  BY <1>1, <1>6 DEF Fill
<1>7. CASE Cancel
  BY <1>1, <1>7 DEF Cancel, cacheVars
<1>8. CASE SubmitCreate \/ SubmitEdit \/ ConfirmRemove
  BY <1>1, <1>8 DEF SubmitCreate, SubmitEdit, ConfirmRemove, Send
<1>13. CASE BuildingGone
  BY <1>1, <1>13 DEF BuildingGone, cacheVars
<1>9. ASSUME NEW row \in Rows, Tick(row) PROVE PageStep
  BY <1>1, <1>9 DEF Tick, cacheVars
<1>10. ASSUME NEW listed \in SUBSET Rows, TickAll(listed) PROVE PageStep
  BY <1>1, <1>10 DEF TickAll, cacheVars
<1>11. CASE ClearSelection
  BY <1>1, <1>11 DEF ClearSelection, cacheVars
<1>12. CASE BulkDelete
  <2>1. budget \in Bounds /\ Cardinality(ticked) \in Nat
    <3>1. IsFiniteSet(ticked)
      BY RowsAssumption, FS_Subset DEF TypeInv, ScreenTyped
    <3> QED BY <3>1, FS_CardinalityType, <1>1 DEF CacheTyped
  <2>2. budget' \in Bounds /\ budget'.fills = budget.fills
    BY <1>12, <2>1 DEF BulkDelete, Bounds
  <2>3. Pays
    BY <2>1, <2>2 DEF Pays, Bounds
  <2> QED BY <1>12, <2>3 DEF BulkDelete
<1> QED
  BY <1>2, <1>3, <1>4, <1>5, <1>6, <1>7, <1>8, <1>9, <1>10, <1>11, <1>12, <1>13
  DEF CatalogueScreensNext

LEMMA ScheduleScreensStep ==
  ASSUME TypeInv, ScheduleScreensNext, UNCHANGED <<home, sessionVars, viewVars>>
  PROVE  PageStep
<1> USE SpendPays, UnspentPays, BoundNames DEF PageStep
<1>1. CacheTyped
  BY DEF TypeInv
<1>2. ASSUME NEW r \in Rows, SelectSchedule(r) PROVE PageStep
  BY <1>1, <1>2 DEF SelectSchedule, cacheVars, screenVars
<1>3. ASSUME NEW r \in Rows, Unarchive(r) PROVE PageStep
  BY <1>1, <1>3 DEF Unarchive, Send, screenVars
<1>4. CASE SetAsActive \/ ConfirmArchive
  BY <1>1, <1>4 DEF SetAsActive, ConfirmArchive, Send, screenVars
<1>5. CASE ArchiveClick \/ OpenArchived \/ CloseScheduleDialog
  BY <1>1, <1>5 DEF ArchiveClick, OpenArchived, CloseScheduleDialog, cacheVars
<1>6. CASE NameSchedule
  BY <1>1, <1>6 DEF NameSchedule, screenVars
<1>7. ASSUME NEW d \in OfferedDays, ToggleDay(d) PROVE PageStep
  BY <1>1, <1>7 DEF ToggleDay, cacheVars, screenVars
<1>8. CASE Generate
  BY <1>1, <1>8 DEF Generate, Send, screenVars
<1>9. CASE StartOver
  BY <1>1, <1>9 DEF StartOver, cacheVars, screenVars
<1> QED
  BY <1>2, <1>3, <1>4, <1>5, <1>6, <1>7, <1>8, <1>9 DEF ScheduleScreensNext

LEMMA DashboardStep ==
  ASSUME TypeInv, DashboardNext, UNCHANGED <<sessionVars, viewVars>>
  PROVE  PageStep /\ UNCHANGED <<cacheVars, screenVars, scheduleVars>>
<1>1. UNCHANGED <<cacheVars, screenVars, scheduleVars>>
  BY DEF DashboardNext, NextSlide, PrevSlide, Dots, ShowSlide, WelcomeClose, CloseTip
<1> QED BY <1>1, UnspentPays DEF PageStep, TypeInv, cacheVars, screenVars

LEMMA PageSteps ==
  ASSUME TypeInv, PagesNext
  PROVE  PageStep
BY CatalogueScreensStep, ScheduleScreensStep, DashboardStep DEF PagesNext

-----------------------------------------------------------------------------
(***************************************************************************)
(* Signed out                                                              *)
(***************************************************************************)

LEMMA SignedOutKept ==
  ASSUME TypeInv, SignedOutStaysOut, [Next]_vars
  PROVE  SignedOutStaysOut'
<1> USE DEF SignedOutStaysOut
<1>1. session \in SessionFields
  BY DEF TypeInv, ScreenTyped
<1>2. CASE UNCHANGED <<session, out>>
  BY <1>2
<1>3. CASE ClientSessionNext
  <2>1. CASE GetSession
    BY <2>1, <1>1 DEF GetSession, Announce, Announced, Arrive, SessionFields
  <2>2. CASE TokenRefreshed \/ SessionLost
    BY <2>2, <1>1 DEF TokenRefreshed, SessionLost, Announce, Announced, Arrive, SessionFields
  <2>3. CASE SignIn \/ SignUp \/ ForgotPassword \/ ResetPassword
             \/ SaveProfile \/ ChangePassword \/ SignOut \/ FormRefuses
    BY <2>3 DEF SignIn, SignUp, ForgotPassword, ResetPassword, SaveProfile, ChangePassword,
                SignOut, FormRefuses, Calls, screenVars
  <2>4. CASE SignedIn
    BY <2>4 DEF SignedIn
  <2>5. ASSUME NEW confirmed \in BOOLEAN, SignedUp(confirmed) PROVE SignedOutStaysOut'
    BY <2>5 DEF SignedUp, screenVars
  <2>6. CASE MailSent \/ UpdateRefused
    BY <2>6 DEF MailSent, UpdateRefused, screenVars
  <2>7. CASE UserUpdated
    BY <2>7, <1>1 DEF UserUpdated, Announce, Announced, Arrive, SessionFields, screenVars
  <2>8. CASE SignedOut
    BY <2>8 DEF SignedOut, SignOutEnds, Arrive
  <2>9. CASE CallFails
    BY <2>9, <1>1 DEF CallFails, Arrive, SessionFields, screenVars
  <2>10. CASE RedirectToSignIn \/ RedirectToApp \/ ResetTimer
    BY <2>10 DEF RedirectToSignIn, RedirectToApp, ResetTimer, Arrive, screenVars
  <2>11. CASE Unauthorized \/ BreadcrumbHome
    <3>1. out' = out /\ session'.stored = session.stored /\ ~session'.user
      BY <2>11 DEF Unauthorized, BreadcrumbHome, Reload
    <3> QED BY <3>1
  <2>12. ASSUME NEW p, Visit(p) \/ VisitGuest(p) PROVE SignedOutStaysOut'
    BY <2>12 DEF Visit, VisitGuest, Arrive
  <2>13. CASE OpenResetLink
    BY <2>13 DEF OpenResetLink
  <2> QED
    BY <1>3, <2>1, <2>2, <2>3, <2>4, <2>5, <2>6, <2>7, <2>8, <2>9, <2>10, <2>11, <2>12, <2>13
    DEF ClientSessionNext
<1>4. CASE PagesNext
  BY <1>4, <1>2, PageSteps DEF PageStep, sessionVars
<1>5. CASE LibraryNext
  BY <1>5, <1>2 DEF LibraryNext, screenVars, sessionVars
<1>6. ASSUME NEW l \in followed, ListFails(l) PROVE SignedOutStaysOut'
  BY <1>6, <1>2 DEF ListFails, sessionVars
<1>7. ASSUME NEW q \in requests, RequestSettles(q) PROVE SignedOutStaysOut'
  BY <1>7, <1>2 DEF RequestSettles, sessionVars
<1>8. CASE ViewNext \/ UNCHANGED vars
  BY <1>8, <1>2 DEF ViewNext, vars, clientVars, screenVars, sessionVars
<1> QED BY <1>3, <1>4, <1>5, <1>6, <1>7, <1>8 DEF Next

-----------------------------------------------------------------------------
(***************************************************************************)
(* Types                                                                   *)
(***************************************************************************)

LEMMA NoRowsType == NoRows \in Contents
BY DEF NoRows, Contents

LEMMA UnfetchedEntry == Unfetched \in Entry
BY NoRowsType DEF Unfetched, Entry

\* A fetch that starts leaves the rows and the mark as they are.
LEMMA StartedEntry ==
  ASSUME NEW e \in Entry
  PROVE  /\ Started(e) \in Entry
         /\ Started(e).fetch = "sent" /\ Started(e).rows = e.rows
         /\ Started(e).loaded = e.loaded /\ Started(e).stale = e.stale
BY NoRowsType DEF Started, Entry

LEMMA MarkedEntry ==
  ASSUME NEW e \in Entry
  PROVE  [e EXCEPT !.stale = TRUE] \in Entry
BY DEF Entry

LEMMA InvalidatedType ==
  ASSUME CacheTyped, NEW lists
  PROVE  Invalidated(lists) \in [followed -> Entry]
<1>1. ASSUME NEW l \in followed PROVE Invalidated(lists)[l] \in Entry
  BY <1>1, StartedEntry, MarkedEntry DEF Invalidated, CacheTyped
<1> QED BY <1>1 DEF Invalidated

\* What the lists of the server may be after a request of a catalogue page.
LEMMA CatalogueOutcomeType ==
  ASSUME CacheTyped, NEW q, RequestOK(q), q.list \in Catalogue, NEW s \in CatalogueOutcomes(q)
  PROVE  /\ s \in [Lists -> Contents]
         /\ \A l \in Lists \ {q.list} : s[l] = server[l]
<1>1. /\ server \in [Lists -> Contents] /\ q.list \in Lists
      /\ q.op \in {"create", "update", "remove"}
      /\ q.op # "create" => q.row \in Rows
  BY DEF CacheTyped, RequestOK, RequestFields, OpsOn, Catalogue
<1>2. server[q.list] \in [Rows -> Nat]
  BY <1>1 DEF Contents
<1>3. CASE q.op = "create"
  <2>1. PICK r \in Rows : s = [server EXCEPT ![q.list][r] = 1]
    BY <1>3 DEF CatalogueOutcomes, Free
  <2> QED BY <2>1, <1>1, <1>2 DEF Contents
<1>4. CASE q.op = "remove"
  <2>1. s = [server EXCEPT ![q.list][q.row] = 0]
    BY <1>4 DEF CatalogueOutcomes
  <2> QED BY <2>1, <1>1, <1>2, <1>4 DEF Contents
<1>5. CASE q.op = "update" /\ q.list = "roomTypes"
  <2>1. PICK r \in Rows : s = [server EXCEPT ![q.list][q.row] = 0, ![q.list][r] = 1]
    BY <1>5 DEF CatalogueOutcomes, Free
  <2>2. [server EXCEPT ![q.list][q.row] = 0] \in [Lists -> Contents]
    BY <1>1, <1>2, <1>5 DEF Contents
  <2> QED BY <2>1, <2>2, <1>1, <1>2, <1>5 DEF Contents
<1>6. CASE q.op = "update" /\ q.list # "roomTypes"
  <2>1. s = [server EXCEPT ![q.list][q.row] = server[q.list][q.row] + 1]
    BY <1>6 DEF CatalogueOutcomes
  <2> QED BY <2>1, <1>1, <1>2, <1>6 DEF Contents
<1> QED BY <1>1, <1>3, <1>4, <1>5, <1>6

LEMMA ActivatedType ==
  ASSUME CacheTyped, NEW list \in ScheduleLists, NEW row \in Rows
  PROVE  /\ Activated(list, row) \in [Lists -> Contents]
         /\ \A l \in Lists \ ScheduleLists : Activated(list, row)[l] = server[l]
         /\ list = "schedules" =>
              \A r \in Rows : (Activated(list, row)["archived"][r] = 0) <=> (server["archived"][r] = 0)
<1>1. server \in [Lists -> Contents] /\ ScheduleLists \subseteq Lists
  BY DEF CacheTyped, Lists
<1>2. \A rows : Deactivated(rows) \in Contents
  BY DEF Deactivated, Contents
<1> DEFINE t == [server EXCEPT !["schedules"] = Deactivated(server["schedules"]),
                               !["archived"] = Deactivated(server["archived"])]
<1>3. /\ t \in [Lists -> Contents]
      /\ \A l \in Lists \ ScheduleLists : t[l] = server[l]
      /\ t["archived"] = Deactivated(server["archived"])
  BY <1>1, <1>2 DEF ScheduleLists
<1>4. Activated(list, row) = [t EXCEPT ![list][row] = 2]
  BY DEF Activated
<1> HIDE DEF t
<1>5. t[list] \in [Rows -> Nat] /\ list \in Lists
  BY <1>1, <1>3 DEF Contents
<1>6. Activated(list, row) \in [Lists -> Contents]
  BY <1>3, <1>4, <1>5 DEF Contents
<1>7. \A l \in Lists \ {list} : Activated(list, row)[l] = t[l]
  BY <1>3, <1>4
<1>8. \A r \in Rows : (t["archived"][r] = 0) <=> (server["archived"][r] = 0)
  BY <1>3 DEF Deactivated
<1> QED BY <1>1, <1>3, <1>6, <1>7, <1>8 DEF ScheduleLists

\* What they may be after a request for a schedule.  A new active schedule
\* deactivates an archived one, which stays in the archive.
LEMMA ScheduleOutcomeType ==
  ASSUME CacheTyped, NEW q, RequestOK(q), q.list = "schedules", NEW s \in ScheduleOutcomes(q)
  PROVE  /\ s \in [Lists -> Contents]
         /\ \A l \in Lists \ ScheduleLists : s[l] = server[l]
         /\ q.op = "generate" =>
              \A r \in Rows : (s["archived"][r] = 0) <=> (server["archived"][r] = 0)
<1>1. /\ server \in [Lists -> Contents]
      /\ {"schedules", "archived"} \subseteq Lists
      /\ q.op \in {"generate", "setActive", "archive", "unarchive"}
      /\ q.op # "generate" => q.row \in Rows
  BY DEF CacheTyped, RequestOK, RequestFields, OpsOn, Catalogue, Lists, ScheduleLists
<1>2. server["schedules"] \in [Rows -> Nat] /\ server["archived"] \in [Rows -> Nat]
  BY <1>1 DEF Contents
<1>3. CASE q.op = "generate"
  <2>1. PICK r \in Rows : s = Activated("schedules", r)
    BY <1>3 DEF ScheduleOutcomes, Free
  <2> QED BY <2>1, ActivatedType DEF ScheduleLists
<1>4. CASE q.op = "setActive"
  <2>1. s = Activated("schedules", q.row) \/ s = Activated("archived", q.row)
    BY <1>4 DEF ScheduleOutcomes
  <2> QED BY <2>1, <1>1, <1>4, ActivatedType DEF ScheduleLists
<1>5. CASE q.op = "archive"
  <2>1. s = [server EXCEPT !["schedules"][q.row] = 0, !["archived"][q.row] = 1]
    BY <1>5 DEF ScheduleOutcomes
  <2>2. [server EXCEPT !["schedules"][q.row] = 0] \in [Lists -> Contents]
    BY <1>1, <1>2, <1>5 DEF Contents
  <2> QED BY <2>1, <2>2, <1>1, <1>2, <1>5 DEF Contents, ScheduleLists
<1>6. CASE q.op = "unarchive" /\ server["archived"][q.row] = 0
  <2>1. s = server
    BY <1>6 DEF ScheduleOutcomes
  <2> QED BY <2>1, <1>1, <1>6
<1>7. CASE q.op = "unarchive" /\ server["archived"][q.row] # 0
  <2>1. s = [server EXCEPT !["schedules"][q.row] = server["archived"][q.row],
                           !["archived"][q.row] = 0]
    BY <1>7 DEF ScheduleOutcomes
  <2>2. [server EXCEPT !["schedules"][q.row] = server["archived"][q.row]] \in [Lists -> Contents]
    BY <1>1, <1>2, <1>7 DEF Contents
  <2> QED BY <2>1, <2>2, <1>1, <1>2, <1>7 DEF Contents, ScheduleLists
<1> QED BY <1>1, <1>3, <1>4, <1>5, <1>6, <1>7

\* A request changes the lists its hook marks stale, and of no other list
\* what is on show.
LEMMA OutcomeType ==
  ASSUME CacheTyped, NEW q, RequestOK(q), NEW s \in Outcomes(q)
  PROVE  /\ s \in [Lists -> Contents]
         /\ \A l \in Lists \ Marks(q) : OnShow(l, s[l]) = OnShow(l, server[l])
<1>1. q.list \in Catalogue \/ q.list = "schedules"
  BY DEF RequestOK, OpsOn, RequestFields, Lists, ScheduleLists
<1>2. CASE q.list \in Catalogue
  <2>1. Marks(q) = {q.list}
    <3>1. q.op \in {"create", "update", "remove"} /\ q.op # "generate"
      BY <1>2 DEF RequestOK, OpsOn, Catalogue
    <3>2. q.list = "buildings" => Marks(q) = {"buildings"}
      BY <3>1 DEF Marks, UseBuildings
    <3>3. q.list = "roomTypes" => Marks(q) = {"roomTypes"}
      BY <3>1 DEF Marks, UseRoomTypes
    <3>4. q.list = "rooms" => Marks(q) = {"rooms"}
      BY <3>1 DEF Marks, UseRooms
    <3>5. q.list = "courses" => Marks(q) = {"courses"}
      BY <3>1 DEF Marks, UseCourses
    <3>6. q.list = "sessions" => Marks(q) = {"sessions"}
      BY <3>1 DEF Marks, UseSessions
    <3> QED
      BY <3>1, <3>2, <3>3, <3>4, <3>5, <3>6, <1>2 DEF Catalogue
  <2>2. s \in CatalogueOutcomes(q)
    BY <1>2 DEF Outcomes, Catalogue
  <2> QED BY <1>2, <2>1, <2>2, CatalogueOutcomeType
<1>3. CASE q.list = "schedules"
  <2>1. Marks(q) = IF q.op = "generate" THEN {"schedules"} ELSE ScheduleLists
    <3>1. q.op \in {"generate", "setActive", "archive", "unarchive"}
      BY <1>3 DEF RequestOK, OpsOn, Catalogue
    <3>2. CASE q.op = "generate"
      BY <1>3, <3>2 DEF Marks, UseGenerateAndSave
    <3>3. CASE q.op # "generate"
      <4>1. Marks(q) = UseSchedules[q.op]
        BY <1>3, <3>3 DEF Marks
      <4> QED BY <4>1, <3>1, <3>3 DEF UseSchedules
    <3> QED BY <3>2, <3>3
  <2>2. s \in ScheduleOutcomes(q)
    BY <1>3 DEF Outcomes
  <2>3. q.op = "generate" => OnShow("archived", s["archived"]) = OnShow("archived", server["archived"])
    BY <1>3, <2>2, ScheduleOutcomeType DEF OnShow
  <2> QED BY <1>3, <2>1, <2>2, <2>3, ScheduleOutcomeType DEF ScheduleLists
<1> QED BY <1>1, <1>2, <1>3

\* The mark of a request's form, its phase and its callbacks may change.
LEMMA RequestVariants ==
  ASSUME NEW q, RequestOK(q), followed' = followed,
         NEW attached \in BOOLEAN, NEW calm \in BOOLEAN,
         NEW phase \in {"sent", "granted", "refused"}
  PROVE  /\ RequestOK([q EXCEPT !.attached = attached, !.calm = calm])'
         /\ RequestOK([q EXCEPT !.attached = attached])'
         /\ RequestOK([q EXCEPT !.phase = phase])'
BY DEF RequestOK, RequestFields

LEMMA SendTyped ==
  ASSUME RequestsTyped, followed' = followed, NEW q, RequestOK(q), Send(q)
  PROVE  RequestsTyped'
<1> SUFFICES ASSUME NEW r \in requests'
             PROVE  RequestOK(r)'
  BY DEF RequestsTyped
<1>1. CASE r = q
  BY <1>1 DEF RequestOK
<1>2. CASE r # q
  <2>1. PICK p \in requests :
          r = [p EXCEPT !.attached = p.attached /\ ~SameHook(p, q),
                        !.calm = p.calm /\ ~(p.list = q.list /\ p.row = q.row)]
    BY <1>2 DEF Send
  <2>2. RequestOK(p) /\ p.attached \in BOOLEAN /\ p.calm \in BOOLEAN
    BY DEF RequestsTyped, RequestOK, RequestFields
  <2>3. (p.attached /\ ~SameHook(p, q)) \in BOOLEAN
        /\ (p.calm /\ ~(p.list = q.list /\ p.row = q.row)) \in BOOLEAN
    BY <2>2
  <2> QED BY <2>1, <2>2, <2>3, RequestVariants
<1> QED BY <1>1, <1>2

LEMMA DetachedTyped ==
  ASSUME RequestsTyped, followed' = followed, requests' = Detached
  PROVE  RequestsTyped'
<1> SUFFICES ASSUME NEW r \in requests'
             PROVE  RequestOK(r)'
  BY DEF RequestsTyped
<1>1. PICK q \in requests : r = [q EXCEPT !.attached = FALSE]
  BY DEF Detached
<1>2. RequestOK(q)
  BY DEF RequestsTyped
<1> QED BY <1>1, <1>2, RequestVariants

\* A list of the catalogue may be asked for a row, a removal or a save.
LEMMA CatalogueRequest ==
  ASSUME CacheTyped, NEW op \in {"create", "update", "remove"},
         NEW list \in Catalogue \intersect followed,
         NEW row \in Rows \union {NoRow}, op # "create" => row \in Rows,
         NEW base \in Nat, NEW fill \in Nat, NEW calm \in BOOLEAN
  PROVE  RequestOK(Request(op, list, row, base, fill, calm))
<1>1. list \in Lists /\ budget.requests \in Nat
  <2>1. list \in Lists
    BY DEF Lists
  <2>2. budget.requests \in Nat
    BY DEF CacheTyped, Bounds
  <2> QED BY <2>1, <2>2
<1>2. op \in OpNames
  BY DEF OpNames
<1>4. Request(op, list, row, base, fill, calm) \in RequestFields
  BY <1>1, <1>2 DEF Request, RequestFields
<1>3. op \in OpsOn(list)
  BY DEF OpsOn, Catalogue
<1> QED BY <1>3, <1>4 DEF RequestOK, Request

\* The schedules may be asked for one to be made, activated, archived, restored.
LEMMA ScheduleRequest ==
  ASSUME CacheTyped, "schedules" \in followed,
         NEW op \in {"generate", "setActive", "archive", "unarchive"},
         NEW row \in Rows \union {NoRow}, op # "generate" => row \in Rows,
         NEW base \in Rows \union {NoRow}, NEW fill \in Nat
  PROVE  RequestOK(Request(op, "schedules", row, base, fill, FALSE))
<1>1. budget.requests \in Nat
  BY DEF CacheTyped, Bounds
<1>4. "schedules" \in Lists
  BY DEF Lists, ScheduleLists
<1>5. base \in Nat
  BY RowsAssumption DEF NoRow
<1>6. op \in OpNames
  BY DEF OpNames
<1>2. Request(op, "schedules", row, base, fill, FALSE) \in RequestFields
  BY <1>1, <1>4, <1>5, <1>6 DEF Request, RequestFields
<1>3. op \in OpsOn("schedules")
  BY DEF OpsOn, Catalogue
<1> QED BY <1>2, <1>3 DEF RequestOK, Request

-----------------------------------------------------------------------------
LEMMA AppPagesArePages == AppPages \subseteq Pages
BY DEF Pages

LEMMA HomeMountedType ==
  ASSUME NEW dismissed \in BOOLEAN
  PROVE  HomeMounted(dismissed) \in [slide : 0..Slides, showTip : BOOLEAN, dismissed : BOOLEAN]
BY DEF HomeMounted, Slides

LEMMA ClosedType == Closed \in DialogFields /\ Closed.kind = "closed"
BY DEF Closed, DialogFields, NoRow

LEMMA NoGenerationType ==
  NoGeneration \in [name : Nat, days : SUBSET OfferedDays,
                    progress : {"none", "running", "done"}, result : BOOLEAN]
BY DEF NoGeneration, OfferedDays

LEMMA ObserveTyped ==
  ASSUME CacheTyped, NEW lists, NEW all, Observe(lists, all)
  PROVE  /\ observed' \subseteq followed /\ missed' \subseteq followed
         /\ cache' \in [followed -> Entry]
<1>1. \A l \in followed : cache[l] \in Entry
  BY DEF CacheTyped
<1> QED BY <1>1, StartedEntry DEF Observe, CacheTyped

\* What is new when the client comes to a page.
Fresh ==
  /\ dialog' = Closed /\ draft' = 0 /\ ticked' = {}
  /\ selected' = NoRow /\ generation' = NoGeneration
  /\ home' = HomeMounted(home.dismissed)

LEMMA FreshTyped ==
  ASSUME TypeInv, Fresh, page' \in Pages, session' \in SessionFields
  PROVE  DialogOK' /\ ScreenTyped'
<1>1. home.dismissed \in BOOLEAN
  BY DEF TypeInv, ScreenTyped
<1>2. ScreenTyped'
  BY <1>1, HomeMountedType, NoGenerationType DEF Fresh, ScreenTyped
<1>3. DialogOK'
  BY ClosedType DEF Fresh, DialogOK, DialogFields
<1> QED BY <1>2, <1>3

LEMMA SessionTyped ==
  ASSUME TypeInv, SessionStep
  PROVE  TypeInv'
<1>1. /\ UNCHANGED <<server, followed>> /\ budget' \in Bounds
      /\ CacheTyped /\ RequestsTyped
  BY DEF SessionStep, cachedVars, Pays, TypeInv
<1>2. ASSUME NEW p \in Pages, NEW s \in SessionFields, Arrive(p, s) PROVE TypeInv'
  <2>1. Fresh /\ page' \in Pages /\ session' \in SessionFields /\ requests' = Detached
    BY <1>2 DEF Arrive, Fresh
  <2>2. /\ observed' \subseteq followed /\ missed' \subseteq followed
        /\ cache' \in [followed -> Entry]
    BY <1>1, <1>2, ObserveTyped DEF Arrive, CacheTyped
  <2>3. CacheTyped'
    BY <1>1, <2>2 DEF CacheTyped
  <2> QED BY <1>1, <2>1, <2>3, FreshTyped, DetachedTyped DEF TypeInv
<1>3. ASSUME NEW p \in Pages, NEW stored \in BOOLEAN, NEW kept, Reload(p, stored, kept)
      PROVE  TypeInv'
  <2>1. Fresh /\ page' \in Pages /\ session' \in SessionFields /\ requests' = {}
    BY <1>3 DEF Reload, Fresh, SessionFields
  <2>2. CacheTyped'
    BY <1>1, <1>3, UnfetchedEntry DEF Reload, CacheTyped
  <2> QED BY <2>1, <2>2, FreshTyped DEF TypeInv, RequestsTyped
<1>4. CASE Stays
  BY <1>1, <1>4 DEF Stays, TypeInv, CacheTyped, RequestsTyped, RequestOK, DialogOK, DialogFields,
                    ScreenTyped
<1> QED BY <1>2, <1>3, <1>4 DEF SessionStep, Arrives, Reloads

-----------------------------------------------------------------------------
LEMMA CacheStays ==
  ASSUME CacheTyped, UNCHANGED <<followed, observed, cache, missed>>,
         server' \in [Lists -> Contents], Pays
  PROVE  CacheTyped'
BY DEF CacheTyped, Pays

LEMMA RequestsStay ==
  ASSUME RequestsTyped, followed' = followed, requests' \subseteq requests
  PROVE  RequestsTyped'
BY DEF RequestsTyped, RequestOK

LEMMA DialogStays ==
  ASSUME DialogOK, UNCHANGED <<followed, dialog>>
  PROVE  DialogOK'
BY DEF DialogOK, DialogFields

LEMMA DialogCloses ==
  ASSUME dialog' = Closed
  PROVE  DialogOK'
BY ClosedType DEF DialogOK

LEMMA ScreenStays ==
  ASSUME ScreenTyped, UNCHANGED <<followed, session, page, draft, ticked, scheduleVars, home>>
  PROVE  ScreenTyped'
BY DEF ScreenTyped, scheduleVars

LEMMA ManagedLists == Managed \subseteq Catalogue \intersect followed
BY DEF Managed, PageOf, BuildingsPage, RoomTypesPage, RoomsPage, CoursesPage, GeneratePage,
       SchedulePage, DashboardPage, SettingsPage, Catalogue

LEMMA AnsweredTyped ==
  ASSUME RequestsTyped, followed' = followed, NEW q \in requests,
         NEW phase \in {"sent", "granted", "refused"}, requests' = Answered(q, phase)
  PROVE  RequestsTyped'
<1>1. RequestOK(q) /\ TRUE \in BOOLEAN
  BY DEF RequestsTyped
<1>2. RequestOK([q EXCEPT !.phase = phase])'
  BY <1>1, RequestVariants
<1>3. \A p \in requests : RequestOK(p)'
  BY DEF RequestsTyped, RequestOK
<1> QED BY <1>2, <1>3 DEF RequestsTyped, Answered

LEMMA LibraryTyped ==
  ASSUME TypeInv, LibraryNext
  PROVE  TypeInv'
<1> USE SpendPays, UnspentPays, BoundNames
<1>1. CacheTyped /\ RequestsTyped /\ DialogOK /\ ScreenTyped
  BY DEF TypeInv
<1>2. followed' = followed
  BY DEF LibraryNext, CacheNext, ServerReads, Answer, ServerGrants, ServerMisses,
         ServerRefuses, AnswerLost
<1>3. DialogOK' /\ ScreenTyped'
  BY <1>1, <1>2, DialogStays, ScreenStays DEF LibraryNext, screenVars
<1>4. ASSUME NEW l \in followed, ServerReads(l) PROVE CacheTyped' /\ RequestsTyped'
  <2>1. cache[l] \in Entry /\ server[l] \in Contents
    BY <1>1 DEF CacheTyped
  <2>2. [cache[l] EXCEPT !.fetch = "read", !.snap = server[l]] \in Entry
    BY <2>1 DEF Entry
  <2>3. cache' = [cache EXCEPT ![l] = [cache[l] EXCEPT !.fetch = "read", !.snap = server[l]]]
    BY <1>4, <2>1, <1>1 DEF ServerReads, CacheTyped, Entry
  <2>4. cache' \in [followed -> Entry]
    BY <1>1, <2>2, <2>3 DEF CacheTyped
  <2> QED BY <1>1, <1>4, <2>4, RequestsStay DEF ServerReads, CacheTyped
<1>5. ASSUME NEW l \in followed, Answer(l) PROVE CacheTyped' /\ RequestsTyped'
  <2>1. [Unfetched EXCEPT !.loaded = TRUE, !.rows = cache[l].snap] \in Entry
    BY <1>1, UnfetchedEntry DEF CacheTyped, Entry
  <2>2. cache' \in [followed -> Entry]
    BY <1>1, <1>5, <2>1 DEF Answer, CacheTyped
  <2> QED BY <1>1, <1>5, <2>2, RequestsStay DEF Answer, CacheTyped
<1>6. ASSUME NEW q \in requests, ServerGrants(q) PROVE CacheTyped' /\ RequestsTyped'
  <2>1. server' \in [Lists -> Contents]
    BY <1>1, <1>6, OutcomeType DEF ServerGrants, RequestsTyped
  <2>2. Pays
    BY <1>1, <1>6 DEF ServerGrants
  <2>3. CacheTyped'
    BY <1>1, <1>6, <2>1, <2>2, CacheStays DEF ServerGrants
  <2> QED BY <1>1, <1>6, <2>3, AnsweredTyped DEF ServerGrants
<1>7. ASSUME NEW q \in requests, ServerMisses(q) \/ ServerRefuses(q)
      PROVE  CacheTyped' /\ RequestsTyped'
  <2>1. Pays
    BY <1>1, <1>7 DEF ServerMisses, ServerRefuses
  <2>2. server' \in [Lists -> Contents]
    BY <1>1, <1>7 DEF ServerMisses, ServerRefuses, CacheTyped
  <2>3. CacheTyped'
    BY <1>1, <1>7, <2>1, <2>2, CacheStays DEF ServerMisses, ServerRefuses
  <2> QED BY <1>1, <1>7, <2>3, AnsweredTyped DEF ServerMisses, ServerRefuses
<1>8. ASSUME NEW q \in requests, AnswerLost(q) PROVE CacheTyped' /\ RequestsTyped'
  <2>1. Pays
    BY <1>1, <1>8 DEF AnswerLost
  <2>2. CacheTyped'
    BY <1>1, <1>8, <2>1 DEF AnswerLost, CacheTyped, Pays
  <2> QED BY <1>1, <1>8, <2>2, AnsweredTyped DEF AnswerLost
<1> QED
  BY <1>3, <1>4, <1>5, <1>6, <1>7, <1>8 DEF LibraryNext, CacheNext, TypeInv

LEMMA ListFailsTyped ==
  ASSUME TypeInv, NEW l \in followed, ListFails(l)
  PROVE  TypeInv'
<1>1. CacheTyped /\ RequestsTyped /\ DialogOK /\ ScreenTyped
  BY DEF TypeInv
<1>2. Pays
  BY <1>1, SpendPays, BoundNames DEF ListFails, FetchFails
<1>3. [cache[l] EXCEPT !.fetch = "idle", !.snap = NoRows, !.failed = TRUE] \in Entry
  BY <1>1, NoRowsType DEF CacheTyped, Entry
<1>4. cache' = [cache EXCEPT ![l] = [cache[l] EXCEPT !.fetch = "idle", !.snap = NoRows,
                                                     !.failed = TRUE]]
  BY <1>1 DEF ListFails, FetchFails, CacheTyped, Entry
<1>5. CacheTyped'
  BY <1>1, <1>2, <1>3, <1>4 DEF ListFails, FetchFails, CacheTyped, Pays
<1>6. DialogOK' /\ draft' \in Nat
  BY <1>1 DEF ListFails, FetchFails, ContentUnmounts, DialogOK, DialogFields, ScreenTyped
<1>7. ScreenTyped'
  BY <1>1, <1>6 DEF ListFails, FetchFails, ScreenTyped, scheduleVars
<1> QED BY <1>1, <1>5, <1>6, <1>7, RequestsStay DEF ListFails, FetchFails, TypeInv

LEMMA RequestSettlesTyped ==
  ASSUME TypeInv, NEW q \in requests, RequestSettles(q)
  PROVE  TypeInv'
<1>1. CacheTyped /\ RequestsTyped /\ DialogOK /\ ScreenTyped /\ RequestOK(q)
  BY DEF TypeInv, RequestsTyped
<1>2. /\ UNCHANGED <<server, followed, observed, budget>> /\ requests' \subseteq requests
  BY DEF RequestSettles, Settle
<1>3. CacheTyped'
  <2>1. cache' \in [followed -> Entry] /\ missed' \subseteq followed
    BY <1>1, InvalidatedType DEF RequestSettles, Settle, CacheTyped, Overtaken
  <2> QED BY <1>1, <1>2, <2>1 DEF CacheTyped
<1>4. dialog' \in {dialog, Closed} /\ draft' \in {draft, dialog.fill}
  BY DEF RequestSettles, CatalogueCallback
<1>5. DialogOK'
  BY <1>1, <1>2, <1>4, DialogStays, DialogCloses
<1>6. draft' \in Nat
  BY <1>1, <1>4 DEF DialogOK, DialogFields, ScreenTyped
<1>7. selected' \in Rows \union {NoRow}
  BY <1>1 DEF RequestSettles, ScheduleCallback, RequestOK, ScreenTyped
<1>8. generation' \in [name : Nat, days : SUBSET OfferedDays,
                       progress : {"none", "running", "done"}, result : BOOLEAN]
  BY <1>1 DEF RequestSettles, ScheduleCallback, ScreenTyped
<1>9. ScreenTyped'
  BY <1>1, <1>2, <1>6, <1>7, <1>8 DEF RequestSettles, ScreenTyped
<1> QED BY <1>1, <1>2, <1>3, <1>5, <1>9, RequestsStay DEF TypeInv

LEMMA RetryTyped ==
  ASSUME CacheTyped, Retry
  PROVE  cache' \in [followed -> Entry] /\ missed' \subseteq followed
BY StartedEntry DEF Retry, CacheTyped

LEMMA PageCacheTyped ==
  ASSUME CacheTyped, PageStep
  PROVE  CacheTyped'
BY RetryTyped DEF PageStep, Pays, CacheTyped

LEMMA CatalogueScreensTyped ==
  ASSUME TypeInv, CatalogueScreensNext, UNCHANGED <<scheduleVars, home, sessionVars, viewVars>>
  PROVE  TypeInv'
<1>1. CacheTyped /\ RequestsTyped /\ DialogOK /\ ScreenTyped /\ Managed \subseteq Catalogue \intersect followed
  BY ManagedLists DEF TypeInv
<1>2. PageStep
  BY CatalogueScreensStep
<1>3. CacheTyped' /\ followed' = followed
  BY <1>1, <1>2, PageCacheTyped DEF PageStep
<1>4. SUFFICES RequestsTyped' /\ DialogOK' /\ ScreenTyped'
  BY <1>3 DEF TypeInv
<1>5. draft \in Nat /\ dialog.fill \in Nat /\ dialog \in DialogFields
  BY <1>1 DEF ScreenTyped, DialogOK, DialogFields
<1>6. CASE Retry
  BY <1>1, <1>3, <1>6, RequestsStay, DialogStays, ScreenStays DEF Retry, screenVars
<1>7. ASSUME NEW list \in Managed, OpenCreate(list)
      PROVE  RequestsTyped' /\ DialogOK' /\ ScreenTyped'
  <2>1. DialogOK'
    BY <1>1, <1>3, <1>5, <1>7 DEF OpenCreate, Closed, DialogOK, DialogFields, Lists, NoRow
  <2> QED BY <1>1, <1>3, <1>7, <2>1, RequestsStay, ScreenStays DEF OpenCreate, cacheVars
<1>8. ASSUME NEW list \in Managed, NEW row \in Rows, OpenEdit(list, row)
      PROVE  RequestsTyped' /\ DialogOK' /\ ScreenTyped'
  <2>1. Loaded(list, row) \in Nat
    BY <1>1 DEF Loaded, CacheTyped, Entry, Contents
  <2>2. Quiet(list) \in BOOLEAN
    BY DEF Quiet
  <2>3. DialogOK'
    BY <1>1, <1>3, <1>8, <2>1, <2>2 DEF OpenEdit, Closed, DialogOK, DialogFields, Lists
  <2> QED BY <1>1, <1>3, <1>8, <2>3, RequestsStay, ScreenStays DEF OpenEdit, cacheVars
<1>9. ASSUME NEW list \in Managed, NEW row \in Rows, OpenConfirm(list, row)
      PROVE  RequestsTyped' /\ DialogOK' /\ ScreenTyped'
  <2>1. DialogOK'
    BY <1>1, <1>3, <1>9 DEF OpenConfirm, Closed, DialogOK, DialogFields, Lists
  <2> QED BY <1>1, <1>3, <1>9, <2>1, RequestsStay, ScreenStays DEF OpenConfirm, cacheVars
<1>10. ASSUME NEW list \in Managed, NEW row \in Rows, RemoveNow(list, row)
       PROVE  RequestsTyped' /\ DialogOK' /\ ScreenTyped'
  <2>1. RequestOK(Request("remove", list, row, 0, 0, FALSE))
    BY <1>1, <1>10, CatalogueRequest
  <2>2. RequestsTyped'
    BY <1>1, <1>3, <1>10, <2>1, SendTyped DEF RemoveNow
  <2> QED BY <1>1, <1>3, <1>10, <2>2, DialogStays, ScreenStays DEF RemoveNow, screenVars
<1>11. CASE Fill
  <2>1. budget.fills \in Nat
    BY <1>1 DEF CacheTyped, Bounds
  <2>2. DialogOK'
    BY <1>1, <1>3, <1>5, <1>11, <2>1 DEF Fill, DialogOK, DialogFields
  <2> QED BY <1>1, <1>3, <1>11, <2>2, RequestsStay, ScreenStays DEF Fill
<1>12. CASE Cancel
  <2>1. draft' \in Nat
    BY <1>5, <1>12 DEF Cancel
  <2>2. ScreenTyped'
    BY <1>1, <1>3, <1>12, <2>1 DEF Cancel, ScreenTyped, scheduleVars
  <2> QED BY <1>1, <1>3, <1>12, <2>2, RequestsStay, DialogCloses DEF Cancel, cacheVars
<1>13. CASE SubmitCreate
  <2>1. RequestOK(Request("create", dialog.list, NoRow, 0, dialog.fill, FALSE))
    BY <1>1, <1>5, <1>13, CatalogueRequest DEF SubmitCreate, DialogOK
  <2>2. RequestsTyped'
    BY <1>1, <1>3, <1>13, <2>1, SendTyped DEF SubmitCreate
  <2>3. DialogOK'
    BY <1>1, <1>3, <1>5, <1>13 DEF SubmitCreate, DialogOK, DialogFields
  <2> QED BY <1>1, <1>3, <1>13, <2>2, <2>3, ScreenStays DEF SubmitCreate
<1>14. CASE SubmitEdit
  <2>1. RequestOK(Request("update", dialog.list, dialog.row, dialog.base, dialog.fill, dialog.calm))
    BY <1>1, <1>5, <1>14, CatalogueRequest DEF SubmitEdit, DialogOK, DialogFields
  <2>2. RequestsTyped'
    BY <1>1, <1>3, <1>14, <2>1, SendTyped DEF SubmitEdit
  <2>3. DialogOK'
    BY <1>1, <1>3, <1>5, <1>14 DEF SubmitEdit, DialogOK, DialogFields
  <2> QED BY <1>1, <1>3, <1>14, <2>2, <2>3, ScreenStays DEF SubmitEdit
<1>15. CASE ConfirmRemove
  <2>1. RequestOK(Request("remove", dialog.list, dialog.row, 0, 0, FALSE))
    BY <1>1, <1>15, CatalogueRequest DEF ConfirmRemove, DialogOK, DialogFields
  <2>2. RequestsTyped'
    BY <1>1, <1>3, <1>15, <2>1, SendTyped DEF ConfirmRemove
  <2> QED BY <1>1, <1>3, <1>15, <2>2, DialogCloses, ScreenStays DEF ConfirmRemove
<1>16. ASSUME NEW row \in Rows, Tick(row) PROVE RequestsTyped' /\ DialogOK' /\ ScreenTyped'
  <2>1. ScreenTyped'
    BY <1>1, <1>3, <1>16 DEF Tick, ScreenTyped, scheduleVars
  <2> QED BY <1>1, <1>3, <1>16, <2>1, RequestsStay, DialogStays DEF Tick, cacheVars
<1>17. ASSUME NEW listed \in SUBSET Rows, TickAll(listed)
       PROVE  RequestsTyped' /\ DialogOK' /\ ScreenTyped'
  <2>1. ScreenTyped'
    BY <1>1, <1>3, <1>17 DEF TickAll, ScreenTyped, scheduleVars
  <2> QED BY <1>1, <1>3, <1>17, <2>1, RequestsStay, DialogStays DEF TickAll, cacheVars
<1>18. CASE ClearSelection
  <2>1. ScreenTyped'
    BY <1>1, <1>3, <1>18 DEF ClearSelection, ScreenTyped, scheduleVars
  <2> QED BY <1>1, <1>3, <1>18, <2>1, RequestsStay, DialogStays DEF ClearSelection, cacheVars
<1>19. CASE BulkDelete
  <2>1. ScreenTyped'
    BY <1>1, <1>3, <1>19 DEF BulkDelete, ScreenTyped, scheduleVars
  <2>2. "courses" \in Catalogue \intersect followed /\ ticked \subseteq Rows
    BY <1>1, <1>19 DEF BulkDelete, ScreenTyped, Catalogue
  <2>3. \A r \in ticked : RequestOK(Request("remove", "courses", r, 0, 0, FALSE))
    BY <1>1, <2>2, CatalogueRequest
  <2>4. \A q \in requests' : RequestOK(q)
    BY <1>1, <1>19, <2>3 DEF BulkDelete, RequestsTyped
  <2>5. RequestsTyped'
    BY <1>3, <2>4 DEF RequestsTyped, RequestOK
  <2> QED BY <1>1, <1>3, <1>19, <2>1, <2>5, DialogStays DEF BulkDelete
<1>20. CASE BuildingGone
  <2>1. DialogOK'
    BY <1>1, <1>3, <1>5, <1>20 DEF BuildingGone, DialogOK, DialogFields
  <2> QED BY <1>1, <1>3, <1>20, <2>1, RequestsStay, ScreenStays DEF BuildingGone, cacheVars
<1> QED
  BY <1>6, <1>7, <1>8, <1>9, <1>10, <1>11, <1>12, <1>13, <1>14, <1>15, <1>16, <1>17, <1>18, <1>19, <1>20
  DEF CatalogueScreensNext

-----------------------------------------------------------------------------
\* A set of numbers that is not empty has a least one.
LEMMA LeastNumber ==
  ASSUME NEW S \in SUBSET Nat, S # {}
  PROVE  \E n \in S : \A m \in S : n <= m
<1> DEFINE R == OpToRel(<, Nat)
<1>1. IsWellFoundedOn(R, Nat)
  BY NatLessThanWellFounded, Zenon
<1>2. \A n, m \in Nat : m < n => <<m, n>> \in R
  BY DEF OpToRel
<1> HIDE DEF R
<1>3. PICK n \in S : \A m \in S : ~(<<m, n>> \in R)
  BY <1>1, WFMin
<1>4. \A m \in S : ~(m < n)
  BY <1>2, <1>3, Zenon
<1>5. \A m \in S : n <= m
  BY <1>4
<1> QED BY <1>5

\* The first of some schedules is one of them.
LEMMA FirstIsOne ==
  ASSUME NEW rows \in SUBSET Rows, rows # {}
  PROVE  First(rows) \in rows
<1> DEFINE active == {r \in rows : cache["schedules"].rows[r] = 2}
<1>1. rows \subseteq Nat
  BY RowsAssumption
<1>2. \E r \in rows : IF active # {} THEN r \in active ELSE \A s \in rows : r <= s
  <2>1. CASE active # {}
    BY <2>1
  <2>2. CASE active = {}
    BY <1>1, <2>2, LeastNumber
  <2> QED BY <2>1, <2>2
<1> QED BY <1>2 DEF First

LEMMA ScheduleShown ==
  /\ CurrentSchedule \in Rows \union {NoRow}
  /\ \A r : NextSchedule(r) \in Rows \union {NoRow}
<1>1. Kept \subseteq Rows
  BY DEF Kept, RowsOn
<1>2. CurrentSchedule \in Rows \union {NoRow}
  BY <1>1, FirstIsOne DEF CurrentSchedule
<1>3. ASSUME NEW r, Cardinality(Kept) > 1, Kept \ {r} = {} PROVE FALSE
  <2>1. Kept = {} \/ Kept = {r}
    BY <1>3
  <2>2. Cardinality(Kept) \in {0, 1}
    BY <2>1, FS_EmptySet, FS_Singleton
  <2> QED BY <1>3, <2>2
<1>4. ASSUME NEW r PROVE NextSchedule(r) \in Rows \union {NoRow}
  <2>1. CASE r = CurrentSchedule /\ Cardinality(Kept) > 1
    <3>1. Kept \ {r} \in SUBSET Rows /\ Kept \ {r} # {}
      BY <1>1, <1>3, <2>1
    <3>2. First(Kept \ {r}) \in Rows
      BY <3>1, FirstIsOne
    <3> QED BY <2>1, <3>2 DEF NextSchedule
  <2>2. CASE ~(r = CurrentSchedule /\ Cardinality(Kept) > 1)
    BY <2>2 DEF NextSchedule
  <2> QED BY <2>1, <2>2
<1> QED BY <1>2, <1>4

LEMMA ScheduleScreensTyped ==
  ASSUME TypeInv, ScheduleScreensNext, UNCHANGED <<home, sessionVars, viewVars>>
  PROVE  TypeInv'
<1>1. CacheTyped /\ RequestsTyped /\ DialogOK /\ ScreenTyped
  BY DEF TypeInv
<1>2. PageStep
  BY ScheduleScreensStep
<1>3. CacheTyped' /\ followed' = followed
  BY <1>1, <1>2, PageCacheTyped DEF PageStep
<1>4. SUFFICES RequestsTyped' /\ DialogOK' /\ ScreenTyped'
  BY <1>3 DEF TypeInv
<1> DEFINE GenerationType == [name : Nat, days : SUBSET OfferedDays,
                              progress : {"none", "running", "done"}, result : BOOLEAN]
<1>5. generation \in GenerationType /\ dialog \in DialogFields
  BY <1>1 DEF ScreenTyped, DialogOK
<1>6. ASSUME generation' \in GenerationType, UNCHANGED <<screenVars, selected>>
      PROVE  ScreenTyped'
  BY <1>1, <1>3, <1>6 DEF ScreenTyped, screenVars
<1>7. ASSUME NEW r \in Rows, SelectSchedule(r) PROVE RequestsTyped' /\ DialogOK' /\ ScreenTyped'
  <2>1. ScreenTyped'
    BY <1>1, <1>3, <1>7 DEF SelectSchedule, ScreenTyped, screenVars
  <2> QED BY <1>1, <1>3, <1>7, <2>1, RequestsStay, DialogStays DEF SelectSchedule, cacheVars, screenVars
<1>8. ASSUME NEW r \in Rows, Unarchive(r) PROVE RequestsTyped' /\ DialogOK' /\ ScreenTyped'
  <2>1. "schedules" \in followed
    BY <1>1, <1>8 DEF Unarchive, DialogOK, ScheduleLists
  <2>2. RequestOK(Request("unarchive", "schedules", r, 0, 0, FALSE))
    BY <1>1, <2>1, ScheduleRequest DEF NoRow
  <2>3. RequestsTyped'
    BY <1>1, <1>3, <1>8, <2>2, SendTyped DEF Unarchive
  <2> QED BY <1>1, <1>3, <1>8, <2>3, DialogStays, ScreenStays DEF Unarchive, screenVars
<1>9. CASE SetAsActive
  <2>1. "schedules" \in followed /\ CurrentSchedule \in Rows
    BY <1>9, ScheduleShown DEF SetAsActive, AtSchedule, ScheduleLists
  <2>2. RequestOK(Request("setActive", "schedules", CurrentSchedule, 0, 0, FALSE))
    BY <1>1, <2>1, ScheduleRequest DEF NoRow
  <2>3. RequestsTyped'
    BY <1>1, <1>3, <1>9, <2>2, SendTyped DEF SetAsActive
  <2> QED BY <1>1, <1>3, <1>9, <2>3, DialogStays, ScreenStays DEF SetAsActive, screenVars
<1>10. CASE ArchiveClick
  <2>1. CurrentSchedule \in Rows
    BY <1>10, ScheduleShown DEF ArchiveClick
  <2>2. DialogOK'
    BY <1>3, <1>10, <2>1 DEF ArchiveClick, AtSchedule, Closed, DialogOK, DialogFields, Lists,
                             ScheduleLists
  <2> QED BY <1>1, <1>3, <1>10, <2>2, RequestsStay, ScreenStays DEF ArchiveClick, cacheVars
<1>11. CASE ConfirmArchive
  <2>1. "schedules" \in followed /\ dialog.row \in Rows
    BY <1>1, <1>11 DEF ConfirmArchive, DialogOK, ScheduleLists
  <2>2. RequestOK(Request("archive", "schedules", dialog.row, NextSchedule(dialog.row), 0, FALSE))
    BY <1>1, <2>1, ScheduleShown, ScheduleRequest
  <2>3. RequestsTyped'
    BY <1>1, <1>3, <1>11, <2>2, SendTyped DEF ConfirmArchive
  <2> QED BY <1>1, <1>3, <1>11, <2>3, DialogCloses, ScreenStays DEF ConfirmArchive
<1>12. CASE OpenArchived
  <2>1. DialogOK'
    BY <1>3, <1>12 DEF OpenArchived, AtSchedule, Closed, DialogOK, DialogFields, Lists,
                       ScheduleLists
  <2> QED BY <1>1, <1>3, <1>12, <2>1, RequestsStay, ScreenStays DEF OpenArchived, cacheVars
<1>13. CASE CloseScheduleDialog
  BY <1>1, <1>3, <1>13, RequestsStay, DialogCloses, ScreenStays DEF CloseScheduleDialog, cacheVars
<1>14. CASE NameSchedule
  <2>1. generation' \in GenerationType
    BY <1>1, <1>5, <1>14 DEF NameSchedule, CacheTyped, Bounds
  <2> QED BY <1>1, <1>3, <1>6, <1>14, <2>1, RequestsStay, DialogStays DEF NameSchedule, screenVars
<1>15. ASSUME NEW d \in OfferedDays, ToggleDay(d)
       PROVE  RequestsTyped' /\ DialogOK' /\ ScreenTyped'
  <2>1. generation' \in GenerationType
    BY <1>5, <1>15 DEF ToggleDay
  <2> QED BY <1>1, <1>3, <1>6, <1>15, <2>1, RequestsStay, DialogStays
          DEF ToggleDay, cacheVars, screenVars
<1>16. CASE Generate
  <2>1. generation' \in GenerationType
    BY <1>5, <1>16 DEF Generate
  <2>2. RequestOK(Request("generate", "schedules", NoRow, 0, generation.name, FALSE))
    BY <1>1, <1>5, <1>16, ScheduleRequest DEF Generate, AtGenerate, NoRow
  <2>3. RequestsTyped'
    BY <1>1, <1>3, <1>16, <2>2, SendTyped DEF Generate
  <2> QED BY <1>1, <1>3, <1>6, <1>16, <2>1, <2>3, DialogStays DEF Generate, screenVars
<1>17. CASE StartOver
  BY <1>1, <1>3, <1>6, <1>17, NoGenerationType, RequestsStay, DialogStays
  DEF StartOver, cacheVars, screenVars
<1> QED
  BY <1>7, <1>8, <1>9, <1>10, <1>11, <1>12, <1>13, <1>14, <1>15, <1>16, <1>17
  DEF ScheduleScreensNext

LEMMA DashboardTyped ==
  ASSUME TypeInv, DashboardNext, UNCHANGED <<sessionVars, viewVars>>
  PROVE  TypeInv'
<1>1. CacheTyped /\ RequestsTyped /\ DialogOK /\ ScreenTyped
  BY DEF TypeInv
<1>2. UNCHANGED <<cacheVars, screenVars, scheduleVars>>
  BY DashboardStep
<1>3. home \in [slide : 0..Slides, showTip : BOOLEAN, dismissed : BOOLEAN]
  BY <1>1 DEF ScreenTyped
<1>4. home' \in [slide : 0..Slides, showTip : BOOLEAN, dismissed : BOOLEAN]
  <2>1. ASSUME NEW n \in 0..Slides, ShowSlide(n) PROVE home' = [home EXCEPT !.slide = n]
    BY <2>1 DEF ShowSlide
  <2>2. CASE NextSlide \/ PrevSlide \/ Dots
    <3>1. PICK n \in 0..Slides : ShowSlide(n)
      BY <1>3, <2>2 DEF NextSlide, PrevSlide, Dots, Slides
    <3> QED BY <1>3, <2>1, <3>1
  <2>3. CASE WelcomeClose
    <3>1. home' = [home EXCEPT !.slide = 0, !.dismissed = TRUE]
      BY <2>3 DEF WelcomeClose
    <3>2. [home EXCEPT !.slide = 0] \in [slide : 0..Slides, showTip : BOOLEAN, dismissed : BOOLEAN]
      BY <1>3 DEF Slides
    <3> QED BY <3>1, <3>2
  <2>4. CASE CloseTip
    BY <1>3, <2>4 DEF CloseTip
  <2> QED BY <2>2, <2>3, <2>4 DEF DashboardNext
<1>5. ScreenTyped'
  BY <1>1, <1>2, <1>4 DEF ScreenTyped, cacheVars, screenVars, scheduleVars
<1>6. CacheTyped'
  BY <1>1, <1>2 DEF CacheTyped, cacheVars
<1> QED BY <1>1, <1>2, <1>5, <1>6, RequestsStay, DialogStays DEF TypeInv, cacheVars, screenVars

LEMMA TypeInit == Init => TypeInv
<1> SUFFICES ASSUME Init PROVE TypeInv
  OBVIOUS
<1>1. PICK s \in Scenarios : ScenarioInit(s)
  BY DEF Init
<1>2. /\ s.lists \subseteq Lists /\ s.rows \subseteq [Lists -> Contents]
      /\ s.start \in Pages /\ s.user \in BOOLEAN /\ s.dismissed \in BOOLEAN
      /\ s.budget \in Bounds
  BY ScenariosAssumption DEF Contents
<1>3. Started(Unfetched) \in Entry /\ Unfetched \in Entry
  BY UnfetchedEntry, StartedEntry
<1>4. /\ followed = s.lists /\ server \in s.rows /\ budget = s.budget
      /\ observed \subseteq s.lists
      /\ cache = [l \in s.lists |-> IF l \in observed THEN Started(Unfetched) ELSE Unfetched]
      /\ session = [stored |-> s.user, user |-> s.user, loading |-> FALSE]
      /\ page = s.start /\ home = HomeMounted(s.dismissed)
  BY <1>1 DEF ScenarioInit
<1>5. missed = {} /\ requests = {}
  BY DEF Init
<1>6. CacheTyped
  BY <1>2, <1>3, <1>4, <1>5 DEF CacheTyped
<1>7. DialogOK
  BY ClosedType DEF Init, DialogOK
<1>8. ScreenTyped
  <2>1. home \in [slide : 0..Slides, showTip : BOOLEAN, dismissed : BOOLEAN]
    BY <1>2, <1>4, HomeMountedType
  <2>2. session \in SessionFields
    BY <1>2, <1>4 DEF SessionFields
  <2> QED BY <1>2, <1>4, <2>1, <2>2, NoGenerationType DEF Init, ScreenTyped
<1> QED BY <1>5, <1>6, <1>7, <1>8 DEF TypeInv, RequestsTyped

LEMMA SameTyped ==
  ASSUME TypeInv, UNCHANGED clientVars
  PROVE  TypeInv'
<1>1. CacheTyped /\ RequestsTyped /\ DialogOK /\ ScreenTyped
  BY DEF TypeInv
<1> USE DEF clientVars, cacheVars, screenVars
<1>2. CacheTyped'
  BY <1>1 DEF CacheTyped
<1> QED BY <1>1, <1>2, RequestsStay, DialogStays, ScreenStays DEF TypeInv

LEMMA TypeKept ==
  ASSUME TypeInv, [Next]_vars
  PROVE  TypeInv'
<1>1. CASE LibraryNext
  BY <1>1, LibraryTyped
<1>2. CASE \E l \in followed : ListFails(l)
  BY <1>2, ListFailsTyped
<1>3. CASE \E q \in requests : RequestSettles(q)
  BY <1>3, RequestSettlesTyped
<1>4. CASE PagesNext
  BY <1>4, CatalogueScreensTyped, ScheduleScreensTyped, DashboardTyped DEF PagesNext
<1>5. CASE ClientSessionNext
  BY <1>5, SessionSteps, SessionTyped
<1>6. CASE ViewNext \/ UNCHANGED vars
  BY <1>6, SameTyped DEF ViewNext, vars
<1> QED BY <1>1, <1>2, <1>3, <1>4, <1>5, <1>6 DEF Next

-----------------------------------------------------------------------------
(***************************************************************************)
(* What the lists show                                                     *)
(***************************************************************************)

EntryInv(l) == Accurate(l) /\ NotLeftStale(l) /\ EmptyUnlessLoaded(l)

\* A granted request stays one that marks the same lists, unless it marks
\* none of those we speak of.
DueStays(l) == Due(l) => Due(l)'

LEMMA EntryStays ==
  ASSUME NEW l \in followed, EntryInv(l), followed' = followed, cache'[l] = cache[l],
         OnShow(l, server'[l]) = OnShow(l, server[l]),
         l \in observed' => l \in observed, l \in missed => l \in missed', DueStays(l)
  PROVE  EntryInv(l)'
<1>1. Accurate(l)'
  BY DEF EntryInv, Accurate, DueStays, OnShow
<1>2. NotLeftStale(l)' /\ EmptyUnlessLoaded(l)'
  BY DEF EntryInv, NotLeftStale, EmptyUnlessLoaded, NoRows
<1> QED BY <1>1, <1>2 DEF EntryInv

\* A list that is being fetched: nothing was read for it yet.
LEMMA EntryStarts ==
  ASSUME CacheTyped, NEW l \in followed, EntryInv(l), followed' = followed,
         cache'[l].fetch = "sent", cache'[l].loaded = cache[l].loaded,
         cache'[l].rows = cache[l].rows
  PROVE  EntryInv(l)'
BY DEF EntryInv, Accurate, NotLeftStale, EmptyUnlessLoaded, NoRows

LEMMA DueOfAnswered ==
  ASSUME NEW q \in requests, NEW phase, requests' = Answered(q, phase), NEW l,
         q.phase # "granted" \/ l \notin Marks(q)
  PROVE  DueStays(l)
BY DEF DueStays, Due, Answered

LEMMA DueOfDetached ==
  ASSUME RequestsTyped, requests' = Detached, NEW l
  PROVE  DueStays(l)
<1>1. SUFFICES ASSUME NEW q \in requests, q.phase = "granted", l \in Marks(q)
               PROVE  Due(l)'
  BY DEF DueStays, Due
<1> DEFINE p == [q EXCEPT !.attached = FALSE]
<1>2. q \in RequestFields
  BY DEF RequestsTyped, RequestOK
<1>3. p \in requests' /\ p.phase = "granted" /\ p.op = q.op /\ p.list = q.list
  BY <1>1, <1>2 DEF Detached, RequestFields
<1>4. Marks(p) = Marks(q)
  BY <1>3 DEF Marks
<1> QED BY <1>1, <1>3, <1>4 DEF Due

LEMMA DueOfSend ==
  ASSUME RequestsTyped, NEW r, Send(r), NEW l
  PROVE  DueStays(l)
<1>1. SUFFICES ASSUME NEW q \in requests, q.phase = "granted", l \in Marks(q)
               PROVE  Due(l)'
  BY DEF DueStays, Due
<1> DEFINE p == [q EXCEPT !.attached = q.attached /\ ~SameHook(q, r),
                          !.calm = q.calm /\ ~(q.list = r.list /\ q.row = r.row)]
<1>2. q \in RequestFields
  BY DEF RequestsTyped, RequestOK
<1>3. p \in requests'
  BY <1>1 DEF Send
<1>4. p.phase = "granted" /\ p.op = q.op /\ p.list = q.list
  BY <1>1, <1>2 DEF RequestFields
<1>5. Marks(p) = Marks(q)
  BY <1>4 DEF Marks
<1> HIDE DEF p
<1> QED BY <1>1, <1>3, <1>4, <1>5 DEF Due

LEMMA DueOfMore ==
  ASSUME requests \subseteq requests', NEW l
  PROVE  DueStays(l)
BY DEF DueStays, Due

\* The lists of a page that mounts: those not in use before are fetched if
\* they are stale or were never fetched.
LEMMA EntryObserved ==
  ASSUME TypeInv, followed' = followed, server' = server, requests' = Detached,
         NEW lists, NEW all, Observe(lists, all),
         all \intersect followed \subseteq observed \union lists,
         NEW l \in followed, EntryInv(l)
  PROVE  EntryInv(l)'
<1>1. CacheTyped /\ RequestsTyped /\ cache[l] \in Entry
  BY DEF TypeInv, CacheTyped
<1>2. CASE l \in lists /\ Wanted(cache[l])
  <2>1. cache'[l] = Started(cache[l])
    BY <1>2 DEF Observe
  <2> QED BY <1>1, <2>1, EntryStarts, StartedEntry
<1>3. CASE ~(l \in lists /\ Wanted(cache[l]))
  <2>1. cache'[l] = cache[l] /\ (l \in missed => l \in missed')
    BY <1>3 DEF Observe
  <2>2. DueStays(l)
    BY <1>1, DueOfDetached
  <2>3. CASE l \in observed' => l \in observed
    BY <2>1, <2>2, <2>3, EntryStays
  <2>4. CASE l \in observed' /\ l \notin observed
    <3>1. l \in lists
      BY <2>4 DEF Observe
    <3>2. ~(cache[l].fetch = "idle" /\ cache[l].stale)
      BY <1>3, <3>1 DEF Wanted
    <3>3. NotLeftStale(l)'
      BY <2>1, <3>2 DEF NotLeftStale
    <3>4. EmptyUnlessLoaded(l)'
      BY <2>1 DEF EmptyUnlessLoaded, EntryInv, NoRows
    <3>5. Accurate(l)'
      BY <2>1, <2>2 DEF Accurate, EntryInv, DueStays, OnShow
    <3> QED BY <3>3, <3>4, <3>5 DEF EntryInv
  <2> QED BY <2>3, <2>4
<1> QED BY <1>2, <1>3

LEMMA CacheSession ==
  ASSUME TypeInv, CacheInv, SessionStep
  PROVE  CacheInv'
<1>1. followed' = followed /\ server' = server
  BY DEF SessionStep, cachedVars
<1>2. CacheTyped /\ RequestsTyped /\ \A l \in followed : EntryInv(l)
  BY DEF TypeInv, CacheInv, EntryInv
<1>3. CASE Arrives
  <2>1. PICK p \in Pages, s \in SessionFields : Arrive(p, s)
    BY <1>3 DEF Arrives
  <2> DEFINE app   == p \in AppPages /\ s.user /\ ~s.loading
             all   == AppSidebar \union PageOf(p).reads
             lists == PageOf(p).reads \union (IF Mounted THEN {} ELSE AppSidebar)
  <2>2. /\ page' = p /\ session' = s /\ requests' = Detached
        /\ IF app THEN Observe(lists, all) ELSE observed' = {} /\ UNCHANGED <<cache, missed>>
    BY <2>1 DEF Arrive
  <2>3. Mounted' = app
    BY <2>2 DEF Mounted
  <2>4. CASE app
    <3>1. InUse'
      BY <1>1, <2>2, <2>3, <2>4 DEF InUse, Observe
    <3>2. all \intersect followed \subseteq observed \union lists
      BY DEF CacheInv, InUse
    <3>3. Observe(lists, all)
      BY <2>2, <2>4
    <3> HIDE DEF all, lists
    <3>4. \A l \in followed : EntryInv(l)'
      BY <1>1, <1>2, <2>2, <3>2, <3>3, EntryObserved
    <3> QED BY <1>1, <3>1, <3>4 DEF CacheInv, EntryInv
  <2>5. CASE ~app
    <3>1. InUse'
      BY <2>2, <2>3, <2>5 DEF InUse
    <3>2. \A l \in followed : EntryInv(l)'
      BY <1>1, <1>2, <2>2, <2>5, EntryStays, DueOfDetached
    <3> QED BY <1>1, <3>1, <3>2 DEF CacheInv, EntryInv
  <2> QED BY <2>4, <2>5
<1>4. CASE Reloads
  <2>1. /\ session'.loading /\ observed' = {} /\ cache' = [l \in followed |-> Unfetched]
    BY <1>4 DEF Reloads, Reload
  <2>2. InUse'
    BY <2>1 DEF InUse, Mounted
  <2>3. \A l \in followed : EntryInv(l)'
    BY <2>1 DEF EntryInv, Accurate, NotLeftStale, EmptyUnlessLoaded, Unfetched, NoRows
  <2> QED BY <1>1, <2>2, <2>3 DEF CacheInv, EntryInv
<1>5. CASE Stays
  <2>1. UNCHANGED <<observed, cache, requests, missed, page>> /\ Mounted' = Mounted
    BY <1>5 DEF Stays
  <2>2. InUse'
    BY <1>1, <2>1 DEF CacheInv, InUse
  <2>3. \A l \in followed : EntryInv(l)'
    BY <1>1, <1>2, <2>1, EntryStays DEF DueStays, Due
  <2> QED BY <1>1, <2>2, <2>3 DEF CacheInv, EntryInv
<1> QED BY <1>3, <1>4, <1>5 DEF SessionStep

\* The other steps leave the route, the session and the lists in use alone.
LEMMA CacheKeptBy ==
  ASSUME CacheInv, UNCHANGED <<followed, observed, session, page>>,
         \A l \in followed : EntryInv(l)'
  PROVE  CacheInv'
BY DEF CacheInv, EntryInv, InUse, Mounted

LEMMA CacheLibrary ==
  ASSUME TypeInv, CacheInv, LibraryNext
  PROVE  CacheInv'
<1>1. UNCHANGED <<followed, observed, session, page>>
  BY DEF LibraryNext, CacheNext, ServerReads, Answer, ServerGrants, ServerMisses, ServerRefuses,
         AnswerLost, screenVars
<1>2. CacheTyped /\ RequestsTyped /\ \A l \in followed : EntryInv(l) /\ cache[l] \in Entry
  BY DEF TypeInv, CacheInv, EntryInv, CacheTyped
<1>3. SUFFICES ASSUME NEW l \in followed
               PROVE  EntryInv(l)'
  BY <1>1, CacheKeptBy
<1>4. ASSUME NEW k \in followed, ServerReads(k) PROVE EntryInv(l)'
  <2>1. /\ cache' = [cache EXCEPT ![k].fetch = "read", ![k].snap = server[k]]
        /\ UNCHANGED <<server, observed, requests, missed>>
    BY <1>4 DEF ServerReads
  <2>2. CASE l # k
    <3>1. cache'[l] = cache[l]
      BY <1>2, <2>1, <2>2 DEF CacheTyped
    <3> QED BY <1>1, <1>2, <2>1, <3>1, EntryStays, DueOfMore
  <2>3. CASE l = k
    <3>1. /\ cache'[l].fetch = "read" /\ cache'[l].snap = server[l]
          /\ cache'[l].loaded = cache[l].loaded /\ cache'[l].rows = cache[l].rows
      BY <1>2, <2>1, <2>3 DEF Entry, CacheTyped
    <3> QED BY <1>2, <2>1, <3>1 DEF EntryInv, Accurate, NotLeftStale, EmptyUnlessLoaded, NoRows, OnShow
  <2> QED BY <2>2, <2>3
<1>5. ASSUME NEW k \in followed, Answer(k) PROVE EntryInv(l)'
  <2>1. /\ cache[k].fetch = "read"
        /\ cache' = [cache EXCEPT ![k] = [Unfetched EXCEPT !.loaded = TRUE, !.rows = cache[k].snap]]
        /\ UNCHANGED <<server, observed, requests, missed>>
    BY <1>5 DEF Answer
  <2>2. CASE l # k
    <3>1. cache'[l] = cache[l]
      BY <1>2, <2>1, <2>2 DEF CacheTyped
    <3> QED BY <1>1, <1>2, <2>1, <3>1, EntryStays, DueOfMore
  <2>3. CASE l = k
    <3>1. /\ cache'[l].fetch = "idle" /\ cache'[l].rows = cache[l].snap
          /\ cache'[l].loaded /\ ~cache'[l].stale
      BY <1>2, <2>1, <2>3 DEF Unfetched, CacheTyped
    <3>2. l \notin missed /\ ~Due(l) => OnShow(l, cache[l].snap) = OnShow(l, server[l])
      BY <1>2, <2>1, <2>3 DEF EntryInv, Accurate
    <3>3. Due(l)' = Due(l)
      BY <2>1 DEF Due
    <3>4. Accurate(l)'
      BY <2>1, <3>1, <3>2, <3>3 DEF Accurate, OnShow
    <3> QED BY <3>1, <3>4 DEF EntryInv, NotLeftStale, EmptyUnlessLoaded
  <2> QED BY <2>2, <2>3
<1>6. ASSUME NEW q \in requests, ServerGrants(q) PROVE EntryInv(l)'
  <2>1. /\ q.phase = "sent" /\ server' \in Outcomes(q) /\ requests' = Answered(q, "granted")
        /\ UNCHANGED <<followed, observed, cache, missed>>
    BY <1>6 DEF ServerGrants
  <2>2. RequestOK(q)
    BY <1>2 DEF RequestsTyped
  <2>3. CASE l \in Marks(q)
    <3> DEFINE p == [q EXCEPT !.phase = "granted"]
    <3>1. p.phase = "granted" /\ p.op = q.op /\ p.list = q.list /\ p \in requests'
      BY <2>1, <2>2 DEF RequestOK, RequestFields, Answered
    <3>2. Marks(p) = Marks(q)
      BY <3>1 DEF Marks
    <3>3. Due(l)'
      BY <2>3, <3>1, <3>2 DEF Due
    <3> QED BY <1>2, <2>1, <3>3 DEF EntryInv, Accurate, NotLeftStale, EmptyUnlessLoaded, NoRows
  <2>4. CASE l \notin Marks(q)
    <3>1. OnShow(l, server'[l]) = OnShow(l, server[l])
      BY <1>2, <2>1, <2>2, <2>4, OutcomeType DEF CacheTyped
    <3> QED BY <1>2, <2>1, <3>1, EntryStays, DueOfAnswered
  <2> QED BY <2>3, <2>4
<1>7. ASSUME NEW q \in requests, ServerMisses(q) \/ ServerRefuses(q) PROVE EntryInv(l)'
  <2>1. /\ q.phase = "sent" /\ requests' = Answered(q, "refused")
        /\ UNCHANGED <<server, followed, observed, cache, missed>>
    BY <1>7 DEF ServerMisses, ServerRefuses
  <2> QED BY <1>2, <2>1, EntryStays, DueOfAnswered
<1>8. ASSUME NEW q \in requests, AnswerLost(q) PROVE EntryInv(l)'
  <2>1. /\ requests' = Answered(q, "refused") /\ missed' = missed \union (Marks(q) \intersect followed)
        /\ UNCHANGED <<server, followed, observed, cache>>
    BY <1>8 DEF AnswerLost
  <2>2. CASE l \in Marks(q)
    BY <1>2, <2>1, <2>2 DEF EntryInv, Accurate, NotLeftStale, EmptyUnlessLoaded, NoRows
  <2>3. CASE l \notin Marks(q)
    BY <1>2, <2>1, <2>3, EntryStays, DueOfAnswered
  <2> QED BY <2>2, <2>3
<1> QED BY <1>4, <1>5, <1>6, <1>7, <1>8 DEF LibraryNext, CacheNext

LEMMA CacheListFails ==
  ASSUME TypeInv, CacheInv, NEW k \in followed, ListFails(k)
  PROVE  CacheInv'
<1>1. /\ UNCHANGED <<server, followed, observed, requests, missed, session, page>>
      /\ cache' = [cache EXCEPT ![k].fetch = "idle", ![k].snap = NoRows, ![k].failed = TRUE]
  BY DEF ListFails, FetchFails
<1>2. CacheTyped /\ RequestsTyped /\ \A l \in followed : EntryInv(l) /\ cache[l] \in Entry
  BY DEF TypeInv, CacheInv, EntryInv, CacheTyped
<1>3. SUFFICES ASSUME NEW l \in followed
               PROVE  EntryInv(l)'
  BY <1>1, CacheKeptBy
<1>4. CASE l # k
  <2>1. cache'[l] = cache[l]
    BY <1>1, <1>2, <1>4 DEF CacheTyped
  <2> QED BY <1>1, <1>2, <2>1, EntryStays, DueOfMore
<1>5. CASE l = k
  <2>1. /\ cache'[l].fetch = "idle" /\ cache'[l].failed
        /\ cache'[l].loaded = cache[l].loaded /\ cache'[l].rows = cache[l].rows
    BY <1>1, <1>2, <1>5 DEF Entry, CacheTyped
  <2> QED BY <1>2, <2>1 DEF EntryInv, Accurate, NotLeftStale, EmptyUnlessLoaded, NoRows
<1> QED BY <1>4, <1>5

\* The answer of a granted request: its lists are fetched again, or wait
\* for it, or are missed if a fetch goes on that may have read them before.
LEMMA CacheSettles ==
  ASSUME TypeInv, CacheInv, NEW q \in requests, RequestSettles(q)
  PROVE  CacheInv'
<1>1. /\ UNCHANGED <<server, followed, observed, session, page>>
      /\ q.phase \in {"granted", "refused"} /\ requests' = requests \ {q}
      /\ IF q.phase = "granted"
         THEN /\ cache' = Invalidated(Marks(q))
              /\ missed' = (missed \ {l \in Marks(q) : Restarts(l)}) \union Overtaken(Marks(q))
         ELSE UNCHANGED <<cache, missed>>
  BY DEF RequestSettles, Settle
<1>2. CacheTyped /\ \A l \in followed : EntryInv(l) /\ cache[l] \in Entry
  BY DEF TypeInv, CacheInv, EntryInv, CacheTyped
<1>3. SUFFICES ASSUME NEW l \in followed
               PROVE  EntryInv(l)'
  BY <1>1, CacheKeptBy
<1>4. CASE q.phase = "refused"
  <2>1. DueStays(l)
    BY <1>1, <1>4 DEF DueStays, Due
  <2> QED BY <1>1, <1>2, <1>4, <2>1, EntryStays
<1>5. CASE q.phase = "granted" /\ l \notin Marks(q)
  <2>1. DueStays(l)
    BY <1>1, <1>5 DEF DueStays, Due
  <2>2. cache'[l] = cache[l] /\ (l \in missed => l \in missed')
    BY <1>1, <1>5 DEF Invalidated
  <2> QED BY <1>1, <1>2, <2>1, <2>2, EntryStays
<1>6. CASE q.phase = "granted" /\ l \in Marks(q) /\ Restarts(l)
  <2> DEFINE e == [cache[l] EXCEPT !.stale = TRUE]
  <2>1. e \in Entry /\ e.rows = cache[l].rows /\ e.loaded = cache[l].loaded
    BY <1>2, MarkedEntry DEF Entry
  <2>2. cache'[l] = Started(e)
    BY <1>1, <1>6 DEF Invalidated
  <2> HIDE DEF e
  <2> QED BY <1>1, <1>2, <2>1, <2>2, StartedEntry, EntryStarts
<1>7. CASE q.phase = "granted" /\ l \in Marks(q) /\ ~Restarts(l)
  <2>1. cache'[l] = [cache[l] EXCEPT !.stale = TRUE]
    BY <1>1, <1>7 DEF Invalidated
  <2>2. /\ cache'[l].stale /\ cache'[l].fetch = cache[l].fetch
        /\ cache'[l].loaded = cache[l].loaded /\ cache'[l].rows = cache[l].rows
    BY <1>2, <2>1 DEF Entry
  <2>3. EmptyUnlessLoaded(l)'
    BY <1>2, <2>2 DEF EntryInv, EmptyUnlessLoaded, NoRows
  <2>4. CASE cache[l].fetch = "idle"
    BY <1>1, <1>7, <2>2, <2>3, <2>4 DEF EntryInv, Accurate, NotLeftStale, Restarts
  <2>5. CASE cache[l].fetch # "idle"
    <3>1. l \in missed'
      BY <1>1, <1>7, <2>5 DEF Overtaken
    <3> QED BY <2>2, <2>3, <2>5, <3>1 DEF EntryInv, Accurate, NotLeftStale
  <2> QED BY <2>4, <2>5
<1> QED BY <1>1, <1>4, <1>5, <1>6, <1>7

\* A page changes what was fetched only when it tries again; it may send
\* requests, which it can do only to lists whose answers it will hear.
LEMMA CachePageStep ==
  ASSUME TypeInv, CacheInv, PageStep, ~Retry, \A l \in followed : DueStays(l)
  PROVE  CacheInv'
<1>1. UNCHANGED <<server, followed, observed, session, page, cache, missed>>
  BY DEF PageStep
<1>2. \A l \in followed : EntryInv(l)
  BY DEF CacheInv, EntryInv
<1>3. \A l \in followed : EntryInv(l)'
  BY <1>1, <1>2, EntryStays
<1> QED BY <1>1, <1>3, CacheKeptBy

LEMMA CacheRetry ==
  ASSUME TypeInv, CacheInv, Retry
  PROVE  CacheInv'
<1>1. /\ UNCHANGED <<server, followed, observed, requests, session, page>>
      /\ cache' = [l \in followed |-> IF l \in Gate /\ Restarts(l) THEN Started(cache[l])
                                                                 ELSE cache[l]]
      /\ missed' = missed \ {l \in Gate : Restarts(l)}
  BY DEF Retry, screenVars
<1>2. CacheTyped /\ \A l \in followed : EntryInv(l) /\ cache[l] \in Entry
  BY DEF TypeInv, CacheInv, EntryInv, CacheTyped
<1>3. SUFFICES ASSUME NEW l \in followed
               PROVE  EntryInv(l)'
  BY <1>1, CacheKeptBy
<1>4. CASE l \in Gate /\ Restarts(l)
  <2>1. cache'[l] = Started(cache[l])
    BY <1>1, <1>4
  <2> QED BY <1>1, <1>2, <2>1, StartedEntry, EntryStarts
<1>5. CASE ~(l \in Gate /\ Restarts(l))
  <2>1. cache'[l] = cache[l] /\ (l \in missed => l \in missed')
    BY <1>1, <1>5
  <2> QED BY <1>1, <1>2, <2>1, EntryStays, DueOfMore
<1> QED BY <1>4, <1>5

LEMMA CachePages ==
  ASSUME TypeInv, CacheInv, PagesNext
  PROVE  CacheInv'
<1>1. PageStep /\ RequestsTyped
  BY PageSteps DEF TypeInv
<1>2. CASE Retry
  BY <1>2, CacheRetry
<1>3. CASE ~Retry
  <2>1. SUFFICES \A l \in followed : DueStays(l)
    BY <1>1, <1>3, CachePageStep
  <2>2. CASE UNCHANGED requests
    BY <2>2, DueOfMore
  <2>3. ASSUME NEW r, Send(r) PROVE \A l \in followed : DueStays(l)
    BY <1>1, <2>3, DueOfSend
  <2>4. CASE CatalogueScreensNext
    <3>1. ASSUME NEW list \in Managed, NEW row \in Rows,
                 OpenEdit(list, row) \/ OpenConfirm(list, row) \/ RemoveNow(list, row)
          PROVE  \A l \in followed : DueStays(l)
      BY <2>2, <2>3, <3>1 DEF OpenEdit, OpenConfirm, RemoveNow, cacheVars
    <3>2. CASE BulkDelete
      BY <3>2, DueOfMore DEF BulkDelete
    <3> QED BY <1>3, <2>2, <2>3, <2>4, <3>1, <3>2
            DEF CatalogueScreensNext, OpenCreate, Fill, Cancel, SubmitCreate, BuildingGone,
                SubmitEdit, ConfirmRemove, Tick, TickAll, ClearSelection, cacheVars
  <2>5. CASE ScheduleScreensNext
    BY <2>2, <2>3, <2>5
    DEF ScheduleScreensNext, SelectSchedule, Unarchive, SetAsActive, ArchiveClick, ConfirmArchive,
        OpenArchived, CloseScheduleDialog, NameSchedule, ToggleDay, Generate, StartOver, cacheVars
  <2>6. CASE DashboardNext /\ UNCHANGED <<sessionVars, viewVars>>
    BY <2>2, <2>6, DashboardStep DEF cacheVars
  <2> QED BY <2>4, <2>5, <2>6 DEF PagesNext
<1> QED BY <1>2, <1>3

LEMMA CacheInit == Init => CacheInv
<1> SUFFICES ASSUME Init PROVE CacheInv
  OBVIOUS
<1>1. PICK s \in Scenarios : ScenarioInit(s)
  BY DEF Init
<1>2. /\ followed = s.lists
      /\ session = [stored |-> s.user, user |-> s.user, loading |-> FALSE] /\ page = s.start
      /\ observed = IF Started0(s) THEN (AppSidebar \union PageOf(s.start).reads) \intersect s.lists
                                   ELSE {}
      /\ cache = [l \in s.lists |-> IF l \in observed THEN Started(Unfetched) ELSE Unfetched]
  BY <1>1 DEF ScenarioInit
<1>3. Mounted = Started0(s)
  BY <1>2, ScenariosAssumption DEF Mounted, Started0
<1>4. InUse
  BY <1>2, <1>3 DEF InUse
<1>5. ASSUME NEW l \in followed PROVE EntryInv(l)
  <2>1. /\ cache[l].fetch \in {"idle", "sent"} /\ ~cache[l].loaded /\ cache[l].rows = NoRows
        /\ ~cache[l].stale
    BY <1>2, <1>5, UnfetchedEntry, StartedEntry DEF Unfetched
  <2> QED BY <2>1 DEF EntryInv, Accurate, NotLeftStale, EmptyUnlessLoaded
<1> QED BY <1>4, <1>5 DEF CacheInv, EntryInv

LEMMA CacheKept ==
  ASSUME TypeInv, CacheInv, [Next]_vars
  PROVE  CacheInv'
<1>1. CASE LibraryNext
  BY <1>1, CacheLibrary
<1>2. CASE \E l \in followed : ListFails(l)
  BY <1>2, CacheListFails
<1>3. CASE \E q \in requests : RequestSettles(q)
  BY <1>3, CacheSettles
<1>4. CASE PagesNext
  BY <1>4, CachePages
<1>5. CASE ClientSessionNext
  BY <1>5, SessionSteps, CacheSession
<1>6. CASE ViewNext \/ UNCHANGED vars
  <2>1. UNCHANGED <<server, followed, observed, cache, requests, missed, session, page>>
    BY <1>6 DEF ViewNext, vars, clientVars, cacheVars, screenVars
  <2>2. \A l \in followed : EntryInv(l)'
    BY <2>1, EntryStays, DueOfMore DEF CacheInv, EntryInv
  <2> QED BY <2>1, <2>2, CacheKeptBy
<1> QED BY <1>1, <1>2, <1>3, <1>4, <1>5, <1>6 DEF Next

\* At rest nothing is due, and a list in use that is not stale is the server's.
LEMMA RestIsAccurate ==
  ASSUME CacheTyped, CacheInv
  PROVE  RestShowsServer
BY DEF RestShowsServer, CacheTyped, CacheInv, Accurate, NotLeftStale, Due

-----------------------------------------------------------------------------
(***************************************************************************)
(* Forms and requests that keep what others saved                          *)
(***************************************************************************)

\* A list of the catalogue is changed by requests for it, and by no other.
LEMMA CatalogueMarks ==
  ASSUME NEW q, RequestOK(q), NEW l \in Catalogue, l \in Marks(q)
  PROVE  q.list = l
<1>1. q.list \in Catalogue \/ q.list = "schedules"
  BY DEF RequestOK, OpsOn, RequestFields, Lists, ScheduleLists
<1>2. CASE q.list = "schedules"
  <2>1. q.op \in {"generate", "setActive", "archive", "unarchive"}
    BY <1>2 DEF RequestOK, OpsOn, Catalogue
  <2>2. Marks(q) = IF q.op = "generate" THEN UseGenerateAndSave[q.op] ELSE UseSchedules[q.op]
    BY <1>2, <2>1 DEF Marks
  <2>3. Marks(q) \subseteq ScheduleLists
    BY <2>1, <2>2 DEF UseGenerateAndSave, UseSchedules, ScheduleLists
  <2> QED BY <2>3 DEF Catalogue, ScheduleLists
<1>3. CASE q.list \in Catalogue
  <2>1. q.op \in {"create", "update", "remove"} /\ q.op # "generate"
    BY <1>3 DEF RequestOK, OpsOn, Catalogue
  <2>2. /\ q.list = "buildings" => Marks(q) = {"buildings"}
        /\ q.list = "roomTypes" => Marks(q) = {"roomTypes"}
        /\ q.list = "rooms" => Marks(q) = {"rooms"}
    BY <2>1 DEF Marks, UseBuildings, UseRoomTypes, UseRooms
  <2>3. /\ q.list = "courses" => Marks(q) = {"courses"}
        /\ q.list = "sessions" => Marks(q) = {"sessions"}
    BY <2>1 DEF Marks, UseCourses, UseSessions
  <2> QED BY <1>3, <2>2, <2>3 DEF Catalogue
<1> QED BY <1>1, <1>2, <1>3

LEMMA OtherListsKept ==
  ASSUME CacheTyped, NEW q, RequestOK(q), NEW s \in Outcomes(q),
         NEW l \in Catalogue, q.list # l
  PROVE  s[l] = server[l]
<1>1. q.list \in Catalogue \/ q.list = "schedules"
  BY DEF RequestOK, OpsOn, RequestFields, Lists, ScheduleLists
<1>2. l \in Lists \ ScheduleLists
  BY DEF Lists, Catalogue, ScheduleLists
<1> QED BY <1>1, <1>2, CatalogueOutcomeType, ScheduleOutcomeType DEF Outcomes, Catalogue

\* A row that is there is changed by requests for it, and by no other.
LEMMA OtherRowsKept ==
  ASSUME CacheTyped, NEW q, RequestOK(q), NEW s \in Outcomes(q),
         NEW l \in {"rooms", "sessions"}, NEW row \in Rows, server[l][row] # 0,
         q.list = l => q.row # row
  PROVE  s[l][row] = server[l][row]
<1>1. CASE q.list # l
  BY <1>1, OtherListsKept DEF Catalogue
<1>2. CASE q.list = l
  <2>1. /\ q.op \in {"create", "update", "remove"} /\ s \in CatalogueOutcomes(q)
        /\ server \in [Lists -> Contents] /\ l \in Lists
    BY <1>2 DEF RequestOK, OpsOn, Catalogue, Outcomes, CacheTyped, Lists
  <2>2. server[l] \in [Rows -> Nat]
    BY <2>1 DEF Contents
  <2>3. CASE q.op = "create"
    <3>1. PICK r \in Rows : server[l][r] = 0 /\ s = [server EXCEPT ![l][r] = 1]
      BY <1>2, <2>1, <2>3 DEF CatalogueOutcomes, Free
    <3> QED BY <2>1, <2>2, <3>1
  <2>4. CASE q.op = "remove"
    <3>1. s = [server EXCEPT ![l][q.row] = 0]
      BY <1>2, <2>1, <2>4 DEF CatalogueOutcomes
    <3> QED BY <1>2, <2>1, <2>2, <3>1
  <2>5. CASE q.op = "update"
    <3>1. s = [server EXCEPT ![l][q.row] = server[l][q.row] + 1]
      BY <1>2, <2>1, <2>5 DEF CatalogueOutcomes
    <3> QED BY <1>2, <2>1, <2>2, <3>1
  <2> QED BY <2>1, <2>3, <2>4, <2>5
<1> QED BY <1>1, <1>2

\* Requests change their phase and lose their callbacks or their calm, and
\* what a calm one is about stays.
LEMMA CalmRequestsStay ==
  ASSUME CalmRequest, NEW f, requests' \subseteq {f[r] : r \in requests},
         \A r \in requests :
           /\ f[r].op = r.op /\ f[r].list = r.list /\ f[r].row = r.row /\ f[r].base = r.base
           /\ f[r].calm => r.calm
           /\ f[r].phase = "sent" => r.phase = "sent",
         \A r \in requests : Calm(f[r]) /\ Alone(r)
                               => server'[r.list][r.row] = server[r.list][r.row]
  PROVE  CalmRequest'
<1>1. SUFFICES ASSUME NEW q \in requests', Calm(q)
               PROVE  Alone(q)'
  BY DEF CalmRequest, Calm
<1>2. PICK r \in requests : q = f[r]
  OBVIOUS
<1>3. Calm(r) /\ Alone(r)
  BY <1>1, <1>2 DEF CalmRequest, Calm
<1>4. q.base # 0 /\ server'[q.list][q.row] = q.base
  BY <1>1, <1>2, <1>3 DEF Alone
<1>5. ASSUME NEW p \in requests', p # q, p.list = q.list PROVE p.row # q.row
  <2>1. PICK o \in requests : p = f[o]
    OBVIOUS
  <2> QED BY <1>2, <1>3, <1>5, <2>1 DEF Alone
<1> QED BY <1>4, <1>5 DEF Alone

LEMMA SameRequestsCalm ==
  ASSUME CalmRequest, UNCHANGED server, requests' \subseteq requests
  PROVE  CalmRequest'
<1> DEFINE f == [r \in requests |-> r]
<1>1. requests' \subseteq {f[r] : r \in requests}
  OBVIOUS
<1>2. \A r \in requests : f[r] = r
  OBVIOUS
<1> HIDE DEF f
<1> QED BY <1>1, <1>2, CalmRequestsStay

LEMMA DetachedCalm ==
  ASSUME RequestsTyped, CalmRequest, UNCHANGED server, requests' = Detached
  PROVE  CalmRequest'
<1> DEFINE f == [r \in requests |-> [r EXCEPT !.attached = FALSE]]
<1>1. requests' \subseteq {f[r] : r \in requests}
  BY DEF Detached
<1>2. \A r \in requests :
        /\ f[r].op = r.op /\ f[r].list = r.list /\ f[r].row = r.row /\ f[r].base = r.base
        /\ f[r].calm = r.calm /\ f[r].phase = r.phase
  BY DEF RequestsTyped, RequestOK, RequestFields
<1> HIDE DEF f
<1> QED BY <1>1, <1>2, CalmRequestsStay

LEMMA AnsweredCalm ==
  ASSUME RequestsTyped, CalmRequest, NEW q \in requests, NEW phase \in {"granted", "refused"},
         requests' = Answered(q, phase),
         \A r \in requests \ {q} : Calm(r) /\ Alone(r)
                                     => server'[r.list][r.row] = server[r.list][r.row]
  PROVE  CalmRequest'
<1> DEFINE f == [r \in requests |-> IF r = q THEN [q EXCEPT !.phase = phase] ELSE r]
<1>1. requests' \subseteq {f[r] : r \in requests}
  BY DEF Answered
<1>2. \A r \in requests :
        /\ f[r].op = r.op /\ f[r].list = r.list /\ f[r].row = r.row /\ f[r].base = r.base
        /\ f[r].calm = r.calm /\ (f[r].phase = "sent" => r.phase = "sent" /\ r # q)
  BY DEF RequestsTyped, RequestOK, RequestFields
<1>3. \A r \in requests : Calm(f[r]) => Calm(r) /\ r # q
  BY <1>2 DEF Calm
<1> HIDE DEF f
<1> QED BY <1>1, <1>2, <1>3, CalmRequestsStay

\* A request takes the calm from those for its row; if it is calm itself
\* there is no other for its list.
LEMMA SendCalm ==
  ASSUME RequestsTyped, CalmRequest, UNCHANGED server, NEW q, Send(q),
         Calm(q) => /\ q.base # 0 /\ server[q.list][q.row] = q.base
                    /\ \A p \in requests : p.list # q.list
  PROVE  CalmRequest'
<1> DEFINE f == [r \in requests |->
                   [r EXCEPT !.attached = r.attached /\ ~SameHook(r, q),
                             !.calm = r.calm /\ ~(r.list = q.list /\ r.row = q.row)]]
<1>1. requests' = {q} \union {f[r] : r \in requests}
  BY DEF Send
<1>2. \A r \in requests :
        /\ f[r].op = r.op /\ f[r].list = r.list /\ f[r].row = r.row /\ f[r].base = r.base
        /\ f[r].calm = (r.calm /\ ~(r.list = q.list /\ r.row = q.row))
        /\ f[r].phase = r.phase
  BY DEF RequestsTyped, RequestOK, RequestFields
<1> HIDE DEF f
<1>3. SUFFICES ASSUME NEW r \in requests', Calm(r)
               PROVE  Alone(r)'
  BY DEF CalmRequest, Calm
<1>4. CASE r = q
  BY <1>1, <1>2, <1>3, <1>4 DEF Alone
<1>5. CASE r # q
  <2>1. PICK o \in requests : r = f[o]
    BY <1>1, <1>5
  <2>2. Calm(o) /\ Alone(o) /\ (o.list = q.list => o.row # q.row)
    BY <1>2, <1>3, <2>1 DEF CalmRequest, Calm
  <2>3. ASSUME NEW p \in requests', p # r, p.list = r.list PROVE p.row # r.row
    <3>1. CASE p = q
      BY <1>2, <2>1, <2>2, <2>3, <3>1
    <3>2. CASE p # q
      <4>1. PICK m \in requests : p = f[m]
        BY <1>1, <3>2
      <4> QED BY <1>2, <2>1, <2>2, <2>3, <4>1 DEF Alone
    <3> QED BY <3>1, <3>2
  <2> QED BY <1>2, <2>1, <2>2, <2>3 DEF Alone
<1> QED BY <1>4, <1>5

\* No list is asked that was not asked before.
NoMoreAsked == \A q \in requests' : \E p \in requests : p.list = q.list

LEMMA CalmFormStays ==
  ASSUME CalmForm,
         dialog'.kind = "edit" /\ dialog'.calm =>
           /\ dialog.kind = "edit" /\ dialog.calm
           /\ dialog'.base = dialog.base /\ dialog'.list = dialog.list /\ dialog'.row = dialog.row
           /\ server'[dialog.list] = server[dialog.list]
           /\ \A q \in requests' : q.list = dialog.list => \E p \in requests : p.list = q.list
  PROVE  CalmForm'
BY DEF CalmForm

LEMMA CalmSession ==
  ASSUME TypeInv, CalmInv, SessionStep
  PROVE  CalmInv'
<1> USE DEF CalmInv
<1>1. UNCHANGED server /\ RequestsTyped
  BY DEF SessionStep, cachedVars, TypeInv
<1>2. CASE Arrives
  <2>1. dialog' = Closed /\ requests' = Detached
    BY <1>2 DEF Arrives, Arrive
  <2> QED BY <1>1, <2>1, DetachedCalm, CalmFormStays, ClosedType
<1>3. CASE Reloads
  <2>1. dialog' = Closed /\ requests' = {}
    BY <1>3 DEF Reloads, Reload
  <2> QED BY <1>1, <2>1, SameRequestsCalm, CalmFormStays, ClosedType
<1>4. CASE Stays
  BY <1>1, <1>4, SameRequestsCalm, CalmFormStays DEF Stays
<1> QED BY <1>2, <1>3, <1>4 DEF SessionStep

LEMMA AnsweredAsks ==
  ASSUME RequestsTyped, NEW q \in requests, NEW phase, requests' = Answered(q, phase)
  PROVE  NoMoreAsked
BY DEF RequestsTyped, RequestOK, RequestFields, Answered, NoMoreAsked

LEMMA CalmLibrary ==
  ASSUME TypeInv, CalmInv, LibraryNext
  PROVE  CalmInv'
<1> USE DEF CalmInv
<1>1. RequestsTyped /\ CacheTyped /\ DialogOK /\ UNCHANGED dialog
  BY DEF LibraryNext, screenVars, TypeInv
<1>2. ASSUME NEW l \in followed, ServerReads(l) \/ Answer(l) PROVE CalmInv'
  BY <1>1, <1>2, SameRequestsCalm, CalmFormStays DEF ServerReads, Answer
<1>3. ASSUME NEW q \in requests, ServerGrants(q) PROVE CalmInv'
  <2>1. /\ q.phase = "sent" /\ server' \in Outcomes(q) /\ requests' = Answered(q, "granted")
        /\ RequestOK(q)
    BY <1>1, <1>3 DEF ServerGrants, RequestsTyped
  <2>2. ASSUME dialog.kind = "edit", dialog.calm
        PROVE  server'[dialog.list] = server[dialog.list]
    <3>1. dialog.list \in Catalogue /\ q.list # dialog.list
      BY <1>1, <2>2 DEF DialogOK, CalmForm
    <3> QED BY <1>1, <2>1, <3>1, OtherListsKept
  <2>3. CalmForm'
    BY <1>1, <2>1, <2>2, AnsweredAsks, CalmFormStays DEF NoMoreAsked
  <2>4. ASSUME NEW r \in requests \ {q}, Calm(r), Alone(r)
        PROVE  server'[r.list][r.row] = server[r.list][r.row]
    <3>1. RequestOK(r)
      BY <1>1 DEF RequestsTyped
    <3>2. /\ r.list \in {"rooms", "sessions"} /\ r.row \in Rows
          /\ server[r.list][r.row] # 0 /\ (q.list = r.list => q.row # r.row)
      BY <2>4, <3>1 DEF Calm, Alone, RequestOK
    <3> QED BY <1>1, <2>1, <3>2, OtherRowsKept
  <2>5. CalmRequest'
    BY <1>1, <2>1, <2>4, AnsweredCalm
  <2> QED BY <2>3, <2>5
<1>4. ASSUME NEW q \in requests, ServerMisses(q) \/ ServerRefuses(q) \/ AnswerLost(q)
      PROVE  CalmInv'
  <2>1. UNCHANGED server /\ requests' = Answered(q, "refused")
    BY <1>4 DEF ServerMisses, ServerRefuses, AnswerLost
  <2> QED BY <1>1, <2>1, AnsweredAsks, AnsweredCalm, CalmFormStays DEF NoMoreAsked
<1> QED BY <1>2, <1>3, <1>4 DEF LibraryNext, CacheNext

\* A form filled at rest is filled with what the server holds.
LEMMA FilledAtRest ==
  ASSUME TypeInv, CacheInv, NEW list \in Catalogue \intersect followed,
         NEW row \in RowsOn(list), Quiet(list)
  PROVE  cache[list].rows[row] # 0 /\ server[list][row] = cache[list].rows[row]
<1>1. /\ cache[list].rows[row] # 0 /\ row \in Rows
      /\ Accurate(list) /\ EmptyUnlessLoaded(list)
  BY DEF RowsOn, CacheInv
<1>2. cache[list].loaded
  BY <1>1 DEF EmptyUnlessLoaded, NoRows
<1>3. ~Due(list)
  BY CatalogueMarks DEF Due, Quiet, TypeInv, RequestsTyped
<1>4. OnShow(list, cache[list].rows) = OnShow(list, server[list])
  BY <1>1, <1>2, <1>3 DEF Accurate, Quiet
<1> QED BY <1>1, <1>4 DEF OnShow, Catalogue

LEMMA CalmCatalogueScreens ==
  ASSUME TypeInv, CacheInv, CalmInv, CatalogueScreensNext,
         UNCHANGED <<scheduleVars, home, sessionVars, viewVars>>
  PROVE  CalmInv'
<1> USE DEF CalmInv
<1>1. UNCHANGED server /\ RequestsTyped /\ DialogOK
  BY CatalogueScreensStep DEF PageStep, TypeInv
<1>2. CASE UNCHANGED <<requests, dialog>>
  BY <1>1, <1>2, SameRequestsCalm, CalmFormStays
<1>3. ASSUME UNCHANGED requests, ~(dialog'.kind = "edit" /\ dialog'.calm) PROVE CalmInv'
  BY <1>1, <1>3, SameRequestsCalm, CalmFormStays
<1>4. ASSUME NEW q, Send(q), ~Calm(q), ~(dialog'.kind = "edit" /\ dialog'.calm) PROVE CalmInv'
  BY <1>1, <1>4, SendCalm, CalmFormStays
<1>5. \A op, list, row, base, fill, calm :
        LET q == Request(op, list, row, base, fill, calm)
        IN  q.op = op /\ q.list = list /\ q.row = row /\ q.base = base /\ q.calm = calm
  BY DEF Request
<1>6. ASSUME NEW list \in Managed, OpenCreate(list) PROVE CalmInv'
  BY <1>3, <1>6 DEF OpenCreate, Closed, cacheVars
<1>7. ASSUME NEW list \in Managed, NEW row \in Rows, OpenEdit(list, row) PROVE CalmInv'
  <2>1. /\ dialog' = [Closed EXCEPT !.kind = "edit", !.list = list, !.row = row,
                                    !.base = cache[list].rows[row], !.calm = Quiet(list)]
        /\ UNCHANGED cacheVars /\ row \in RowsOn(list)
    BY <1>7 DEF OpenEdit, Loaded
  <2>2. /\ dialog'.list = list /\ dialog'.row = row
        /\ dialog'.base = cache[list].rows[row] /\ dialog'.calm = Quiet(list)
    BY <2>1 DEF Closed
  <2>3. list \in Catalogue \intersect followed
    BY ManagedLists
  <2>4. CalmForm'
    BY <2>1, <2>2, <2>3, FilledAtRest DEF CalmForm, Quiet, cacheVars
  <2> QED BY <1>1, <2>1, <2>4, SameRequestsCalm DEF cacheVars
<1>8. ASSUME NEW list \in Managed, NEW row \in Rows, OpenConfirm(list, row) PROVE CalmInv'
  BY <1>3, <1>8 DEF OpenConfirm, Closed, cacheVars
<1>9. ASSUME NEW list \in Managed, NEW row \in Rows, RemoveNow(list, row) PROVE CalmInv'
  BY <1>4, <1>5, <1>9 DEF RemoveNow, screenVars, Calm
<1>10. CASE Fill
  <2>1. /\ UNCHANGED requests /\ dialog'.kind = dialog.kind /\ dialog'.calm = dialog.calm
        /\ dialog'.base = dialog.base /\ dialog'.list = dialog.list /\ dialog'.row = dialog.row
    BY <1>1, <1>10 DEF Fill, DialogOK, DialogFields
  <2> QED BY <1>1, <2>1, SameRequestsCalm, CalmFormStays
<1>11. CASE Cancel
  BY <1>3, <1>11, ClosedType DEF Cancel, cacheVars
<1>12. CASE SubmitCreate
  <2>1. dialog'.kind # "edit"
    BY <1>1, <1>12 DEF SubmitCreate, DialogOK, DialogFields
  <2> QED BY <1>4, <1>5, <1>12, <2>1 DEF SubmitCreate, Calm
<1>13. CASE SubmitEdit
  <2> DEFINE q == Request("update", dialog.list, dialog.row, dialog.base, dialog.fill, dialog.calm)
  <2>1. Send(q) /\ dialog.kind = "edit" /\ dialog' = [dialog EXCEPT !.calm = FALSE]
    BY <1>13 DEF SubmitEdit
  <2>2. q.list = dialog.list /\ q.row = dialog.row /\ q.base = dialog.base /\ q.calm = dialog.calm
    BY <1>5
  <2> HIDE DEF q
  <2>3. ~dialog'.calm
    BY <1>1, <2>1 DEF DialogOK, DialogFields
  <2>4. CalmRequest'
    BY <1>1, <2>1, <2>2, SendCalm DEF Calm, CalmForm
  <2> QED BY <2>3, <2>4, CalmFormStays
<1>14. CASE ConfirmRemove
  <2> DEFINE q == Request("remove", dialog.list, dialog.row, 0, 0, FALSE)
  <2>1. q.op = "remove"
    BY DEF Request
  <2>2. Send(q) /\ dialog' = Closed
    BY <1>14 DEF ConfirmRemove
  <2> HIDE DEF q
  <2> QED BY <1>4, <2>1, <2>2, ClosedType DEF Calm
<1>15. CASE BulkDelete
  <2>1. /\ dialog.kind = "closed" /\ UNCHANGED dialog
        /\ requests' = requests \union {Request("remove", "courses", r, 0, 0, FALSE) : r \in ticked}
    BY <1>15 DEF BulkDelete
  <2>2. \A q \in requests' \ requests : q.list = "courses"
    BY <2>1 DEF Request
  <2>3. CalmRequest'
    <3>1. ASSUME NEW q \in requests', Calm(q) PROVE Alone(q)'
      BY <1>1, <2>2, <3>1 DEF CalmRequest, Calm, Alone
    <3> QED BY <3>1 DEF CalmRequest, Calm
  <2> QED BY <2>1, <2>3, CalmFormStays
<1>16. CASE BuildingGone
  <2>1. dialog'.kind # "edit"
    BY <1>1, <1>16 DEF BuildingGone, DialogOK, DialogFields
  <2> QED BY <1>3, <1>16, <2>1 DEF BuildingGone, cacheVars
<1> QED
  BY <1>2, <1>6, <1>7, <1>8, <1>9, <1>10, <1>11, <1>12, <1>13, <1>14, <1>15, <1>16
  DEF CatalogueScreensNext, Retry, Tick, TickAll, ClearSelection, screenVars, cacheVars

LEMMA CalmScheduleScreens ==
  ASSUME TypeInv, CalmInv, ScheduleScreensNext, UNCHANGED <<home, sessionVars, viewVars>>
  PROVE  CalmInv'
<1> USE DEF CalmInv
<1>1. UNCHANGED server /\ RequestsTyped /\ DialogOK
  BY ScheduleScreensStep DEF PageStep, TypeInv
<1>2. CASE UNCHANGED <<requests, dialog>>
  BY <1>1, <1>2, SameRequestsCalm, CalmFormStays
<1>3. ASSUME UNCHANGED requests, ~(dialog'.kind = "edit" /\ dialog'.calm) PROVE CalmInv'
  BY <1>1, <1>3, SameRequestsCalm, CalmFormStays
<1>4. ASSUME NEW op, NEW row, NEW base, NEW fill,
             Send(Request(op, "schedules", row, base, fill, FALSE)),
             dialog' = dialog \/ dialog'.kind # "edit"
      PROVE  CalmInv'
  <2> DEFINE q == Request(op, "schedules", row, base, fill, FALSE)
  <2>1. q.list = "schedules" /\ Send(q)
    BY <1>4 DEF Request
  <2> HIDE DEF q
  <2>2. CalmRequest'
    BY <1>1, <2>1, SendCalm DEF Calm
  <2>3. \A p \in requests' : p.list # "schedules" => \E o \in requests : o.list = p.list
    BY <1>1, <2>1 DEF Send, RequestsTyped, RequestOK, RequestFields
  <2>4. dialog.kind = "edit" => dialog.list # "schedules"
    BY <1>1 DEF DialogOK, Catalogue
  <2> QED BY <1>1, <1>4, <2>2, <2>3, <2>4, CalmFormStays
<1>5. ASSUME NEW r \in Rows, SelectSchedule(r) PROVE CalmInv'
  BY <1>2, <1>5 DEF SelectSchedule, cacheVars, screenVars
<1>6. ASSUME NEW r \in Rows, Unarchive(r) PROVE CalmInv'
  BY <1>4, <1>6 DEF Unarchive, screenVars
<1>7. CASE SetAsActive
  BY <1>4, <1>7 DEF SetAsActive, screenVars
<1>8. CASE ArchiveClick \/ OpenArchived \/ CloseScheduleDialog
  <2>1. UNCHANGED requests
    BY <1>8 DEF ArchiveClick, OpenArchived, CloseScheduleDialog, cacheVars
  <2>2. ArchiveClick => dialog'.kind = "archive"
    BY DEF ArchiveClick, Closed
  <2>3. OpenArchived => dialog'.kind = "sheet"
    BY DEF OpenArchived, Closed
  <2>4. CloseScheduleDialog => dialog'.kind = "closed"
    BY ClosedType DEF CloseScheduleDialog
  <2> QED BY <1>3, <1>8, <2>1, <2>2, <2>3, <2>4
<1>9. CASE ConfirmArchive
  BY <1>4, <1>9, ClosedType DEF ConfirmArchive
<1>10. CASE Generate
  BY <1>4, <1>10 DEF Generate, screenVars
<1>11. CASE NameSchedule \/ StartOver
  BY <1>2, <1>11 DEF NameSchedule, StartOver, cacheVars, screenVars
<1>12. ASSUME NEW d \in OfferedDays, ToggleDay(d) PROVE CalmInv'
  BY <1>2, <1>12 DEF ToggleDay, cacheVars, screenVars
<1> QED
  BY <1>5, <1>6, <1>7, <1>8, <1>9, <1>10, <1>11, <1>12 DEF ScheduleScreensNext

LEMMA CalmInit == Init => CalmInv
BY ClosedType DEF Init, CalmInv, CalmForm, CalmRequest

LEMMA CalmKept ==
  ASSUME TypeInv, CacheInv, CalmInv, [Next]_vars
  PROVE  CalmInv'
<1>1. CASE UNCHANGED <<server, requests, dialog>>
  BY <1>1, SameRequestsCalm, CalmFormStays DEF CalmInv
<1>2. CASE LibraryNext
  BY <1>2, CalmLibrary
<1>3. ASSUME NEW l \in followed, ListFails(l) PROVE CalmInv'
  <2>1. /\ UNCHANGED <<server, requests>> /\ dialog \in DialogFields
        /\ dialog' = dialog \/ dialog' = [dialog EXCEPT !.fill = 0]
    BY <1>3 DEF ListFails, FetchFails, ContentUnmounts, TypeInv, DialogOK
  <2>2. /\ dialog'.kind = dialog.kind /\ dialog'.calm = dialog.calm
        /\ dialog'.base = dialog.base /\ dialog'.list = dialog.list /\ dialog'.row = dialog.row
    BY <2>1 DEF DialogFields
  <2> QED BY <2>1, <2>2, SameRequestsCalm, CalmFormStays DEF CalmInv
<1>4. ASSUME NEW q \in requests, RequestSettles(q) PROVE CalmInv'
  <2>1. /\ UNCHANGED server /\ requests' = requests \ {q}
        /\ dialog' = Closed \/ dialog' = dialog
    BY <1>4 DEF RequestSettles, Settle, CatalogueCallback
  <2> QED BY <2>1, ClosedType, SameRequestsCalm, CalmFormStays DEF CalmInv
<1>5. CASE PagesNext
  <2>1. CASE DashboardNext /\ UNCHANGED <<sessionVars, viewVars>>
    BY <1>1, <2>1, DashboardStep DEF cacheVars, screenVars
  <2> QED BY <1>5, <2>1, CalmCatalogueScreens, CalmScheduleScreens DEF PagesNext
<1>6. CASE ClientSessionNext
  BY <1>6, SessionSteps, CalmSession
<1>7. CASE ViewNext \/ UNCHANGED vars
  BY <1>1, <1>7 DEF ViewNext, vars, clientVars, cacheVars, screenVars
<1> QED BY <1>2, <1>3, <1>4, <1>5, <1>6, <1>7 DEF Next

\* Only the forms of the rooms and of the sessions have more than one field.
LEMMA FormsWithFields ==
  ASSUME NEW list \in Catalogue, list # "roomTypes", Cardinality(EditModal(list).fields) > 1
  PROVE  list \in {"rooms", "sessions"}
<1>1. EditModal("buildings").fields = {"name"} /\ EditModal("courses").fields = {"name"}
  BY DEF EditModal, EditBuildingModal, EditCourseModal
<1>2. Cardinality({"name"}) = 1
  BY FS_Singleton
<1> QED BY <1>1, <1>2 DEF Catalogue

LEMMA CalmSaves ==
  ASSUME TypeInv, CalmInv
  PROVE  SavesKeepOwnSaves
<1>1. SUFFICES ASSUME NEW q \in requests, q.op = "update", q.calm, q.phase = "sent",
                      q.list # "roomTypes", Cardinality(EditModal(q.list).fields) > 1
               PROVE  server[q.list][q.row] \in {0, q.base}
  BY DEF SavesKeepOwnSaves
<1>2. q.list \in Catalogue
  BY <1>1 DEF TypeInv, RequestsTyped, RequestOK, RequestFields, OpsOn, Lists, ScheduleLists
<1>3. q.list \in {"rooms", "sessions"}
  BY <1>1, <1>2, FormsWithFields
<1> QED BY <1>1, <1>3 DEF CalmInv, CalmRequest, Calm, Alone

-----------------------------------------------------------------------------
(***************************************************************************)
(* What was typed is sent once                                             *)
(***************************************************************************)

LEMMA FillsAreNumbers == TypeInv => Fills \subseteq Nat
BY DEF TypeInv, RequestsTyped, RequestOK, RequestFields, DialogOK, DialogFields, ScreenTyped, Fills

LEMMA FillsStay ==
  ASSUME TypeInv, FillsUsed, Pays, Fills' \subseteq Fills \union {0}
  PROVE  FillsUsed'
<1>1. Fills \subseteq Nat /\ budget.fills \in Nat /\ budget'.fills \in Nat
  BY FillsAreNumbers DEF TypeInv, CacheTyped, Bounds, Pays
<1> QED BY <1>1 DEF FillsUsed, Pays

\* A number typed now is in no form and in no request.
LEMMA FillIsNew ==
  ASSUME TypeInv, FillsUsed, Spend("fills")
  PROVE  /\ budget.fills \notin Fills /\ budget.fills # 0
         /\ Fills' \subseteq Fills \union {0, budget.fills} => FillsUsed'
<1>1. /\ budget \in Bounds /\ budget.fills > 0
      /\ budget' = [budget EXCEPT !.fills = budget.fills - 1]
  BY DEF Spend, TypeInv, CacheTyped
<1>2. Fills \subseteq Nat /\ budget.fills \in Nat /\ budget'.fills = budget.fills - 1
  BY <1>1, FillsAreNumbers DEF Bounds
<1> QED BY <1>1, <1>2 DEF FillsUsed

\* A request keeps its list, its kind and what was typed.
Follows(p, r) == p.op = r.op /\ p.list = r.list /\ p.fill = r.fill

LEMMA NoDoubleStays ==
  ASSUME NoDoubleSubmit, NEW f, requests' \subseteq {f[r] : r \in requests},
         \A r \in requests : Follows(f[r], r)
  PROVE  NoDoubleSubmit'
<1>1. SUFFICES ASSUME NEW p \in requests', NEW q \in requests',
                      p # q, p.fill # 0, p.list = q.list, p.op = q.op
               PROVE  p.fill # q.fill
  BY DEF NoDoubleSubmit
<1>2. PICK o \in requests : p = f[o]
  OBVIOUS
<1>3. PICK r \in requests : q = f[r]
  OBVIOUS
<1> QED BY <1>1, <1>2, <1>3 DEF NoDoubleSubmit, Follows

\* Requests that go on, answered or not, with the callbacks they had.
GoOn == \A q \in requests' : \E r \in requests : Follows(q, r) /\ q.attached = r.attached

LEMMA AnsweredGoOn ==
  ASSUME RequestsTyped, NoDoubleSubmit, NEW q \in requests, NEW phase,
         requests' = Answered(q, phase)
  PROVE  GoOn /\ NoDoubleSubmit'
<1> DEFINE f == [r \in requests |-> IF r = q THEN [q EXCEPT !.phase = phase] ELSE r]
<1>1. requests' \subseteq {f[r] : r \in requests}
  BY DEF Answered
<1>2. \A r \in requests : Follows(f[r], r) /\ f[r].attached = r.attached
  BY DEF RequestsTyped, RequestOK, RequestFields, Follows
<1> HIDE DEF f
<1> QED BY <1>1, <1>2, NoDoubleStays DEF GoOn

LEMMA FewerGoOn ==
  ASSUME NoDoubleSubmit, requests' \subseteq requests
  PROVE  GoOn /\ NoDoubleSubmit'
BY DEF GoOn, Follows, NoDoubleSubmit

LEMMA DetachedSentOnce ==
  ASSUME RequestsTyped, NoDoubleSubmit, requests' = Detached
  PROVE  /\ NoDoubleSubmit'
         /\ \A q \in requests' : \E r \in requests : Follows(q, r)
<1> DEFINE f == [r \in requests |-> [r EXCEPT !.attached = FALSE]]
<1>1. requests' \subseteq {f[r] : r \in requests}
  BY DEF Detached
<1>2. \A r \in requests : Follows(f[r], r)
  BY DEF RequestsTyped, RequestOK, RequestFields, Follows
<1> HIDE DEF f
<1> QED BY <1>1, <1>2, NoDoubleStays

\* Forms that stay, are emptied, or keep what was in them when they close.
FormsGoOn ==
  /\ \/ dialog'.fill = 0
     \/ dialog'.kind = dialog.kind /\ dialog'.list = dialog.list /\ dialog'.fill = dialog.fill
  /\ dialog'.kind # "create" /\ draft' # 0 =>
       \/ dialog.kind # "create" /\ draft' = draft
       \/ dialog.kind = "create" /\ draft' = dialog.fill
  /\ draft' \in {0, draft, dialog.fill}
  /\ generation'.name \in {0, generation.name}

LEMMA FormsStay ==
  ASSUME FormsWait, GoOn, FormsGoOn
  PROVE  FormsWait'
<1>1. \A fill : Unsent(fill, requests) => Unsent(fill, requests')
  BY DEF Unsent, GoOn, Follows
<1>2. ASSUME dialog'.kind \in {"create", "edit"}, dialog'.fill # 0,
             NEW q \in requests', q.fill = dialog'.fill, q.list = dialog'.list,
             q.op = OpOf(dialog')
      PROVE  q.attached /\ Modal(dialog').waits
  <2>1. dialog'.kind = dialog.kind /\ dialog'.list = dialog.list /\ dialog'.fill = dialog.fill
    BY <1>2 DEF FormsGoOn
  <2>2. OpOf(dialog') = OpOf(dialog) /\ Modal(dialog') = Modal(dialog)
    BY <2>1 DEF OpOf, Modal
  <2>3. PICK r \in requests : Follows(q, r) /\ q.attached = r.attached
    BY DEF GoOn
  <2> QED BY <1>2, <2>1, <2>2, <2>3 DEF FormsWait, Follows
<1>3. dialog'.kind = "create" /\ dialog'.fill # 0 => Unsent(dialog'.fill, requests')
  BY <1>1 DEF FormsWait, FormsGoOn
<1>4. dialog'.kind # "create" /\ draft' # 0 => Unsent(draft', requests')
  BY <1>1 DEF FormsWait, FormsGoOn
<1>5. generation'.name # 0 =>
        \A q \in requests' : q.op = "generate" /\ q.fill = generation'.name => q.attached
  BY DEF FormsWait, FormsGoOn, GoOn, Follows
<1> QED BY <1>2, <1>3, <1>4, <1>5 DEF FormsWait

LEMMA FillsGoOn ==
  ASSUME FormsGoOn, \A q \in requests' : \E r \in requests : Follows(q, r)
  PROVE  Fills' \subseteq Fills \union {0}
BY DEF FormsGoOn, Follows, Fills

LEMMA FillStays ==
  ASSUME TypeInv, FillInv, Pays, GoOn, NoDoubleSubmit', FormsGoOn
  PROVE  FillInv'
<1>1. \A q \in requests' : \E r \in requests : Follows(q, r)
  BY DEF GoOn
<1> QED BY <1>1, FormsStay, FillsGoOn, FillsStay DEF FillInv

LEMMA SameFormsGoOn ==
  ASSUME UNCHANGED <<dialog, draft, generation>>
  PROVE  FormsGoOn
BY DEF FormsGoOn

LEMMA FillSession ==
  ASSUME TypeInv, FillInv, SessionStep
  PROVE  FillInv'
<1>1. Pays /\ RequestsTyped /\ NoDoubleSubmit
  BY DEF SessionStep, TypeInv, FillInv
<1>2. CASE dialog' = Closed /\ draft' = 0 /\ generation' = NoGeneration
           /\ (requests' = Detached \/ requests' = {})
  <2>1. dialog'.fill = 0 /\ draft' = 0 /\ generation'.name = 0
    BY <1>2 DEF Closed, NoGeneration
  <2>2. FormsWait' /\ FormsGoOn
    BY <2>1 DEF FormsWait, FormsGoOn
  <2>3. NoDoubleSubmit' /\ \A q \in requests' : \E r \in requests : Follows(q, r)
    BY <1>1, <1>2, DetachedSentOnce DEF NoDoubleSubmit
  <2> QED BY <1>1, <2>2, <2>3, FillsGoOn, FillsStay DEF FillInv
<1>3. CASE Stays
  BY <1>1, <1>3, FewerGoOn, SameFormsGoOn, FillStays DEF Stays
<1> QED BY <1>2, <1>3 DEF SessionStep, Arrives, Arrive, Reloads, Reload

LEMMA FillLibrary ==
  ASSUME TypeInv, FillInv, LibraryNext
  PROVE  FillInv'
<1>1. UNCHANGED <<dialog, draft, generation>> /\ CacheTyped /\ RequestsTyped /\ NoDoubleSubmit
  BY DEF LibraryNext, screenVars, scheduleVars, TypeInv, FillInv
<1>2. ASSUME NEW l \in followed, ServerReads(l) \/ Answer(l) PROVE FillInv'
  BY <1>1, <1>2, UnspentPays, FewerGoOn, SameFormsGoOn, FillStays DEF ServerReads, Answer
<1>3. ASSUME NEW q \in requests,
             ServerGrants(q) \/ ServerMisses(q) \/ ServerRefuses(q) \/ AnswerLost(q)
      PROVE  FillInv'
  <2>1. requests' = Answered(q, "granted") \/ requests' = Answered(q, "refused")
    BY <1>3 DEF ServerGrants, ServerMisses, ServerRefuses, AnswerLost
  <2>2. Pays
    BY <1>1, <1>3, UnspentPays, SpendPays, BoundNames
    DEF ServerGrants, ServerMisses, ServerRefuses, AnswerLost
  <2> QED BY <1>1, <2>1, <2>2, AnsweredGoOn, SameFormsGoOn, FillStays
<1> QED BY <1>2, <1>3 DEF LibraryNext, CacheNext

LEMMA FillListFails ==
  ASSUME TypeInv, FillInv, NEW k \in followed, ListFails(k)
  PROVE  FillInv'
<1>1. requests' = requests /\ NoDoubleSubmit /\ Pays
  BY SpendPays, BoundNames DEF ListFails, FetchFails, FillInv, TypeInv
<1>2. dialog \in DialogFields /\ draft \in Nat
  BY DEF TypeInv, DialogOK, ScreenTyped
<1>3. FormsGoOn
  BY <1>2 DEF ListFails, ContentUnmounts, scheduleVars, FormsGoOn, DialogFields
<1> QED BY <1>1, <1>3, FewerGoOn, FillStays

LEMMA FillSettles ==
  ASSUME TypeInv, FillInv, NEW q \in requests, RequestSettles(q)
  PROVE  FillInv'
<1>1. requests' = requests \ {q} /\ NoDoubleSubmit /\ Pays
  BY UnspentPays DEF RequestSettles, Settle, FillInv, TypeInv
<1>2. generation'.name = generation.name
  BY DEF RequestSettles, ScheduleCallback, TypeInv, ScreenTyped
<1>3. dialog \in DialogFields /\ RequestOK(q)
  BY DEF TypeInv, DialogOK, RequestsTyped
<1>4. CASE ClosedBy(q)
  <2>1. dialog'.kind = "closed" /\ dialog'.fill = 0
        /\ draft' = IF q.op = "create" THEN dialog.fill ELSE draft
    BY <1>4 DEF RequestSettles, CatalogueCallback, Closed
  <2>2. q.op = "create" <=> dialog.kind = "create"
    BY <1>3, <1>4 DEF ClosedBy, OpOf, DialogFields
  <2>3. FormsGoOn
    BY <1>2, <2>1, <2>2 DEF FormsGoOn
  <2> QED BY <1>1, <2>3, FewerGoOn, FillStays
<1>5. CASE ~ClosedBy(q)
  <2>1. FormsGoOn
    BY <1>2, <1>5 DEF RequestSettles, CatalogueCallback, FormsGoOn
  <2> QED BY <1>1, <2>1, FewerGoOn, FillStays
<1> QED BY <1>4, <1>5

\* A request that is sent, next to those there were, which keep their
\* callbacks if they are of another hook.
LEMMA SendFollows ==
  ASSUME RequestsTyped, NEW q, Send(q)
  PROVE  /\ q \in requests'
         /\ \A p \in requests' : p # q => \E r \in requests :
              Follows(p, r) /\ (p.attached = r.attached \/ SameHook(r, q))
<1> DEFINE f == [r \in requests |->
                   [r EXCEPT !.attached = r.attached /\ ~SameHook(r, q),
                             !.calm = r.calm /\ ~(r.list = q.list /\ r.row = q.row)]]
<1>1. requests' = {q} \union {f[r] : r \in requests}
  BY DEF Send
<1>2. \A r \in requests :
        Follows(f[r], r) /\ f[r].attached = (r.attached /\ ~SameHook(r, q))
  BY DEF RequestsTyped, RequestOK, RequestFields, Follows
<1>3. \A r \in requests : r.attached \in BOOLEAN
  BY DEF RequestsTyped, RequestOK, RequestFields
<1> HIDE DEF f
<1> QED BY <1>1, <1>2, <1>3

\* What a form sends is in no other request of its hook.
LEMMA SendOnce ==
  ASSUME TypeInv, NoDoubleSubmit, NEW q, Send(q),
         q.fill # 0 => \A r \in requests : r.op = q.op /\ r.list = q.list => r.fill # q.fill
  PROVE  NoDoubleSubmit'
<1> DEFINE f == [r \in requests |->
                   [r EXCEPT !.attached = r.attached /\ ~SameHook(r, q),
                             !.calm = r.calm /\ ~(r.list = q.list /\ r.row = q.row)]]
<1>1. requests' = {q} \union {f[r] : r \in requests}
  BY DEF Send
<1>2. \A r \in requests : Follows(f[r], r)
  BY DEF TypeInv, RequestsTyped, RequestOK, RequestFields, Follows
<1> HIDE DEF f
<1>3. SUFFICES ASSUME NEW o \in requests', NEW p \in requests',
                      o # p, o.fill # 0, o.list = p.list, o.op = p.op, o.fill = p.fill
               PROVE  FALSE
  BY DEF NoDoubleSubmit
<1>4. ASSUME NEW p1 \in {o, p}, p1 # q PROVE \E r \in requests : p1 = f[r]
  BY <1>1, <1>4
<1>5. CASE o # q /\ p # q
  <2>1. PICK r \in requests : o = f[r]
    BY <1>4, <1>5
  <2>2. PICK s \in requests : p = f[s]
    BY <1>4, <1>5
  <2> QED BY <1>2, <1>3, <2>1, <2>2 DEF NoDoubleSubmit, Follows
<1>6. CASE o = q
  <2>1. PICK s \in requests : p = f[s]
    BY <1>3, <1>4, <1>6
  <2> QED BY <1>2, <1>3, <1>6, <2>1 DEF Follows
<1>7. CASE p = q
  <2>1. PICK s \in requests : o = f[s]
    BY <1>3, <1>4, <1>7
  <2> QED BY <1>2, <1>3, <1>7, <2>1 DEF Follows
<1> QED BY <1>5, <1>6, <1>7

LEMMA FillsOfSend ==
  ASSUME TypeInv, FillsUsed, NEW q, Send(q), q.fill \in Fills \union {0},
         dialog'.fill \in {0, dialog.fill}, UNCHANGED draft, generation'.name = generation.name
  PROVE  FillsUsed'
<1>1. Pays
  BY SpendPays, BoundNames DEF Send, TypeInv
<1>2. Fills' \subseteq Fills \union {0}
  BY SendFollows DEF TypeInv, Fills, Follows
<1> QED BY <1>1, <1>2, FillsStay

\* A request for which nothing was typed.
PlainOps == {"remove", "setActive", "archive", "unarchive"}

LEMMA FillPlain ==
  ASSUME TypeInv, FillInv, NEW q, Send(q), q.fill = 0, q.op \in PlainOps,
         UNCHANGED dialog \/ (dialog' = Closed /\ dialog.kind # "create"),
         UNCHANGED draft, UNCHANGED generation
  PROVE  FillInv'
<1>1. RequestsTyped /\ FormsWait /\ FillsUsed /\ NoDoubleSubmit
  BY DEF TypeInv, FillInv
<1>2. NoDoubleSubmit' /\ FillsUsed'
  BY <1>1, SendOnce, FillsOfSend DEF Closed
<1>3. \A p \in requests' : p.op \notin PlainOps =>
        \E r \in requests : Follows(p, r) /\ p.attached = r.attached
  BY <1>1, SendFollows DEF Follows, SameHook
<1>4. \A fill : Unsent(fill, requests) => Unsent(fill, requests')
  BY <1>3 DEF Unsent, Follows, PlainOps
<1>5. ASSUME dialog'.kind \in {"create", "edit"}, dialog'.fill # 0,
             NEW p \in requests', p.fill = dialog'.fill, p.list = dialog'.list,
             p.op = OpOf(dialog')
      PROVE  p.attached /\ Modal(dialog').waits
  <2>1. UNCHANGED dialog
    BY <1>5, ClosedType
  <2>2. p.op \notin PlainOps
    BY <1>5 DEF OpOf, PlainOps
  <2> QED BY <1>1, <1>3, <1>5, <2>1, <2>2 DEF FormsWait, Follows
<1>6. dialog'.kind = "create" /\ dialog'.fill # 0 => Unsent(dialog'.fill, requests')
  BY <1>1, <1>4, ClosedType DEF FormsWait
<1>7. dialog'.kind # "create" /\ draft' # 0 => Unsent(draft', requests')
  BY <1>1, <1>4 DEF FormsWait
<1>8. generation'.name # 0 =>
        \A p \in requests' : p.op = "generate" /\ p.fill = generation'.name => p.attached
  BY <1>1, <1>3 DEF FormsWait, Follows, PlainOps
<1> QED BY <1>2, <1>5, <1>6, <1>7, <1>8 DEF FillInv, FormsWait

\* The creation dialogs that do not wait for the answer are emptied when
\* they are sent, and so are those that keep what was typed.
LEMMA DialogsThatWait ==
  ASSUME DialogOK, dialog.kind \in {"create", "edit"}
  PROVE  /\ Modal(dialog).waits \in BOOLEAN
         /\ dialog.kind = "edit" => Modal(dialog).waits
         /\ dialog.kind = "create" /\ "submit" \notin Modal(dialog).blankAt =>
              Modal(dialog).waits /\ dialog.list \notin Keeping
         /\ dialog.kind = "create" /\ "open" \notin Modal(dialog).blankAt => dialog.list \in Keeping
<1>1. dialog.list \in {"buildings", "roomTypes", "rooms", "courses", "sessions"}
  BY DEF DialogOK, Catalogue
<1>2. CASE dialog.kind = "create"
  <2>1. Modal(dialog) = CreateModal(dialog.list)
    BY <1>2 DEF Modal
  <2>2. CASE dialog.list = "buildings"
    <3>1. Modal(dialog) = CreateBuildingModal
      BY <2>1, <2>2 DEF CreateModal
    <3> QED BY <1>2, <2>2, <3>1 DEF CreateBuildingModal, Keeping
  <2>3. CASE dialog.list = "roomTypes"
    <3>1. Modal(dialog) = CreateRoomTypeModal
      BY <2>1, <2>3 DEF CreateModal
    <3> QED BY <1>2, <2>3, <3>1 DEF CreateRoomTypeModal, Keeping
  <2>4. CASE dialog.list = "rooms"
    <3>1. Modal(dialog) = CreateRoomModal
      BY <2>1, <2>4 DEF CreateModal
    <3> QED BY <1>2, <2>4, <3>1 DEF CreateRoomModal, Keeping
  <2>5. CASE dialog.list = "courses"
    <3>1. Modal(dialog) = CreateCourseModal
      BY <2>1, <2>5 DEF CreateModal
    <3> QED BY <1>2, <2>5, <3>1 DEF CreateCourseModal, Keeping
  <2>6. CASE dialog.list = "sessions"
    <3>1. Modal(dialog) = AddSessionModal
      BY <2>1, <2>6 DEF CreateModal
    <3> QED BY <1>2, <2>6, <3>1 DEF AddSessionModal, Keeping
  <2> QED BY <1>1, <2>2, <2>3, <2>4, <2>5, <2>6
<1>3. CASE dialog.kind = "edit"
  <2>1. Modal(dialog) = EditModal(dialog.list)
    BY <1>3 DEF Modal
  <2>2. CASE dialog.list = "buildings"
    <3>1. Modal(dialog) = EditBuildingModal
      BY <2>1, <2>2 DEF EditModal
    <3> QED BY <1>3, <2>2, <3>1 DEF EditBuildingModal, Keeping
  <2>3. CASE dialog.list = "roomTypes"
    <3>1. Modal(dialog) = EditRoomTypeModal
      BY <2>1, <2>3 DEF EditModal
    <3> QED BY <1>3, <2>3, <3>1 DEF EditRoomTypeModal, Keeping
  <2>4. CASE dialog.list = "rooms"
    <3>1. Modal(dialog) = EditRoomModal
      BY <2>1, <2>4 DEF EditModal
    <3> QED BY <1>3, <2>4, <3>1 DEF EditRoomModal, Keeping
  <2>5. CASE dialog.list = "courses"
    <3>1. Modal(dialog) = EditCourseModal
      BY <2>1, <2>5 DEF EditModal
    <3> QED BY <1>3, <2>5, <3>1 DEF EditCourseModal, Keeping
  <2>6. CASE dialog.list = "sessions"
    <3>1. Modal(dialog) = EditSessionModal
      BY <2>1, <2>6 DEF EditModal
    <3> QED BY <1>3, <2>6, <3>1 DEF EditSessionModal, Keeping
  <2> QED BY <1>1, <2>2, <2>3, <2>4, <2>5, <2>6
<1> QED BY <1>2, <1>3

\* A form that is sent: none like it waits for its answer, or it was emptied
\* and typed again since.
LEMMA FillSubmit ==
  ASSUME TypeInv, FillInv, NEW q, Send(q), dialog.kind \in {"create", "edit"},
         q.op = OpOf(dialog), q.list = dialog.list, q.fill = dialog.fill, q.attached,
         dialog.fill # 0, ~(Modal(dialog).waits /\ Waiting),
         dialog'.kind = dialog.kind, dialog'.list = dialog.list, dialog'.fill \in {0, dialog.fill},
         dialog.kind = "create" /\ dialog'.fill # 0 => "submit" \notin Modal(dialog).blankAt,
         UNCHANGED draft, UNCHANGED generation
  PROVE  FillInv'
<1>1. RequestsTyped /\ FormsWait /\ FillsUsed /\ NoDoubleSubmit /\ DialogOK
  BY DEF TypeInv, FillInv
<1>2. \A r \in requests : r.op = q.op /\ r.list = q.list => r.fill # q.fill
  <2>1. ASSUME NEW r \in requests, r.op = q.op, r.list = q.list, r.fill = q.fill PROVE FALSE
    <3>1. r.attached /\ Modal(dialog).waits
      BY <1>1, <2>1 DEF FormsWait
    <3> QED BY <2>1, <3>1 DEF Waiting, Pending
  <2> QED BY <2>1
<1>3. NoDoubleSubmit' /\ FillsUsed'
  BY <1>1, <1>2, SendOnce, FillsOfSend DEF Fills
<1>4. \A p \in requests' : p # q => \E r \in requests :
        Follows(p, r) /\ (p.attached = r.attached \/ SameHook(r, q))
  BY <1>1, SendFollows
<1>5. /\ dialog.kind = "edit" => Modal(dialog).waits
      /\ dialog.kind = "create" /\ dialog'.fill # 0 => Modal(dialog).waits /\ dialog.list \notin Keeping
  BY <1>1, DialogsThatWait
<1>6. ASSUME dialog'.kind \in {"create", "edit"}, dialog'.fill # 0,
             NEW p \in requests', p.fill = dialog'.fill, p.list = dialog'.list,
             p.op = OpOf(dialog')
      PROVE  p.attached /\ Modal(dialog').waits
  <2>1. OpOf(dialog') = OpOf(dialog) /\ Modal(dialog') = Modal(dialog) /\ dialog'.fill = dialog.fill
    BY <1>6 DEF OpOf, Modal
  <2>2. Modal(dialog).waits
    BY <1>5, <1>6
  <2>3. p = q
    BY <1>2, <1>4, <1>6, <2>1 DEF Follows
  <2> QED BY <2>1, <2>2, <2>3
<1>7. dialog'.kind = "create" /\ dialog'.fill # 0 => Unsent(dialog'.fill, requests')
  BY <1>1, <1>4, <1>5 DEF FormsWait, Unsent, Follows
<1>8. dialog'.kind # "create" /\ draft' # 0 => Unsent(draft', requests')
  <2>1. dialog.kind # "create" => q.op = "update"
    BY DEF OpOf
  <2> QED BY <1>1, <1>4, <2>1 DEF FormsWait, Unsent, Follows
<1>9. generation'.name # 0 =>
        \A p \in requests' : p.op = "generate" /\ p.fill = generation'.name => p.attached
  <2>1. q.op # "generate"
    BY DEF OpOf
  <2> QED BY <1>1, <1>4, <2>1 DEF FormsWait, Follows, SameHook
<1> QED BY <1>3, <1>6, <1>7, <1>8, <1>9 DEF FillInv, FormsWait

\* A form that opens holds nothing, or what was kept for it.
LEMMA FillOpens ==
  ASSUME TypeInv, FillInv, UNCHANGED <<requests, budget, draft, generation>>,
         dialog.kind # "create", dialog'.fill \in {0, draft},
         dialog'.fill # 0 => dialog'.kind = "create" /\ dialog'.list \in Keeping
  PROVE  FillInv'
<1>1. CacheTyped /\ FormsWait /\ FillsUsed /\ NoDoubleSubmit
  BY DEF TypeInv, FillInv
<1>2. NoDoubleSubmit'
  BY <1>1 DEF NoDoubleSubmit
<1>3. FillsUsed'
  <2>1. Fills' \subseteq Fills \union {0}
    BY DEF Fills
  <2> QED BY <1>1, <2>1, UnspentPays, FillsStay
<1>4. dialog'.fill # 0 => Unsent(dialog'.fill, requests)
  BY <1>1 DEF FormsWait
<1>5. dialog'.kind = "create" => OpOf(dialog') = "create"
  BY DEF OpOf
<1>6. ASSUME dialog'.fill # 0,
             NEW q \in requests', q.fill = dialog'.fill, q.list = dialog'.list, q.op = OpOf(dialog')
      PROVE  FALSE
  BY <1>4, <1>5, <1>6 DEF Unsent
<1> QED BY <1>1, <1>2, <1>3, <1>4, <1>6 DEF FillInv, FormsWait

\* A form whose content is new.
LEMMA FillTyped ==
  ASSUME TypeInv, FillInv, Fill, UNCHANGED generation
  PROVE  FillInv'
<1>1. /\ Spend("fills") /\ UNCHANGED <<requests, draft>> /\ FormsWait /\ FillsUsed /\ NoDoubleSubmit
      /\ dialog.kind \in {"create", "edit"} /\ dialog \in DialogFields
      /\ dialog' = [dialog EXCEPT !.fill = budget.fills]
  BY DEF Fill, FillInv, TypeInv, DialogOK
<1>2. dialog'.fill = budget.fills /\ dialog'.kind = dialog.kind /\ dialog'.list = dialog.list
  BY <1>1 DEF DialogFields
<1>3. budget.fills \notin Fills
  BY <1>1, FillIsNew
<1>4. \A q \in requests' : q.fill # dialog'.fill
  BY <1>1, <1>2, <1>3 DEF Fills
<1>5. Fills' \subseteq Fills \union {0, budget.fills}
  BY <1>1, <1>2 DEF Fills
<1>6. NoDoubleSubmit' /\ FillsUsed'
  BY <1>1, <1>5, FillIsNew DEF NoDoubleSubmit
<1> QED BY <1>1, <1>2, <1>4, <1>6 DEF FillInv, FormsWait, Unsent

LEMMA FillNamed ==
  ASSUME TypeInv, FillInv, NameSchedule
  PROVE  FillInv'
<1>1. /\ Spend("fills") /\ UNCHANGED <<requests, dialog, draft>> /\ FormsWait /\ FillsUsed
      /\ NoDoubleSubmit /\ generation' = [generation EXCEPT !.name = budget.fills]
  BY DEF NameSchedule, screenVars, FillInv
<1>2. generation'.name = budget.fills
  BY <1>1 DEF TypeInv, ScreenTyped
<1>3. budget.fills \notin Fills
  BY <1>1, FillIsNew
<1>4. \A q \in requests' : q.fill # generation'.name
  BY <1>1, <1>2, <1>3 DEF Fills
<1>5. Fills' \subseteq Fills \union {0, budget.fills}
  BY <1>1, <1>2 DEF Fills
<1>6. NoDoubleSubmit' /\ FillsUsed'
  BY <1>1, <1>5, FillIsNew DEF NoDoubleSubmit
<1> QED BY <1>1, <1>4, <1>6 DEF FillInv, FormsWait, Unsent

LEMMA FillGenerate ==
  ASSUME TypeInv, FillInv, Generate
  PROVE  FillInv'
<1> DEFINE q == Request("generate", "schedules", NoRow, 0, generation.name, FALSE)
<1>1. RequestsTyped /\ FormsWait /\ FillsUsed /\ NoDoubleSubmit
  BY DEF TypeInv, FillInv
<1>2. /\ q.op = "generate" /\ q.list = "schedules" /\ q.fill = generation.name /\ q.attached
  BY DEF Request
<1>3. /\ Send(q) /\ UNCHANGED <<dialog, draft>> /\ ~Generating /\ generation.name # 0
      /\ generation' = [generation EXCEPT !.progress = "running"]
  BY DEF Generate, screenVars
<1> HIDE DEF q
<1>4. generation'.name = generation.name
  BY <1>3 DEF TypeInv, ScreenTyped
<1>5. \A r \in requests : r.op = q.op /\ r.list = q.list => r.fill # q.fill
  BY <1>1, <1>2, <1>3 DEF FormsWait, Generating, Pending
<1>6. \A r \in requests : r.op = "generate" => r.list = "schedules"
  BY <1>1 DEF RequestsTyped, RequestOK, OpsOn, RequestFields, Lists, ScheduleLists
<1>7. NoDoubleSubmit' /\ FillsUsed'
  BY <1>1, <1>2, <1>3, <1>4, <1>5, SendOnce, FillsOfSend DEF Fills
<1>8. \A p \in requests' : p # q => \E r \in requests :
        Follows(p, r) /\ (p.attached = r.attached \/ SameHook(r, q))
  BY <1>1, <1>3, SendFollows
<1>9. \A fill : Unsent(fill, requests) => Unsent(fill, requests')
  BY <1>2, <1>8 DEF Unsent, Follows
<1>10. ASSUME dialog'.kind \in {"create", "edit"}, dialog'.fill # 0,
              NEW p \in requests', p.fill = dialog'.fill, p.list = dialog'.list,
              p.op = OpOf(dialog')
       PROVE  p.attached /\ Modal(dialog').waits
  <2>1. p.op # "generate"
    BY <1>10 DEF OpOf
  <2> QED BY <1>1, <1>2, <1>3, <1>8, <1>10, <2>1 DEF FormsWait, Follows, SameHook
<1>11. \A p \in requests' : p.op = "generate" /\ p.fill = generation'.name => p.attached
  BY <1>2, <1>4, <1>5, <1>6, <1>8 DEF Follows
<1>12. /\ dialog'.kind = "create" /\ dialog'.fill # 0 => Unsent(dialog'.fill, requests')
       /\ dialog'.kind # "create" /\ draft' # 0 => Unsent(draft', requests')
  BY <1>1, <1>3, <1>9 DEF FormsWait
<1> QED BY <1>7, <1>10, <1>11, <1>12 DEF FillInv, FormsWait

LEMMA FillCatalogueScreens ==
  ASSUME TypeInv, FillInv, CatalogueScreensNext,
         UNCHANGED <<scheduleVars, home, sessionVars, viewVars>>
  PROVE  FillInv'
<1>1. /\ CacheTyped /\ RequestsTyped /\ DialogOK /\ NoDoubleSubmit /\ FormsWait /\ FillsUsed
      /\ UNCHANGED generation
  BY DEF TypeInv, FillInv, scheduleVars
<1>2. \A op, list, row, base, calm, fill :
        LET q == Request(op, list, row, base, fill, calm)
        IN  q.op = op /\ q.list = list /\ q.fill = fill /\ q.attached
  BY DEF Request
<1>3. Closed.fill = 0 /\ Closed.kind = "closed"
  BY DEF Closed
<1>4. CASE UNCHANGED <<requests, budget, dialog, draft>>
  BY <1>1, <1>4, UnspentPays, FewerGoOn, SameFormsGoOn, FillStays
<1>5. ASSUME NEW list \in Managed, OpenCreate(list) PROVE FillInv'
  <2>1. list \in Catalogue /\ dialog.kind = "closed"
    BY <1>5, ManagedLists DEF OpenCreate
  <2> DEFINE fill == IF "open" \in CreateModal(list).blankAt THEN 0 ELSE draft
  <2>2. dialog' = [Closed EXCEPT !.kind = "create", !.list = list, !.fill = fill]
    BY <1>5 DEF OpenCreate
  <2>3. dialog'.kind = "create" /\ dialog'.list = list /\ dialog'.fill = fill
    BY <2>2 DEF Closed
  <2>4. CreateModal("buildings") = CreateBuildingModal /\ CreateModal("roomTypes") = CreateRoomTypeModal
    BY DEF CreateModal
  <2>5. CreateModal("sessions") = AddSessionModal
    BY DEF CreateModal
  <2>6. list \notin Keeping => "open" \in CreateModal(list).blankAt
    BY <2>1, <2>4, <2>5
    DEF Catalogue, Keeping, CreateBuildingModal, CreateRoomTypeModal, AddSessionModal
  <2> QED BY <1>1, <1>5, <2>1, <2>3, <2>6, FillOpens DEF OpenCreate, cacheVars
<1>6. ASSUME NEW list \in Managed, NEW row \in Rows, OpenEdit(list, row) \/ OpenConfirm(list, row)
      PROVE  FillInv'
  <2>1. dialog.kind = "closed" /\ UNCHANGED <<cacheVars, draft>>
    BY <1>6 DEF OpenEdit, OpenConfirm
  <2>2. OpenEdit(list, row) => dialog'.fill = 0
    BY DEF OpenEdit, Closed
  <2>3. OpenConfirm(list, row) => dialog'.fill = 0
    BY DEF OpenConfirm, Closed
  <2> QED BY <1>1, <1>6, <2>1, <2>2, <2>3, FillOpens DEF cacheVars
<1>7. ASSUME NEW list \in Managed, NEW row \in Rows, RemoveNow(list, row) PROVE FillInv'
  <2> DEFINE q == Request("remove", list, row, 0, 0, FALSE)
  <2>1. q.op = "remove" /\ q.fill = 0
    BY DEF Request
  <2>2. Send(q) /\ UNCHANGED <<dialog, draft>>
    BY <1>7 DEF RemoveNow, screenVars
  <2> HIDE DEF q
  <2> QED BY <1>1, <2>1, <2>2, FillPlain DEF PlainOps
<1>8. CASE Fill
  BY <1>1, <1>8, FillTyped
<1>9. CASE Cancel
  <2>1. /\ dialog' = Closed /\ UNCHANGED cacheVars
        /\ draft' = IF dialog.kind # "create" THEN draft
                    ELSE IF "cancel" \in Modal(dialog).blankAt THEN 0 ELSE dialog.fill
    BY <1>9 DEF Cancel
  <2>2. FormsGoOn
    BY <1>1, <1>3, <2>1 DEF FormsGoOn
  <2> QED BY <1>1, <2>1, <2>2, UnspentPays, FewerGoOn, FillStays DEF cacheVars
<1>10. CASE SubmitCreate
  <2> DEFINE q == Request("create", dialog.list, NoRow, 0, dialog.fill, FALSE)
             kept == IF "submit" \in Modal(dialog).blankAt THEN 0 ELSE dialog.fill
  <2>1. q.op = "create" /\ q.list = dialog.list /\ q.fill = dialog.fill /\ q.attached
    BY DEF Request
  <2>2. /\ Send(q) /\ dialog.kind = "create" /\ UNCHANGED draft
        /\ dialog.fill # 0 /\ ~(Modal(dialog).waits /\ Waiting)
        /\ dialog' = [dialog EXCEPT !.fill = kept]
    BY <1>10 DEF SubmitCreate, MaySubmit
  <2>3. dialog'.kind = dialog.kind /\ dialog'.list = dialog.list /\ dialog'.fill = kept
    BY <1>1, <2>2 DEF DialogOK, DialogFields
  <2>4. OpOf(dialog) = "create"
    BY <2>2 DEF OpOf
  <2> HIDE DEF q
  <2> QED BY <1>1, <2>1, <2>2, <2>3, <2>4, FillSubmit
<1>11. CASE SubmitEdit
  <2> DEFINE q == Request("update", dialog.list, dialog.row, dialog.base, dialog.fill, dialog.calm)
  <2>1. q.op = "update" /\ q.list = dialog.list /\ q.fill = dialog.fill /\ q.attached
    BY DEF Request
  <2>2. /\ Send(q) /\ dialog.kind = "edit" /\ UNCHANGED draft
        /\ dialog.fill # 0 /\ ~(Modal(dialog).waits /\ Waiting)
        /\ dialog' = [dialog EXCEPT !.calm = FALSE]
    BY <1>11 DEF SubmitEdit, MaySubmit
  <2>3. dialog'.kind = dialog.kind /\ dialog'.list = dialog.list /\ dialog'.fill = dialog.fill
    BY <1>1, <2>2 DEF DialogOK, DialogFields
  <2>4. OpOf(dialog) = "update"
    BY <2>2 DEF OpOf
  <2> HIDE DEF q
  <2> QED BY <1>1, <2>1, <2>2, <2>3, <2>4, FillSubmit
<1>12. CASE ConfirmRemove
  <2> DEFINE q == Request("remove", dialog.list, dialog.row, 0, 0, FALSE)
  <2>1. q.op = "remove" /\ q.fill = 0
    BY DEF Request
  <2>2. Send(q) /\ UNCHANGED draft /\ dialog' = Closed /\ dialog.kind = "confirm"
    BY <1>12 DEF ConfirmRemove
  <2> HIDE DEF q
  <2> QED BY <1>1, <2>1, <2>2, FillPlain DEF PlainOps
<1>13. CASE BulkDelete
  <2> DEFINE more == {Request("remove", "courses", r, 0, 0, FALSE) : r \in ticked}
  <2>1. UNCHANGED <<dialog, draft>> /\ requests' = requests \union more
    BY <1>13 DEF BulkDelete
  <2>2. \A q \in more : q.op = "remove" /\ q.fill = 0
    BY DEF Request
  <2> HIDE DEF more
  <2>3. Pays
    BY <1>1, CatalogueScreensStep DEF PageStep
  <2>4. FillsUsed'
    <3>1. Fills' \subseteq Fills \union {0}
      BY <1>1, <2>1, <2>2 DEF Fills
    <3> QED BY <1>1, <2>3, <3>1, FillsStay
  <2>5. NoDoubleSubmit'
    BY <1>1, <2>1, <2>2 DEF NoDoubleSubmit
  <2>6. OpOf(dialog) = "remove" => dialog.kind \notin {"create", "edit"}
    BY <1>1 DEF OpOf, DialogOK, DialogFields
  <2>7. FormsWait'
    BY <1>1, <2>1, <2>2, <2>6 DEF FormsWait, Unsent
  <2> QED BY <2>4, <2>5, <2>7 DEF FillInv
<1>14. CASE BuildingGone
  <2>1. /\ dialog.kind = "create" /\ dialog' = [dialog EXCEPT !.fill = 0]
        /\ UNCHANGED cacheVars /\ draft' = draft
    BY <1>14 DEF BuildingGone
  <2>2. dialog'.fill = 0 /\ dialog'.kind = "create"
    BY <1>1, <2>1 DEF DialogOK, DialogFields
  <2>3. FormsGoOn
    BY <1>1, <1>3, <2>1, <2>2 DEF FormsGoOn
  <2> QED BY <1>1, <2>1, <2>3, UnspentPays, FewerGoOn, FillStays DEF cacheVars
<1> QED
  BY <1>4, <1>5, <1>6, <1>7, <1>8, <1>9, <1>10, <1>11, <1>12, <1>13, <1>14
  DEF CatalogueScreensNext, Retry, Tick, TickAll, ClearSelection, screenVars, cacheVars

LEMMA FillScheduleScreens ==
  ASSUME TypeInv, FillInv, ScheduleScreensNext, UNCHANGED <<home, sessionVars, viewVars>>
  PROVE  FillInv'
<1>1. /\ CacheTyped /\ RequestsTyped /\ DialogOK /\ NoDoubleSubmit /\ FormsWait /\ FillsUsed
      /\ generation.name \in Nat
  BY DEF TypeInv, FillInv, ScreenTyped
<1>2. ASSUME NEW op \in PlainOps, NEW row, NEW base,
             Send(Request(op, "schedules", row, base, 0, FALSE)),
             UNCHANGED dialog \/ (dialog' = Closed /\ dialog.kind # "create"),
             UNCHANGED <<draft, generation>>
      PROVE  FillInv'
  <2> DEFINE q == Request(op, "schedules", row, base, 0, FALSE)
  <2>1. q.op = op /\ q.fill = 0 /\ Send(q)
    BY <1>2 DEF Request
  <2> HIDE DEF q
  <2> QED BY <1>2, <2>1, FillPlain
<1>3. ASSUME UNCHANGED <<requests, budget, dialog, draft>>, generation'.name \in {0, generation.name}
      PROVE  FillInv'
  <2>1. FormsGoOn
    BY <1>3 DEF FormsGoOn
  <2> QED BY <1>1, <1>3, <2>1, UnspentPays, FewerGoOn, FillStays
<1>4. ASSUME UNCHANGED <<requests, budget, draft, generation>>, dialog.kind # "create", dialog'.fill = 0
      PROVE  FillInv'
  BY <1>4, FillOpens
<1>5. ASSUME NEW r \in Rows, SelectSchedule(r) PROVE FillInv'
  BY <1>3, <1>5 DEF SelectSchedule, cacheVars, screenVars
<1>6. ASSUME NEW r \in Rows, Unarchive(r) PROVE FillInv'
  BY <1>2, <1>6 DEF Unarchive, screenVars, scheduleVars, PlainOps
<1>7. CASE SetAsActive
  BY <1>2, <1>7 DEF SetAsActive, screenVars, scheduleVars, PlainOps
<1>8. CASE ConfirmArchive
  BY <1>2, <1>8 DEF ConfirmArchive, scheduleVars, PlainOps
<1>9. CASE ArchiveClick
  <2>1. dialog'.fill = 0
    BY <1>9 DEF ArchiveClick, Closed
  <2> QED BY <1>4, <1>9, <2>1 DEF ArchiveClick, AtSchedule, cacheVars, scheduleVars
<1>10. CASE OpenArchived
  <2>1. dialog'.fill = 0
    BY <1>10 DEF OpenArchived, Closed
  <2> QED BY <1>4, <1>10, <2>1 DEF OpenArchived, AtSchedule, cacheVars, scheduleVars
<1>11. CASE CloseScheduleDialog
  <2>1. dialog'.fill = 0
    BY <1>11 DEF CloseScheduleDialog, Closed
  <2> QED BY <1>4, <1>11, <2>1 DEF CloseScheduleDialog, cacheVars, scheduleVars
<1>12. CASE NameSchedule
  BY <1>12, FillNamed
<1>13. ASSUME NEW d \in OfferedDays, ToggleDay(d) PROVE FillInv'
  <2>1. generation'.name = generation.name
    BY <1>13 DEF ToggleDay, TypeInv, ScreenTyped
  <2> QED BY <1>3, <1>13, <2>1 DEF ToggleDay, cacheVars, screenVars
<1>14. CASE Generate
  BY <1>14, FillGenerate
<1>15. CASE StartOver
  <2>1. generation'.name = 0
    BY <1>15 DEF StartOver, NoGeneration
  <2> QED BY <1>3, <1>15, <2>1 DEF StartOver, cacheVars, screenVars
<1> QED
  BY <1>5, <1>6, <1>7, <1>8, <1>9, <1>10, <1>11, <1>12, <1>13, <1>14, <1>15
  DEF ScheduleScreensNext

LEMMA FillInit == Init => FillInv
<1> SUFFICES ASSUME Init PROVE FillInv
  OBVIOUS
<1>1. dialog.fill = 0 /\ dialog.kind = "closed" /\ draft = 0 /\ generation.name = 0 /\ requests = {}
  BY DEF Init, Closed, NoGeneration
<1> QED BY <1>1 DEF FillInv, FillsUsed, Fills, FormsWait, NoDoubleSubmit

LEMMA FillKept ==
  ASSUME TypeInv, FillInv, [Next]_vars
  PROVE  FillInv'
<1>1. CASE UNCHANGED <<budget, requests, dialog, draft, generation>>
  BY <1>1, UnspentPays, FewerGoOn, SameFormsGoOn, FillStays DEF TypeInv, FillInv
<1>2. CASE PagesNext
  <2>1. CASE DashboardNext /\ UNCHANGED <<sessionVars, viewVars>>
    BY <1>1, <2>1, DashboardStep DEF cacheVars, screenVars, scheduleVars
  <2> QED BY <1>2, <2>1, FillCatalogueScreens, FillScheduleScreens DEF PagesNext
<1>3. CASE ClientSessionNext
  BY <1>3, SessionSteps, FillSession
<1>4. CASE ViewNext \/ UNCHANGED vars
  BY <1>1, <1>4 DEF ViewNext, vars, clientVars, cacheVars, screenVars, scheduleVars
<1> QED BY <1>2, <1>3, <1>4, FillLibrary, FillListFails, FillSettles DEF Next

-----------------------------------------------------------------------------
(***************************************************************************)
(* The setup wizard                                                        *)
(***************************************************************************)

LEMMA CountIsNumber ==
  ASSUME NEW list
  PROVE  Count(list) \in Nat /\ (Count(list) > 0 => RowsOn(list) # {})
<1>1. IsFiniteSet(RowsOn(list))
  BY RowsAssumption, FS_Subset DEF RowsOn
<1>2. Count(list) \in Nat /\ (RowsOn(list) = {} => Count(list) = 0)
  BY <1>1, FS_CardinalityType, FS_EmptySet DEF Count
<1> QED BY <1>2

\* A step is drawn as done, as the one to do, or as one that has to wait.
LEMMA StepDrawn ==
  ASSUME NEW i \in DOMAIN Steps
  PROVE  /\ Count(Steps[i].id) > 0 <=> StepStatus(i) = "complete"
         /\ StepStatus(i) = "current" <=>
              /\ Count(Steps[i].id) = 0
              /\ i = 1 \/ Count(Steps[i].dependsOn) > 0
              /\ \A j \in 1..(i - 1) : Count(Steps[j].id) # 0
<1> DEFINE done   == Count(Steps[i].id)
           before == Count(Steps[i].dependsOn)
           open   == \E j \in 1..(i - 1) : Count(Steps[j].id) = 0
<1>1. done \in Nat /\ before \in Nat /\ i \in 1..4
  BY CountIsNumber DEF Steps
<1>2. StepStatus(i) =
        CASE done > 0 -> "complete"
          [] done = 0 /\ i > 1 /\ before = 0 -> "locked"
          [] done = 0 /\ (i = 1 \/ before > 0) -> IF open THEN "upcoming" ELSE "current"
  BY DEF StepStatus
<1>3. open <=> ~(\A j \in 1..(i - 1) : Count(Steps[j].id) # 0)
  OBVIOUS
<1> HIDE DEF done, before, open
<1>4. CASE done > 0
  <2>1. StepStatus(i) = "complete"
    BY <1>1, <1>2, <1>4
  <2> QED BY <1>1, <1>4, <2>1 DEF done
<1>5. CASE done = 0 /\ i > 1 /\ before = 0
  <2>1. StepStatus(i) = "locked"
    BY <1>1, <1>2, <1>5
  <2> QED BY <1>1, <1>5, <2>1 DEF done, before
<1>6. CASE done = 0 /\ (i = 1 \/ before > 0)
  <2>1. StepStatus(i) = IF open THEN "upcoming" ELSE "current"
    BY <1>1, <1>2, <1>6
  <2> QED BY <1>1, <1>3, <1>6, <2>1 DEF done, before
<1> QED BY <1>1, <1>4, <1>5, <1>6

LEMMA FirstStepPossible == WizardStepPossible
<1>1. SUFFICES ASSUME ~IsSetupComplete
               PROVE  \E i \in DOMAIN Steps :
                        /\ StepStatus(i) = "current"
                        /\ \A j \in DOMAIN Steps : StepStatus(j) = "current" => j = i
                        /\ \A l \in CreateModal(Steps[i].id).picks : RowsOn(l) # {}
  BY DEF WizardStepPossible, WizardShown
<1>2. /\ DOMAIN Steps = 1..4
      /\ Steps[1].id = "buildings" /\ Steps[2].id = "roomTypes" /\ Steps[2].dependsOn = "buildings"
      /\ Steps[3].id = "rooms" /\ Steps[3].dependsOn = "roomTypes"
      /\ Steps[4].id = "courses" /\ Steps[4].dependsOn = "rooms"
  BY DEF Steps
<1>3. \A l : Count(l) \in Nat /\ (Count(l) > 0 => RowsOn(l) # {})
  BY CountIsNumber
\* the first step that is not done
<1>4. PICK i \in 1..4 : Count(Steps[i].id) = 0 /\ \A j \in 1..(i - 1) : Count(Steps[j].id) # 0
  <2>1. \E i \in 1..4 : Count(Steps[i].id) = 0
    BY <1>1, <1>2, <1>3, StepDrawn DEF IsSetupComplete
  <2> DEFINE open == {i \in 1..4 : Count(Steps[i].id) = 0}
  <2>2. PICK i \in open : \A j \in open : i <= j
    BY <2>1, LeastNumber
  <2> QED BY <2>2
<1>5. i = 1 \/ Count(Steps[i].dependsOn) > 0
  BY <1>2, <1>3, <1>4
<1>6. StepStatus(i) = "current"
  BY <1>2, <1>4, <1>5, StepDrawn
<1>7. ASSUME NEW j \in DOMAIN Steps, StepStatus(j) = "current" PROVE j = i
  <2>1. Count(Steps[j].id) = 0 /\ \A k \in 1..(j - 1) : Count(Steps[k].id) # 0
    BY <1>7, StepDrawn
  <2> QED BY <1>2, <1>4, <2>1
<1>8. ASSUME NEW l \in CreateModal(Steps[i].id).picks PROVE RowsOn(l) # {}
  <2>1. /\ CreateModal("buildings") = CreateBuildingModal
        /\ CreateModal("roomTypes") = CreateRoomTypeModal
    BY DEF CreateModal
  <2>2. CreateModal("rooms") = CreateRoomModal /\ CreateModal("courses") = CreateCourseModal
    BY DEF CreateModal
  <2>3. i = 3 /\ l \in {"buildings", "roomTypes"}
    BY <1>2, <1>4, <1>8, <2>1, <2>2
    DEF CreateBuildingModal, CreateRoomTypeModal, CreateRoomModal, CreateCourseModal
  <2>4. Count("buildings") > 0 /\ Count("roomTypes") > 0
    BY <1>2, <1>3, <1>4, <2>3
  <2> QED BY <1>3, <2>3, <2>4
<1> QED BY <1>2, <1>6, <1>7, <1>8

-----------------------------------------------------------------------------
(***************************************************************************)
(* The timetable that is drawn                                             *)
(***************************************************************************)

LEMMA LeastIs ==
  ASSUME NEW S \in SUBSET Nat, S # {}
  PROVE  Least(S) \in S /\ \A y \in S : Least(S) <= y
BY LeastNumber DEF Least

\* A set of numbers below a bound has a greatest one.
LEMMA GreatestIs ==
  ASSUME NEW b \in Nat, NEW S \in SUBSET (0..b), S # {}
  PROVE  Greatest(S) \in S /\ \A y \in S : y <= Greatest(S)
<1> DEFINE D == {b - x : x \in S}
<1>1. D \in SUBSET Nat /\ D # {}
  <2>1. \A x \in S : b - x \in Nat
    OBVIOUS
  <2> QED BY <2>1
<1>2. PICK n \in D : \A m \in D : n <= m
  BY <1>1, LeastNumber
<1>3. PICK x \in S : n = b - x
  BY <1>2
<1>4. \A y \in S : x >= y
  BY <1>2, <1>3
<1> QED BY <1>4 DEF Greatest

LEMMA Halves ==
  ASSUME NEW t \in 0..48
  PROVE  /\ FloorHour(t) \in 0..24 /\ 2 * FloorHour(t) <= t
         /\ CeilHour(t) \in 0..24 /\ t <= 2 * CeilHour(t)
BY DEF FloorHour, CeilHour

\* What the assumptions on the timetables say of the meetings of one.
LEMMA MeetingsOf ==
  ASSUME NEW t \in Timetables
  PROVE  /\ SUBSET t \subseteq Renderings
         /\ \A m \in t : /\ m.id \in Nat /\ m.start \in 0..48 /\ m.finish \in 0..48
                         /\ m.start < m.finish
<1>1. t \in Renderings
  BY TimetablesAssumption
<1> QED BY <1>1, TimetablesAssumption, RenderingsAssumption

\* The hours of the grid: they take in every meeting, but for the time
\* before five and after eleven at night.
LEMMA GridHours ==
  ASSUME NEW t \in Timetables
  PROVE  /\ GridStartHour(t) \in 5..8 /\ GridEndHour(t) \in 20..23
         /\ \A m \in t : /\ GridStartHour(t) = 5 \/ 2 * GridStartHour(t) <= m.start
                         /\ GridEndHour(t) = 23 \/ m.finish <= 2 * GridEndHour(t)
<1> DEFINE starts == {8} \union {FloorHour(m.start) : m \in t}
           ends   == {20} \union {CeilHour(m.finish) : m \in t}
<1>1. \A m \in t : /\ m.start \in 0..48 /\ m.finish \in 0..48
                   /\ FloorHour(m.start) \in 0..24 /\ 2 * FloorHour(m.start) <= m.start
                   /\ CeilHour(m.finish) \in 0..24 /\ m.finish <= 2 * CeilHour(m.finish)
  BY MeetingsOf, Halves
<1>2. starts \in SUBSET (0..24) /\ ends \in SUBSET (0..24) /\ 8 \in starts /\ 20 \in ends
  BY <1>1
<1>3. starts \in SUBSET Nat
  BY <1>2
<1> DEFINE s == Least(starts)
           e == Greatest(ends)
<1>4. s \in 0..24 /\ s <= 8 /\ \A m \in t : s <= FloorHour(m.start)
  BY <1>2, <1>3, LeastIs
<1>5. e \in 0..24 /\ 20 <= e /\ \A m \in t : CeilHour(m.finish) <= e
  BY <1>2, GreatestIs
<1>6. GridStartHour(t) = Greatest({5, s}) /\ GridEndHour(t) = Least({23, e})
  BY DEF GridStartHour, GridEndHour
<1> HIDE DEF s, e
<1>7. GridStartHour(t) \in {5, s} /\ GridStartHour(t) >= 5 /\ GridStartHour(t) >= s
  BY <1>4, <1>6, GreatestIs
<1>8. GridEndHour(t) \in {23, e} /\ GridEndHour(t) <= 23 /\ GridEndHour(t) <= e
  BY <1>5, <1>6, LeastIs
<1> QED BY <1>1, <1>4, <1>5, <1>7, <1>8

\* So many columns of equal width fit.
LEMMA WidthsFit ==
  ASSUME NEW n \in Nat, n > 0, NEW c \in Nat, c < n
  PROVE  /\ 100 \div n \in Nat /\ c * (100 \div n) >= 0
         /\ c * (100 \div n) + 100 \div n <= 100
<1> DEFINE w == 100 \div n
<1>1. w \in Nat
  OBVIOUS
<1>2. n * w <= 100
  BY SMTT(30)
<1> HIDE DEF w
<1>3. (c + 1) * w <= n * w
  BY <1>1
<1>4. (c + 1) * w = c * w + w /\ c * w >= 0
  BY <1>1
<1> QED BY <1>1, <1>2, <1>3, <1>4 DEF w

LEMMA BoxInside ==
  ASSUME timetable \in Timetables, day = DaySessions(timetable, hidden, weekday),
         LayoutInv, LaidOut, NEW m \in day
  PROVE  LET b     == Box(m)
             first == 2 * GridStartHour(timetable)
             last  == 2 * GridEndHour(timetable)
         IN  /\ b.height > 0 /\ b.top >= 0 /\ b.top + b.height <= last - first
             /\ first + b.top # m.start => first + b.top = 2 * 5
             /\ first + b.top + b.height # m.finish => last = 2 * 23
             /\ b.left >= 0 /\ b.left + b.width <= 100
<1> DEFINE first == 2 * GridStartHour(timetable)
           last  == 2 * GridEndHour(timetable)
           from  == Greatest({m.start, first})
           to    == Least({m.finish, last})
           n     == TotalColumns(m)
<1>1. m \in timetable /\ m.finish > first /\ m.start < last
  BY DEF DaySessions, Visible
<1>2. m.start \in 0..48 /\ m.finish \in 0..48 /\ m.start < m.finish
  BY <1>1, MeetingsOf
<1>3. /\ first \in 10..16 /\ last \in 40..46
      /\ first = 10 \/ first <= m.start
      /\ last = 46 \/ m.finish <= last
  BY <1>1, GridHours
<1>4. column[m] \in Nat /\ n \in Nat /\ n > 0 /\ column[m] < n
  <2>1. column[m] \in Nat /\ n \in Nat /\ column[m] < n
    BY ColumnBelowTotal
  <2> QED BY <2>1
<1>5. Box(m) = [top |-> from - first, height |-> to - from,
                left |-> column[m] * (100 \div n), width |-> 100 \div n]
  BY DEF Box
<1> HIDE DEF n, first, last
<1>6. from \in {m.start, first} /\ from >= m.start /\ from >= first
  <2>1. {m.start, first} \in SUBSET (0..48)
    BY <1>2, <1>3
  <2> QED BY <2>1, GreatestIs
<1>7. to \in {m.finish, last} /\ to <= m.finish /\ to <= last
  <2>1. {m.finish, last} \in SUBSET Nat
    BY <1>2, <1>3
  <2> QED BY <2>1, LeastIs
<1>8. /\ 100 \div n \in Nat /\ column[m] * (100 \div n) >= 0
      /\ column[m] * (100 \div n) + 100 \div n <= 100
  BY <1>4, WidthsFit, Zenon
<1> HIDE DEF from, to
<1>9. /\ Box(m).top = from - first /\ Box(m).height = to - from
      /\ Box(m).left = column[m] * (100 \div n) /\ Box(m).width = 100 \div n
  BY <1>5
<1>10. from \in Int /\ to \in Int /\ first \in Int /\ last \in Int
  BY <1>2, <1>3, <1>6, <1>7
<1>11. first + (from - first) = from /\ first + (from - first) + (to - from) = to
  BY <1>10
<1>12. from < to /\ first <= from /\ to <= last
  BY <1>1, <1>2, <1>3, <1>6, <1>7
<1>13. to - from > 0 /\ from - first >= 0 /\ (from - first) + (to - from) <= last - first
  BY <1>10, <1>12
<1>14. from # m.start => first = 10
  BY <1>2, <1>3, <1>6
<1>15. from # m.start => from = 10
  BY <1>6, <1>14
<1>16. to # m.finish => last = 46
  BY <1>2, <1>3, <1>7
<1>17. /\ first + Box(m).top = from
       /\ first + Box(m).top + Box(m).height = to
  BY <1>9, <1>11
<1>18. 2 * 5 = 10 /\ 2 * 23 = 46
  OBVIOUS
<1> QED BY <1>8, <1>9, <1>13, <1>15, <1>16, <1>17, <1>18, Zenon DEF first, last

\* In the preview of the home page the hours take in every hour of a meeting
\* between five and ten at night, and the first of those that share a cell is
\* well defined.
LEMMA PreviewInside ==
  ASSUME NEW t \in Timetables, NEW m \in t, m.day \in Weekdays,
         NEW h \in FloorHour(m.start)..(CeilHour(m.finish) - 1), h \in 5..21
  PROVE  h \in PreviewHours(t) /\ Cell(t, m.day, h) # {}
<1> DEFINE starts == {8} \union {FloorHour(x.start) : x \in t}
           ends   == {17} \union {CeilHour(x.finish) : x \in t}
           here   == SessionsForCell(t, m.day, h)
<1>1. \A x \in t : /\ x.id \in Nat
                   /\ FloorHour(x.start) \in 0..24 /\ CeilHour(x.finish) \in 0..24
  BY MeetingsOf, Halves
<1>2. starts \in SUBSET (0..24) /\ starts \in SUBSET Nat /\ ends \in SUBSET (0..24)
  BY <1>1
<1>3. FloorHour(m.start) \in starts /\ CeilHour(m.finish) \in ends
  OBVIOUS
<1> DEFINE s == Least(starts)
           e == Greatest(ends)
<1>4. s \in 0..24 /\ s <= FloorHour(m.start)
  BY <1>2, <1>3, LeastIs
<1>5. e \in 0..24 /\ CeilHour(m.finish) <= e
  BY <1>2, <1>3, GreatestIs
<1>6. PreviewHours(t) = Greatest({5, s})..(Least({22, e}) - 1)
  BY DEF PreviewHours
<1> HIDE DEF s, e
<1>7. Greatest({5, s}) \in {5, s}
  BY <1>4, GreatestIs
<1>8. Least({22, e}) \in {22, e}
  BY <1>5, LeastIs
<1>9. h \in PreviewHours(t)
  <2> DEFINE i == FloorHour(m.start)
             j == CeilHour(m.finish)
             u == Greatest({5, s})
             v == Least({22, e})
  <2>1. i \in 0..24 /\ j \in 0..24 /\ h \in i..(j - 1) /\ s <= i /\ j <= e
    BY <1>1, <1>4, <1>5
  <2>2. (u = 5 \/ u = s) /\ (v = 22 \/ v = e) /\ s \in 0..24 /\ e \in 0..24
    BY <1>4, <1>5, <1>7, <1>8
  <2> HIDE DEF i, j, u, v
  <2>3. h \in u..(v - 1)
    BY <2>1, <2>2
  <2> QED BY <1>6, <2>3 DEF u, v
<1>10. Cell(t, m.day, h) # {}
  <2> DEFINE ids == {x.id : x \in here}
  <2>1. m \in here /\ here \subseteq t
    BY <1>1 DEF SessionsForCell
  <2>2. ids \in SUBSET Nat /\ ids # {}
    BY <1>1, <2>1
  <2>3. PICK i \in ids : \A j \in ids : i <= j
    BY <2>2, LeastNumber
  <2>4. PICK x \in here : x.id = i
    BY <2>3
  <2>5. \A y \in here : x.id <= y.id
    BY <2>3, <2>4
  <2> QED BY <2>4, <2>5 DEF Cell
<1> QED BY <1>9, <1>10

LEMMA ViewShown ==
  ASSUME ViewInv
  PROVE  InsideTheGrid
<1>1. CASE Blank
  BY <1>1 DEF InsideTheGrid, Blank
<1>2. CASE Drawn
  BY <1>2, BoxInside, PreviewInside DEF InsideTheGrid, Drawn
<1> QED BY <1>1, <1>2 DEF ViewInv

LEMMA LayoutSame ==
  ASSUME LayoutInv, UNCHANGED layoutVars
  PROVE  LayoutInv'
BY DEF LayoutInv, LayoutTypeOK, NoSharedColumn, PlacedInOrder,
       ColumnsOfNeighbours, Placed, Overlaps, layoutVars

\* The layout of what a timetable shows of one day.
LEMMA DrawInv ==
  ASSUME NEW meetings \in Timetables, NEW courses, NEW d, Draw(meetings, courses, d),
         details \subseteq meetings
  PROVE  Drawn'
<1>1. DaySessions(meetings, courses, d) \in SUBSET meetings
  BY DEF DaySessions, Visible
<1>2. DaySessions(meetings, courses, d) \in Renderings
  BY <1>1, MeetingsOf
<1>3. LayoutInv'
  BY <1>2, RerenderInv DEF Draw
<1> QED BY <1>3 DEF Drawn, Draw, Rerender

LEMMA DetailsInv ==
  ASSUME Drawn, NEW meeting \in SUBSET timetable, OpenDialog(meeting)
  PROVE  Drawn'
BY LayoutSame DEF Drawn, OpenDialog, layoutVars

LEMMA ViewStepInv ==
  ASSUME Drawn, TimetableViewNext
  PROVE  Drawn'
<1>1. timetable \in Timetables /\ details \subseteq timetable /\ {} \subseteq timetable
  BY DEF Drawn
<1>2. CASE PlaceNext /\ UNCHANGED <<timetable, hidden, weekday, clock, details, tab, order>>
  <2>1. LayoutInv' /\ day' = day
    BY <1>2, PlaceNextInv DEF Drawn, PlaceNext
  <2> QED BY <1>2, <2>1 DEF Drawn
<1>3. ASSUME NEW meetings \in Timetables, ShowTimetable(meetings) PROVE Drawn'
  BY <1>3, DrawInv DEF ShowTimetable
<1>4. ASSUME NEW c, ToggleCourseVisibility(c) PROVE Drawn'
  BY <1>1, <1>4, DrawInv DEF ToggleCourseVisibility
<1>5. CASE ShowAll
  BY <1>1, <1>5, DrawInv DEF ShowAll
<1>6. CASE OpenBanner
  <2>1. Banner \in SUBSET timetable
    BY DEF Banner, FirstListed, Now, NextSessions, Later
  <2> QED BY <1>6, <2>1, DetailsInv DEF OpenBanner
<1>7. CASE CloseDetails \/ MinutePasses \/ ExportAsPDF \/ PrintSchedule
  <2>1. UNCHANGED <<layoutVars, timetable, hidden, weekday>> /\ details' \subseteq timetable
    BY <1>1, <1>7 DEF CloseDetails, MinutePasses, ExportAsPDF, PrintSchedule, SortHeld
  <2> QED BY <2>1, LayoutSame DEF Drawn, layoutVars
<1>8. ASSUME NEW t, SelectTab(t) PROVE Drawn'
  BY <1>8, LayoutSame DEF SelectTab, Drawn, layoutVars
<1>9. ASSUME NEW m \in timetable, OpenOfRoom(m) \/ OpenOfCourse(m) PROVE Drawn'
  BY <1>9, DetailsInv DEF OpenOfRoom, OpenOfCourse
<1>10. ASSUME NEW d, LookAt(d) PROVE Drawn'
  BY <1>1, <1>10, DrawInv DEF LookAt
<1>11. ASSUME NEW m \in day, OpenDetails(m) PROVE Drawn'
  <2>1. {m} \in SUBSET timetable
    BY DEF Drawn, DaySessions, Visible
  <2> QED BY <1>11, <2>1, DetailsInv DEF OpenDetails
<1> QED
  BY <1>2, <1>3, <1>4, <1>5, <1>6, <1>7, <1>8, <1>9, <1>10, <1>11 DEF TimetableViewNext

LEMMA ViewSame ==
  ASSUME ViewInv, UNCHANGED viewVars
  PROVE  ViewInv'
<1>1. UNCHANGED <<layoutVars, timetable, hidden, weekday, details>>
  BY DEF viewVars
<1>2. CASE Blank
  BY <1>1, <1>2 DEF ViewInv, Blank, Placed, layoutVars
<1>3. CASE Drawn
  BY <1>1, <1>3, LayoutSame DEF ViewInv, Drawn, layoutVars
<1> QED BY <1>2, <1>3 DEF ViewInv

LEMMA ViewKept ==
  ASSUME ViewInv, [Next]_vars
  PROVE  ViewInv'
<1>1. CASE LibraryNext \/ \E l \in followed : ListFails(l)
  BY <1>1, ViewSame DEF LibraryNext, ListFails
<1>2. CASE \E q \in requests : RequestSettles(q)
  BY <1>2, ViewSame DEF RequestSettles
<1>3. CASE PagesNext
  BY <1>3, ViewSame DEF PagesNext
<1>4. CASE ClientSessionNext /\ UNCHANGED viewVars
  BY <1>4, ViewSame
<1>5. CASE ViewNext
  <2>1. Drawn
    BY <1>5 DEF ViewInv, ViewNext, Blank
  <2> QED BY <1>5, <2>1, ViewStepInv DEF ViewInv, ViewNext
<1>6. CASE UNCHANGED vars
  BY <1>6, ViewSame DEF vars
<1> QED BY <1>1, <1>2, <1>3, <1>4, <1>5, <1>6 DEF Next

LEMMA ViewInit == Init => ViewInv
<1> SUFFICES ASSUME NEW s \in Scenarios, ScenarioInit(s)
             PROVE  ViewInv
  BY DEF Init
<1>1. CASE s.draws
  <2>1. TimetableViewInit
    BY <1>1 DEF ScenarioInit
  <2>2. timetable \in Timetables /\ details = {} /\ day = DaySessions(timetable, hidden, weekday)
    BY <2>1 DEF TimetableViewInit
  <2>3. day \in SUBSET timetable
    BY <2>2 DEF DaySessions, Visible
  <2>4. LayoutInit
    BY <2>1, <2>2, <2>3, MeetingsOf DEF LayoutInit, TimetableViewInit
  <2> QED BY <2>2, <2>4, LayoutInitInv DEF ViewInv, Drawn
<1>2. CASE ~s.draws
  BY <1>2 DEF ScenarioInit, ViewInv, Blank, Placed
<1> QED BY <1>1, <1>2

-----------------------------------------------------------------------------
(***************************************************************************)
(* The theorems                                                            *)
(***************************************************************************)

LEMMA TypesShown ==
  ASSUME TypeInv, ViewInv
  PROVE  ClientTypeOK
<1>1. details \subseteq timetable
  BY DEF ViewInv, Blank, Drawn
<1>2. /\ followed \subseteq Lists /\ observed \subseteq followed /\ missed \subseteq followed
      /\ DOMAIN server = Lists /\ DOMAIN cache = followed
      /\ \A l \in followed :
           /\ cache[l].rows \in [Rows -> Nat] /\ server[l] \in [Rows -> Nat]
           /\ cache[l].fetch \in {"idle", "sent", "read"}
  BY DEF TypeInv, CacheTyped, Entry, Contents
<1>3. \A q \in requests : q.phase \in {"sent", "granted", "refused"} /\ q.list \in followed
  BY DEF TypeInv, RequestsTyped, RequestOK, RequestFields
<1>4. dialog.kind \in {"closed", "create", "edit", "confirm", "archive", "sheet"}
  BY DEF TypeInv, DialogOK, DialogFields
<1>5. /\ page \in Pages
      /\ session \in [stored : BOOLEAN, user : BOOLEAN, loading : BOOLEAN]
      /\ ticked \subseteq Rows /\ selected \in Rows \union {NoRow}
      /\ home.slide \in 0..Slides
  BY DEF TypeInv, ScreenTyped, SessionFields
<1> QED BY <1>1, <1>2, <1>3, <1>4, <1>5 DEF ClientTypeOK

\* The inductive invariant of the client: what its state is made of, how far
\* what was fetched is what the server holds, which forms are still true, what
\* is in a form and in a request, the session, and what is drawn.
THEOREM ClientInvariant == Spec => []ClientInv
<1>1. Init => ClientInv
  BY TypeInit, CacheInit, CalmInit, FillInit, ViewInit DEF ClientInv, Init, SignedOutStaysOut
<1>2. ClientInv /\ [Next]_vars => ClientInv'
  BY TypeKept, CacheKept, CalmKept, FillKept, SignedOutKept, ViewKept DEF ClientInv
<1> QED BY <1>1, <1>2, PTL DEF Spec

\* The types of the state of the client (src/frontend/src).
THEOREM ClientTypeCorrect == Spec => []ClientTypeOK
<1>1. ClientInv => ClientTypeOK
  BY TypesShown DEF ClientInv
<1> QED BY <1>1, ClientInvariant, PTL

\* A list at rest shows what the server holds: every mutation hook marks every
\* list it changes, and an answer that was overtaken is fetched again
\* (src/frontend/src/hooks, and the query client they mark lists in).
THEOREM RestShowsServerHolds == Spec => []RestShowsServer
<1>1. ClientInv => RestShowsServer
  BY RestIsAccurate DEF ClientInv, TypeInv
<1> QED BY <1>1, ClientInvariant, PTL

\* An edit that was filled at rest and is the only one sent for its row puts
\* back nothing that was saved in between (routes/app/rooms.tsx and courses.tsx).
THEOREM SavesKeepOwnSavesHolds == Spec => []SavesKeepOwnSaves
<1>1. ClientInv => SavesKeepOwnSaves
  BY CalmSaves DEF ClientInv
<1> QED BY <1>1, ClientInvariant, PTL

\* What was typed once is never in two requests of the same kind at once: the
\* form waits for the answer, or is emptied when it sends.
THEOREM NoDoubleSubmitHolds == Spec => []NoDoubleSubmit
<1>1. ClientInv => NoDoubleSubmit
  BY DEF ClientInv, FillInv
<1> QED BY <1>1, ClientInvariant, PTL

\* The setup wizard always has one current step, and its dialog can be
\* answered (setup-wizard: getStepStatus).
THEOREM WizardStepPossibleHolds == Spec => []WizardStepPossible
BY FirstStepPossible, PTL

\* After signing out the client has neither a stored session nor a user until
\* somebody signs in, whatever arrives in between (contexts/auth-context.tsx).
THEOREM SignedOutStaysOutHolds == Spec => []SignedOutStaysOut
<1>1. ClientInv => SignedOutStaysOut
  BY DEF ClientInv
<1> QED BY <1>1, ClientInvariant, PTL

\* The boxes of a day lie within the grid, and the cells of the preview are
\* taken (schedule.tsx, getSessionsWithLayout and the boxes it draws;
\* app/index.tsx, the preview).
THEOREM InsideTheGridHolds == Spec => []InsideTheGrid
<1>1. ClientInv => InsideTheGrid
  BY ViewShown DEF ClientInv
<1> QED BY <1>1, ClientInvariant, PTL

\* On the page, too, the layout keeps overlapping meetings apart and inside
\* their day, whatever is shown, hidden or clicked while it is drawn.
THEOREM LayoutOfThePage == Spec => [](NoSharedColumn /\ ColumnsNeeded /\ InsideTheDay)
<1>1. ClientInv => NoSharedColumn /\ ColumnsNeeded /\ InsideTheDay
  <2>1. CASE Blank
    BY <2>1 DEF Blank, NoSharedColumn, ColumnsNeeded, InsideTheDay, Placed
  <2>2. CASE Drawn
    BY <2>2, NeighboursAreNeeded, ColumnBelowTotal
    DEF Drawn, LayoutInv, InsideTheDay
  <2> QED BY <2>1, <2>2 DEF ClientInv, ViewInv
<1> QED BY <1>1, ClientInvariant, PTL
=============================================================================
