--------------------------- MODULE CatalogueScreens ---------------------------
(***************************************************************************)
(* The pages of the catalogue (buildings, room types, rooms, courses with   *)
(* their sessions) and their dialogs.  The dialogs are modal: one at most   *)
(* is open.  What a user types is a number, new at every change of a form;  *)
(* a search only narrows the rows on show, so any row the page holds can be *)
(* the one acted upon.                                                     *)
(***************************************************************************)
EXTENDS QueryCache

VARIABLES
  session, \* the user's session: see ClientSession
  page,    \* the route of the client
  dialog,  \* the open dialog: its kind, its row, the form in it
  draft,   \* what a closed creation dialog keeps of its form
  ticked   \* selectedIds of the courses page

screenVars == <<session, page, dialog, draft, ticked>>

NoRow  == 0
Closed == [kind |-> "closed", list |-> "none", row |-> NoRow,
           base |-> 0, fill |-> 0, calm |-> TRUE]

-----------------------------------------------------------------------------
(* The dialogs.                                                            *)
(*   fields    the fields of the form                                      *)
(*   picks     the lists a value has to be picked from                     *)
(*   blankAt   when the form is emptied: "open", "submit", "cancel"        *)
(*   held      no closing and no typing while the request is under way     *)
(*   waits     no second submission while the request is under way         *)

CreateBuildingModal == [fields |-> {"name"}, picks |-> {}, blankAt |-> {"open"},
                        held |-> TRUE, waits |-> TRUE]
CreateRoomTypeModal == [fields |-> {"name"}, picks |-> {}, blankAt |-> {"open"},
                        held |-> TRUE, waits |-> TRUE]
CreateRoomModal == [fields |-> {"name", "building", "type", "capacity"},
                    picks |-> {"buildings", "roomTypes"}, blankAt |-> {"submit"},
                    held |-> FALSE, waits |-> FALSE]
CreateCourseModal == [fields |-> {"name"}, picks |-> {},
                      blankAt |-> {"submit", "cancel"}, held |-> FALSE, waits |-> TRUE]
AddSessionModal == [fields |-> {"type", "sessions", "sessionDuration", "requiredRoom"},
                    picks |-> {"roomTypes"}, blankAt |-> {"open"},
                    held |-> FALSE, waits |-> TRUE]

\* The form of an editing dialog is read from the row when it opens.
EditBuildingModal == [fields |-> {"name"}, picks |-> {}, blankAt |-> {"open", "cancel"},
                      held |-> FALSE, waits |-> TRUE]
EditRoomTypeModal == [fields |-> {"name"}, picks |-> {}, blankAt |-> {"open", "cancel"},
                      held |-> FALSE, waits |-> TRUE]
EditRoomModal == [fields |-> {"name", "building_id", "type", "capacity"}, picks |-> {},
                  blankAt |-> {"open", "cancel"}, held |-> FALSE, waits |-> TRUE]
EditCourseModal == [fields |-> {"name"}, picks |-> {}, blankAt |-> {"open", "cancel"},
                    held |-> FALSE, waits |-> TRUE]
EditSessionModal == [fields |-> {"type", "sessions", "sessionDuration", "requiredRoom"},
                     picks |-> {}, blankAt |-> {"open", "cancel"},
                     held |-> FALSE, waits |-> TRUE]

\* It can be dismissed with the Escape key, its buttons wait for the answer.
ConfirmDialog == [fields |-> {}, picks |-> {}, blankAt |-> {"open"},
                  held |-> FALSE, waits |-> TRUE]

CreateModal(list) ==
  CASE list = "buildings" -> CreateBuildingModal
    [] list = "roomTypes" -> CreateRoomTypeModal
    [] list = "rooms"     -> CreateRoomModal
    [] list = "courses"   -> CreateCourseModal
    [] list = "sessions"  -> AddSessionModal

EditModal(list) ==
  CASE list = "buildings" -> EditBuildingModal
    [] list = "roomTypes" -> EditRoomTypeModal
    [] list = "rooms"     -> EditRoomModal
    [] list = "courses"   -> EditCourseModal
    [] list = "sessions"  -> EditSessionModal

Modal(d) == CASE d.kind = "create"  -> CreateModal(d.list)
              [] d.kind = "edit"    -> EditModal(d.list)
              [] d.kind = "confirm" -> ConfirmDialog

-----------------------------------------------------------------------------
(* The pages: the lists they manage, the lists they read, the list without  *)
(* which they show a skeleton or an error instead of their content.        *)

BuildingsPage == [manages |-> {"buildings"}, reads |-> {"buildings", "rooms"},
                  gate |-> {"buildings"}]
RoomTypesPage == [manages |-> {"roomTypes"}, reads |-> {"roomTypes", "rooms"},
                  gate |-> {"roomTypes"}]
RoomsPage     == [manages |-> {"rooms"}, reads |-> {"rooms", "buildings", "roomTypes"},
                  gate |-> {"rooms"}]
CoursesPage   == [manages |-> {"courses", "sessions"},
                  reads |-> {"courses", "sessions", "roomTypes"}, gate |-> {"courses"}]
GeneratePage  == [manages |-> {}, reads |-> {"courses", "sessions", "rooms"},
                  gate |-> {"courses", "sessions", "rooms"}]
SchedulePage  == [manages |-> {},
                  reads |-> {"schedules", "archived", "courses", "rooms", "buildings"},
                  gate |-> {"schedules"}]
DashboardPage == [manages |-> {},
                  reads |-> {"courses", "rooms", "buildings", "roomTypes", "schedules"},
                  gate |-> {"courses", "rooms", "buildings", "roomTypes", "schedules"}]
SettingsPage  == [manages |-> {}, reads |-> {}, gate |-> {}]

AppPages == {"home", "schedule", "courses", "rooms", "buildings", "roomTypes",
             "generate", "settings"}

PageOf(p) ==
  CASE p = "buildings" -> BuildingsPage
    [] p = "roomTypes" -> RoomTypesPage
    [] p = "rooms"     -> RoomsPage
    [] p = "courses"   -> CoursesPage
    [] p = "generate"  -> GeneratePage
    [] p = "schedule"  -> SchedulePage
    [] p = "home"      -> DashboardPage
    [] OTHER           -> SettingsPage

\* The side bar of every page of the application reads five lists.
AppSidebar == {"courses", "rooms", "buildings", "roomTypes", "schedules"}

\* Nothing of the application is mounted without a user.
Mounted == page \in AppPages /\ session.user /\ ~session.loading

Gate == PageOf(page).gate \intersect followed

\* isLoading, then isError, then the content
Loading == Mounted /\ \E l \in Gate : ~cache[l].loaded /\ ~cache[l].failed
Broken  == Mounted /\ ~Loading /\ \E l \in Gate : cache[l].failed
Shown   == Mounted /\ ~Loading /\ ~Broken

\* The button of the error state fetches every list of the gate again.
Retry ==
  /\ Broken
  /\ cache' = [l \in followed |-> IF l \in Gate /\ Restarts(l) THEN Started(cache[l])
                                                             ELSE cache[l]]
  /\ missed' = missed \ {l \in Gate : Restarts(l)}
  /\ UNCHANGED <<server, followed, observed, requests, budget, screenVars>>

\* What the menu of a row offers.
BuildingCards == {"edit", "confirm"}
RoomTypeCards == {"edit", "confirm"}
RoomCards     == {"edit", "remove"}
RoomTable     == {"edit", "remove"}
CourseRows    == {"edit", "remove", "tick"}
SessionRows   == {"edit", "remove"}

Menu(list) ==
  CASE list = "buildings" -> BuildingCards
    [] list = "roomTypes" -> RoomTypeCards
    [] list = "rooms"     -> RoomCards \union RoomTable
    [] list = "courses"   -> CourseRows
    [] list = "sessions"  -> SessionRows

RowsOn(list) == {r \in Rows : cache[list].rows[r] # 0}

\* ghost: the list is at rest
Quiet(list) ==
  /\ cache[list].fetch = "idle" /\ ~cache[list].stale /\ ~cache[list].failed
  /\ list \notin missed /\ \A q \in requests : q.list # list

-----------------------------------------------------------------------------
(* Opening, filling and closing a dialog.                                  *)

Managed == PageOf(page).manages \intersect followed

OpenCreate(list) ==
  /\ Shown /\ dialog.kind = "closed" /\ list \in Managed
  /\ dialog' = [Closed EXCEPT !.kind = "create", !.list = list,
                  !.fill = IF "open" \in CreateModal(list).blankAt THEN 0 ELSE draft]
  /\ UNCHANGED <<cacheVars, session, page, draft, ticked>>

\* mutant of Loaded: the form keeps the row it was opened on first
LoadedOnce(list, row) == IF cache[list].rows[row] > 1 THEN 1 ELSE cache[list].rows[row]

\* the row as the form of an editing dialog takes it over
Loaded(list, row) == cache[list].rows[row]

OpenEdit(list, row) ==
  /\ Shown /\ dialog.kind = "closed" /\ list \in Managed
  /\ row \in RowsOn(list) /\ "edit" \in Menu(list)
  /\ dialog' = [Closed EXCEPT !.kind = "edit", !.list = list, !.row = row,
                              !.base = Loaded(list, row), !.calm = Quiet(list)]
  /\ UNCHANGED <<cacheVars, session, page, draft, ticked>>

OpenConfirm(list, row) ==
  /\ Shown /\ dialog.kind = "closed" /\ list \in Managed
  /\ row \in RowsOn(list) /\ "confirm" \in Menu(list)
  /\ dialog' = [Closed EXCEPT !.kind = "confirm", !.list = list, !.row = row]
  /\ UNCHANGED <<cacheVars, session, page, draft, ticked>>

OpOf(d) == CASE d.kind = "create"  -> "create"
             [] d.kind = "edit"    -> "update"
             [] d.kind = "confirm" -> "remove"
             [] OTHER              -> d.kind

Waiting == Pending(OpOf(dialog), dialog.list)

\* What is picked comes from a list that has rows; it stays in the form when
\* the list loses it.
Fill ==
  /\ Shown /\ dialog.kind \in {"create", "edit"}
  /\ ~(Modal(dialog).held /\ Waiting)
  /\ Spend("fills")
  /\ dialog.fill = 0 => \A l \in Modal(dialog).picks \intersect followed : RowsOn(l) # {}
  /\ dialog' = [dialog EXCEPT !.fill = budget.fills]
  /\ UNCHANGED <<server, followed, observed, cache, requests, missed, session, page, draft, ticked>>

Cancel ==
  /\ Shown /\ dialog.kind \in {"create", "edit", "confirm"}
  /\ ~(Modal(dialog).held /\ Waiting)
  /\ dialog' = Closed
  /\ draft' = IF dialog.kind # "create" THEN draft
              ELSE IF "cancel" \in Modal(dialog).blankAt THEN 0 ELSE dialog.fill
  /\ UNCHANGED <<cacheVars, session, page, ticked>>

-----------------------------------------------------------------------------
(* Submitting.                                                             *)

\* bound: no more rows are created than Rows has room for
HasRoom(list) ==
  Cardinality({q \in requests : q.list = list /\ q.op \in {"create", "generate"}
                                /\ q.phase = "sent"})
    < Cardinality(Free(server[list]))

\* mutant of MaySubmit: a dialog does not wait for the answer of its request
MaySubmitAgain == Shown /\ dialog.fill # 0

MaySubmit ==
  /\ Shown /\ dialog.fill # 0
  /\ ~(Modal(dialog).waits /\ Waiting)

SubmitCreate ==
  /\ dialog.kind = "create" /\ MaySubmit /\ HasRoom(dialog.list)
  /\ Send(Request("create", dialog.list, NoRow, 0, dialog.fill, FALSE))
  /\ dialog' = [dialog EXCEPT !.fill = IF "submit" \in Modal(dialog).blankAt THEN 0 ELSE @]
  /\ UNCHANGED <<server, followed, observed, cache, missed, session, page, draft, ticked>>

\* The building that was picked for a room has left its list, or has another
\* name by now: nothing is sent, and the form is emptied all the same.
BuildingGone ==
  /\ dialog.kind = "create" /\ dialog.list = "rooms" /\ MaySubmit
  /\ dialog' = [dialog EXCEPT !.fill = 0]
  /\ UNCHANGED <<cacheVars, session, page, draft, ticked>>

\* The whole form is sent: what the user left alone goes back as it was read.
SubmitEdit ==
  /\ dialog.kind = "edit" /\ MaySubmit
  /\ dialog.list = "roomTypes" => HasRoom("roomTypes")
  /\ Send(Request("update", dialog.list, dialog.row, dialog.base, dialog.fill,
                  dialog.calm))
  /\ dialog' = [dialog EXCEPT !.calm = FALSE]
  /\ UNCHANGED <<server, followed, observed, cache, missed, session, page, draft, ticked>>

\* The button closes the dialog; the answer comes later.
ConfirmRemove ==
  /\ Shown /\ dialog.kind = "confirm" /\ ~Waiting
  /\ Send(Request("remove", dialog.list, dialog.row, 0, 0, FALSE))
  /\ dialog' = Closed
  /\ UNCHANGED <<server, followed, observed, cache, missed, session, page, draft, ticked>>

\* Rooms, courses and sessions are removed without a question.
RemoveNow(list, row) ==
  /\ Shown /\ dialog.kind = "closed" /\ list \in Managed
  /\ row \in RowsOn(list) /\ "remove" \in Menu(list)
  /\ Send(Request("remove", list, row, 0, 0, FALSE))
  /\ UNCHANGED <<server, followed, observed, cache, missed, screenVars>>

\* The callbacks the page gave with its call: a success closes the dialog of
\* that kind, whichever row it is open for by now.
ClosedBy(q) ==
  /\ q.phase = "granted" /\ q.attached
  /\ dialog.kind # "closed" /\ dialog.list = q.list /\ OpOf(dialog) = q.op

CatalogueCallback(q) ==
  /\ dialog' = IF ClosedBy(q) THEN Closed ELSE dialog
  /\ draft' = IF ClosedBy(q) /\ q.op = "create" THEN dialog.fill ELSE draft

-----------------------------------------------------------------------------
(* The selection of the courses table.                                     *)

Tick(row) ==
  /\ page = "courses" /\ "courses" \in followed /\ Shown /\ dialog.kind = "closed"
  /\ row \in RowsOn("courses") /\ "tick" \in Menu("courses")
  /\ ticked' = IF row \in ticked THEN ticked \ {row} ELSE ticked \union {row}
  /\ UNCHANGED <<cacheVars, session, page, dialog, draft>>

\* "listed" are the courses that match the search; the sizes are compared.
TickAll(listed) ==
  /\ page = "courses" /\ "courses" \in followed /\ Shown /\ dialog.kind = "closed"
  /\ listed \subseteq RowsOn("courses")
  /\ ticked' = IF Cardinality(ticked) = Cardinality(listed) THEN {} ELSE listed
  /\ UNCHANGED <<cacheVars, session, page, dialog, draft>>

ClearSelection ==
  /\ page = "courses" /\ Shown /\ dialog.kind = "closed" /\ ticked # {}
  /\ ticked' = {}
  /\ UNCHANGED <<cacheVars, session, page, dialog, draft>>

\* One request for every ticked course, listed or not.
BulkDelete ==
  /\ page = "courses" /\ Shown /\ dialog.kind = "closed" /\ ticked # {}
  /\ budget.requests >= Cardinality(ticked)
  /\ budget' = [budget EXCEPT !.requests = @ - Cardinality(ticked)]
  /\ requests' = requests \union {Request("remove", "courses", r, 0, 0, FALSE) : r \in ticked}
  /\ ticked' = {}
  /\ UNCHANGED <<server, followed, observed, cache, missed, session, page, dialog, draft>>

-----------------------------------------------------------------------------
(* A list that fails to load replaces the content of the page: its dialogs  *)
(* unmount, and come back with a new form when the list has loaded again.  *)
ContentUnmounts(l) ==
  IF l \in PageOf(page).gate
  THEN dialog' = [dialog EXCEPT !.fill = 0] /\ draft' = 0
  ELSE UNCHANGED <<dialog, draft>>

CatalogueScreensNext ==
  \/ Retry
  \/ \E list \in Managed : OpenCreate(list)
  \/ \E list \in Managed, row \in Rows :
       OpenEdit(list, row) \/ OpenConfirm(list, row) \/ RemoveNow(list, row)
  \/ Fill \/ Cancel \/ SubmitCreate \/ BuildingGone \/ SubmitEdit \/ ConfirmRemove
  \/ \E row \in Rows : Tick(row)
  \/ \E listed \in SUBSET Rows : TickAll(listed)
  \/ ClearSelection \/ BulkDelete
=============================================================================
