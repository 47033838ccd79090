------------------------------- MODULE MCClient -------------------------------
EXTENDS Client

MCRows == {1, 2}

NoBudget == [requests |-> 0, failures |-> 0, fills |-> 0, visits |-> 0, calls |-> 0,
             refreshes |-> 0, losses |-> 0, refusals |-> 0]

\* what a server may hold: the lists of a behaviour, the others are empty
Holds(lists, contents) ==
  {[l \in Lists |-> IF l \in lists THEN c[l] ELSE NoRows] : c \in [lists -> contents]}
OneRow == [r \in MCRows |-> IF r = 1 THEN 1 ELSE 0]
AllRows == [r \in MCRows |-> 1]

\* A signed-in user at a page; the tour is over.
At(start, lists, rows, bounds) ==
  [start |-> start, lists |-> lists, rows |-> rows, budget |-> bounds,
   user |-> TRUE, dismissed |-> TRUE, draws |-> FALSE]

Saving == [NoBudget EXCEPT !.requests = 2, !.failures = 1, !.fills = 2, !.visits = 1]

CatalogueScenarios ==
  {At("buildings", {"buildings"}, Holds({"buildings"}, {OneRow}), Saving),
   At("roomTypes", {"roomTypes"}, Holds({"roomTypes"}, {OneRow}), Saving),
   At("rooms", {"rooms"}, Holds({"rooms"}, {OneRow}), Saving),
   At("courses", {"courses"}, Holds({"courses"}, {AllRows}),
      [Saving EXCEPT !.fills = 1, !.visits = 0]),
   At("courses", {"sessions"}, Holds({"sessions"}, {OneRow}), Saving),
   \* the only list of the catalogue that is not on the side bar: away and back
   At("courses", {"sessions"}, Holds({"sessions"}, {OneRow}),
      [NoBudget EXCEPT !.requests = 1, !.fills = 1, !.visits = 2])}

\* Of two schedules one is active; the other is listed, or archived.
Held(listed, put) == [l \in Lists |-> [r \in MCRows |->
  CASE l = "schedules" -> listed[r] [] l = "archived" -> put[r] [] OTHER -> 0]]
OneArchived  == Held(<<2, 0>>, <<0, 1>>)
ScheduleRows == {Held(<<2, 1>>, <<0, 0>>), OneArchived}

ScheduleScenarios ==
  {At("schedule", ScheduleLists, {OneArchived},
      [NoBudget EXCEPT !.requests = 2, !.failures = 1]),
   At("schedule", ScheduleLists, ScheduleRows,
      [NoBudget EXCEPT !.requests = 2, !.visits = 1]),
   At("generate", {"schedules", "sessions"}, Holds({"schedules", "sessions"}, {OneRow}),
      [NoBudget EXCEPT !.requests = 1, !.failures = 1, !.fills = 1, !.visits = 1])}

\* Three schedules, the first active, and time to archive two.
ThreeRows == {1, 2, 3}
ArchiveScenarios ==
  {At("schedule", ScheduleLists,
      {[l \in Lists |-> [r \in Rows |-> IF l # "schedules" THEN 0 ELSE IF r = 1 THEN 2 ELSE 1]]},
      [NoBudget EXCEPT !.requests = 2])}

HomeScenarios ==
  {[At("home", AppSidebar, Holds(AppSidebar, {NoRows, OneRow}), NoBudget)
      EXCEPT !.dismissed = FALSE]}

SessionScenarios ==
  {[At(start, {"roomTypes"}, Holds({"roomTypes"}, {OneRow}),
       [NoBudget EXCEPT !.visits = 3, !.calls = 2, !.failures = 1,
                        !.refreshes = 1, !.losses = 1, !.refusals = 1])
      EXCEPT !.user = start \in AppPages] : start \in {"settings", "marketing"}}

-----------------------------------------------------------------------------
(* The timetables drawn, in half hours: one that needs an hour before eight, *)
(* one that starts before five and ends at midnight, one on a Saturday, and *)
(* four meetings that overlap in a chain.                                  *)
MCTimetables ==
  {{[id |-> 0, course |-> 1, day |-> 0, start |-> 15, finish |-> 20],
    [id |-> 1, course |-> 2, day |-> 0, start |-> 18, finish |-> 22],
    [id |-> 2, course |-> 1, day |-> 0, start |-> 20, finish |-> 24],
    [id |-> 3, course |-> 3, day |-> 0, start |-> 18, finish |-> 41]},
   {[id |-> 0, course |-> 1, day |-> 0, start |-> 4, finish |-> 9],
    [id |-> 1, course |-> 2, day |-> 0, start |-> 9, finish |-> 12],
    [id |-> 2, course |-> 2, day |-> 1, start |-> 45, finish |-> 48],
    [id |-> 3, course |-> 4, day |-> 5, start |-> 20, finish |-> 22]}}

MCMoments == {[day |-> -1, time |-> 20], [day |-> 0, time |-> 19]}

MCRenderings == UNION {SUBSET t : t \in MCTimetables}

ViewScenarios ==
  {[At("schedule", {}, Holds({}, {}), NoBudget) EXCEPT !.draws = TRUE]}

MCScenarios == CatalogueScenarios \union ScheduleScenarios \union HomeScenarios
                 \union SessionScenarios \union ViewScenarios
=============================================================================
