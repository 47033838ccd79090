----------------------------- MODULE TimetableView -----------------------------
(***************************************************************************)
(* What the timetable page draws of the schedule it shows: the courses it   *)
(* hides, the hours of its grid, the box of every meeting, the lists by    *)
(* room and by course, what is on now; and the preview of the home page.   *)
(* Times are in half hours from midnight; an hour line is two of them.      *)
(***************************************************************************)
EXTENDS TimetableLayout

CONSTANTS
  Timetables,  \* the sets of meetings a schedule may hold
  Moments      \* the moments the clock may show: [day, time]

\* A schedule shows its meetings of one day, or of one day and some courses.
ASSUME TimetablesAssumption ==
  \A t \in Timetables :
    /\ SUBSET t \subseteq Renderings
    /\ \A m \in t : m.start \in 0..48 /\ m.finish \in 0..48

VARIABLES
  timetable,  \* sessions: the meetings of the schedule on show
  hidden,     \* hiddenCourses
  weekday,    \* the column of the grid that is looked at
  clock,      \* currentTime
  details,    \* selectedSession: the meeting in the details dialog, or {}
  tab,        \* the tab on show
  order       \* whether sessions is sorted: as it is held, and as the last
              \* rendering saw it

viewVars == <<layoutVars, timetable, hidden, weekday, clock, details, tab, order>>

AsStored == [held |-> "stored", shown |-> "stored"]

\* The page renders again.  The layout comes out as before: its own sort does
\* not depend on an order that only moves meetings of different times.
Renders == order' = [order EXCEPT !.shown = order.held]

Weekdays == 0..4  \* the grid has no column for Saturday and Sunday

FloorHour(t) == t \div 2
CeilHour(t)  == (t + 1) \div 2

Least(S)    == CHOOSE x \in S : \A y \in S : x <= y
Greatest(S) == CHOOSE x \in S : \A y \in S : x >= y

\* mutant of GridEndHour: the last hour is rounded down
GridEndHourFloor(meetings) ==
  Least({23, Greatest({20} \union {FloorHour(m.finish) : m \in meetings})})

\* the hours of the grid: 8 to 20, more if a meeting needs it, 5 to 23 at most
GridStartHour(meetings) ==
  Greatest({5, Least({8} \union {FloorHour(m.start) : m \in meetings})})
GridEndHour(meetings) ==
  Least({23, Greatest({20} \union {CeilHour(m.finish) : m \in meetings})})

Visible(meetings, courses) == {m \in meetings : m.course \notin courses}

\* daySessions: the visible meetings of the day that the grid's hours meet
DaySessions(meetings, courses, d) ==
  {m \in Visible(meetings, courses) :
     /\ m.day = d
     /\ m.finish > 2 * GridStartHour(meetings)
     /\ m.start < 2 * GridEndHour(meetings)}

\* The box of a meeting in its column, in half hours from the top of the grid
\* and in hundredths of its width; its least height is left out.
Box(m) ==
  LET first == 2 * GridStartHour(timetable)
      last  == 2 * GridEndHour(timetable)
      from  == Greatest({m.start, first})
      to    == Least({m.finish, last})
  IN  [top |-> from - first, height |-> to - from,
       left |-> column[m] * (100 \div TotalColumns(m)), width |-> 100 \div TotalColumns(m)]

-----------------------------------------------------------------------------
(* The filter strip.  Every change draws the page again.                   *)

Draw(meetings, courses, d) ==
  /\ timetable' = meetings /\ hidden' = courses /\ weekday' = d
  /\ Rerender(DaySessions(meetings, courses, d))
  /\ UNCHANGED <<clock, details, tab>>

\* The courses hidden stay hidden when another schedule is shown.
ShowTimetable(meetings) ==
  /\ details = {} /\ meetings # timetable
  /\ Draw(meetings, hidden, weekday)
  /\ order' = AsStored

Courses(meetings) == {m.course : m \in meetings}

ToggleCourseVisibility(c) ==
  /\ details = {} /\ c \in Courses(timetable)
  /\ Draw(timetable, IF c \in hidden THEN hidden \ {c} ELSE hidden \union {c}, weekday)
  /\ Renders

ShowAll ==
  /\ details = {} /\ hidden # {} /\ timetable # {}
  /\ Draw(timetable, {}, weekday)
  /\ Renders

LookAt(d) ==
  /\ d # weekday
  /\ Draw(timetable, hidden, d)
  /\ UNCHANGED order

-----------------------------------------------------------------------------
(* The banner.                                                             *)

IsSessionNow(m) == m.day = clock.day /\ m.start <= clock.time /\ clock.time < m.finish

Moment(d, time) == 48 * d + time

\* the meetings that start later this week; after the last one there is none
Later == {m \in timetable : Moment(m.day, m.start) > Moment(clock.day, clock.time)}
NextSessions ==
  {m \in Later : \A n \in Later : Moment(m.day, m.start) <= Moment(n.day, n.start)}

Now == {m \in timetable : IsSessionNow(m)}

ListedBefore(m, n) ==
  CASE order.shown = "stored" -> m.id < n.id
    [] order.shown = "sorted" ->
         \/ Moment(m.day, m.start) < Moment(n.day, n.start)
         \/ Moment(m.day, m.start) = Moment(n.day, n.start) /\ m.id < n.id

FirstListed(meetings) == {m \in meetings : \A n \in meetings \ {m} : ListedBefore(m, n)}

\* the meeting of the banner, if there is one
Banner == IF Now # {} THEN FirstListed(Now) ELSE FirstListed(NextSessions)

\* the dialog shows the meeting that was clicked
OpenDialog(meeting) ==
  /\ details = {} /\ meeting # {}
  /\ details' = meeting
  /\ Renders
  /\ UNCHANGED <<layoutVars, timetable, hidden, weekday, clock, tab>>

OpenBanner     == OpenDialog(Banner)
OpenDetails(m) == tab = "week" /\ LaidOut /\ m \in day /\ OpenDialog({m})

CloseDetails ==
  /\ details # {}
  /\ details' = {}
  /\ Renders
  /\ UNCHANGED <<layoutVars, timetable, hidden, weekday, clock, tab>>

\* once a minute
MinutePasses ==
  /\ clock' \in Moments \ {clock}
  /\ Renders
  /\ UNCHANGED <<layoutVars, timetable, hidden, weekday, details, tab>>

-----------------------------------------------------------------------------
(* The other tabs, and the exports.                                        *)

SelectTab(t) ==
  /\ details = {} /\ t # tab
  /\ tab' = t
  /\ UNCHANGED <<layoutVars, timetable, hidden, weekday, clock, details, order>>

\* By room: every visible meeting, those of Saturday and Sunday too.
OpenOfRoom(m) == tab = "room" /\ m \in Visible(timetable, hidden) /\ OpenDialog({m})

\* By course: those of every course that is not hidden.
OpenOfCourse(m) ==
  /\ tab = "course"
  /\ m.course \in Courses(timetable) \ hidden /\ m \in Visible(timetable, hidden)
  /\ OpenDialog({m})

\* Making their table sorts the list the page holds; nothing renders.  The
\* other two exports only read it.
SortHeld ==
  /\ details = {} /\ order' = [order EXCEPT !.held = "sorted"]
  /\ UNCHANGED <<layoutVars, timetable, hidden, weekday, clock, details, tab>>

ExportAsPDF   == timetable # {} /\ SortHeld
PrintSchedule == SortHeld

-----------------------------------------------------------------------------
TimetableViewInit ==
  /\ timetable \in Timetables /\ hidden = {} /\ weekday \in Weekdays
  /\ clock \in Moments /\ details = {} /\ tab = "week" /\ order = AsStored
  /\ day = DaySessions(timetable, hidden, weekday)
  /\ column = [m \in {} |-> 0]

TimetableViewNext ==
  \/ PlaceNext /\ UNCHANGED <<timetable, hidden, weekday, clock, details, tab, order>>
  \/ \E meetings \in Timetables : ShowTimetable(meetings)
  \/ \E c \in Courses(timetable) : ToggleCourseVisibility(c)
  \/ ShowAll \/ OpenBanner \/ CloseDetails \/ MinutePasses
  \/ ExportAsPDF \/ PrintSchedule
  \/ \E t \in {"week", "room", "course"} : SelectTab(t)
  \/ \E m \in timetable : OpenOfRoom(m) \/ OpenOfCourse(m)
  \/ \E d \in Weekdays : LookAt(d)
  \/ \E m \in day : OpenDetails(m)

-----------------------------------------------------------------------------
(* The preview of the home page: a cell for every hour, none when the        *)
(* schedule is empty.                                                      *)

PreviewHours(meetings) ==
  LET earliest == Greatest({5, Least({8} \union {FloorHour(m.start) : m \in meetings})})
      latest   == Least({22, Greatest({17} \union {CeilHour(m.finish) : m \in meetings})})
  IN  earliest..(latest - 1)

SessionsForCell(meetings, d, h) ==
  {m \in meetings : m.day = d /\ FloorHour(m.start) <= h /\ h < CeilHour(m.finish)}

\* Overlapping meetings share a cell, which shows the first of them.
Cell(meetings, d, h) ==
  LET here == SessionsForCell(meetings, d, h)
  IN  {m \in here : \A n \in here : m.id <= n.id}

-----------------------------------------------------------------------------

\* Every meeting of the day is drawn where it takes place: its box has a
\* height, lies within the hours of the grid and within the width of the day,
\* and loses time only before five in the morning and after eleven at night.
\* The hours are computed from all meetings of the schedule, the boxes from
\* the visible ones of one day.  In the preview every hour that a meeting of a
\* weekday touches between five and ten at night has a cell that is taken.
InsideTheGrid ==
  /\ LaidOut => \A m \in day :
       LET b     == Box(m)
           first == 2 * GridStartHour(timetable)
           last  == 2 * GridEndHour(timetable)
       IN  /\ b.height > 0 /\ b.top >= 0 /\ b.top + b.height <= last - first
           /\ first + b.top # m.start => first + b.top = 2 * 5
           /\ first + b.top + b.height # m.finish => last = 2 * 23
           /\ b.left >= 0 /\ b.left + b.width <= 100
  /\ \A m \in timetable : \A h \in FloorHour(m.start)..(CeilHour(m.finish) - 1) :
       m.day \in Weekdays /\ h \in 5..21
         => h \in PreviewHours(timetable) /\ Cell(timetable, m.day, h) # {}
=============================================================================
