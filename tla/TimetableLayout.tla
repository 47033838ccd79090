--------------------------- MODULE TimetableLayout ---------------------------
(***************************************************************************)
(* getSessionsWithLayout of the timetable page: the meetings of one day    *)
(* are sorted and given columns one after the other, so that meetings that *)
(* overlap stand side by side.  A render starts the computation anew with  *)
(* the meetings that are visible then.                                     *)
(***************************************************************************)
EXTENDS Integers, FiniteSets

CONSTANTS
  Renderings,  \* the sets of meetings a day may have to show
  MaxColumns   \* bound: columns tried for one meeting

\* Meetings are told apart by their place in the list of the schedule (the
\* index is part of their id), and none is empty (checked by the database
\* for stored sessions, by the generator for the ones it makes).
Meeting == [id : Nat, start : Int, finish : Int]

ASSUME RenderingsAssumption ==
  \A day \in Renderings :
    /\ IsFiniteSet(day)
    /\ \A m \in day : /\ m.id \in Nat
                      /\ m.start \in Int /\ m.finish \in Int
                      /\ m.start < m.finish
    /\ \A m, n \in day : m.id = n.id => m = n

ASSUME MaxColumnsAssumption == MaxColumns \in Nat

VARIABLES
  day,     \* daySessions: the meetings to lay out
  column   \* sessionToColumn: the column of every meeting placed so far

layoutVars == <<day, column>>

Placed == DOMAIN column

\* mutant of Overlaps: a meeting's end is compared with the wrong end
OverlapsAtEnds(m, n) == /\ m.id # n.id
                        /\ m.start < n.finish /\ n.finish < m.finish

Overlaps(m, n) == /\ m.id # n.id
                  /\ m.start < n.finish /\ n.start < m.finish

\* mutant of SortedBefore: the later meeting first
LaterFirst(m, n) == \/ m.start > n.start
                    \/ m.start = n.start /\ m.id < n.id

\* the order of the sort, which is stable: by start, longer meetings first
SortedBefore(m, n) ==
  \/ m.start < n.start
  \/ m.start = n.start /\ m.finish > n.finish
  \/ m.start = n.start /\ m.finish = n.finish /\ m.id < n.id

UsedColumns(m) == {column[n] : n \in {o \in Placed : Overlaps(m, o)}}

LayoutInit ==
  /\ day \in Renderings
  /\ column = [m \in {} |-> 0]

\* One turn of the loop over the sorted meetings.
PlaceNext ==
  \E m \in day \ Placed :
    /\ \A n \in day \ Placed : n # m => SortedBefore(m, n)
    /\ \E c \in 0..MaxColumns :
         /\ c \notin UsedColumns(m)
         /\ \A k \in 0..(c - 1) : k \in UsedColumns(m)
         /\ column' = [n \in Placed \union {m} |-> IF n = m THEN c ELSE column[n]]
    /\ UNCHANGED day

\* The page renders again, with other meetings visible.
Rerender(meetings) ==
  /\ day' = meetings
  /\ column' = [m \in {} |-> 0]

LayoutNext == PlaceNext \/ \E meetings \in Renderings : Rerender(meetings)

LayoutSpec == LayoutInit /\ [][LayoutNext]_layoutVars

\* mutant of TotalColumns: the meeting's own column is left out
TotalOfOthers(m) ==
  LET others == {column[n] : n \in {o \in day : Overlaps(m, o)}}
  IN  IF others = {} THEN 1 ELSE Cardinality(others)

\* the number of columns the width of a meeting is shared between
TotalColumns(m) ==
  Cardinality({column[m]} \union {column[n] : n \in {o \in day : Overlaps(m, o)}})

LaidOut == Placed = day

-----------------------------------------------------------------------------
LayoutTypeOK ==
  /\ day \in Renderings
  /\ Placed \subseteq day
  /\ \A m \in Placed : column[m] \in 0..MaxColumns

\* Two meetings that take place at the same time never share a column,
\* whatever the meetings: one would be drawn on top of the other.
NoSharedColumn ==
  \A m, n \in Placed : Overlaps(m, n) => column[m] # column[n]

\* A column is opened only when it is needed: when a meeting is given column
\* c, each of the c columns before it holds a meeting that is still going on
\* at the moment it starts.  So a day has as many columns as there are
\* meetings at its busiest moment; the sort by start is what makes it so.
ColumnsNeeded ==
  \A m \in Placed : \A k \in 0..(column[m] - 1) :
    \E n \in Placed : /\ column[n] = k
                      /\ n.start <= m.start /\ m.start < n.finish

\* A meeting is drawn inside its day: the columns its width is shared
\* between, counted among its direct neighbours only, are more than the
\* column it stands in.
InsideTheDay == LaidOut => \A m \in day : column[m] < TotalColumns(m)
=============================================================================
