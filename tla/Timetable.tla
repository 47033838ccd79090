------------------------------- MODULE Timetable -------------------------------
(***************************************************************************)
(* What a generated timetable promises: it is built one meeting at a time, *)
(* a meeting once placed is neither moved nor dropped, and a meeting in a  *)
(* room is over before the earlier ones there begin, or starts when they   *)
(* and the gap behind them are over.  With a gap of zero or more no two    *)
(* meetings overlap; with a negative one a room may be booked twice for at *)
(* most that long.  The generator of GreedyScheduler implements this; how  *)
(* it finds a free time is not said here.                                  *)
(***************************************************************************)
EXTENDS Integers, Sequences

VARIABLES
  timetable,   \* sequence of meetings, in order of placement
  gap          \* the least time after a meeting, the same throughout

Clear(earlier, later) ==
  earlier.room = later.room /\ earlier.day = later.day =>
    \/ later.end <= earlier.start
    \/ earlier.end + gap <= later.start

Init == timetable = <<>> /\ gap \in Int

\* One more meeting, of some length, at a time its room is free.
Book ==
  /\ Len(timetable') = Len(timetable) + 1
  /\ LET m == timetable'[Len(timetable) + 1]
     IN  /\ timetable' = Append(timetable, m)
         /\ m.start < m.end
         /\ \A i \in DOMAIN timetable : Clear(timetable[i], m)
  /\ UNCHANGED gap

Spec == Init /\ [][Book]_<<timetable, gap>>
=============================================================================
