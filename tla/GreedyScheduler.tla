--------------------------- MODULE GreedyScheduler ---------------------------
(***************************************************************************)
(* The timetable generator: GreedyScheduler.Generate and the helpers it    *)
(* calls (backend/internal/scheduler/greedy/greedy.go).                    *)
(*                                                                         *)
(* Generate is sequential Go code.  One action is one iteration of one of  *)
(* its loops: taking the next course of the weight order, taking the next  *)
(* session of that course, placing one meeting of the session, or giving   *)
(* the session up.                                                         *)
(*                                                                         *)
(* slices.SortFunc promises no order among equal keys, so every tie is a   *)
(* nondeterministic choice.                                                *)
(***************************************************************************)
EXTENDS Integers, Sequences, FiniteSets, FiniteSetsExt, SequencesExt

CONSTANTS
  RoomTypes,  \* names of room types
  CourseIds,  \* course identifiers, listed in an input or not
  NoConfig,   \* the nil *Config
  Inputs      \* the inputs Generate may be called with

(***************************************************************************)
(* Inputs.  Rooms, courses and sessions are slices: a room and a session   *)
(* are named by their index in the slice.  The configuration is what the   *)
(* request's body says, decoded and not looked at (handlers/scheduler.go,  *)
(* Generate): hours may be negative or end before they start, the break    *)
(* and the slot may be negative.  Lengths and counts of sessions are       *)
(* positive (models.CourseSession.Validate).                               *)
(***************************************************************************)
TimeRange == [start : Int, end : Int]

Config == [operatingHours : TimeRange, operatingDays : SUBSET Int,
           minBreak : Int, preferredSlot : Int]

CourseSession == [course : CourseIds, requiredRoom : RoomTypes,
                  duration : Nat \ {0}, number : Nat \ {0}]

Input == [config : Config \union {NoConfig}, rooms : Seq(RoomTypes),
          courses : SUBSET CourseIds, sessions : Seq(CourseSession)]

ASSUME InputsAssumption == Inputs \subseteq Input
ASSUME NoConfigAssumption == NoConfig \notin Config

DefaultConfig == [operatingHours |-> [start |-> 480, end |-> 1260],
                  operatingDays |-> 0..4, minBreak |-> 0, preferredSlot |-> 0]

VARIABLES
  input,           \* the argument of Generate
  coursesLeft,     \* courses of the weight order not reached yet
  sessionsLeft,    \* sessions of the course reached, not started yet
  current,         \* the session being placed, 0 before the first
  sessionsToPlace, \* meetings of the current session still to place
  availability,    \* room -> day -> slice of free ranges
  courseDaysUsed,  \* course -> days its placed meetings are on, in order
  scheduled,       \* scheduledSessions, in order of placement
  failed           \* failedSessions, in order of failure

vars == <<input, coursesLeft, sessionsLeft, current, sessionsToPlace,
          availability, courseDaysUsed, scheduled, failed>>

config == IF input.config = NoConfig THEN DefaultConfig ELSE input.config
OperatingDays == config.operatingDays
Rooms == DOMAIN input.rooms
Sessions == DOMAIN input.sessions

ScheduledSession == [course : CourseIds, room : Nat, day : Int,
                     start : Int, end : Int]

TypeOK ==
  /\ input \in Inputs
  /\ coursesLeft \subseteq input.courses
  /\ sessionsLeft \subseteq Sessions
  /\ current \in Sessions \union {0}
  /\ sessionsToPlace \in Nat
  /\ sessionsToPlace > 0 => current # 0
  /\ availability \in [Rooms -> [OperatingDays -> Seq(TimeRange)]]
  /\ courseDaysUsed \in [CourseIds -> Seq(OperatingDays)]
  /\ scheduled \in Seq(ScheduledSession)
  /\ failed \in Seq(Sessions)

-----------------------------------------------------------------------------
(***************************************************************************)
(* Weights                                                                 *)
(***************************************************************************)
SessionsOf(c) == {i \in Sessions : input.sessions[i].course = c}

\* TotalTimeWeight.Calculate: minutes per week the course asks for
Weight(c) ==
  MapThenSumSet(LAMBDA i : input.sessions[i].duration * input.sessions[i].number,
                SessionsOf(c))

(***************************************************************************)
(* Free ranges of one room on one day                                      *)
(***************************************************************************)
\* candidateStart % PreferredSlotDuration, which has the sign of t
Remainder(t) ==
  IF t >= 0 THEN t % config.preferredSlot ELSE -((-t) % config.preferredSlot)

\* the start findFirstAvailableSlot tries first: t rounded up to the next
\* slot boundary, if the configuration has slots
Aligned(t) ==
  IF config.preferredSlot > 0 /\ Remainder(t) # 0
  THEN t + (config.preferredSlot - Remainder(t))
  ELSE t

\* mutants of StartsIn: an end past the range; the latest start, not the first
StartsPastEnd(r, duration) == {t \in {Aligned(r.start)} : t + duration <= r.end + 1}
StartsAtEnd(r, duration) == {t \in {r.end - duration} : r.start <= t}

\* where a session of this duration starts in the range r: at the boundary
\* if it still fits there, else, with slots, at the start of the range
StartsIn(r, duration) ==
  {t \in {Aligned(r.start)} : t + duration <= r.end}
  \union
  {t \in {r.start} : /\ Aligned(r.start) + duration > r.end
                     /\ config.preferredSlot > 0
                     /\ r.end - r.start >= duration}

\* mutant of FirstAvailableSlot: the search goes on after the first hit
LastAvailableSlot(ranges, duration) ==
  UNION {StartsIn(ranges[i], duration) : i \in
           {i \in DOMAIN ranges : \A j \in DOMAIN ranges :
              i < j => StartsIn(ranges[j], duration) = {}}}

\* findFirstAvailableSlot: the start it returns as a set, empty if not found
FirstAvailableSlot(ranges, duration) ==
  UNION {StartsIn(ranges[i], duration) : i \in
           {i \in DOMAIN ranges : \A j \in DOMAIN ranges :
              j < i => StartsIn(ranges[j], duration) = {}}}

Left(r, start) == IF r.start < start THEN <<[start |-> r.start, end |-> start]>> ELSE <<>>
Right(r, end)  == IF r.end > end THEN <<[start |-> end, end |-> r.end]>> ELSE <<>>

\* mutants of Pieces: what is left before the slot is dropped; a range is
\* only cut at its start; the piece behind the slot comes first
LeftPieceLost(r, start, end) ==
  IF r.end <= start \/ r.start >= end THEN <<r>> ELSE Right(r, end)
MiddleNotSplit(r, start, end) ==
  IF r.start < start \/ r.start >= end THEN <<r>> ELSE Right(r, end)
PiecesSwapped(r, start, end) ==
  IF r.end <= start \/ r.start >= end THEN <<r>> ELSE Right(r, end) \o Left(r, start)

\* what consumeSlot appends to its result for one range
Pieces(r, start, end) ==
  IF r.end <= start \/ r.start >= end THEN <<r>> ELSE Left(r, start) \o Right(r, end)

\* consumeSlot: take the minutes from start to end out of every range
ConsumeSlot(ranges, start, end) ==
  FlattenSeq([i \in DOMAIN ranges |-> Pieces(ranges[i], start, end)])

(***************************************************************************)
(* Days and rooms                                                          *)
(***************************************************************************)
RoomsByType(type) == {r \in Rooms : input.rooms[r] = type}

\* getTotalAvailability
TotalAvailability(type, day) ==
  MapThenSumSet(LAMBDA p : availability[p[1]][day][p[2]].end - availability[p[1]][day][p[2]].start,
    UNION {{room} \X DOMAIN availability[room][day] : room \in RoomsByType(type)})

\* mutants of SkipDay: the bound off by one; the test of use dropped
SkipDayStrict(s, day) ==
  LET used == courseDaysUsed[s.course]
  IN  /\ \E i \in DOMAIN used : used[i] = day
      /\ sessionsToPlace < 5 - Len(used)

SkipUnusedDays(s, day) == sessionsToPlace <= 5 - Len(courseDaysUsed[s.course])

\* a day the course has used already is skipped while the meetings left to
\* place still fit in what is left of a week of five days
SkipDay(s, day) ==
  LET used == courseDaysUsed[s.course]
  IN  /\ \E i \in DOMAIN used : used[i] = day
      /\ sessionsToPlace <= 5 - Len(used)

HasSlot(s, room, day) == FirstAvailableSlot(availability[room][day], s.duration) # {}

Placeable(s, day) ==
  /\ ~SkipDay(s, day)
  /\ \E room \in RoomsByType(s.requiredRoom) : HasSlot(s, room, day)

\* the days the loop over sortDaysByAvailability may place s on
ChosenDays(s) ==
  {day \in OperatingDays :
     /\ Placeable(s, day)
     /\ \A d \in OperatingDays :
          Placeable(s, d) => TotalAvailability(s.requiredRoom, d)
                               <= TotalAvailability(s.requiredRoom, day)}

\* the first room of the required type, in list order, with a free slot
ChosenRooms(s, day) ==
  {room \in RoomsByType(s.requiredRoom) :
     /\ HasSlot(s, room, day)
     /\ \A r \in RoomsByType(s.requiredRoom) : HasSlot(s, r, day) => room <= r}

\* mutant of MeetingsLeft: one round too many
LoopOnZero == current # 0 /\ sessionsToPlace >= 0

\* the condition of the loop over a session's meetings
MeetingsLeft == sessionsToPlace > 0

\* mutant of ConsumeEnd: no break
NoBreak(end) == end

\* consumeEnd: a meeting is taken out together with the break after it
ConsumeEnd(end) == end + config.minBreak

-----------------------------------------------------------------------------
(***************************************************************************)
(* Generate                                                                *)
(***************************************************************************)
Init ==
  /\ input \in Inputs
  /\ coursesLeft = input.courses
  /\ sessionsLeft = {}
  /\ current = 0
  /\ sessionsToPlace = 0
  /\ availability =
       [room \in Rooms |-> [day \in OperatingDays |-> <<config.operatingHours>>]]
  /\ courseDaysUsed = [c \in CourseIds |-> <<>>]
  /\ scheduled = <<>>
  /\ failed = <<>>

\* The next course of the list sorted by descending weight.
NextCourse(c) ==
  /\ ~MeetingsLeft
  /\ sessionsLeft = {}
  /\ c \in coursesLeft
  /\ \A d \in coursesLeft : Weight(d) <= Weight(c)
  /\ coursesLeft' = coursesLeft \ {c}
  /\ sessionsLeft' = SessionsOf(c)
  /\ UNCHANGED <<input, current, sessionsToPlace, availability,
                 courseDaysUsed, scheduled, failed>>

\* The next session of that course, in list order.
NextSession(i) ==
  /\ ~MeetingsLeft
  /\ i \in sessionsLeft
  /\ \A j \in sessionsLeft : i <= j
  /\ sessionsLeft' = sessionsLeft \ {i}
  /\ current' = i
  /\ sessionsToPlace' = input.sessions[i].number
  /\ UNCHANGED <<input, coursesLeft, availability, courseDaysUsed,
                 scheduled, failed>>

\* One meeting of the current session is placed; the time it takes and the
\* break after it leave the free ranges of its room.
PlaceOne ==
  /\ MeetingsLeft
  /\ LET s == input.sessions[current] IN
     \E day \in ChosenDays(s) : \E room \in ChosenRooms(s, day) :
     \E start \in FirstAvailableSlot(availability[room][day], s.duration) :
       LET end == start + s.duration IN
       /\ availability' = [availability EXCEPT ![room][day] =
                             ConsumeSlot(@, start, ConsumeEnd(end))]
       /\ courseDaysUsed' = [courseDaysUsed EXCEPT ![s.course] = Append(@, day)]
       /\ scheduled' = Append(scheduled,
            [course |-> s.course, room |-> room, day |-> day,
             start |-> start, end |-> end])
  /\ sessionsToPlace' = sessionsToPlace - 1
  /\ UNCHANGED <<input, coursesLeft, sessionsLeft, current, failed>>

\* mutants of FailSession: the course is given up with its session; no
\* failure while a skipped day has a slot
FailCourse ==
  /\ MeetingsLeft
  /\ \A day \in OperatingDays : ~Placeable(input.sessions[current], day)
  /\ failed' = Append(failed, current)
  /\ sessionsToPlace' = 0
  /\ sessionsLeft' = {}
  /\ UNCHANGED <<input, coursesLeft, current, availability, courseDaysUsed, scheduled>>

FailOnlyWhenFull ==
  /\ MeetingsLeft
  /\ \A day \in OperatingDays, room \in RoomsByType(input.sessions[current].requiredRoom) :
       ~HasSlot(input.sessions[current], room, day)
  /\ failed' = Append(failed, current)
  /\ sessionsToPlace' = 0
  /\ UNCHANGED <<input, coursesLeft, sessionsLeft, current, availability,
                 courseDaysUsed, scheduled>>

\* No day is left to try: the session fails once, its other meetings are
\* not tried.
FailSession ==
  /\ MeetingsLeft
  /\ \A day \in OperatingDays : ~Placeable(input.sessions[current], day)
  /\ failed' = Append(failed, current)
  /\ sessionsToPlace' = 0
  /\ UNCHANGED <<input, coursesLeft, sessionsLeft, current, availability,
                 courseDaysUsed, scheduled>>

Next ==
  \/ \E c \in coursesLeft : NextCourse(c)
  \/ \E i \in sessionsLeft : NextSession(i)
  \/ PlaceOne
  \/ FailSession

\* Generate is one goroutine and is never cancelled.
Spec == Init /\ [][Next]_vars /\ WF_vars(Next)

Returned == coursesLeft = {} /\ sessionsLeft = {} /\ ~MeetingsLeft

Failed(i) == \E k \in DOMAIN failed : failed[k] = i

MeetingsOf(c) == {k \in DOMAIN scheduled : scheduled[k].course = c}

SameRoomDay(a, b) == a.room = b.room /\ a.day = b.day

\* the minutes a meeting takes out of the free time: to the end of its
\* break, or, with a negative one, only to that long before its own end
Takes(m, t) == m.start <= t /\ t < m.end + config.minBreak

\* the meetings asked for by a set of sessions, and how many they are
Asked(S)  == UNION {{i} \X (1..input.sessions[i].number) : i \in S}
Number(S) == Cardinality(Asked(S))

-----------------------------------------------------------------------------
(***************************************************************************)
(* Properties                                                              *)
(***************************************************************************)

\* A meeting placed later in a room never starts before the break after an
\* earlier placed meeting is over, whatever slots were split in between
\* (consumeSlot, greedy.go:273).  So no room is booked twice, unless the
\* break is negative: then a meeting may start that long before the end.
BreakAfterPlaced ==
  \A i, j \in DOMAIN scheduled :
    i < j /\ SameRoomDay(scheduled[i], scheduled[j]) =>
      \/ scheduled[j].end <= scheduled[i].start
      \/ scheduled[i].end + config.minBreak <= scheduled[j].start

\* Every meeting stands for a session of a listed course: in a room of the
\* required type, as long as asked, on an operating day and inside the
\* operating hours even after alignment (findFirstAvailableSlot).
PlacementLegal ==
  \A k \in DOMAIN scheduled : LET m == scheduled[k] IN
    /\ m.day \in OperatingDays
    /\ config.operatingHours.start <= m.start /\ m.end <= config.operatingHours.end
    /\ \E i \in Sessions : LET s == input.sessions[i] IN
         /\ s.course = m.course /\ s.course \in input.courses
         /\ m.end - m.start = s.duration
         /\ m.room \in RoomsByType(s.requiredRoom)

\* A minute of the operating hours is free exactly when no meeting and no
\* break takes it: splitting ranges neither loses nor invents free time.
AvailabilityExact ==
  \A room \in Rooms, day \in OperatingDays :
  \A t \in config.operatingHours.start .. config.operatingHours.end - 1 :
    (\E r \in ToSet(availability[room][day]) : r.start <= t /\ t < r.end)
      <=> ~ \E k \in DOMAIN scheduled :
              /\ scheduled[k].room = room /\ scheduled[k].day = day
              /\ Takes(scheduled[k], t)

\* Without slot alignment the minimum gap holds both ways, also before a
\* meeting that was placed earlier.
GapWithoutSlots ==
  config.preferredSlot <= 0 =>
    \A i, j \in DOMAIN scheduled :
      i # j /\ SameRoomDay(scheduled[i], scheduled[j]) =>
        \/ scheduled[j].end + config.minBreak <= scheduled[i].start
        \/ scheduled[i].end + config.minBreak <= scheduled[j].start

\* When Generate returns, a session of a listed course that is not reported
\* as failed has all its meetings, and one reported as failed, which is
\* reported once, misses at least one.
EverySessionAccounted ==
  Returned => \A c \in input.courses :
    LET lost == {i \in SessionsOf(c) : Failed(i)} IN
    /\ Cardinality(MeetingsOf(c)) >= Number(SessionsOf(c) \ lost)
    /\ Cardinality(MeetingsOf(c)) + Cardinality({k \in DOMAIN failed : failed[k] \in lost})
         <= Number(SessionsOf(c))

\* A course of at most five meetings has them on different days, however
\* they are divided among its sessions (greedy.go:66).
SpreadOverDays ==
  \A c \in input.courses : Number(SessionsOf(c)) <= 5 =>
    \A i, j \in MeetingsOf(c) : i # j => scheduled[i].day # scheduled[j].day

\* A session fails only if no room of its type has a long enough free range
\* on a day its course does not use, and none appears afterwards.
FailureJustified ==
  \A i \in Sessions : Failed(i) =>
    LET s == input.sessions[i] IN
    \A day \in OperatingDays :
      \/ \E k \in MeetingsOf(s.course) : scheduled[k].day = day
      \/ \A room \in RoomsByType(s.requiredRoom) :
         \A r \in ToSet(availability[room][day]) : r.end - r.start < s.duration

\* Unless the break is negative, the slice that consumeSlot rebuilds keeps
\* its ranges in order and apart, and none is empty but the hours of a day
\* that has none: so the search, which takes the first hit, may trust it.
SlicesInOrder ==
  config.minBreak >= 0 =>
    \A room \in Rooms, day \in OperatingDays : LET ranges == availability[room][day] IN
      /\ \A i \in DOMAIN ranges :
           ranges[i].start < ranges[i].end \/ ranges[i] = config.operatingHours
      /\ \A i, j \in DOMAIN ranges : i < j => ranges[i].end < ranges[j].start

\* A meeting could not have started a slot or more (without slots: at all)
\* earlier in its room: a meeting placed before, or its break, was in the way.
FirstFit ==
  config.minBreak >= 0 /\ config.operatingHours.start >= 0 =>
    \A k \in DOMAIN scheduled : LET m == scheduled[k] IN
    \A t \in config.operatingHours.start .. m.start - 1 :
      m.start - t >= config.preferredSlot =>
        \E j \in DOMAIN scheduled :
          /\ j < k /\ SameRoomDay(scheduled[j], m)
          /\ scheduled[j].start < t + (m.end - m.start)
          /\ t < scheduled[j].end + config.minBreak

\* The sequence of placed meetings is a timetable in the sense of module
\* Timetable: it only grows, and by meetings the gap allows.
Promise == INSTANCE Timetable WITH timetable <- scheduled, gap <- config.minBreak
ImplementsTimetable == Promise!Spec

\* Generate returns: the loop over a session's meetings always ends.
Termination == <>Returned

-----------------------------------------------------------------------------
(***************************************************************************)
(* What the comments say and the code does not do                          *)
(***************************************************************************)

\* "MinBreakBetweenSessions is the minimum gap between sessions (in
\* minutes)" (backend/internal/scheduler/scheduler.go:37), for every
\* configuration, slots or not.
MinimumGap ==
  \A i, j \in DOMAIN scheduled :
    i # j /\ SameRoomDay(scheduled[i], scheduled[j]) =>
      \/ scheduled[j].end + config.minBreak <= scheduled[i].start
      \/ scheduled[i].end + config.minBreak <= scheduled[j].start

\* "If we tried all days and couldn't place the session, mark as failed"
\* (greedy.go:100), reason "no available time slot found" (greedy.go:104):
\* after a failure no room of the type has room for it on any day.
FailedMeansFull ==
  \A i \in Sessions : Failed(i) =>
    LET s == input.sessions[i] IN
    \A day \in OperatingDays : \A room \in RoomsByType(s.requiredRoom) :
      \A r \in ToSet(availability[room][day]) : r.end - r.start < s.duration

\* "Prevents double-booking rooms" (README.md:16), for every configuration
\* the handler accepts.
NoDoubleBooking ==
  \A i, j \in DOMAIN scheduled :
    i # j /\ SameRoomDay(scheduled[i], scheduled[j]) =>
      \/ scheduled[j].end <= scheduled[i].start
      \/ scheduled[i].end <= scheduled[j].start
=============================================================================
