# CourseScheduler in TLA+

Specifications of CourseScheduler (a Go API over PostgreSQL with a React
client) with the TLC configurations that check them and the TLAPS proofs about
them.  Every definition is a translation of the source; `PROJECT.json` maps it
to the lines it stands for.  Paths below are relative to `src/`.

## 1. Inventory

| Component | State | Operations | Interacts with |
|---|---|---|---|
| Greedy scheduler (`backend/internal/scheduler`) | free ranges per room and day, days used per course, placed and failed sessions (all local to one call) | `Generate` | called by the scheduler service, with a configuration nobody validates |
| Scheduler service (`backend/internal/service/scheduler.go`, `handlers/scheduler.go`) | none of its own | `Generate`, `GenerateAndSave` | three reads of the database, the generator, one insert |
| Schedule store (`repository/schedule.go`, `handlers/schedule.go`, migrations 6 to 10) | table `schedules`: `is_active`, `is_archived`, name, sessions as JSON | create, update, set active, archive, unarchive, delete, list | request transactions, triggers, a partial unique index |
| Request transaction (`middleware/transaction.go`, `database/executor.go`) | one SQL transaction per request | begin, commit on 2xx, rollback otherwise | every repository |
| Catalogue (`repository/{building,room_type,room,course,course_session}.go`) | five tables with foreign and unique keys | create, read, update, delete | request transactions, foreign keys |
| Rate limiter (`middleware/ratelimit.go`) | map of visitors with tokens and last access | `Allow`, `getVisitor`, `cleanupLoop` | every request, concurrently |
| Authentication, body limit, security headers | key set fetched once | stateless checks | every request |
| Query cache (`frontend/src/hooks`, `lib/api`) | per list: the rows fetched, whether they are stale, the fetch under way | queries, mutations with invalidation | API |
| Session of the user (`contexts/auth-context.tsx`, `routes/app.tsx`, the sign-in pages and forms, `lib/api/client.ts`) | user, session, loading; the route | initial read, change events, sign in, up and out, password reset, redirections, 401 answers | Supabase, router |
| Catalogue pages and dialogs (`routes/app/{buildings,room-types,rooms,courses}.tsx`, `components/modals`) | the open dialog and its form, the selected courses | create, edit, remove, bulk delete | query cache |
| Home page (`routes/app/index.tsx`, `components/setup-wizard.tsx`, `welcome-modal.tsx`) | slide of the tour, tip | tour, wizard, preview | query cache, local storage |
| Timetable view (`routes/app/schedule.tsx`) | selected schedule, hidden courses, tab, details, clock | select, activate, archive, restore, layout, banner, exports | query cache |
| Generation form (`routes/app/generate.tsx`) | name, days, progress, result | generate | query cache |
| Widgets, marketing page | none that others depend on | | |

What is hard in each of them:

* **Greedy scheduler.**  Sequential, but with a lot of interval arithmetic: a slot
  taken in the middle of a range leaves two fragments, alignment may start a meeting
  away from the start of its range, a fallback ignores alignment, and breaks are
  reserved only behind a meeting.  It must never book a room twice, never lose free
  time, never drop a session without reporting it, and it must end, whatever
  configuration the request's body holds: none of its numbers is looked at, so a
  break or a time may be negative.  The rule that spreads a course over days uses the
  constant 5.
* **Schedule store.**  At most one active schedule per user, kept by a trigger,
  an index and a two-statement operation that run in concurrent READ COMMITTED
  transactions; they can wait for each other, deadlock, or fail on the index.
  A request is all or nothing, except that deletes run outside its transaction.
* **Catalogue.**  Five tables that refer to each other, a key that can be changed
  (the name of a room type), and deletions of which one goes through the request's
  transaction and four do not, which row level security therefore does not confine to
  the rows of the user who asks.  No row may be left referring to one that is gone,
  and no request refused because of a row that never comes to exist.
* **Scheduler service.**  Three reads without a common snapshot, then a save
  which may fail after the timetable has been generated.
* **Rate limiter.**  Refill by whole seconds since the last access, and a clean-up
  that removes a visitor another goroutine still holds.
* **Query cache.**  Answers that arrive late, fail or are lost; invalidations that
  meet a fetch under way; which lists a request makes stale, written by hand in
  each hook.
* **Pages and dialogs.**  Forms filled from lists that may be stale by the time
  they are sent, callbacks that run after the user has moved on, dialogs of which
  some wait for an answer and some do not.
* **Session.**  Three places that navigate by themselves (layout, guest pages, the
  401 handler), a timer, and a stored session that may disagree with the context.
* **Timetable.**  A layout that decides columns one meeting at a time, hours of a
  grid computed from other meetings than the ones drawn.

The hazards, with their lines and the properties that would catch them, are
listed in `PROJECT.json`.

How the parts meet: every HTTP request passes the rate limiter and the
authentication, is given a SQL transaction, and reaches a handler, its service
and one or more repositories; the scheduler service reads three catalogue
tables, calls the generator and inserts one schedule.  The client holds what it
has read in a query cache and decides after each mutation which entries are
stale; its pages are mounted and unmounted by the router as the session of the
user and the user's clicks have it.

## 2. Modules

| Module | Models | Kind |
|---|---|---|
| `Timetable` | a timetable that grows by one meeting at a time, each a gap clear of the earlier ones | abstract specification |
| `GreedyScheduler` | `GreedyScheduler.Generate` and its helpers | detailed, implements `Timetable` |
| `ActiveSchedules` | requests on one user's schedules, each taking effect at one instant or not at all | abstract specification |
| `ScheduleStore` | repository statements, triggers, indexes, request transactions | detailed, implements `ActiveSchedules` |
| `CatalogueTables` | requests of several users on the catalogue, each taking effect at one instant or not at all | abstract specification |
| `Catalogue` | repository statements, row locks, foreign keys, unique indexes, request transactions | detailed, implements `CatalogueTables` |
| `RateLimiter` | visitors, buckets, clean-up | detailed |
| `QueryCache` | the lists of the client, fetches, mutations, the server behind them | detailed |
| `CatalogueScreens` | the pages of the catalogue and every dialog; which page reads, manages and waits for which list | detailed, over `QueryCache` |
| `ScheduleScreens` | the timetable page as keeper of schedules, the generation page | detailed, over `CatalogueScreens` |
| `Dashboard` | tour, wizard and tip of the home page | detailed, over `ScheduleScreens` |
| `ClientSession` | session, route, sign-in pages, redirections, reloads | detailed, over `Dashboard` |
| `TimetableLayout` | the columns of the meetings of a day | detailed |
| `TimetableView` | hours, boxes, tabs, filter, banner, details, preview | detailed, over `TimetableLayout` |
| `Client` | the composition: one state, one next-state relation, the properties | composition |
| `GreedyScheduler_proofs` | theorems about `GreedyScheduler` | proofs |
| `Catalogue_proofs` | the invariant of `Catalogue`; it implements `CatalogueTables`; refusals are right | proofs |
| `ScheduleStore_proofs` | the invariant of `ScheduleStore`, `UniqueRows` | proofs |
| `ScheduleStoreRefinement` | `ScheduleStore` implements `ActiveSchedules`, and what follows from the same invariant | proofs |
| `RateLimiter_proofs` | theorems about `RateLimiter` | proofs |
| `TimetableLayout_proofs` | theorems about `TimetableLayout` | proofs |
| `Client_proofs` | theorems about `Client`, over `TimetableLayout_proofs` | proofs |
| `MC...` | inputs and operations for TLC | model checking |

A definition marked "mutant of X" is X with a plausible mistake in it.  It is
used by no specification: `PROJECT.json` names, for every property, the mutant
that TLC must find to break it.

## 3. The greedy scheduler

`GreedyScheduler` has one action per loop iteration of `Generate`
(`scheduler/greedy/greedy.go`): `NextCourse` (next course of the weight order),
`NextSession`, `PlaceOne` (one meeting, lines 56 to 98: day, room, start,
`consumeSlot`, `courseDaysUsed`) and `FailSession` (lines 100 to 107).  A run of
the code is a behaviour; nothing else runs concurrently.

* Rooms and sessions are indices into the slices of the input, as the code finds
  them.  A room id that occurs twice or a session of an unlisted course is an
  input like any other: its sessions are never reached, as in the code.
* `slices.SortFunc` is not stable, so the order of courses of equal weight and of
  days of equal availability is a free choice (`NextCourse`, `ChosenDays`).
* The free slots of a room and day are the slice of the code: `ConsumeSlot` replaces
  every range, in place, by what is left of it (`Pieces`), and `FirstAvailableSlot` is
  the linear search.
* The configuration is decoded from the request's body and not looked at
  (`handlers/scheduler.go:31`), so hours, days, break and slot are any integers: hours
  may end before they start, a break may be negative.  Lengths and counts of sessions
  are validated (`models/course_session.go`) and positive.  `%` of a negative time has
  its sign, as in Go (`Remainder`).
* A nil configuration is `NoConfig`, replaced by `DefaultConfig`.

What is claimed and found:

* `PlacementLegal`, `BreakAfterPlaced`, `AvailabilityExact`: meetings lie in the
  operating hours, in rooms of their type, followed by their break, and a minute
  is free exactly if nothing takes it.  They hold of a negative break as well, for what
  it then means: a meeting gives its room back that long before it ends, or, if it is
  shorter than that, never takes it.
* `ImplementsTimetable`: the meetings placed are only ever added to, each clear of the
  earlier ones by the break.  The refuted `NoDoubleBooking` is what README.md:16 of the
  source says, that no room is double-booked: `consumeEnd` (greedy.go:80) with a
  negative break lets the next meeting start before the last one is over.
  `RoomsBookedOnce`, no room twice unless the break is negative, is proved (section 9).
* `SlicesInOrder` and `FirstFit`, for breaks that are not negative: the slice stays in
  order and its ranges apart, so a search that takes its first hit finds the earliest,
  and a meeting could not have started a slot or more earlier in its room, unless an
  earlier meeting or its break was in the way.
* `GapWithoutSlots` and the refuted `MinimumGap`: the configured minimum gap is
  kept between any two meetings if there is no slot alignment.  With alignment it
  is not: the piece left in front of an aligned meeting is handed out to its last
  minute, without a break before the meeting that follows.
* `SpreadOverDays`, `FailureJustified` and the refuted `FailedMeansFull`: up to
  five meetings of a course are on different days.  The price is that a session
  is reported as having "no available time slot" while its course's own days
  still have free slots of its length; `FailureJustified` is what does hold.
* `EverySessionAccounted`, `Termination`: no session of a listed course is
  silently dropped, and the loops end under no fairness but that of the one
  goroutine (weak fairness of the next step).

## 4. The schedule store

`ScheduleStore` is one user's table.  Each request has its own goroutine,
database connection and transaction; a step is what PostgreSQL does atomically
under READ COMMITTED:

| Action | Code |
|---|---|
| `Refuse` | a body, an id or an update that is rejected before any statement |
| `Begin` | the handler calls the repository inside the transaction of `middleware/transaction.go` |
| `BulkScan`, `DeactivateRow`, `RowsDone` | `SetActive`'s first `UPDATE`, row by row |
| `TargetMissing`, `LockTarget` | finding and locking the row of `UPDATE ... WHERE id` |
| `TriggerScan`, `DeactivateRow`, `RowsDone` | `deactivate_other_schedules()`, run by the triggers of migrations 6 and 8 |
| `Write`, `WriteFails` | the row and its entries in the two unique indexes (migrations 9 and 10) |
| `PoolDelete` | `Delete`, executed on `r.db` |
| `Commit`, `Rollback`, `CommitLost`, `Cancel` | the end of the middleware, a lost connection, a client that goes away |
| `DeadlockDetected` | PostgreSQL aborts one member of a cycle of waits |

PostgreSQL itself is modelled from how the code uses it (definitions marked
external in the map): a statement reads the committed rows and its own writes,
waits for row locks, looks at a row again once it has the lock, and waits at a
unique index for the transaction that wrote a conflicting entry.  Deletes on the
pool are taken to succeed as the source's integration tests have them, the
service's database role being exempt from row level security.

`ImplementsActiveSchedules` is the main property.  `ActiveSchedules` lets a request
take its whole effect on the current table at one instant, or none; the refinement
mapping says that a request has had its effect when it is done, a delete when it has
been executed.  In spite of statements of different requests interleaving at every
row, of triggers reading stale rows and of deadlocks, the detailed table changes only
in such instants, so no request undoes another and no column is overwritten with a
value read earlier.  `UniqueRows` and `ActiveStays` say what a user sees of it.
`RefusedOnlyByRace` is about the partial unique index: an active schedule that a
request meets there was made active by a commit of another request after its trigger
had selected the active ones.  The history variable `risen` remembers those commits,
per request, from the selection on; a schedule that was active before, or that some
request activated and rolled back, is no excuse.  `EveryRequestEnds` needs weak
fairness of each request's own steps: the goroutine is scheduled and the database
executes what it is sent.  Deadlock detection is one of those steps.

Refuted, each quoted in `PROJECT.json`: an archived schedule can be active
(`ArchivedNotActive`), and the table does not only change when a request's
transaction commits (`OnlyCommitsChangeRows`, by deletes on the pool).

## 5. The catalogue

`Catalogue` is the room types, buildings, courses, rooms and sessions of all users.  A
row has an owner, a name, a parent (the building of a room, the course of a session)
and a room type; `RowsOf` says which of them each table has, `RoomTypeOps` to
`SessionOps` what its handlers pass on.  A room type is its own key, which is its name
with its owner, so two users may have types of one name (`TypeName`).  Each request is
some user's and sends one statement:

| Action | Code |
|---|---|
| `Refuse` | a body, an id or a field that is rejected before the statement |
| `CreateBuilding` ... `DeleteSession` | the operations of the five repositories |
| `FindRows`, `TargetMissing` | the rows an `UPDATE` or `DELETE` selects, or that there is none |
| `LockTarget`, `TargetsLocked` | locking them one by one, looking at each again after a wait |
| `WriteRow`, `DuplicateKey` | the row and its entry in the unique index of its table (migrations 2 and 9) |
| `LockReference`, `ReferenceMissing`, `ReferencesChecked` | the foreign keys of the row that was written: each row it refers to is locked against deletion |
| `StillReferenced`, `NotReferenced` | the foreign keys of the other tables, when a row goes or a room type is renamed |
| `Commit`, `Rollback`, `CommitLost`, `Cancel`, `DeadlockDetected` | as in the schedule store |

A deletion of anything but a building is executed on the pool (`OnPool`) and
commits when it succeeds.  There neither the role nor the user of the request is set
(`middleware/transaction.go:24`), so the policies of migration 7, by which users "can
only see and modify their own data", do not apply to it: it reaches the row it names
whoever owns it (`Reachable`), and since a room type is deleted by its name alone
(`repository/room_type.go:116`), it reaches the type of that name of every user.  It
takes all of them, or is refused because somebody's room or session is of his own type
of that name.  Statements inside a transaction find rows of their own user only; the
checks of indexes and foreign keys see every row.

A statement that fails takes its transaction with it (`Fail`).  PostgreSQL's part,
external in the map, is the three lock modes: an `UPDATE` that sets a column of a
unique index and a `DELETE` exclude references to the row, any other `UPDATE` excludes
only writers.  Two simplifications: the new version of a row and its index entry are
one step, and a room type that its user deletes and creates again while a statement
waits for it counts as the same row, where PostgreSQL answers that there is none.

`NoDanglingReference` and `UniqueKeys` are what the other parts rely on: the
scheduler service looks rooms up by the type a session names.
`ImplementsTables` says that each request takes effect at one instant on the
current tables, or not at all, and that the effect is on one row of its own user unless
it is one of those deletions (which may leave a type created while it is at it);
`RefusedRightly` is the other half, that a refusal is due to what is committed, other
users' rows included.  `EveryRequestEnds` needs the same weak fairness as in
the schedule store; cycles of waits do occur, for instance of two updates that
exchange the names of two rooms.

## 6. The rate limiter

`RateLimiter` has the map's lock (`sweeping`, held by the clean-up), the visitors
on the heap with their tokens and the ticks since their last access, and per
request the pointer `getVisitor` returned.  `Lookup` and `Create` are the two
critical sections of `getVisitor`, `Allow` the one under the visitor's lock,
`StartSweep`, `SweepKey`, `EndSweep` the clean-up.  `quota` is a history variable:
the ideal token bucket, which also keeps fractions of an interval.

* `WithinRate`: a bucket never allows more than the ideal one.
* `NeverReplaced`: requests that meet at a new key share one bucket; only the
  clean-up removes a bucket, and only a stale one.
* `EveryRequestAnswered`: under strong fairness of `Lookup` and `Create`
  (`sync.RWMutex` does not starve a waiter), weak fairness of the rest.
* Refuted `GoesOnServing`: `Allow` resets the last access even if the elapsed
  time was too short to earn a token, so a client that keeps asking more often
  than once per interval is refused for ever once its burst is spent, where 100
  requests a second are promised.

The visitors' age is capped one tick past `Cleanup`; the code compares it with
nothing larger.

## 7. The client

The modules of the client stack by EXTENDS, each adding its variables and its
actions; `Client` closes the stack with `Init`, `Next` and the fairness.  A step
of the user, of the network, of the server and of a timer are different actions,
so every interleaving of them is explored.

### The lists and the requests

`QueryCache` has, per list, what was fetched, a stale mark, an error and the fetch
under way with what it read.  A row is a number that grows with every save.  The
query library is external; its part is modelled from the options in
`routes/__root.tsx` and the calls the hooks make: one fetch serves all components, an
invalidation restarts the fetch of a list in use if it has data, lets it go on if
it is the first one, and only marks a list nobody uses.  `Marks` is the table of
what each hook invalidates.  A mutation has a life of its own: sent, granted or
refused by the server, answered.  The callback of the hook always runs (`Settle`),
those of the page only if it is still mounted and no later call of the same hook
has replaced them (`attached`).

| Action | Code or event |
|---|---|
| `ServerReads`, `Answer`, `ListFails` | a fetch reads, arrives, fails with its retry |
| `ServerGrants`, `ServerMisses`, `ServerRefuses`, `AnswerLost` | the API handles a mutation; the answer may be lost |
| `RequestSettles` | `onSuccess` or `onError`: the hook's, then the page's |
| `Observe` (part of every navigation) | components mount and ask for their lists |

* `RestShowsServer`: once nothing is under way, a list on a mounted page shows what
  the server holds, unless an answer was lost or an older answer cleared the mark
  (`missed`).  Of the archive this is which schedules are in it (`OnShow`):
  generating a schedule deactivates the others, archived ones too, and
  `useGenerateAndSave` does not mark the archive, whose sheet does not show the
  difference.  Those two exceptions are real: the courses page lets a session be
  added while the first fetch of the sessions is under way, and the list may then
  lack it for five minutes.  This is about one client: what another tab or device
  saves reaches its lists only when they are read again (section 10).
* `ListsLoad`: a list a page waits for arrives or the page says that it did not.

### Pages and dialogs

`CatalogueScreens` describes a dialog by when it empties its form, whether it can
be closed and whether it can be sent again while its request is under way, and a
page by the lists it reads and the one it waits for; the actions (`OpenCreate`,
`OpenEdit`, `Fill`, `Cancel`, `SubmitCreate`, `SubmitEdit`, `ConfirmRemove`,
`RemoveNow`, `Tick`, `BulkDelete`, ...) are the same for all of them.  `BuildingGone` is
the one path of the rooms page that sends nothing and empties the form all the same
(`rooms.tsx:106`).  A page whose
list fails unmounts its content with the forms in it (`ContentUnmounts`).

* `SavesKeepOwnSaves`: an edit sends every field, those the user left alone as they
  were read; opened while the list is at rest and sent before anything else is, it
  puts nothing back that this client has saved before.  Of other clients it says
  nothing, and nothing of the kind is true: the form is the whole row
  (`rooms.tsx:131`, `courses.tsx:284`), its list may be five minutes old, and the save
  overwrites what another tab has saved since.
* `NoDoubleSubmit`: what was typed once is not sent twice at the same time, though one
  dialog never waits.
* `WizardStepPossible`: while the setup is incomplete the wizard points at exactly one
  step, and every list that step's dialog picks from has a row.

`ScheduleScreens` has the header of the timetable page.  The refuted property
`SwitchesToKept` (run `client_archive`) is about its archive handler, which picks the
schedule to switch to from the list of the time the user confirmed: archive two of
three schedules in a row and the page switches to one that is archived, and shows
nothing although the third is there.

### The session

Supabase is external: it holds a session in local storage, serves calls in order,
refreshes or loses the session.  `Announce` is the listener of the context, `Arrive`
what a navigation mounts and drops, `Reload` a document that loads again.
`SignedOutStaysOut` says that after a sign-out that succeeded, or a session lost, the
client has no user until somebody signs in, whatever arrives in between;
`SessionSettles` that page and session come to agree.  An answer 401 reloads at the
sign-in page whichever page is on show by then (`Unauthorized`).  With a sign-out
whose call failed the context forgets a user whom the storage still knows; the model
has that, and the property does not promise otherwise.

### The timetable

`TimetableLayout` has one action for one turn of the loop over the sorted meetings,
and starts again with every rendering.  `TimetableView` adds what decides which
meetings are laid out: the schedule on show, hidden courses, weekday, the hours of the
grid; and the banner, the details, the tabs, and the exports that sort the list in
place.  `NoSharedColumn`, `ColumnsNeeded` and `InsideTheDay` are proved (section 9);
`InsideTheGrid` says that boxes lose time only before five and after eleven at night,
and that the preview of the home page has a taken cell for every hour a meeting
touches between five and ten at night.

### Fairness

Weak fairness of reading and answering each list (the network delivers or the fetch
fails), of reading the stored session, and of the two redirections (effects that
React runs once they are due).  Nothing is assumed of users, of mutations, of
Supabase or of the timer.

## 8. Runs

| Run | Instance | Shows |
|---|---|---|
| `greedy` | 1 to 2 rooms, 2 room types, up to 3 courses and 3 sessions, 1 to 5 days, days of up to 12 units, breaks 0 to 2, slots 0, 2, 3, 4; the default configuration in minutes; unchecked configurations: breaks -3 to 1, slots -1 to 3, hours from -3 or that end before they start, a negative day | all properties of section 3 |
| `greedy_min_gap`, `greedy_failed_means_full`, `greedy_double_booking` | parts of the same inputs | the three refutations |
| `store` | 2 overlapping requests, 3 schedules, 2 names, every table the indexes allow, every operation | section 4 |
| `store_archived_active`, `store_delete_outside` | the same | the two refutations |
| `catalogue` | 2 overlapping requests of 33 kinds, 2 users, 3 room types (two of one name), 2 buildings, 1 course, 3 rooms, 1 session, 9 tables to start from | section 5 |
| `limiter` | 2 goroutines, 1 key, 3 addresses, burst 1, interval and clean-up of 2 ticks | section 6 |
| `limiter_serves` | 1 goroutine, burst 2, interval 2 | the refutation |
| `client` | 2 rows a list; 13 scenarios, see below | section 7 |
| `client_archive` | 3 schedules, 2 requests | the refutation |

Why these bounds: one room and day interact with another only through the order of
days and the days a course has used, which two rooms and one to five days exercise,
in particular both sides of the constant 5; three meetings are the least that make a
fragment between two others.  Two requests are the least that race, and all conflicts
in the store are between pairs (locks, index entries, cycles); three schedules give a
target, an active one and one being created.  The catalogue's tables are the least in
which every kind of reference, and a name in use in the same and in another building,
can be met; its requests are one of each kind for every way two rows can meet.  The
second user has a room type of the first one's name and a room of it, in the first
one's building: the least with which a deletion by name takes, or is kept by, rows of
somebody else.  For the limiter, two goroutines and three addresses let a removed
visitor, its successor and a third one coexist.

A behaviour of `client` starts in a scenario: the lists it follows, a start page and
a budget of events (requests, failures, forms filled, visits, calls to Supabase,
refreshes, losses, refusals).  Lists a behaviour does not follow stay out of it, and
hold up no page, so the parts are checked side by side and not as a product:
one scenario for each list of the catalogue with two requests, one failure and one
visit (the sessions also with two visits), three for the schedules (two requests and
a failure, two requests and a visit, a generation), one for the home page over every
combination of empty and filled lists, two for the session (three visits, two calls
under way, a failure, a refresh, a loss and a 401), one for the timetable.  Two
requests are the least that overlap or overwrite each other; a visit is the least that
drops callbacks; one failure loses any one answer.  The two timetables have a chain of
four overlapping meetings, meetings outside the hours of the grid on both sides, one on
a Saturday and one before eight; every subset of them is laid out by hiding courses.

`CHECK_DEADLOCK FALSE` stands where a behaviour ends: the generator has returned, or
the budget of a scenario is used up.

## 9. Proofs

### The greedy scheduler

`GreedyScheduler_proofs` proves, for every set of inputs the type of `Generate`
allows (`InputsAssumption`: lengths and counts of sessions are positive, all numbers of
the configuration are any integers; `NoConfigAssumption`: nil is none of them) and with
no bound on rooms, courses, days or times:

| Theorem | Statement |
|---|---|
| `TypeCorrect` | `Spec => []TypeOK` |
| `PlacementIsLegal` | `Spec => []PlacementLegal` |
| `BreakAfterPlacedHolds` | `Spec => []BreakAfterPlaced` |
| `GapWithoutSlotsHolds` | `Spec => []GapWithoutSlots` |
| `AvailabilityIsExact` | `Spec => []AvailabilityExact` |
| `FailureIsJustified` | `Spec => []FailureJustified` |
| `EverySessionIsAccounted` | `Spec => []EverySessionAccounted` |
| `SpreadOverDaysHolds` | `Spec => []SpreadOverDays` |
| `SlicesInOrderHolds` | `Spec => []SlicesInOrder` |
| `FirstFitHolds` | `Spec => []FirstFit` |
| `GeneratorImplementsTimetable` | `Spec => ImplementsTimetable` |
| `RoomsBookedOnceHolds` | `Spec => []RoomsBookedOnce` |

The first part is about the slice.  `consumeSlot` flattens a slice of pieces, which the
library defines by recursion; `Flattened` shows, by a least length at which it would be
false (`LeastOne`), that the result holds exactly the elements of the pieces, ordered as
the pieces are and inside them.  `PiecesAre` does one range, `ConsumeIs` puts both
together.

The argument: `PlaceOneEffect` reduces a placing step to its effect (a start in a
free range of one room and day, and that room and day's ranges cut by
`ConsumeSlot`).  No property is inductive alone.  `BookingInv` adds that free
ranges never meet what a placed meeting and its break take, which `ConsumePieces`
preserves (every piece lies in an old range and outside the cut);
`ExactInv` adds the converse direction minute by minute, from `ConsumeMinutes`;
`LegalInv` adds that only sessions of listed courses are ever started;
`GapInv` adds that without slots a room and day has at most one free range, which
starts after every placed meeting and its break; `JustifiedInv` adds that a day counted
as used has a placed meeting, and rests on `NoSlotMeansShort`: when the search finds no
start, every range is too short, aligned or not.  `OrderInv` keeps the ranges in order,
which makes the first hit of the search the earliest (`FirstFitMinute`), and with
`ExactInv` gives `FitInv`: a minute that was not free belongs to an earlier meeting or its
break.  `JustifiedInv` is preserved by `FailSession` and `PlaceOne`, the others by
`PlaceOne`; the other actions do not touch them.

Two properties count.  `Number` is the size of a set of pairs (session, meeting), not
a sum, so that a session more is a disjoint union and the theorems on cardinalities
do what an induction would.  `AccountInv` says at every step what
`EverySessionAccounted` says at the return: the meetings placed for a course and those
the current session still has to place make up the sessions begun and not lost, and
leave room for one missing meeting per report (`Balanced`); `InTurn` keeps a session
from being begun twice or reported before it is begun.  `SpreadInv` adds that the days
counted as used are the days of the meetings, one for each (`DaysListed`): as long as
the course asks for at most five, `PlaceOne` still has at least as many days of the five
as meetings to place, so it skips a used day.

### The schedule store

For every number of requests, schedules and names, with no fairness and no bound
on how statements interleave:

| Theorem | Module | Statement |
|---|---|---|
| `StoreTypeCorrect` | `ScheduleStore_proofs` | `Spec => []TypeOK` |
| `UniqueRowsHolds` | `ScheduleStore_proofs` | `Spec => []UniqueRows` |
| `StoreImplements` | `ScheduleStoreRefinement` | `Spec => ImplementsActiveSchedules` |
| `ActiveStaysHolds` | `ScheduleStoreRefinement` | `Spec => ActiveStays` |
| `RefusedOnlyByRaceHolds` | `ScheduleStoreRefinement` | `Spec => []RefusedOnlyByRace` |

They rest on `OpsAssumption` (a creation has a name) and `MarksAssumption` (the
markers are no rows, names or requests).  The argument has three layers.

1. `StoreInv`.  `UniqueRows` says nothing of rows not yet committed, so it is not
   inductive.  `NoClash` adds that no written row has the key of a committed or
   written version of another row, which the index check establishes because it
   has waited for the writers of every clashing row.  `Own` adds what keeps others
   away: a written row is locked by its writer, a locked target stays in the
   table, the id of a creation is nobody else's.  One lemma per kind of step:
   `QuietSteps`, `LockTargetStep`, `DeactivateRowStep`, `WriteStep`,
   `PoolDeleteStep`, `ReleaseStep`.
2. `EffectInv`.  What a transaction has written is its part of the abstract
   effect: other rows deactivated from their committed version, and only by a
   request that activates its target; after a 2xx answer, the target as it was
   asked to be, made from the row that is committed now, not from the one the
   request read first.  A commit then is `TakeEffect` (`CommitPromise`): the rows
   it has not written are inactive already if the target has become active, by
   `NoClash`.  A deletion is `TakeEffect` when it is executed; every other end of a
   request is `NoEffect`.
3. `ClearedInv`.  Whatever is active after the trigger has run through the rows it
   selected became active by a commit since, and is in `risen`, which the end of every
   transaction brings up to date.

### The catalogue

For every number of requests, keys, names and starting tables, with no fairness and no
bound on how statements interleave:

| Theorem | Module | Statement |
|---|---|---|
| `CatalogueTypeCorrect` | `Catalogue_proofs` | `Spec => []TypeOK` |
| `CatalogueInvariant` | `Catalogue_proofs` | `Spec => []CatalogueInv` |
| `UniqueKeysHolds` | `Catalogue_proofs` | `Spec => []UniqueKeys` |
| `NoDanglingReferenceHolds` | `Catalogue_proofs` | `Spec => []NoDanglingReference` |
| `CatalogueImplements` | `Catalogue_proofs` | `Spec => ImplementsTables` |
| `RefusedRightlyHolds` | `Catalogue_proofs` | `Spec => RefusedRightly` |

They rest on what a request may ask for (`OpsAssumption`), on tables that hold rows
of their own (`TablesAssumption`), on ids of different tables being different
(`KeysAssumption`) and on the markers being nothing else (`MarksAssumption`).  Every
row has an owner (`OwnersAssumption`); how many there are, and who owns what, is
open.

Both table invariants speak of committed rows only, and neither is inductive: a
commit can break them with what was written long before.  `CatalogueInv` says what a
transaction knows between its checks and its commit.  `Exclusive`: nobody else writes
a row that is being written, or has any lock on one whose key may change.
`WrittenInv` and `LockInv`: what is written is made from the target as it is
committed now, because the target is locked. `FoundFacts`: the rows a deletion has
found and locked stay as they are until it marks them, however many and whosever they
are.  `NoClash`: a written row has the key of no committed row *and of no other
written one*, which the index check gives (`IndexPassed`), having waited for every
writer of such a row.  `ReferenceInv` and `ReferrerInv` are the two halves of a
foreign key: a new reference is still to be checked or its row is locked with FOR KEY
SHARE; a row about to lose its key was found without referrers, and can get none,
since a new one would need the lock its deletion excludes.  `FreshInv` keeps the id
of a creation out of everybody else's hands.

`EffectRows`, `EffectUniqueKeys` and `EffectReferences` show that a commit, or a
deletion on the pool, keeps the tables in order, and `EffectLocal` that it leaves every
other transaction's knowledge true; `EndWithoutEffect` covers rollbacks, failures,
cancellations and lost commits; the other steps each have a lemma.  `CheckedIsPossible`
then says that a statement that was checked may take effect in the tables as they are
now, which is what makes the commit an abstract step.

### The rate limiter

For every burst, rate, interval and clean-up time (`ParametersAssumption`), any
number of keys, requests and addresses:

| Theorem | Statement |
|---|---|
| `LimiterTypeCorrect` | `Spec => []TypeOK` |
| `WithinRateHolds` | `Spec => []WithinRate` |
| `NeverReplacedHolds` | `Spec => NeverReplaced` |

`WithinRate` compares whole tokens with a quota that accrues every tick.  The
invariant `Covered` compares what the bucket would hold now, fractions included:
`Least(Burst * Interval, tokens * Interval + Rate * age) <= quota`.  `RefillCovered`
shows that a refill, which rounds down, keeps it, and `TickLimiterInv` that time does.

### The layout of a day

For every set of meetings that are not empty and have different identifiers
(`RenderingsAssumption`), and with no bound on them (`MaxColumnsAssumption` only says
that the bound on columns is a number: a meeting is placed when a free column is within
it):

| Theorem | Statement |
|---|---|
| `LayoutTypeCorrect` | `LayoutSpec => []LayoutTypeOK` |
| `LayoutInvariant` | `LayoutSpec => []LayoutInv` |
| `NoSharedColumnHolds` | `LayoutSpec => []NoSharedColumn` |
| `ColumnsNeededHolds` | `LayoutSpec => []ColumnsNeeded` |
| `InsideTheDayHolds` | `LayoutSpec => []InsideTheDay` |

`ColumnsNeeded` needs the order in which meetings are placed: the invariant adds that
the ones placed come before the others in the sort, and that below a meeting's column
every column holds a meeting it overlaps and that came before it, which therefore
starts no later and is still going on.  `InsideTheDay` follows from the same fact:
the columns below a meeting's own, all held by neighbours, and its own are among those
that are counted (`ColumnBelowTotal`).

### The client

For any finite set of rows, any scenarios (any budget of events, that is, and any lists,
start page and contents) and any timetables:

| Theorem | Statement |
|---|---|
| `ClientInvariant` | `Spec => []ClientInv` |
| `ClientTypeCorrect` | `Spec => []ClientTypeOK` |
| `RestShowsServerHolds` | `Spec => []RestShowsServer` |
| `SavesKeepOwnSavesHolds` | `Spec => []SavesKeepOwnSaves` |
| `NoDoubleSubmitHolds` | `Spec => []NoDoubleSubmit` |
| `WizardStepPossibleHolds` | `Spec => []WizardStepPossible` |
| `SignedOutStaysOutHolds` | `Spec => []SignedOutStaysOut` |
| `InsideTheGridHolds` | `Spec => []InsideTheGrid` |
| `LayoutOfThePage` | `Spec => [](NoSharedColumn /\ ColumnsNeeded /\ InsideTheDay)` |

They rest on `RowsAssumption` (rows are numbers from 1, finitely many),
`ScenariosAssumption` (a scenario has the shape its fields say) and
`TimetablesAssumption` (the meetings of a timetable lie within a day, and every part of
it can be laid out), besides those of the layout.  `ClientInv` has one part per
concern, each kept by every action of the composition; the steps that leave a part's
variables alone are sorted out first (`SessionStep`, `PageStep`, `Stays`).

* `CacheInv`.  `RestShowsServer` says nothing while a request or a fetch is on its way,
  so it is not inductive.  `Accurate` covers all other times: a list not in `missed`,
  and that no granted request is `Due` to mark, shows the server's rows if its
  entry claims to be fresh, and a fetch that has been read carries them too.
  `NotLeftStale` then says that a list in use is not left with a mark (the mark restarts
  the fetch, except where the fetch fails), which needs that the lists in use are those
  of the page (`InUse`).
* `CalmInv`.  The form that was opened at rest holds the server's row for as long as
  nothing is sent for its list (`CalmForm`).  While its request is calm, no other one
  is there for the row (`CalmRequest`), since sending a second one ends the calm.
* `FillInv`.  What is typed is a number never used before (`FillsUsed`).  A form that
  still has what it sent waits for the answer, its callbacks attached to the request;
  what a dialog keeps when it is closed has not been sent (`Unsent`).
* `SignedOutStaysOut` is inductive, and the wizard's property is true of every content
  of the lists: `FirstStepPossible` goes through the steps in their order.
* `ViewInv`.  What is laid out is the part of the timetable on show that day, with the
  invariant of the layout, which every click that restarts it establishes anew.

### What the proofs changed in the models

* `RestShowsServer` was stated of the archive's rows as they are, which holds in the
  scenarios checked and is false once a generated schedule has deactivated an archived
  one: see `OnShow` in section 7.
* `Quiet`, the ghost condition for a form opened at rest, now asks that the last fetch
  did not fail: a failed fetch leaves rows that may be old.
* Two arms of the table `Marks` overlapped, which made its value for a generation a
  matter of `CHOOSE`.
* Hours that end before they start are a range that is empty, which `SlicesInOrder` has
  to admit; the run now has such a day.

### Only model-checked

Every invariant and every action property that a passing run checks is proved, except
the liveness properties (`Termination`, `EveryRequestEnds` twice,
`EveryRequestAnswered`, `ListsLoad`, `SessionSettles`): liveness under fairness and
`ENABLED` are beyond the prover's reach.  The refuted properties are false, and stay
with TLC, which shows the counterexamples; of `NoDoubleBooking` the half that is
true, breaks that are not negative, is `RoomsBookedOnceHolds`.

## 10. Not modelled

* The scheduler service: three reads without a common snapshot and a save that may
  fail after the generation.  What each of them does to its table is in `Catalogue` and
  `ScheduleStore`; that a stored timetable may lack a row added between two reads is not.
* How PostgreSQL enforces the policies of migration 7: the catalogue takes from them which
  rows a statement finds.  The schedules are those of one user; a deletion of a schedule
  names one row by its id, whoever owns it.
* Numbers that overflow 64 bits: a configuration of such size is decoded, and the
  generator would compute with wrapped sums.
* The contents of a schedule's sessions, field formats and their validation,
  logging and JSON: no property depends on them.
* `CreateBatch` of the five catalogue repositories: no route reaches it.
* Authentication, body limit, security headers: stateless.
* Presentation, the marketing page, the component library, generated code.
* Of the client: queries of single rows (no page uses them), the five minutes after
  which a list is stale by itself, the refetch when the window gets the focus, other
  tabs and devices of the user and what they save meanwhile, several accounts with
  what the cache keeps of the last one, requests that a reload leaves on their way,
  an event of Supabase before the stored session is read, the hours slider and the
  simulated progress of the generation page, sorting and statistics of the courses
  page, the text of exports and prints, the hour lines and the line of the present
  hour of the grid, the least height of a box.
* Connection limits: `sql.DB` is opened without one.
