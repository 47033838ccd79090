---------------------------- MODULE ScheduleScreens ----------------------------
(***************************************************************************)
(* The timetable page as the keeper of the user's schedules (which one is   *)
(* shown, the active one, archiving and restoring) and the page that makes  *)
(* new ones.  What is drawn of a schedule is in TimetableView.             *)
(***************************************************************************)
EXTENDS CatalogueScreens

VARIABLES
  selected,   \* selectedScheduleId, NoRow before the user chose one
  generation  \* the form and the result of the generation page

scheduleVars == <<selected, generation>>

OfferedDays == {4, 5}  \* bound: of the seven days, one selected at first, one not

NoGeneration == [name |-> 0, days |-> {4}, progress |-> "none", result |-> FALSE]

Kept == RowsOn("schedules")

\* The list is sorted: the active schedule, then by name.
First(rows) ==
  LET active == {r \in rows : cache["schedules"].rows[r] = 2}
  IN  CHOOSE r \in rows : IF active # {} THEN r \in active
                                         ELSE \A s \in rows : r <= s

CurrentSchedule ==
  CASE selected # NoRow /\ selected \in Kept    -> selected
    [] selected # NoRow /\ selected \notin Kept -> NoRow
    [] selected = NoRow /\ Kept # {}            -> First(Kept)
    [] selected = NoRow /\ Kept = {}            -> NoRow

\* the page is there, and no dialog of it is in front
AtSchedule == page = "schedule" /\ ScheduleLists \subseteq followed /\ Shown /\ dialog.kind = "closed"

IsActive == cache["schedules"].rows[CurrentSchedule] = 2

-----------------------------------------------------------------------------
(* The header of the timetable page.                                       *)

SelectSchedule(r) ==
  /\ AtSchedule /\ r \in Kept /\ r # CurrentSchedule
  /\ selected' = r
  /\ UNCHANGED <<cacheVars, screenVars, generation>>

SetAsActive ==
  /\ AtSchedule /\ CurrentSchedule # NoRow
  /\ ~IsActive /\ ~Pending("setActive", "schedules")
  /\ Send(Request("setActive", "schedules", CurrentSchedule, 0, 0, FALSE))
  /\ UNCHANGED <<server, followed, observed, cache, missed, screenVars, scheduleVars>>

ArchiveClick ==
  /\ AtSchedule /\ CurrentSchedule # NoRow
  /\ dialog' = [Closed EXCEPT !.kind = "archive", !.list = "schedules", !.row = CurrentSchedule]
  /\ UNCHANGED <<cacheVars, session, page, draft, ticked, scheduleVars>>

\* The schedule to switch to, as the page sees its list when it is asked to
\* archive: none if another schedule is shown or there is no other.
NextSchedule(r) ==
  IF r = CurrentSchedule /\ Cardinality(Kept) > 1 THEN First(Kept \ {r}) ELSE NoRow

\* The button closes the dialog; the answer comes later.
ConfirmArchive ==
  /\ Shown /\ dialog.kind = "archive" /\ ~Pending("archive", "schedules")
  /\ Send(Request("archive", "schedules", dialog.row, NextSchedule(dialog.row), 0, FALSE))
  /\ dialog' = Closed
  /\ UNCHANGED <<server, followed, observed, cache, missed, session, page, draft, ticked, scheduleVars>>

OpenArchived ==
  /\ AtSchedule
  /\ dialog' = [Closed EXCEPT !.kind = "sheet", !.list = "archived"]
  /\ UNCHANGED <<cacheVars, session, page, draft, ticked, scheduleVars>>

Unarchive(r) ==
  /\ Shown /\ dialog.kind = "sheet" /\ r \in RowsOn("archived")
  /\ ~Pending("unarchive", "schedules")
  /\ Send(Request("unarchive", "schedules", r, 0, 0, FALSE))
  /\ UNCHANGED <<server, followed, observed, cache, missed, screenVars, scheduleVars>>

\* The Escape key closes both, whatever is under way.
CloseScheduleDialog ==
  /\ Shown /\ dialog.kind \in {"archive", "sheet"}
  /\ dialog' = Closed
  /\ UNCHANGED <<cacheVars, session, page, draft, ticked, scheduleVars>>

-----------------------------------------------------------------------------
(* The generation page.                                                    *)

Generating == Pending("generate", "schedules")

AtGenerate == page = "generate" /\ "schedules" \in followed /\ Shown

NameSchedule ==
  /\ AtGenerate /\ ~Generating
  /\ Spend("fills")
  /\ generation' = [generation EXCEPT !.name = budget.fills]
  /\ UNCHANGED <<server, followed, observed, cache, requests, missed, screenVars, selected>>

ToggleDay(d) ==
  /\ AtGenerate /\ ~Generating
  /\ generation' = [generation EXCEPT !.days = IF d \in @ THEN @ \ {d} ELSE @ \union {d}]
  /\ UNCHANGED <<cacheVars, screenVars, selected>>

Generate ==
  /\ AtGenerate /\ ~generation.result /\ ~Generating
  /\ generation.name # 0 /\ generation.days # {} /\ HasRoom("schedules")
  /\ Send(Request("generate", "schedules", NoRow, 0, generation.name, FALSE))
  /\ generation' = [generation EXCEPT !.progress = "running"]
  /\ UNCHANGED <<server, followed, observed, cache, missed, screenVars, selected>>

StartOver ==
  /\ AtGenerate /\ generation.result
  /\ generation' = NoGeneration
  /\ UNCHANGED <<cacheVars, screenVars, selected>>

-----------------------------------------------------------------------------
(* The callbacks the two pages give with their calls.                      *)

ScheduleCallback(q) ==
  /\ selected' = IF q.op = "archive" /\ q.phase = "granted" /\ q.attached /\ q.base # NoRow
                 THEN q.base ELSE selected
  /\ generation' =
       CASE q.op = "generate" /\ q.attached /\ q.phase = "granted" ->
              [generation EXCEPT !.progress = "done", !.result = TRUE]
         [] q.op = "generate" /\ q.attached /\ q.phase # "granted" ->
              [generation EXCEPT !.progress = "none"]
         [] OTHER -> generation

ScheduleScreensNext ==
  \/ \E r \in Rows : SelectSchedule(r) \/ Unarchive(r)
  \/ SetAsActive \/ ArchiveClick \/ ConfirmArchive
  \/ OpenArchived \/ CloseScheduleDialog
  \/ NameSchedule \/ (\E d \in OfferedDays : ToggleDay(d)) \/ Generate \/ StartOver
=============================================================================
