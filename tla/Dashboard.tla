------------------------------- MODULE Dashboard -------------------------------
(***************************************************************************)
(* The home page: the welcome tour of the first visit, the setup wizard     *)
(* until there is a schedule, and the tip that follows it.                 *)
(***************************************************************************)
EXTENDS ScheduleScreens, Sequences

VARIABLE home  \* slide: of the open tour, 0 when it is closed; showTip;
               \* dismissed: what local storage remembers of the tour

Slides == 4

\* The state of the page when it mounts.
HomeMounted(dismissed) ==
  [slide |-> IF dismissed THEN 0 ELSE 1, showTip |-> TRUE, dismissed |-> dismissed]

AtHome == page = "home" /\ Shown

-----------------------------------------------------------------------------
(* The welcome tour.                                                       *)

ShowSlide(n) ==
  /\ AtHome /\ home.slide # 0
  /\ home' = [home EXCEPT !.slide = n]
  /\ UNCHANGED <<cacheVars, screenVars, scheduleVars>>

\* mutant of NextSlide: the last slide is not told apart
NextSlideAlways == ShowSlide(home.slide + 1)

NextSlide == home.slide < Slides /\ ShowSlide(home.slide + 1)
PrevSlide == home.slide > 1 /\ ShowSlide(home.slide - 1)
Dots      == \E n \in (1..Slides) \ {home.slide} : ShowSlide(n)

\* Skipping, the last button and the Escape key.
WelcomeClose ==
  /\ AtHome /\ home.slide # 0
  /\ home' = [home EXCEPT !.slide = 0, !.dismissed = TRUE]
  /\ UNCHANGED <<cacheVars, screenVars, scheduleVars>>

-----------------------------------------------------------------------------
(* The setup wizard.                                                       *)

Count(list) == Cardinality(RowsOn(list))

\* mutant of Steps: the rooms come before what a room is made of
StepsRoomsFirst == <<[id |-> "rooms",     dependsOn |-> "none"],
                     [id |-> "buildings", dependsOn |-> "rooms"],
                     [id |-> "roomTypes", dependsOn |-> "buildings"],
                     [id |-> "courses",   dependsOn |-> "roomTypes"]>>

Steps == <<[id |-> "buildings", dependsOn |-> "none"],
           [id |-> "roomTypes", dependsOn |-> "buildings"],
           [id |-> "rooms",     dependsOn |-> "roomTypes"],
           [id |-> "courses",   dependsOn |-> "rooms"]>>

\* how each step is drawn; a step that is not locked links to its page
StepStatus(i) ==
  CASE Count(Steps[i].id) > 0 -> "complete"
    [] Count(Steps[i].id) = 0 /\ i > 1 /\ Count(Steps[i].dependsOn) = 0 -> "locked"
    [] Count(Steps[i].id) = 0 /\ (i = 1 \/ Count(Steps[i].dependsOn) > 0) ->
         IF \E j \in 1..(i - 1) : Count(Steps[j].id) = 0 THEN "upcoming" ELSE "current"

IsSetupComplete == \A i \in DOMAIN Steps : StepStatus(i) = "complete"
HasSchedule     == RowsOn("schedules") # {}
WizardShown     == AtHome /\ ~HasSchedule /\ ~IsSetupComplete

CloseTip ==
  /\ AtHome /\ home.slide = 0 /\ home.showTip
  /\ HasSchedule \/ IsSetupComplete
  /\ home' = [home EXCEPT !.showTip = FALSE]
  /\ UNCHANGED <<cacheVars, screenVars, scheduleVars>>

DashboardNext ==
  /\ AppSidebar \subseteq followed
  /\ NextSlide \/ PrevSlide \/ Dots \/ WelcomeClose \/ CloseTip

-----------------------------------------------------------------------------
\* While the setup is incomplete the wizard always points at one step, and
\* that step can be done: every list its dialog picks a value from has a row
\* to pick.  The order of the steps and what each depends on are two facts
\* the code keeps apart, and lists answer in any order.
WizardStepPossible ==
  (AppSidebar \subseteq followed /\ WizardShown) =>
    \E i \in DOMAIN Steps :
      /\ StepStatus(i) = "current"
      /\ \A j \in DOMAIN Steps : StepStatus(j) = "current" => j = i
      /\ \A l \in CreateModal(Steps[i].id).picks : RowsOn(l) # {}
=============================================================================
