CONSTANTS
  RoomTypes = {"lec", "lab"}
  CourseIds = {"c1", "c2", "c3"}
  NoConfig = NoConfig
  Inputs <- AllInputs
SPECIFICATION Spec
\* Generate returns: a finished run has no next step.
CHECK_DEADLOCK FALSE
INVARIANT TypeOK
INVARIANT PlacementLegal
INVARIANT EverySessionAccounted
INVARIANT BreakAfterPlaced
INVARIANT GapWithoutSlots
INVARIANT AvailabilityExact
INVARIANT SpreadOverDays
INVARIANT FailureJustified
INVARIANT SlicesInOrder
INVARIANT FirstFit
PROPERTY ImplementsTimetable
PROPERTY Termination
