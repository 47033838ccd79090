CONSTANTS
  RoomTypes = {"lec", "lab"}
  CourseIds = {"c1", "c2", "c3"}
  NoConfig = NoConfig
  Inputs <- FragmentInputs
SPECIFICATION Spec
\* Generate returns: a finished run has no next step.
CHECK_DEADLOCK FALSE
INVARIANT MinimumGap

