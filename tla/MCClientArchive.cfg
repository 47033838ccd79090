SPECIFICATION Spec
CONSTANTS
  Rows <- ThreeRows
  Scenarios <- ArchiveScenarios
  Timetables <- MCTimetables
  Moments <- MCMoments
  Renderings <- MCRenderings
  MaxColumns = 4
PROPERTY
  SwitchesToKept
CHECK_DEADLOCK FALSE
