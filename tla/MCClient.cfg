SPECIFICATION Spec
CONSTANTS
  Rows <- MCRows
  Scenarios <- MCScenarios
  Timetables <- MCTimetables
  Moments <- MCMoments
  Renderings <- MCRenderings
  MaxColumns = 4
INVARIANTS
  ClientTypeOK
  RestShowsServer
  SavesKeepOwnSaves
  NoDoubleSubmit
  WizardStepPossible
  SignedOutStaysOut
  NoSharedColumn
  
  InsideTheDay
  InsideTheGrid
PROPERTIES
  ListsLoad
  SessionSettles
CHECK_DEADLOCK FALSE
