CONSTANTS
  None = None
  Invalid = Invalid
  Registry <- MCRegistry
  Scenarios <- MCScenarios
SPECIFICATION Spec
CHECK_DEADLOCK FALSE
INVARIANTS
  MessagesArriveWhole
  PatternsResolve
  LinksWhatItUses
  
  CratesAreCargosChoice
  TestsReportTheirOwn
  InstalledIsWhole
