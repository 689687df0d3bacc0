SPECIFICATION Spec
CONSTANTS
  Managed <- MCManaged
  Definitions <- MCManaged
  Roms <- MCRoms
  Titles <- MCTitles
  SaveType <- MCSaveType
  HasRtc <- MCHasRtc
  WellMade <- MCWellMade
  MaxForeign = 2
  MaxFaults = 2
  MaxRuns = 2
  MaxEvents = 3
INVARIANTS NothingLost PublicNamesWhole RollbackRestores InstalledCardIsHealthy
CHECK_DEADLOCK FALSE
