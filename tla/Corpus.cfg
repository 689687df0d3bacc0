SPECIFICATION Spec
CONSTANTS
  Nothing = Nothing
  Images <- MCImages
  Misfits = {"odd"}
  Footer <- MCFooter
  Archives <- MCArchives
  Bodies <- MCBodies
  Labs <- MCLabs
  Runners = 2
  Simulators = {"steady", "flaky"}
  Chains <- MCChains
  Workers = 1
  MaxAccidents = 1
  MaxStarts = 2
INVARIANTS PassIsEarned ImportAllOrNothing
PROPERTIES UserFilesKept
CHECK_DEADLOCK FALSE
