SPECIFICATION Spec
CONSTANTS
  Kind <- MCKind
  Contents <- MCContents
  Absent <- MCAbsent
  FirstTree <- MCFirstTree
  FirstBound <- MCFirstBound
  MaxEdits = 3
INVARIANTS AcceptedWasReviewed RefreshOpen DraftsPaired
CHECK_DEADLOCK FALSE
