SPECIFICATION Spec
CONSTANTS
    c1 = c1 c2 = c2 b1 = b1 b2 = b2 x = x y = y
    Cases = {c1, c2}
    Sources <- MCSources
    Builds = {b1, b2}
    Needs <- MCNeeds
    MaxArtifacts = 2
    MaxEdits = 1
    MaxCrashes = 2
INVARIANT EvidenceSound
PROPERTY SessionEndsPublished
CHECK_DEADLOCK FALSE
