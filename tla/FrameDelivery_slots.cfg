\* Scaler slots: every display setting, the game rotating at any time, under
\* fair scanout.
SPECIFICATION FairSpec
CONSTANTS
    NumBanks = 5
    OrientationSettings = {0, 2}
    FlipSettings = {FALSE, TRUE}
    MaxFrames = 2
INVARIANTS
    SlotMatchesFrame
    DirectNeverMisoriented
PROPERTIES
    PendingDelivered
    DirectRecovers
