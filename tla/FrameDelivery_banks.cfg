\* Bank ownership and frame content: enough frames to own all five banks.
SPECIFICATION Spec
CONSTANTS
    NumBanks = 5
    OrientationSettings = {0}
    FlipSettings = {FALSE}
    MaxFrames = 5
INVARIANTS
    FramesInOrder
    HistoryComplete
    OnlyThisTitle
PROPERTIES
    VisibleBankUntouched
