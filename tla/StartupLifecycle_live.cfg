SPECIFICATION FairSpec
CONSTANTS
    MaxTitles = 1
    MaxRtc = 1
    ResetsBeforeLoad = TRUE
    PromptAnswer = TRUE
    KeepsOrder = TRUE
PROPERTIES
    StartupFinishes
