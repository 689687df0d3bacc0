SPECIFICATION Spec
CONSTANTS
    MaxTitles = 2
    MaxRtc = 1
    ResetsBeforeLoad = TRUE
    PromptAnswer = TRUE
    KeepsOrder = FALSE
INVARIANTS
    RunsOnlyPreparedTitle
    StartupIsForThisTitle
    AckBelongsToTitle
    LoadedSaveKept
