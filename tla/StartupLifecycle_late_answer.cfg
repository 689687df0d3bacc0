SPECIFICATION Spec
CONSTANTS
    MaxTitles = 2
    MaxRtc = 1
    ResetsBeforeLoad = TRUE
    PromptAnswer = FALSE
    KeepsOrder = TRUE
INVARIANT AckBelongsToTitle
