SPECIFICATION FlowSpec
CONSTANTS
    Runs <- MCRuns
    Cell <- MCCell
    TaskOf <- MCTaskOf
    AttemptsOf <- MCAttemptsOf
    FoldWindow = 2
    TextsOf <- MCTextsOf
    Tasks = {"a", "b", "c"}
    SizeOf <- MCSizeOf
    Budget = 3
    RerankPool = 3
    RrfK = 60
    Loto = TRUE
INVARIANTS
    NoteHasNoHole
    EveryRunKept
    NoOwnExperience
    AgreedCasesRecalled
    AnswerIsBest
    SilenceMeansCrowding
