SPECIFICATION Spec
CONSTANTS
    CheckedFiles = {f, g}
    MaxTime = 3
    MaxPolls = 1
    Buffers = {p}
    NoBuffer = NoBuffer
    BrokenTexts = {2}
    MaxTexts = 3
    MaxJobs = 2
    MaxWipes = 1
    LintedFiles <- FilesToLint
    MaxErrors = 1
    MaxLints = 2
    MaxFileSaves = 1
    MaxCommandsRun = 3
    MaxWaiting = 2
INVARIANTS
    BackgroundTypeOK PromptsAreTrue CachesAreCurrent ProcessesAreNotLost
PROPERTIES
    ChangesAreNoticed TypedTextIsParsed LintsEnd EndedCommandsAreShown
CHECK_DEADLOCK FALSE
