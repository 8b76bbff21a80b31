SPECIFICATION LiveSpec
CONSTANTS
    Programs = {"AppStart", "ProjectDefinitionsUpdated", "TagCacheWipeAndIndex", "DatabaseDetection", "BuildTemplateFiles", "BuildTagDetector", "BuildSqlMetaData"}
    MaxSequences = 2
    MaxRetags = 2
    ProjectsDialog = TRUE
    MayNotRestart = FALSE
INVARIANTS
    TypeOK StepsHaveOneOwner CurrentStepIsLive
PROPERTY
    SequenceEnds
CHECK_DEADLOCK FALSE
