SPECIFICATION Spec
CONSTANTS
    Programs = {"AppStart", "ProjectDefinitionsUpdated", "TagCacheWipeAndIndex", "DatabaseDetection", "BuildTemplateFiles", "BuildTagDetector", "BuildSqlMetaData"}
    MaxSequences = 1
    MaxRetags = 1
    ProjectsDialog = FALSE
    MayNotRestart = FALSE
INVARIANT
    OneStepAtATime
CHECK_DEADLOCK FALSE
