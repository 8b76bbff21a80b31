SPECIFICATION PromisesSpec
CONSTANTS
    Programs = {"AppStart", "ProjectDefinitionsUpdated", "TagCacheWipeAndIndex", "DatabaseDetection", "BuildTemplateFiles", "BuildTagDetector", "BuildSqlMetaData"}
    MaxSequences = 3
    MaxRetags = 0
    ProjectsDialog = FALSE
    MayNotRestart = TRUE
    index = index
    model = model
    readme = readme
    app = app
    lib = lib
    page = page
    PhpFiles = {index, model}
    OtherFiles = {readme}
    NewFiles = {page}
    NoRow = NoRow
    Sources = {app, lib}
    NoSource = NoSource
    FilesOf <- SourceFilesOf
    Directories <- SourceDirectories
    DirRenames <- DirectoryRenames
    UsesTraits = {1}
    HasNamespace = {1}
    CommitEvery = 2
    MaxText = 2
    MaxId = 3
    MaxOperations = 3
    MaxLines = 2
    MaxAdds = 2
    MaxMarkers = 2
    MaxCommands = 1
    MaxScripts = 1
    MaxSqlPanels = 2
    MaxQueries = 2
    MaxStatements = 2
INVARIANTS
    TablesBelongTogether EngineKnowsTheList PanelsShowTheirQuery
PROPERTIES
    KeepsPromise ActsAsOneTable
CHECK_DEADLOCK FALSE
