SPECIFICATION Spec
CONSTANTS
    NumFiles = 2
    InDir = {2}
    MaxWrites = 3
    MaxOpens = 1
    PageFiles = {f, g}
    MaxNotebooks = 2
    MaxControls = 2
    MaxEdits = 1
    WritesMayFail = TRUE
    Entries = {x, y}
    MaxEntries = 4
    SingleDigits = 3
    NameRank <- RankOfName
    DefaultBrowsers <- OneBrowser
    NumDirs = 3
    NumDirFiles = 2
    MaxSources = 2
    SearchFiles = {1, 2}
    MaxTextChanges = 1
    HitLimits = {1, 5}
    ListedDirs = {d, e}
    Names = {n, o}
    MaxVisits = 2
    MaxUserChanges = 1
    MaxDiskChanges = 1
INVARIANTS
    FilesTypeOK TagsFollowDisk CleanPagesShowTheirFile
    EveryFileIsWalkedInItsSources SearchReachesAll RowsFollowDisk
PROPERTIES
    ChangesArePublished TextIsKept StoredEntriesComeBack
CHECK_DEADLOCK FALSE
