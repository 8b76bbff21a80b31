--------------------------- MODULE DirectorySearch ---------------------------
(***************************************************************************)
(* The walk through the files of the sources of the projects,              *)
(* DirectorySearchClass (search/DirectorySearchClass): the tag indexer and *)
(* the lint enumerate all the files first (PRECISE), find in files and the *)
(* readers of configurations one directory at a time (RECURSIVE).  Each    *)
(* call of Walk gives the walker one file; the walker is told when the     *)
(* walk enters and leaves a source.                                        *)
(*                                                                         *)
(* A path is <<"source", d>>, a source's directory with its trailing       *)
(* separator, <<"dir", d>>, a directory found in another, or               *)
(* <<"file", f>>.  The two stacks grow at the end.  Directories are        *)
(* numbered in the order in which the system lists them, a directory       *)
(* before what is in it; every tree can be numbered like this.             *)
(***************************************************************************)
EXTENDS Naturals, Sequences, FiniteSets, SequencesExt, NumberOrder

CONSTANTS
    NumDirs,      \* the directories are 1 .. NumDirs
    NumDirFiles,  \* the files in them, 1 .. NumDirFiles
    MaxSources    \* bound on the sources of a search

ASSUME DirectorySearchAssumption ==
    NumDirs \in Nat \ {0} /\ NumDirFiles \in Nat /\ MaxSources \in Nat \ {0}

VARIABLES
    parentDir,       \* the directory of each directory, or 0
    fileDir,         \* the directory of each file
    accepts,         \* the files that each source's wildcards accept, wherever they are
    InitSources,     \* the sources' directories
    mode,            \* "PRECISE" or "RECURSIVE", "none" before Init
    Directories,     \* the stack of directories that are left
    CurrentFiles,    \* the stack of files that are left; PRECISE: and of sources
    TotalFileCount,  \* PRECISE: the files enumerated
    HasCalledBegin, HasCalledEnd,
    begun,           \* the source that the walker was told last, or 0 once it is left
    walks            \* what the walker was given, each with the source begun then

diskVars == <<parentDir, fileDir, accepts, InitSources, mode>>
searchVars == <<diskVars, Directories, CurrentFiles, TotalFileCount, HasCalledBegin, HasCalledEnd,
                begun, walks>>

SearchDirs == 1 .. NumDirs
DirFiles == 1 .. NumDirFiles
SourcePath(d) == <<"source", d>>
SearchPaths == ({"source", "dir"} \X SearchDirs) \cup ({"file"} \X DirFiles)

\* The directories that d is in, d itself among them.
AncestorsIn(parent) == LET a[d \in SearchDirs] == {d} \cup IF parent[d] = 0 THEN {} ELSE a[parent[d]] IN a
IsUnder(f, d) == d \in AncestorsIn(parentDir)[fileDir[f]]

\* The files that some source contains: not always the source that the walk is in.
MatchesWildcards(f) == \E i \in DOMAIN InitSources : IsUnder(f, InitSources[i]) /\ f \in accepts[i]

Listed(kind, numbers) == [i \in 1 .. Cardinality(numbers) |-> <<kind, Ascending(numbers)[i]>>]
SubDirectories(d) == {c \in SearchDirs : parentDir[c] = d}
FilesOf(d) == Listed("file", {f \in DirFiles : fileDir[f] = d /\ MatchesWildcards(f)})

EnumerateAllFiles ==
    LET all[d \in SearchDirs] ==
            LET subDirs == Ascending(SubDirectories(d))
            IN  FlattenSeq([i \in DOMAIN subDirs |-> all[subDirs[i]]]) \o FilesOf(d)
    IN  all

SearchTypeOK ==
    /\ parentDir \in [SearchDirs -> 0 .. NumDirs] /\ fileDir \in [DirFiles -> SearchDirs]
    /\ InitSources \in Seq(SearchDirs) /\ Len(InitSources) <= MaxSources
    /\ accepts \in [DOMAIN InitSources -> SUBSET DirFiles]
    /\ mode \in {"none", "PRECISE", "RECURSIVE"}
    /\ Directories \in Seq(SearchPaths) /\ CurrentFiles \in Seq(SearchPaths)
    /\ TotalFileCount \in Nat
    /\ HasCalledBegin \in BOOLEAN /\ HasCalledEnd \in BOOLEAN
    /\ begun \in 0 .. NumDirs
    /\ walks \in Seq((0 .. NumDirs) \X SearchPaths)

-----------------------------------------------------------------------------
(***************************************************************************)
(* Init and Walk.                                                          *)
(***************************************************************************)

SearchInit ==
    /\ parentDir = [d \in SearchDirs |-> 0] /\ fileDir = [f \in DirFiles |-> 1]
    /\ InitSources = << >> /\ accepts = << >> /\ mode = "none"
    /\ Directories = << >> /\ CurrentFiles = << >> /\ TotalFileCount = 0
    /\ HasCalledBegin = FALSE /\ HasCalledEnd = FALSE
    /\ begun = 0 /\ walks = << >>

\* Init, of any sources that exist on any disk.  No two of them have the same
\* directory.  A source comes after its files, to be popped before them.
InitWalk ==
    /\ mode = "none"
    /\ parentDir' \in {p \in [SearchDirs -> 0 .. NumDirs] : \A d \in SearchDirs : p[d] < d}
    /\ fileDir' \in [DirFiles -> SearchDirs]
    /\ InitSources' \in {s \in SeqOf(SearchDirs, MaxSources) : s # << >> /\ IsInjective(s)}
    /\ accepts' \in [DOMAIN InitSources' -> SUBSET DirFiles]
    /\ mode' \in {"PRECISE", "RECURSIVE"}
    /\ LET enumerated == [i \in DOMAIN InitSources' |-> EnumerateAllFiles'[InitSources'[i]]]
           sources == [i \in DOMAIN InitSources' |-> SourcePath(InitSources'[i])]
       IN  IF mode' = "PRECISE"
           THEN /\ CurrentFiles' = FlattenSeq([i \in DOMAIN sources |-> Append(enumerated[i], sources[i])])
                /\ TotalFileCount' = Len(FlattenSeq(enumerated))
                /\ UNCHANGED Directories
           ELSE Directories' = sources /\ UNCHANGED <<CurrentFiles, TotalFileCount>>
    /\ UNCHANGED <<HasCalledBegin, HasCalledEnd, begun, walks>>

More == Directories # << >> \/ CurrentFiles # << >>

IsSource(path) == \E i \in DOMAIN InitSources : path = SourcePath(InitSources[i])

\* walker.EndSearch, where a source was begun, and walker.BeginSearch.
BeginSearch(path) ==
    /\ begun' = path[2]
    /\ HasCalledBegin' = TRUE /\ HasCalledEnd' = FALSE

\* A mutant: it stops at the first directory with files, before its own are pushed.
EnumerateUntilFiles ==
    /\ CurrentFiles = << >> /\ Directories # << >>
    /\ LET path == Last(Directories)
           subDirs == Listed("dir", SubDirectories(path[2]))
       IN  /\ IF IsSource(path) THEN BeginSearch(path)
                                ELSE UNCHANGED <<begun, HasCalledBegin, HasCalledEnd>>
           /\ Directories' = Front(Directories) \o IF FilesOf(path[2]) = << >> THEN subDirs ELSE << >>
           /\ CurrentFiles' = FilesOf(path[2])
    /\ UNCHANGED <<diskVars, TotalFileCount, walks>>

\* One round of its loop, which goes on until there is a file to walk.
EnumerateNextDir ==
    /\ CurrentFiles = << >> /\ Directories # << >>
    /\ LET path == Last(Directories)
           subDirs == Listed("dir", SubDirectories(path[2]))
       IN  /\ IF IsSource(path) THEN BeginSearch(path)
                                ELSE UNCHANGED <<begun, HasCalledBegin, HasCalledEnd>>
           /\ Directories' = Front(Directories) \o subDirs
           /\ CurrentFiles' = FilesOf(path[2])
    /\ UNCHANGED <<diskVars, TotalFileCount, walks>>

\* Walk, once the loop is through: the next file, or the source on top of the
\* stack and then the next entry, whatever it is.
WalkNext ==
    /\ CurrentFiles # << >>
    /\ LET path == Last(CurrentFiles)
           below == Front(CurrentFiles)
           source == IF IsSource(path) THEN path[2] ELSE begun
           walked == IF ~IsSource(path) THEN <<path>>
                     ELSE IF below = << >> THEN << >> ELSE <<Last(below)>>
           ends == HasCalledBegin' /\ (IsSource(path) \/ ~HasCalledEnd) /\ ~More'
       IN  /\ CurrentFiles' = IF IsSource(path) /\ below # << >> THEN Front(below) ELSE below
           /\ Directories' = Directories
           /\ walks' = walks \o [i \in DOMAIN walked |-> <<source, walked[i]>>]
           /\ HasCalledBegin' = (HasCalledBegin \/ IsSource(path))
           /\ HasCalledEnd' = IF IsSource(path) THEN ends ELSE HasCalledEnd \/ ends
           /\ begun' = IF ends THEN 0 ELSE source
    /\ UNCHANGED <<diskVars, TotalFileCount>>

\* The loop found no more files: the source that is begun is ended.
WalkEnds ==
    /\ ~More
    /\ HasCalledBegin /\ ~HasCalledEnd
    /\ HasCalledEnd' = TRUE /\ begun' = 0
    /\ UNCHANGED <<diskVars, Directories, CurrentFiles, TotalFileCount, HasCalledBegin, walks>>

SearchNext == InitWalk \/ EnumerateNextDir \/ WalkNext \/ WalkEnds

-----------------------------------------------------------------------------
(***************************************************************************)
(* Properties.                                                             *)
(***************************************************************************)

SearchIsOver == mode # "none" /\ ~More /\ ~(HasCalledBegin /\ ~HasCalledEnd)

\* What a complete search gives the walker: the accepted files of each source, in
\* that source.  A file of a source that lies in another is given twice.
Owed ==
    UNION {{<<InitSources[i], <<"file", f>>>> :
                f \in {g \in DirFiles : IsUnder(g, InitSources[i]) /\ MatchesWildcards(g)}} :
           i \in DOMAIN InitSources}

\* With the source entries on the stack of files, and nested sources: a walk that
\* is over gave every file once in each source it is in, gave nothing else, left
\* the last source, and was as long as the PRECISE count that the progress is
\* computed from.
WalksAreThoseOwed ==
    /\ ToSet(walks) = Owed /\ IsInjective(walks)
    /\ begun = 0
    /\ mode = "PRECISE" => TotalFileCount = Len(walks)

\* "Note that both modes will result in walking of all files."  A source that has
\* no files, after the first one, is left out: see WalkIsComplete.
EveryFileIsWalkedInItsSources ==
    (/\ SearchIsOver
     /\ mode = "RECURSIVE" \/ \A i \in 2 .. Len(InitSources) : EnumerateAllFiles[InitSources[i]] # << >>)
    => WalksAreThoseOwed

\* Not so: the entry of a source without files is followed on the stack by the
\* entry of the source before, which Walk pops as a file.  It is walked, and the
\* files of that source are walked in the wrong one.
WalkIsComplete == SearchIsOver => WalksAreThoseOwed

=============================================================================
