------------------------------- MODULE TagDb -------------------------------
(***************************************************************************)
(* The tag database: TagParserClass.cpp on the tables of resources.sql.    *)
(* A file that was looked at has a row in file_items, with an id that the  *)
(* database gives it; what its text declares has rows in resources and     *)
(* trait_resources, which carry that id and the id of the source directory *)
(* the file belongs to.  A search walks the files of one source directory  *)
(* in transactions that end every so many files; the other operations      *)
(* commit each statement, and one whose statement fails, because another   *)
(* connection reads, leaves out those that follow.                         *)
(*                                                                         *)
(* A text is a number, higher for text that was written later; it stands   *)
(* for the time of the file too.  Source directories stand for their ids.  *)
(***************************************************************************)
EXTENDS Naturals, Sequences, FiniteSets

CONSTANTS
    PhpFiles, OtherFiles,   \* paths, by the file type filters they match
    NewFiles,       \* identifiers of pages that have no file
    NoRow,
    Sources, NoSource,
    FilesOf,        \* the files below each source directory
    Directories,    \* the sets of files that are in directories
    DirRenames,     \* functions from the files of a directory to their later names
    UsesTraits, HasNamespace,   \* texts with a class that uses a trait; with a namespace
    CommitEvery,    \* 200 in the code
    MaxText, MaxId, \* bounds on the texts and the ids
    MaxOperations   \* bound on the actions that use the database

Files == PhpFiles \cup OtherFiles
TaggedPaths == Files \cup NewFiles
Texts == 1 .. MaxText
FileIds == 1 .. MaxId

SourceIds == Sources \cup {NoSource}
FileRows ==
    [id : FileIds, source : SourceIds, last_modified : Texts, is_parsed : BOOLEAN, is_new : BOOLEAN]
TagRows == [id : FileIds, source : SourceIds, text : Texts]
NamespaceRows == [id : FileIds, source : SourceIds]

\* What a file has in all of the tables.
Entries ==
    [source : SourceIds, last_modified : Texts, is_parsed : BOOLEAN, is_new : BOOLEAN,
     tags : SUBSET Texts]

ASSUME TagDbAssumption ==
    /\ PhpFiles \cap OtherFiles = {} /\ NewFiles \cap Files = {}
    /\ NoSource \notin Sources /\ NoRow \notin FileRows \cup Entries
    /\ FilesOf \in [Sources -> SUBSET Files]
    /\ Directories \subseteq SUBSET Files
    /\ \A m \in DirRenames :
          /\ DOMAIN m \subseteq Files
          /\ \A f \in DOMAIN m : m[f] \in Files \ DOMAIN m
          /\ \A f, g \in DOMAIN m : m[f] = m[g] => f = g
    /\ UsesTraits \subseteq Texts /\ HasNamespace \subseteq Texts
    /\ CommitEvery \in Nat \ {0} /\ MaxText \in Nat \ {0} /\ MaxId \in Nat
    /\ MaxOperations \in Nat

VARIABLES
    fileText,       \* the text on disk, 0 if there is no file
    written,        \* the last text that was written or typed
    db,             \* the tables as the pool's connection sees them
    committed,      \* the tables as other connections see them
    search,         \* the TagParserClass of a search
    operations,     \* the actions so far
    torn            \* a wipe deleted file_items and no more

tagDbVars == <<fileText, written, db, committed, search, operations, torn>>

\* file_items is a function because full_path has a unique index; the rows of
\* resources for namespaces are kept apart.
Tables ==
    [sources : SUBSET SourceIds, file_items : [TaggedPaths -> FileRows \cup {NoRow}],
     resources : SUBSET TagRows, namespaces : SUBSET NamespaceRows,
     trait_resources : SUBSET TagRows]

NoSearch == [source |-> NoSource, parsed |-> 0, read |-> FALSE,
             namespace |-> FALSE, traits |-> {}]
Searches ==
    [source : Sources, parsed : 0 .. CommitEvery - 1, read : BOOLEAN,
     namespace : BOOLEAN, traits : SUBSET UsesTraits]

TagDbTypeOK ==
    /\ fileText \in [Files -> 0 .. MaxText]
    /\ written \in Texts
    /\ db \in Tables /\ committed \in Tables
    /\ search \in Searches \cup {NoSearch}
    /\ operations \in 0 .. MaxOperations
    /\ torn \in BOOLEAN

EmptyTables ==
    [sources |-> {}, file_items |-> [p \in TaggedPaths |-> NoRow], resources |-> {},
     namespaces |-> {}, trait_resources |-> {}]

TagDbInit ==
    /\ fileText \in [Files -> {0, 1}]
    /\ written = 1
    /\ db = EmptyTables /\ committed = EmptyTables
    /\ search = NoSearch
    /\ operations = 0
    /\ torn = FALSE

Searching == search # NoSearch

\* The pool has one thread; what is begun after a search waits for its end.
Begins == operations < MaxOperations /\ operations' = operations + 1
Operation == ~Searching /\ Begins

HasRow(d, p) == d.file_items[p] # NoRow

\* SQLite gives a row the number after the highest in use.
IsNextId(d, id) ==
    /\ \A p \in TaggedPaths : HasRow(d, p) => d.file_items[p].id < id
    /\ id # 1 => \E p \in TaggedPaths : HasRow(d, p) /\ d.file_items[p].id = id - 1

\* The rows of some files or source directories leave the tables.
Delete(d, ids, srcs, tables) ==
    LET Goes(row) == row.id \in ids \/ row.source \in srcs IN
    [sources |-> IF "sources" \in tables THEN d.sources \ srcs ELSE d.sources,
     file_items |-> [p \in TaggedPaths |->
         IF "file_items" \in tables /\ HasRow(d, p) /\ Goes(d.file_items[p])
         THEN NoRow ELSE d.file_items[p]],
     resources |-> {t \in d.resources : ~("resources" \in tables /\ Goes(t))},
     namespaces |-> {n \in d.namespaces : ~("resources" \in tables /\ Goes(n))},
     trait_resources |-> {t \in d.trait_resources : ~("trait_resources" \in tables /\ Goes(t))}]

PersistFileTag(d, p, row) ==
    [d EXCEPT !.file_items[p] = row]

PersistSource(d, s) == [d EXCEPT !.sources = @ \cup {s}]

\* IsNewNamespace: neither in the table nor put there earlier in the search.
NewNamespace(d, text, seen) == text \in HasNamespace /\ d.namespaces = {} /\ ~seen

\* What the parser finds in a text, and then the traits found in the search so far.
PersistTags(d, id, s, text, seen, traits) ==
    [d EXCEPT
        !.resources = @ \cup {[id |-> id, source |-> s, text |-> text]},
        !.namespaces = IF NewNamespace(d, text, seen)
                       THEN @ \cup {[id |-> id, source |-> s]} ELSE @,
        !.trait_resources = @ \cup {[id |-> id, source |-> s, text |-> t] : t \in traits}]

TraitsIn(text) == {text} \cap UsesTraits

-----------------------------------------------------------------------------
(***************************************************************************)
(* The files.                                                              *)
(***************************************************************************)

NewText == written < MaxText /\ written' = written + 1

WriteText(f) ==
    /\ NewText
    /\ fileText' = [fileText EXCEPT ![f] = written']
    /\ UNCHANGED <<db, committed, search, operations, torn>>

DeleteText(f) ==
    /\ fileText[f] # 0
    /\ fileText' = [fileText EXCEPT ![f] = 0]
    /\ UNCHANGED <<written, db, committed, search, operations, torn>>

-----------------------------------------------------------------------------
(***************************************************************************)
(* A search of a source directory, which the pool's thread runs.           *)
(***************************************************************************)

\* The source is stored before the transaction begins.
BeginSearch(s) ==
    /\ Operation
    /\ db' = PersistSource(db, s)
    /\ committed' = PersistSource(committed, s)
    /\ search' = [NoSearch EXCEPT !.source = s]
    /\ UNCHANGED <<fileText, written, torn>>

\* The time of a file that is gone is that of now.
LastModified(f) == IF fileText[f] = 0 THEN written ELSE fileText[f]

NeedsToBeParsed(row, time) == row.is_new \/ ~row.is_parsed \/ row.last_modified < time

\* A file with no row gets one; a PHP file is parsed unless its row says that it was.
IsLookedAt(f) ==
    IF HasRow(db, f)
    THEN f \in PhpFiles /\ NeedsToBeParsed(db.file_items[f], LastModified(f))
    ELSE TRUE

\* Mutant: only the row of the file is removed.
KeptInPart(f) ==
    IF HasRow(db, f)
    THEN Delete(db, {db.file_items[f].id}, {}, {"file_items"}) ELSE db

Replaced(f) ==
    IF HasRow(db, f)
    THEN Delete(db, {db.file_items[f].id}, {}, {"resources", "file_items"}) ELSE db

IsRead(f) == f \in PhpFiles /\ fileText[f] # 0

\* The tables when a file was looked at, under the id that it is given.
BuildResourceCache(f, id) ==
    LET row == [id |-> id, source |-> search.source, last_modified |-> LastModified(f),
                is_parsed |-> f \in PhpFiles, is_new |-> FALSE]
        added == PersistFileTag(Replaced(f), f, row)
    IN IF IsRead(f)
       THEN PersistTags(added, id, search.source, fileText[f], search.namespace,
                        search.traits \cup TraitsIn(fileText[f]))
       ELSE added

SearchAfter(f) ==
    [search EXCEPT
        !.parsed = IF f \in PhpFiles THEN (@ + 1) % CommitEvery ELSE @,
        !.read = TRUE,
        !.namespace = @ \/ (IsRead(f) /\ NewNamespace(Replaced(f), fileText[f], @)),
        !.traits = IF IsRead(f) THEN @ \cup TraitsIn(fileText[f]) ELSE @]

IsFull(f) == f \in PhpFiles /\ search.parsed + 1 = CommitEvery

CanWalk(f) == Searching /\ f \in FilesOf[search.source]

Walk(f) ==
    /\ CanWalk(f) /\ IsLookedAt(f) /\ ~IsFull(f)
    /\ \E id \in FileIds : IsNextId(Replaced(f), id) /\ db' = BuildResourceCache(f, id)
    /\ search' = SearchAfter(f)
    /\ UNCHANGED <<fileText, written, committed, operations, torn>>

\* The file is the last of its transaction.  A commit that fails loses all of it.
WalkAndCommit(f) ==
    /\ CanWalk(f) /\ IsLookedAt(f) /\ IsFull(f)
    /\ \E id \in FileIds :
          /\ IsNextId(Replaced(f), id)
          /\ \/ db' = BuildResourceCache(f, id) /\ committed' = db'
             \/ db' = committed /\ UNCHANGED committed
    /\ search' = [SearchAfter(f) EXCEPT !.read = FALSE]
    /\ UNCHANGED <<fileText, written, operations, torn>>

WalkPast(f) ==
    /\ CanWalk(f) /\ ~IsLookedAt(f)
    /\ search' = [search EXCEPT !.read = TRUE]
    /\ UNCHANGED <<fileText, written, db, committed, operations, torn>>

EndSearch ==
    /\ Searching
    /\ \/ committed' = db /\ UNCHANGED db
       \/ db' = committed /\ UNCHANGED committed
    /\ search' = NoSearch
    /\ UNCHANGED <<fileText, written, operations, torn>>

\* The action was cancelled, or the program ends: no EndSearch, and Close rolls back.
Close ==
    /\ Searching
    /\ db' = committed
    /\ search' = NoSearch
    /\ UNCHANGED <<fileText, written, committed, operations, torn>>

-----------------------------------------------------------------------------
(***************************************************************************)
(* The text of a page.  What was kept of the file stays, its time too, but *)
(* its tags are replaced, under the source that the file has.              *)
(***************************************************************************)

SourceOfPage(p, s) ==
    IF \E x \in Sources : p \in FilesOf[x] THEN s \in Sources /\ p \in FilesOf[s] ELSE s = NoSource

\* Mutant: CurrentSourceId stays that of the directory that was given.
StoredUnderGivenSource(p, s, id) ==
    LET d == PersistSource(db, s)
        row == IF HasRow(d, p) THEN d.file_items[p]
               ELSE [id |-> id, source |-> s, last_modified |-> written',
                     is_parsed |-> FALSE, is_new |-> p \in NewFiles]
        removed == IF HasRow(d, p) THEN Delete(d, {row.id}, {}, {"resources"})
                   ELSE PersistFileTag(d, p, row)
    IN PersistTags(removed, row.id, s, written', FALSE, TraitsIn(written'))

BuildResourceCacheForFile(p, s, id) ==
    LET d == PersistSource(db, s)
        row == IF HasRow(d, p) THEN d.file_items[p]
               ELSE [id |-> id, source |-> s, last_modified |-> written',
                     is_parsed |-> FALSE, is_new |-> p \in NewFiles]
        removed == IF HasRow(d, p) THEN Delete(d, {row.id}, {}, {"resources"})
                   ELSE PersistFileTag(d, p, row)
    IN PersistTags(removed, row.id, row.source, written', FALSE, TraitsIn(written'))

TagPage(p, s) ==
    /\ Operation
    /\ NewText
    /\ SourceOfPage(p, s)
    /\ \/ \E id \in FileIds :
             /\ ~HasRow(db, p) => IsNextId(db, id)
             /\ db' = BuildResourceCacheForFile(p, s, id) /\ committed' = db'
       \/ UNCHANGED <<db, committed>>      \* the commit failed
    /\ UNCHANGED <<fileText, search, torn>>

-----------------------------------------------------------------------------
(***************************************************************************)
(* Deletions: the first n of their statements are carried out.             *)
(***************************************************************************)

FirstOf(statements, n) == {statements[i] : i \in 1 .. n}

DeleteIn(ids, srcs, tables) ==
    /\ db' = Delete(db, ids, srcs, tables)
    /\ committed' = Delete(committed, ids, srcs, tables)

RowIds(ps) == {db.file_items[p].id : p \in {q \in ps : HasRow(db, q)}}

\* A page that has no file deletes its tags from another thread when it is closed; it is
\* refused as long as a search has read in its transaction.
DeleteFromFile(p, n) ==
    /\ Begins
    /\ Searching => p \in NewFiles /\ ~search.read
    /\ DeleteIn(RowIds({p}), {}, FirstOf(<<"resources", "file_items">>, n))
    /\ UNCHANGED <<fileText, written, search, torn>>

DeleteDirectories(dir, n) ==
    /\ Operation
    /\ DeleteIn(RowIds(dir), {}, FirstOf(<<"resources", "trait_resources", "file_items">>, n))
    /\ UNCHANGED <<fileText, written, search, torn>>

DeleteSource(s, n) ==
    /\ Operation
    /\ s \in db.sources
    /\ DeleteIn({}, {s},
                FirstOf(<<"resources", "trait_resources", "file_items", "sources">>, n))
    /\ UNCHANGED <<fileText, written, search, torn>>

\* Ids are given again when the files are gone, to files that then have the tags of others.
WipeAll(n) ==
    /\ Operation
    /\ DeleteIn({}, SourceIds,
                FirstOf(<<"file_items", "resources", "trait_resources", "sources">>, n))
    /\ torn' = (n = 1)
    /\ UNCHANGED <<fileText, written, search>>

-----------------------------------------------------------------------------
\* The unique index refuses a path that is there, and then nothing is renamed.
Rename(d, m) ==
    IF \E p \in DOMAIN m : HasRow(d, p) /\ HasRow(d, m[p]) THEN d
    ELSE [d EXCEPT !.file_items =
             [p \in TaggedPaths |->
                 IF \E q \in DOMAIN m : m[q] = p /\ HasRow(d, q)
                 THEN @[CHOOSE q \in DOMAIN m : m[q] = p]
                 ELSE IF p \in DOMAIN m THEN NoRow ELSE @[p]]]

RenameIn(m) ==
    /\ Operation
    /\ db' = Rename(db, m) /\ committed' = Rename(committed, m)
    /\ UNCHANGED <<fileText, written, search, torn>>

\* Of a file that is not on disk any more.
RenameFile(f, g) ==
    /\ f # g /\ fileText[f] = 0
    /\ RenameIn([p \in {f} |-> g])

RenameDir(m) == RenameIn(m)

-----------------------------------------------------------------------------
TagDbNext ==
    \/ \E f \in Files : WriteText(f) \/ DeleteText(f)
    \/ \E s \in Sources : BeginSearch(s)
    \/ \E f \in Files : Walk(f) \/ WalkAndCommit(f) \/ WalkPast(f)
    \/ EndSearch \/ Close
    \/ \E p \in TaggedPaths, s \in SourceIds : TagPage(p, s)
    \/ \E p \in TaggedPaths, n \in 1 .. 2 : DeleteFromFile(p, n)
    \/ \E dir \in Directories, n \in 1 .. 3 : DeleteDirectories(dir, n)
    \/ \E s \in Sources, n \in 1 .. 4 : DeleteSource(s, n) \/ WipeAll(n)
    \/ \E f, g \in Files : RenameFile(f, g)
    \/ \E m \in DirRenames : RenameDir(m)

TagDbSpec == TagDbInit /\ [][TagDbNext]_tagDbVars

-----------------------------------------------------------------------------
(***************************************************************************)
(* Properties.                                                             *)
(***************************************************************************)

IdsAreUnique(d) ==
    \A p, q \in TaggedPaths :
        HasRow(d, p) /\ HasRow(d, q) /\ d.file_items[p].id = d.file_items[q].id => p = q

SourcesAreKept(d) == \A p \in TaggedPaths : HasRow(d, p) => d.file_items[p].source \in d.sources

IsOfFile(d, row) ==
    \E p \in TaggedPaths :
        HasRow(d, p) /\ d.file_items[p].id = row.id /\ d.file_items[p].source = row.source

TagsHaveTheirFile(d) == \A t \in d.resources \cup d.namespaces : IsOfFile(d, t)
TagsAreOfOneText(d) == \A t, u \in d.resources : t.id = u.id => t = u
NamespacesAreNotRepeated(d) == \A n, o \in d.namespaces : n = o
TraitsAreKept(d) == \A t \in d.resources : t.text \in UsesTraits => t \in d.trait_resources

WholeTables(d) ==
    /\ IdsAreUnique(d) /\ SourcesAreKept(d) /\ NamespacesAreNotRepeated(d)
    /\ TraitsAreKept(d)
    /\ ~torn => TagsHaveTheirFile(d) /\ TagsAreOfOneText(d)

\* The three tables belong together, for readers too and whatever was cut short except a
\* wipe: every tag is of a file, under the file's source directory, so that deleting by
\* file or by source reaches it; a file has the tags of one text; the traits of a text
\* that has tags can be found; a namespace has one tag.
TablesBelongTogether == WholeTables(db) /\ WholeTables(committed)

\* The tables as one entry for each file.
EntriesOf(d) ==
    [p \in TaggedPaths |->
        IF HasRow(d, p)
        THEN LET row == d.file_items[p] IN
             [source |-> row.source, last_modified |-> row.last_modified,
              is_parsed |-> row.is_parsed, is_new |-> row.is_new,
              tags |-> {t.text : t \in {u \in d.resources : u.id = row.id}}]
        ELSE NoRow]

Table == INSTANCE TagTable WITH
    NoEntry <- NoRow, table <- EntriesOf(db), kept <- EntriesOf(committed)

\* The three tables, with their ids, transactions and caches, do what one table with an
\* entry for each file would: no file has the tags of another file or of an earlier
\* text, and no operation changes the tags of a file it does not name.  After a wipe that
\* deleted file_items only, nothing is promised until the next that is complete.
ActsAsOneTable ==
    Table!TableInit /\ [][Table!TableNext \/ torn']_(Table!tableVars)
=============================================================================
