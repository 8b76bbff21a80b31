------------------------------ MODULE TagTable ------------------------------
(***************************************************************************)
(* What the tag database promises: one entry for each file, with the tags  *)
(* of one text.  Looking at a file replaces its entry if the file is later *)
(* than what is kept of it; a page replaces the tags and nothing else; a   *)
(* deletion takes the entries it names, or, when it is cut short, their    *)
(* tags only; nothing touches the entry of a file it does not name.  Of a  *)
(* search everything since the last commit may be lost.                    *)
(***************************************************************************)
EXTENDS Naturals

CONSTANTS
    PhpFiles, OtherFiles, NewFiles, NoEntry, Sources, NoSource, FilesOf, Directories,
    DirRenames, MaxText

VARIABLES
    fileText,       \* the text on disk, 0 if there is no file
    written,        \* the last text that was written or typed
    table,          \* the entries, with those not committed yet
    kept            \* the entries that were committed

tableVars == <<fileText, written, table, kept>>

TableFiles == PhpFiles \cup OtherFiles
TablePaths == TableFiles \cup NewFiles

TableInit ==
    /\ fileText \in [TableFiles -> {0, 1}]
    /\ written = 1
    /\ table = [p \in TablePaths |-> NoEntry] /\ kept = table

Both == kept' = table'
TextsStay == UNCHANGED <<fileText, written>>
NewText == written < MaxText /\ written' = written + 1

Write(f) == NewText /\ fileText' = [fileText EXCEPT ![f] = written'] /\ UNCHANGED <<table, kept>>
Remove(f) == fileText' = [fileText EXCEPT ![f] = 0] /\ UNCHANGED <<written, table, kept>>

\* A file that is gone when it is looked at has an entry without tags.
EntryFor(f, s) ==
    [source |-> s, last_modified |-> IF fileText[f] = 0 THEN written ELSE fileText[f],
     is_parsed |-> f \in PhpFiles, is_new |-> FALSE,
     tags |-> IF f \in PhpFiles /\ fileText[f] # 0 THEN {fileText[f]} ELSE {}]

IsCurrent(f, s) ==
    /\ table[f] # NoEntry
    /\ \/ f \in OtherFiles
       \/ /\ table[f].is_parsed /\ ~table[f].is_new
          /\ EntryFor(f, s).last_modified <= table[f].last_modified

Look(f, s) ==
    /\ f \in FilesOf[s]
    /\ ~IsCurrent(f, s)
    /\ table' = [table EXCEPT ![f] = EntryFor(f, s)]
    /\ Both \/ UNCHANGED kept
    /\ TextsStay

Commit == kept' = table /\ UNCHANGED table /\ TextsStay
Lose == table' = kept /\ UNCHANGED kept /\ TextsStay

StorePage(p, s) ==
    /\ table = kept
    /\ NewText
    /\ \/ table' = [table EXCEPT ![p] =
              IF @ # NoEntry THEN [@ EXCEPT !.tags = {written'}]
              ELSE [source |-> s, last_modified |-> written', is_parsed |-> FALSE,
                    is_new |-> p \in NewFiles, tags |-> {written'}]]
       \/ UNCHANGED table
    /\ Both /\ UNCHANGED fileText

\* Deletions, in full or of tags only.
Emptied(e, inFull) == IF inFull \/ e = NoEntry THEN NoEntry ELSE [e EXCEPT !.tags = {}]

Discard(named, inFull) ==
    /\ table = kept
    /\ table' = [p \in TablePaths |->
           IF p \in named THEN Emptied(table[p], inFull) ELSE table[p]]
    /\ Both /\ TextsStay

BelowSource(s) == {p \in TablePaths : table[p] # NoEntry /\ table[p].source = s}

\* Entries move to other names, all of them or none.
Move(m) ==
    /\ table = kept
    /\ \A p \in DOMAIN m : table[p] # NoEntry => table[m[p]] = NoEntry
    /\ table' = [p \in TablePaths |->
           IF \E q \in DOMAIN m : m[q] = p /\ table[q] # NoEntry
           THEN table[CHOOSE q \in DOMAIN m : m[q] = p]
           ELSE IF p \in DOMAIN m THEN NoEntry ELSE table[p]]
    /\ Both /\ TextsStay

TableNext ==
    \/ \E f \in TableFiles : Write(f) \/ Remove(f)
    \/ \E s \in Sources, f \in TableFiles : Look(f, s)
    \/ Commit \/ Lose
    \/ \E p \in TablePaths, s \in Sources \cup {NoSource} : StorePage(p, s)
    \/ \E inFull \in BOOLEAN :
          \/ \E p \in TablePaths : Discard({p}, inFull)
          \/ \E dir \in Directories : Discard(dir, inFull)
          \/ \E s \in Sources : Discard(BelowSource(s), inFull)
    \/ Discard(TablePaths, TRUE)
    \/ \E f, g \in TableFiles : f # g /\ Move([p \in {f} |-> g])
    \/ \E m \in DirRenames : Move(m)

TableSpec == TableInit /\ [][TableNext]_tableVars
=============================================================================
