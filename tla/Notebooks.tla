----------------------------- MODULE Notebooks -----------------------------
(***************************************************************************)
(* The editor's pages: NotebookClass opens, saves, moves and closes them,  *)
(* CodeControlClass writes their text to files, FileOperationsViewClass    *)
(* asks what to save before the application ends.                          *)
(*                                                                         *)
(* A page is its code control, a number.  A text is a number too; 0 stands *)
(* for a file that does not exist.  The page and the notebook in front,    *)
(* which the menu acts on, may be any: the user changes them at will.  The *)
(* user has the right to write each file; the save with other rights by a  *)
(* process of its own, and the refusal to end while a file needs it, are   *)
(* left out.                                                               *)
(***************************************************************************)
EXTENDS Naturals, Sequences, FiniteSets, SequencesExt

CONSTANTS
    PageFiles,      \* the files on disk
    MaxNotebooks,   \* the visible notebooks
    MaxControls,    \* bound on the pages open at a time
    MaxEdits,       \* bound on the edits
    WritesMayFail   \* a file may turn out not to be writable

ASSUME NotebooksAssumption ==
    /\ IsFiniteSet(PageFiles)
    /\ {MaxNotebooks, MaxControls, MaxEdits} \subseteq Nat
    /\ WritesMayFail \in BOOLEAN

Notebook == 1 .. MaxNotebooks
Control == 1 .. MaxControls
NoFile == "no file"
Text == 0 .. MaxEdits + 1

VARIABLES
    pages,          \* the pages of each notebook, by their tabs
    control,        \* of each page: its file, its text, whether it is modified
    pageFile,       \* the text of each file
    edits,
    closingAll,     \* the notebooks whose CloseAllPages is under way
    exiting,        \* the application ends
    chosen,         \* the pages chosen in the last dialog of modified pages
    declined,       \* pages whose text the user did not want to save
    elsewhere,      \* pages whose file may differ without their being modified
    named           \* pages that were given a file by saving them

docs == <<control, pageFile, elsewhere, named>>
notebookVars == <<pages, control, pageFile, edits, closingAll, exiting,
                  chosen, declined, elsewhere, named>>

Blank == [file |-> NoFile, text |-> 1, modified |-> FALSE]
Open == UNION {Range(pages[n]) : n \in Notebook}

NotebooksTypeOK ==
    /\ pages \in [Notebook -> Seq(Control)]
    /\ control \in [Control -> [file : PageFiles \cup {NoFile}, text : Text, modified : BOOLEAN]]
    /\ pageFile \in [PageFiles -> Text]
    /\ edits \in 0 .. MaxEdits
    /\ closingAll \subseteq Notebook
    /\ exiting \in BOOLEAN
    /\ chosen \cup declined \cup elsewhere \cup named \subseteq Control
    \* no page is in two places
    /\ \A n, m \in Notebook : \A i \in DOMAIN pages[n], j \in DOMAIN pages[m] :
           pages[n][i] = pages[m][j] => n = m /\ i = j

NotebooksInit ==
    /\ pages = [n \in Notebook |-> << >>]
    /\ control = [c \in Control |-> Blank]
    /\ pageFile \in [PageFiles -> {0, 1}]
    /\ edits = 0
    /\ closingAll = {} /\ exiting = FALSE
    /\ chosen = {} /\ declined = {} /\ elsewhere = {} /\ named = {}

-----------------------------------------------------------------------------
(***************************************************************************)
(* Opening.                                                                *)
(***************************************************************************)

\* What was declined is remembered until the next command.
MayAct == closingAll = {} /\ ~exiting
Command == MayAct /\ declined' = {}

FindCodeControl(n, f) == {c \in Range(pages[n]) : control[c].file = f}

NewControl == CHOOSE c \in Control \ Open : TRUE

AddPage(n, c) ==
    /\ Open # Control
    /\ control' = [control EXCEPT ![NewControl] = c]
    /\ pages' = [pages EXCEPT ![n] = Append(@, NewControl)]
    /\ UNCHANGED <<pageFile, edits, closingAll, exiting, chosen, elsewhere, named>>

AddTriumphPage(n) == Command /\ AddPage(n, Blank)

Loads(n, f) ==
    /\ FindCodeControl(n, f) = {}
    /\ pageFile[f] # 0
    /\ AddPage(n, [file |-> f, text |-> pageFile[f], modified |-> FALSE])

\* File > Open: only the pages of the notebook itself are looked at.
LoadPage(n, f) == Command /\ Loads(n, f)

\* All notebooks are looked at, and what the last one has is what is found.
FindCodeControlAndSelect(f) == FindCodeControl(MaxNotebooks, f)

\* Everything else that opens a file.
LoadCodeControl(n, f) ==
    /\ Command
    /\ FindCodeControlAndSelect(f) = {}
    /\ Loads(n, f)

Modify(c) ==
    /\ Command
    /\ c \in Open
    /\ edits < MaxEdits
    /\ edits' = edits + 1
    /\ control' = [control EXCEPT ![c].text = edits + 2, ![c].modified = TRUE]
    /\ UNCHANGED <<pages, pageFile, closingAll, exiting, chosen, elsewhere, named>>

\* A mutant: the page stays where it was, too.
AdoptCopy(n, m, i) ==
    /\ Command
    /\ n # m /\ i \in DOMAIN pages[n]
    /\ pages' = [pages EXCEPT ![m] = Append(@, pages[n][i])]
    /\ UNCHANGED <<docs, edits, closingAll, exiting, chosen>>

Adopt(n, m, i) ==
    /\ Command
    /\ n # m /\ i \in DOMAIN pages[n]
    /\ pages' = [pages EXCEPT ![n] = RemoveAt(@, i), ![m] = Append(@, pages[n][i])]
    /\ UNCHANGED <<docs, edits, closingAll, exiting, chosen>>

\* The file of a page was deleted or renamed by someone else.
TreatAsNew(c) ==
    /\ Command
    /\ c \in Open
    /\ control[c].file # NoFile
    /\ control' = [control EXCEPT ![c].file = NoFile]
    /\ pageFile' = [pageFile EXCEPT ![control[c].file] = 0]
    /\ elsewhere' = elsewhere \cup {d \in Open : control[d].file = control[c].file}
    /\ UNCHANGED <<pages, edits, closingAll, exiting, chosen, named>>

-----------------------------------------------------------------------------
(***************************************************************************)
(* Saving.  The answer to a dialog is the path chosen for a page without a *)
(* file, or NoFile when it is cancelled; `fails` is what the disk does.    *)
(***************************************************************************)

IsPageModified(c) == control[c].modified

Docs == [control |-> control, file |-> pageFile, elsewhere |-> elsewhere, named |-> named]

AnyOutcome == [path |-> NoFile, fails |-> FALSE]
Fails == {FALSE, WritesMayFail}

Outcome(c) ==
    {AnyOutcome} \cup [path : IF control[c].file = NoFile THEN PageFiles ELSE {NoFile}, fails : Fails]

Sharing(d, c, f) == {o \in Open \ {c} : d.control[o].file = f}

\* The page c is the one of f and does not count as modified.
Titled(d, c, f) == [d.control EXCEPT ![c].file = f, ![c].modified = FALSE]

\* The text of c is written to f, whether or not it was its file before.
Written(d, c, f) ==
    [control |-> Titled(d, c, f),
     file |-> [d.file EXCEPT ![f] = d.control[c].text],
     elsewhere |-> (d.elsewhere \ {c}) \cup Sharing(d, c, f),
     named |-> IF d.control[c].file = f THEN d.named ELSE d.named \cup {c}]

Named(d, c, f) ==
    [d EXCEPT !.control = Titled(d, c, f), !.elsewhere = @ \cup {c}, !.named = @ \cup {c}]

\* A mutant: a page counts as saved whether or not its file was written.
SavedRegardless(d, c, o) ==
    LET f == d.control[c].file
    IN  IF f # NoFile
        THEN IF o.fails THEN [d EXCEPT !.control[c].modified = FALSE] ELSE Written(d, c, f)
        ELSE IF o.path = NoFile THEN d ELSE Written(d, c, o.path)

\* A page that gets its first name counts as saved even if it is not written.
SaveAndTrackFile(d, c, o) ==
    LET f == d.control[c].file
    IN  IF f # NoFile THEN IF o.fails THEN d ELSE Written(d, c, f)
        ELSE IF o.path = NoFile THEN d
        ELSE IF o.fails THEN Named(d, c, o.path) ELSE Written(d, c, o.path)

SavePage(d, c, o) == SaveAndTrackFile(d, c, o)

\* SavePage returns true.
Saved(d, c, o) == IF d.control[c].file = NoFile THEN o.path # NoFile ELSE ~o.fails

\* Of the pages cs those in n are saved, in the order of their tabs.
SaveTabs(d, n, cs, os) ==
    LET after[i \in 0 .. Len(pages[n])] ==
            IF i = 0 THEN d
            ELSE IF pages[n][i] \in cs THEN SavePage(after[i - 1], pages[n][i], os[pages[n][i]])
            ELSE after[i - 1]
    IN  after[Len(pages[n])]

SavePages(d, cs, os) ==
    LET after[n \in 0 .. MaxNotebooks] == IF n = 0 THEN d ELSE SaveTabs(after[n - 1], n, cs, os)
    IN  after[MaxNotebooks]

OutcomesOf(cs) ==
    {os \in [cs -> UNION {Outcome(c) : c \in cs}] : \A c \in cs : os[c] \in Outcome(c)}

\* What is remembered of the pages in gone is forgotten.
BecomesWithout(gone, d) ==
    /\ control' = [c \in Control |-> IF c \in gone THEN Blank ELSE d.control[c]]
    /\ pageFile' = d.file
    /\ elsewhere' = d.elsewhere \ gone
    /\ named' = d.named \ gone

Becomes(d) == BecomesWithout({}, d)

SaveCurrentPage(c) ==
    /\ Command
    /\ c \in Open /\ IsPageModified(c)
    /\ \E o \in Outcome(c) : Becomes(SavePage(Docs, c, o))
    /\ UNCHANGED <<pages, edits, closingAll, exiting, chosen>>

\* The text goes to another file; the page stays as it is.
SaveCurrentPageAsNew(c) ==
    /\ Command
    /\ c \in Open
    /\ control[c].file # NoFile
    /\ \E f \in PageFiles :
           /\ pageFile' = [pageFile EXCEPT ![f] = control[c].text]
           /\ elsewhere' = elsewhere \cup {o \in Open : control[o].file = f}
    /\ UNCHANGED <<pages, control, edits, closingAll, exiting, chosen, named>>

ModifiedPages(n) == {c \in Range(pages[n]) : IsPageModified(c)}

SaveAllModifiedPagesWithoutPrompting(n) ==
    /\ Command
    /\ ModifiedPages(n) # {}
    /\ \E os \in OutcomesOf(ModifiedPages(n)) : Becomes(SavePages(Docs, ModifiedPages(n), os))
    /\ UNCHANGED <<pages, edits, closingAll, exiting, chosen>>

\* The modified pages `offered` are offered in a dialog, and then `saves` are saved.
SaveAllModifiedPages(offered, saves) ==
    /\ \E os \in OutcomesOf(saves) : Becomes(SavePages(Docs, saves, os))
    /\ declined' = offered

-----------------------------------------------------------------------------
(***************************************************************************)
(* Closing.                                                                *)
(***************************************************************************)

\* The answer to "Save changes?" for a modified page.
Answers(c) == IF IsPageModified(c) THEN {"cancel", "no", "yes"} ELSE {"unmodified"}

Failed(c, answer, o) == answer = "yes" /\ ~Saved(Docs, c, o)

\* The user does not want the text of c, or it was tried to save it in vain.
GivenUp(c, answer, o) ==
    answer = "no" \/ Failed(c, answer, o) \/ (answer = "yes" /\ o.fails)

\* What becomes of c upon the answer.
Answered(c, answer, o) == IF answer = "yes" THEN SavePage(Docs, c, o) ELSE Docs

Asked(c, answer, o) ==
    declined' = IF GivenUp(c, answer, o) THEN declined \cup {c} ELSE declined

Stays(d) == Becomes(d) /\ UNCHANGED pages

DeletePage(n, i, d) ==
    /\ pages' = [pages EXCEPT ![n] = RemoveAt(@, i)]
    /\ BecomesWithout({pages[n][i]}, d)

\* A mutant: the page is closed whatever the answer.
CloseTabAnyway(n, i) ==
    /\ MayAct
    /\ LET c == pages[n][i] IN
       \E answer \in Answers(c), o \in Outcome(c) :
           Asked(c, answer, o) /\ DeletePage(n, i, Answered(c, answer, o))
    /\ UNCHANGED <<edits, closingAll, exiting, chosen>>

\* The button of a tab (SavePageIfModified).
CloseTab(n, i) ==
    /\ MayAct
    /\ LET c == pages[n][i] IN
       \E answer \in Answers(c), o \in Outcome(c) :
           /\ Asked(c, answer, o)
           /\ IF answer = "cancel" \/ Failed(c, answer, o)
              THEN Stays(Answered(c, answer, o))
              ELSE DeletePage(n, i, Answered(c, answer, o))
    /\ UNCHANGED <<edits, closingAll, exiting, chosen>>

\* File > Close: a page that could not be saved is closed all the same.
ClosePage(n, i) ==
    /\ MayAct
    /\ LET c == pages[n][i] IN
       \E answer \in Answers(c) \ {"cancel"}, o \in Outcome(c) :
           Asked(c, answer, o) /\ DeletePage(n, i, Answered(c, answer, o))
    /\ UNCHANGED <<edits, closingAll, exiting, chosen>>

\* Close All Tabs: the modified pages are offered for saving, and then
OnCloseAllPages(n) ==
    /\ MayAct
    /\ pages[n] # << >>
    /\ \E picked \in SUBSET ModifiedPages(n) : SaveAllModifiedPages(ModifiedPages(n), picked)
    /\ closingAll' = {n}
    /\ UNCHANGED <<pages, edits, exiting, chosen>>

\* the first page is deleted and the one that follows is asked about, which is
\* the next to be deleted whatever the answer.
CloseAllPages(n) ==
    /\ n \in closingAll
    /\ IF Len(pages[n]) = 1
       THEN DeletePage(n, 1, Docs) /\ closingAll' = {} /\ UNCHANGED declined
       ELSE LET c == pages[n][2] IN
            /\ \E answer \in Answers(c), o \in Outcome(c) :
                   Asked(c, answer, o) /\ DeletePage(n, 1, Answered(c, answer, o))
            /\ UNCHANGED closingAll
    /\ UNCHANGED <<edits, exiting, chosen>>

AllModifiedPages == UNION {ModifiedPages(n) : n \in Notebook}

\* The dialog before the end lists c before d.
ListedBefore(c, d) ==
    \E n, m \in Notebook : \E i \in DOMAIN pages[n], j \in DOMAIN pages[m] :
        pages[n][i] = c /\ pages[m][j] = d /\ (n < m \/ (n = m /\ i <= j))

ModifiedPageIndex(c) == Cardinality({d \in AllModifiedPages : ListedBefore(d, c)})

\* For the i-th modified page of all, the i-th page of its notebook is saved.
SavedAtExit(picked) ==
    UNION {{pages[n][i] : i \in DOMAIN pages[n]
                                  \cap {ModifiedPageIndex(c) : c \in picked \cap Range(pages[n])}} :
               n \in Notebook}

OnAppFrameClose ==
    /\ MayAct
    /\ \E picked \in SUBSET AllModifiedPages :
           /\ SaveAllModifiedPages(AllModifiedPages, SavedAtExit(picked))
           /\ chosen' = picked
    /\ exiting' = TRUE
    /\ UNCHANGED <<pages, edits, closingAll>>

-----------------------------------------------------------------------------
NotebooksNext ==
    \/ \E n \in Notebook : AddTriumphPage(n) \/ OnCloseAllPages(n) \/ CloseAllPages(n)
                             \/ SaveAllModifiedPagesWithoutPrompting(n)
    \/ \E n \in Notebook, f \in PageFiles : LoadPage(n, f) \/ LoadCodeControl(n, f)
    \/ \E n, m \in Notebook : \E i \in DOMAIN pages[n] : Adopt(n, m, i)
    \/ \E n \in Notebook : \E i \in DOMAIN pages[n] : CloseTab(n, i) \/ ClosePage(n, i)
    \/ \E c \in Open : \/ Modify(c) \/ TreatAsNew(c) \/ SaveCurrentPage(c)
                       \/ SaveCurrentPageAsNew(c)
    \/ OnAppFrameClose

NotebooksSpec == NotebooksInit /\ [][NotebooksNext]_notebookVars

-----------------------------------------------------------------------------
\* A page that shows a file and does not count as modified has the text of its
\* file, unless the file was written for another page or could not be written
\* when the page was first given its name.
CleanPagesShowTheirFile ==
    \A c \in Open : control[c].file # NoFile /\ ~IsPageModified(c) /\ c \notin elsewhere
                        => control[c].text = pageFile[control[c].file]

\* Unsaved text goes with its page only if the user did not want to save it or
\* tried to and could not.
TextIsKept ==
    [][\A c \in Open : c \notin Open' /\ IsPageModified(c)
                        => c \in declined' \/ control[c].text \in Range(pageFile')]_notebookVars

\* The pages chosen for saving when the application ends are saved, except for
\* those whose new name the user then does not want to give.
ChosenPagesAreSaved ==
    exiting => \A c \in chosen : control[c].file # NoFile => ~IsPageModified(c)

\* A file is shown by one page, unless a page was saved under its name.
OnePagePerFile ==
    \A c, d \in Open : control[c].file = control[d].file /\ control[c].file # NoFile
                           => c = d \/ {c, d} \cap named # {}
=============================================================================
