---------------------------- MODULE WorkingCache ----------------------------
(***************************************************************************)
(* The symbol tables and tags of the files being edited.  TagViewClass     *)
(* hands the text of a page to a WorkingCacheBuilderClass when the page is *)
(* opened, reverted, or was typed in and a timer expires; the builder runs *)
(* on the pool for the tag database, which has one thread, stores the tags *)
(* of the text and posts a symbol table, which TagCacheClass keeps.        *)
(* Closing a page takes the symbol table away and has the file tagged from *)
(* disk again.  A sequence may index everything on the same pool.          *)
(*                                                                         *)
(* A text is a number, higher for text that was typed later; it stands for *)
(* the time of the file too when it is saved.  Files belong to a project.  *)
(***************************************************************************)
EXTENDS Naturals, Sequences, FiniteSets

CONSTANTS
    Buffers,        \* identifiers of pages, each used once
    NoBuffer,
    BrokenTexts,    \* texts with a syntax error
    MaxTexts,       \* bound on the texts of a page
    MaxJobs,        \* bound on the actions in the pool
    MaxWipes        \* bound on the wipes of the tag database

ASSUME CacheAssumption ==
    /\ NoBuffer \notin Buffers
    /\ BrokenTexts \subseteq Nat \ {1}
    /\ MaxTexts \in Nat \ {0} /\ MaxJobs \in Nat /\ MaxWipes \in Nat

VARIABLES
    buffer,         \* whether a page is there, and has a file
    text, newest,   \* its text, and the last that was typed in it
    saved,          \* the text on disk, 0 if there is none
    touched,        \* pages with IsTouched
    shown,          \* the current page
    reparseTimer,   \* Timer runs
    jobs,           \* the pool's actions; the first may have begun
    notices,        \* events posted by the pool
    caches,         \* TagCacheClass::WorkingCaches
    rows,           \* the tag database
    indexing,       \* a sequence runs
    wipes,
    handed,         \* the text without error that was last given to a builder
    bereft,         \* pages whose builder was dropped or whose cache was taken away
    strays          \* pages that went without CLOSED, or while a builder was under way

cacheVars == <<buffer, text, newest, saved, touched, shown, reparseTimer, jobs, notices, caches,
               rows, indexing, wipes, handed, bereft, strays>>
pageVars == <<buffer, text, newest, saved, touched, shown>>
ghosts == <<handed, bereft, strays>>

\* Tags are kept under the identifier of a new page and the path of a file.
Names == Buffers \X {"identifier", "path"}
TextNumbers == 0 .. MaxTexts

Jobs ==
    [kind : {"build"}, begun : BOOLEAN, done : BOOLEAN, buffer : Buffers, text : TextNumbers,
     isNew : BOOLEAN, doParseTags : BOOLEAN]
    \cup [kind : {"tag"}, begun : BOOLEAN, done : BOOLEAN, buffer : Buffers]
    \cup [kind : {"index"}, begun : BOOLEAN, done : BOOLEAN]

Notices ==
    [kind : {"cache"}, buffer : Buffers, text : TextNumbers]
    \cup [kind : {"complete"}, buffer : Buffers] \cup [kind : {"sequence"}]

CacheTypeOK ==
    /\ buffer \in [Buffers -> {"none", "new", "file", "gone"}]
    /\ {text, newest, saved, handed} \subseteq [Buffers -> TextNumbers]
    /\ shown \in {b \in Buffers : buffer[b] \in {"new", "file"}} \cup {NoBuffer}
    /\ reparseTimer \in BOOLEAN /\ indexing \in BOOLEAN
    /\ jobs \in Seq(Jobs) /\ Len(jobs) <= MaxJobs
    /\ \A i \in DOMAIN jobs : (jobs[i].begun => i = 1) /\ (jobs[i].done => jobs[i].begun)
    /\ notices \in Seq(Notices)
    /\ caches \in UNION {[bs -> TextNumbers] : bs \in SUBSET Buffers}
    /\ rows \in [Names -> [tags : TextNumbers, time : TextNumbers]]
    /\ wipes \in 0 .. MaxWipes
    /\ touched \cup bereft \cup strays \subseteq Buffers

IsOpenBuffer(b) == buffer[b] \in {"new", "file"}
NoTags == [tags |-> 0, time |-> 0]

\* Some files were indexed before they are opened.
CacheInit ==
    /\ buffer = [b \in Buffers |-> "none"]
    /\ text = [b \in Buffers |-> 0] /\ newest = text /\ handed = text
    /\ saved \in [Buffers -> {0, 1}]
    /\ rows \in {r \in [Names -> {NoTags, [tags |-> 1, time |-> 1]}] :
                    \A b \in Buffers : /\ r[<<b, "identifier">>] = NoTags
                                       /\ saved[b] = 0 => r[<<b, "path">>] = NoTags}
    /\ touched = {} /\ shown = NoBuffer /\ bereft = {} /\ strays = {}
    /\ reparseTimer = TRUE /\ indexing = FALSE
    /\ jobs = << >> /\ notices = << >> /\ caches = << >>
    /\ wipes = 0

-----------------------------------------------------------------------------
Builder(b, parse) ==
    [kind |-> "build", begun |-> FALSE, done |-> FALSE, buffer |-> b, text |-> text'[b],
     isNew |-> buffer'[b] = "new", doParseTags |-> parse]

Tagger(b) == [kind |-> "tag", begun |-> FALSE, done |-> FALSE, buffer |-> b]
Indexer == [kind |-> "index", begun |-> FALSE, done |-> FALSE]

QueueJob(job) ==
    /\ Len(jobs) < MaxJobs
    /\ jobs' = Append(jobs, job)

\* A builder gets the text of a page; the timer waits for it.
HandToBuilder(b, parse) ==
    /\ reparseTimer' = FALSE
    /\ QueueJob(Builder(b, parse))
    /\ handed' = [handed EXCEPT ![b] = IF text'[b] \in BrokenTexts THEN @ ELSE text'[b]]
    /\ bereft' = IF text'[b] \in BrokenTexts THEN bereft ELSE bereft \ {b}
    /\ UNCHANGED <<notices, caches, rows, indexing, wipes, strays>>

NothingElse == UNCHANGED <<reparseTimer, jobs, notices, caches, rows, indexing, wipes, ghosts>>

UnderWay(b) ==
    \/ \E i \in DOMAIN jobs : jobs[i].kind = "build" /\ jobs[i].buffer = b
    \/ \E i \in DOMAIN notices : notices[i].kind = "cache" /\ notices[i].buffer = b

-----------------------------------------------------------------------------
(***************************************************************************)
(* The user.                                                               *)
(***************************************************************************)

\* OnAppFileOpened, for a file or a new page.
OpenBuffer(b) ==
    /\ buffer[b] = "none"
    /\ buffer' = [buffer EXCEPT ![b] = IF saved[b] = 0 THEN "new" ELSE "file"]
    /\ text' = [text EXCEPT ![b] = 1]
    /\ newest' = [newest EXCEPT ![b] = 1]
    /\ shown' = b
    /\ UNCHANGED <<saved, touched>>
    /\ HandToBuilder(b, FALSE)

ShowBuffer(b) ==
    /\ IsOpenBuffer(b)
    /\ shown # b
    /\ shown' = b
    /\ UNCHANGED <<buffer, text, newest, saved, touched>>
    /\ NothingElse

\* Only plain keys touch a page: a paste, an undo or a replacement does not.
EditBuffer(b, plainKey) ==
    /\ shown = b
    /\ newest[b] < MaxTexts
    /\ newest' = [newest EXCEPT ![b] = @ + 1]
    /\ text' = [text EXCEPT ![b] = newest'[b]]
    /\ touched' = IF plainKey THEN touched \cup {b} ELSE touched
    /\ UNCHANGED <<buffer, saved, shown>>
    /\ NothingElse

SaveBuffer(b) ==
    /\ shown = b
    /\ text[b] # saved[b]
    /\ saved' = [saved EXCEPT ![b] = text[b]]
    /\ buffer' = [buffer EXCEPT ![b] = "file"]
    /\ UNCHANGED <<text, newest, touched, shown>>
    /\ NothingElse

OnAppFileReverted(b) ==
    /\ shown = b
    /\ buffer[b] = "file"
    /\ text[b] # saved[b]
    /\ text' = [text EXCEPT ![b] = saved[b]]
    /\ UNCHANGED <<buffer, newest, saved, touched, shown>>
    /\ HandToBuilder(b, TRUE)

WithoutCache(b) == [c \in DOMAIN caches \ {b} |-> caches[c]]

\* What is done for EVENT_APP_FILE_CLOSED.
OnAppFileClosed(b) ==
    /\ IF buffer[b] = "file" THEN QueueJob(Tagger(b)) /\ UNCHANGED rows
       ELSE UNCHANGED jobs /\ rows' = [rows EXCEPT ![<<b, "identifier">>] = NoTags]
    /\ caches' = WithoutCache(b)
    /\ bereft' = bereft \cup {b}
    /\ UNCHANGED <<reparseTimer, notices, indexing, wipes, handed>>

Leave(b) ==
    /\ buffer' = [buffer EXCEPT ![b] = "gone"]
    /\ touched' = touched \ {b}
    /\ shown' \in {c \in Buffers \ {b} : IsOpenBuffer(c)} \cup {NoBuffer}
    /\ shown' = NoBuffer => \A c \in Buffers \ {b} : ~IsOpenBuffer(c)
    /\ UNCHANGED <<text, newest, saved>>

CloseBuffer(b) ==
    /\ shown = b
    /\ Leave(b)
    /\ OnAppFileClosed(b)
    /\ strays' = IF UnderWay(b) THEN strays \cup {b} ELSE strays

\* The user cancels, and the event is published all the same.
CancelClosing(b) ==
    /\ shown = b
    /\ text[b] # saved[b]
    /\ UNCHANGED <<pageVars, strays>>
    /\ OnAppFileClosed(b)

\* The close command of the menu publishes nothing.
CloseByMenu(b) ==
    /\ shown = b
    /\ Leave(b)
    /\ strays' = strays \cup {b}
    /\ UNCHANGED <<reparseTimer, jobs, notices, caches, rows, indexing, wipes, handed, bereft>>

\* OnTimerComplete
ReparseShown ==
    /\ reparseTimer
    /\ shown \in touched
    /\ touched' = touched \ {shown}
    /\ UNCHANGED <<buffer, text, newest, saved, shown>>
    /\ HandToBuilder(shown, TRUE)

\* The timer is stopped although the sequence may refuse to start.
OnProjectWipeAndIndex ==
    /\ wipes < MaxWipes
    /\ wipes' = wipes + 1
    /\ reparseTimer' = FALSE
    /\ indexing' = TRUE
    /\ IF indexing THEN UNCHANGED jobs ELSE QueueJob(Indexer)
    /\ UNCHANGED <<pageVars, notices, caches, rows, ghosts>>

-----------------------------------------------------------------------------
(***************************************************************************)
(* The pool.                                                               *)
(***************************************************************************)

BeginJob ==
    /\ jobs # << >>
    /\ ~jobs[1].begun
    /\ jobs' = [jobs EXCEPT ![1].begun = TRUE]
    /\ UNCHANGED <<pageVars, reparseTimer, notices, caches, rows, indexing, wipes, ghosts>>

\* BuildResourceCacheForFile: the row keeps its time.
BuilderRows(j) ==
    IF ~j.doParseTags THEN rows
    ELSE [rows EXCEPT ![<<j.buffer, IF j.isNew THEN "identifier" ELSE "path">>].tags = j.text]

\* BuildResourceCache: the file is parsed only if it is newer than its row.
TaggerRows(j) ==
    LET name == <<j.buffer, "path">>
    IN  IF rows[name].time = saved[j.buffer] THEN rows
        ELSE [rows EXCEPT ![name] = [tags |-> saved[j.buffer], time |-> saved[j.buffer]]]

WipedRows == [n \in Names |-> NoTags]
IndexedRows ==
    [n \in Names |-> IF n[2] = "path" THEN [tags |-> saved[n[1]], time |-> saved[n[1]]] ELSE NoTags]

CacheNotice(j) == [kind |-> "cache", buffer |-> j.buffer, text |-> j.text]
CompleteNotice(j) == [kind |-> "complete", buffer |-> j.buffer]

\* The rows and events of a job that gets through; a builder whose text has an
\* error does nothing.
WorkedRows(j) ==
    IF j.kind = "tag" THEN TaggerRows(j)
    ELSE IF j.kind = "index" THEN IndexedRows
    ELSE IF j.text \in BrokenTexts THEN rows ELSE BuilderRows(j)

WorkedNotices(j) ==
    IF j.kind = "build" /\ j.text \notin BrokenTexts THEN <<CacheNotice(j)>> ELSE << >>

RunJob ==
    /\ jobs # << >>
    /\ jobs[1].begun /\ ~jobs[1].done
    /\ jobs' = [jobs EXCEPT ![1].done = TRUE]
    /\ rows' = WorkedRows(jobs[1])
    /\ notices' = notices \o WorkedNotices(jobs[1])
    /\ UNCHANGED <<pageVars, reparseTimer, caches, indexing, wipes, ghosts>>

\* The completions of other actions do not matter here.
WithEnd(ns, j) == IF j.kind = "build" THEN Append(ns, CompleteNotice(j)) ELSE ns

EndJob ==
    /\ jobs # << >>
    /\ jobs[1].done
    /\ jobs' = Tail(jobs)
    /\ notices' = WithEnd(notices, jobs[1])
    /\ UNCHANGED <<pageVars, reparseTimer, caches, rows, indexing, wipes, ghosts>>

SequenceEnds ==
    /\ indexing
    /\ \A i \in DOMAIN jobs : jobs[i].kind # "index"
    /\ indexing' = FALSE
    /\ notices' = Append(notices, [kind |-> "sequence"])
    /\ UNCHANGED <<pageVars, reparseTimer, jobs, caches, rows, wipes, ghosts>>

\* The preferences dialog, while a sequence runs: the sequence posts that it is
\* complete, the running action is cancelled, perhaps too late, and what waits
\* is dropped without an event.
EndsCancelled(through) ==
    LET j == jobs[1]
        kept == Append(notices, [kind |-> "sequence"])
    IN  IF j.done THEN rows' = rows /\ notices' = WithEnd(kept, j)
        ELSE IF ~through THEN rows' \in {rows} \cup {WipedRows : k \in {j.kind} \cap {"index"}}
                              /\ notices' = WithEnd(kept, j)
        ELSE rows' = WorkedRows(j) /\ notices' = WithEnd(kept \o WorkedNotices(j), j)

StopPool(through) ==
    /\ indexing
    /\ indexing' = FALSE
    /\ IF jobs # << >> /\ jobs[1].begun THEN EndsCancelled(through)
       ELSE UNCHANGED rows /\ notices' = Append(notices, [kind |-> "sequence"])
    /\ jobs' = << >>
    /\ bereft' = bereft \cup {b \in Buffers : \E i \in DOMAIN jobs :
                     jobs[i].kind = "build" /\ jobs[i].buffer = b}
    /\ UNCHANGED <<pageVars, reparseTimer, caches, wipes, handed, strays>>

-----------------------------------------------------------------------------
(***************************************************************************)
(* The pool's events.                                                      *)
(***************************************************************************)

CachesWith(b, t) == [c \in DOMAIN caches \cup {b} |-> IF c = b THEN t ELSE caches[c]]

\* A mutant: a symbol table that is there is not replaced.
RegisteredOnce(n) ==
    caches' = IF n.buffer \in DOMAIN caches THEN caches ELSE CachesWith(n.buffer, n.text)

\* RegisterWorking or ReplaceWorking; nobody looks whether the page is there.
OnWorkingCacheComplete(n) == caches' = CachesWith(n.buffer, n.text)

\* A mutant: the timer starts again with the symbol table.
TimerFollowsCache(n) == reparseTimer' = (n.kind # "complete" \/ reparseTimer)

\* OnActionComplete, OnAppStartSequenceComplete
StartsTimer(n) == reparseTimer' = (n.kind # "cache" \/ reparseTimer)

HandleNotice ==
    /\ notices # << >>
    /\ notices' = Tail(notices)
    /\ LET n == Head(notices)
       IN  /\ IF n.kind = "cache" THEN OnWorkingCacheComplete(n) ELSE UNCHANGED caches
           /\ StartsTimer(n)
    /\ UNCHANGED <<pageVars, jobs, rows, indexing, wipes, ghosts>>

-----------------------------------------------------------------------------
PoolWorks == BeginJob \/ RunJob \/ EndJob

CacheNext ==
    \/ \E b \in Buffers : \/ OpenBuffer(b) \/ ShowBuffer(b) \/ \E k \in BOOLEAN : EditBuffer(b, k)
                          \/ SaveBuffer(b) \/ OnAppFileReverted(b)
                          \/ CloseBuffer(b) \/ CancelClosing(b) \/ CloseByMenu(b)
    \/ ReparseShown \/ OnProjectWipeAndIndex
    \/ PoolWorks \/ SequenceEnds \/ HandleNotice
    \/ \E through \in BOOLEAN : StopPool(through)

\* The pool works, events and the timer are handled, and sequences end.
CacheFairness ==
    /\ WF_cacheVars(PoolWorks)
    /\ WF_cacheVars(SequenceEnds)
    /\ WF_cacheVars(HandleNotice)
    /\ WF_cacheVars(ReparseShown)

CacheSpec == CacheInit /\ [][CacheNext]_cacheVars /\ CacheFairness

-----------------------------------------------------------------------------
\* Once no builder is under way for a page, its symbol table is that of the last
\* text without an error that was handed to one: results are not lost and do not
\* overtake each other.  The only symbol tables of closed pages are of those that
\* went without an event or while a builder was under way.
CachesAreCurrent ==
    /\ \A b \in Buffers :
           IsOpenBuffer(b) /\ b \notin bereft /\ ~UnderWay(b) /\ handed[b] # 0
               => b \in DOMAIN caches /\ caches[b] = handed[b]
    /\ \A b \in DOMAIN caches : IsOpenBuffer(b) \/ b \in strays

\* What is typed in a page gets a symbol table in the end, unless the user goes to
\* another page, the text has an error or is changed without a key, or the builder
\* is dropped by a stop of the pool.
TypedTextIsParsed ==
    \A b \in Buffers :
        (shown = b /\ b \in touched) ~>
            \/ shown # b \/ b \in bereft \/ text[b] \in BrokenTexts
            \/ b \in DOMAIN caches /\ caches[b] = text[b]
            \/ b \notin touched /\ text[b] # handed[b]

\* "if a new file was closed but never saved remove it from the tag cache":
\* once the pool is idle there are no tags of a page that was closed unsaved.
ClosedUnsavedHasNoTags ==
    \A b \in Buffers :
        buffer[b] = "gone" /\ saved[b] = 0 /\ jobs = << >> => rows[<<b, "identifier">>] = NoTags
=============================================================================
