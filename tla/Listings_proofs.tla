--------------------------- MODULE Listings_proofs ---------------------------
(***************************************************************************)
(* Proofs about the parts that list files: the search in files             *)
(* (FindInFiles), the explorer (Explorer) and the walk through the files   *)
(* of the sources (DirectorySearch).                                       *)
(***************************************************************************)
EXTENDS DirectorySearch, FindInFiles, Explorer, ListLemmas

-----------------------------------------------------------------------------
(***************************************************************************)
(* The search in files: types.                                             *)
(***************************************************************************)

\* The set of a finite set's sequence: every element once.
LEMMA SetToSeqLists ==
    ASSUME NEW S, IsFiniteSet(S)
    PROVE  /\ SetToSeq(S) \in Seq(S)
           /\ \A x \in S : \E i \in DOMAIN SetToSeq(S) : SetToSeq(S)[i] = x
           /\ \A i, j \in DOMAIN SetToSeq(S) : SetToSeq(S)[i] = SetToSeq(S)[j] => i = j
<1> DEFINE n == Cardinality(S)
           s == SetToSeq(S)
<1>1. n \in Nat /\ ExistsBijection(1 .. n, S)
  BY FS_CardinalityType
<1>2. PICK b \in Bijection(1 .. n, S) : TRUE
  BY <1>1 DEF ExistsBijection
<1>3. b \in [1 .. n -> S] /\ IsInjective(b)
  BY <1>2 DEF Bijection, Injection
<1>4. s \in [1 .. n -> S] /\ IsInjective(s)
  BY <1>3 DEF SetToSeq
<1>5. IsFiniteSet(1 .. n) /\ Cardinality(1 .. n) = n
  BY <1>1, FS_Interval
<1>6. s \in Injection(1 .. n, S)
  BY <1>4 DEF Injection
<1>7. s \in Surjection(1 .. n, S)
  BY <1>5, <1>6, FS_Injection
<1>8. \A x \in S : \E i \in 1 .. n : s[i] = x
  BY <1>7 DEF Surjection
<1>9. DOMAIN s = 1 .. n /\ s \in Seq(S)
  BY <1>1, <1>4, SeqDef
<1> QED
  BY <1>4, <1>8, <1>9 DEF IsInjective

LEMMA ElementsOfSeq ==
    ASSUME NEW S, NEW s \in Seq(S)
    PROVE  ToSet(s) \subseteq S
  BY LenProperties DEF ToSet

LEMMA TuplesAreSequences ==
    ASSUME NEW S, NEW a \in S, NEW b \in S
    PROVE  << >> \in Seq(S) /\ <<a>> \in Seq(S) /\ <<a, b>> \in Seq(S)
  OBVIOUS

LEMMA ReadersAreRecords ==
    /\ NoReader \notin Readers
    /\ \A which \in {"walk", "matched"}, files \in SUBSET SearchFiles :
          [state |-> "queued", mode |-> which, skip |-> OpenedFiles, left |-> files] \in Readers
    /\ \A r \in Readers : /\ r.state \in {"queued", "running", "cancelled"}
                          /\ r.mode \in {"walk", "matched"}
                          /\ r.skip \subseteq SearchFiles /\ r.left \subseteq SearchFiles
                          /\ [r EXCEPT !.state = "running"] \in Readers
                          /\ [r EXCEPT !.state = "cancelled"] \in Readers
    /\ \A r \in Readers, f \in SearchFiles : [r EXCEPT !.left = @ \ {f}] \in Readers
  BY DEF NoReader, Readers, OpenedFiles

LEMMA ReaderReads ==
    ASSUME NEW r \in Readers, NEW f \in SearchFiles
    PROVE  LET q == [r EXCEPT !.left = @ \ {f}]
           IN  q # NoReader /\ q.mode = r.mode /\ q.skip = r.skip /\ q.left = r.left \ {f}
<1> DEFINE q == [r EXCEPT !.left = @ \ {f}]
<1>1. q \in Readers /\ NoReader \notin Readers
  BY ReadersAreRecords
<1>2. q.mode = r.mode /\ q.skip = r.skip /\ q.left = r.left \ {f}
  BY DEF Readers
<1> QED
  BY <1>1, <1>2

LEMMA EventsAreRecords ==
    /\ \A f \in SearchFiles : HitEvent(f) \in PanelEvents
    /\ \A which \in {"walk", "matched"} : [kind |-> "read complete", mode |-> which] \in PanelEvents
    /\ [kind |-> "action complete"] \in PanelEvents
<1>1. \A f \in SearchFiles : HitEvent(f) \in [kind : {"hit"}, file : SearchFiles]
  BY DEF HitEvent
<1>2. \A which \in {"walk", "matched"} :
         [kind |-> "read complete", mode |-> which] \in [kind : {"read complete"}, mode : {"walk", "matched"}]
  OBVIOUS
<1>3. [kind |-> "action complete"] \in [kind : {"action complete"}]
  OBVIOUS
<1> QED
  BY <1>1, <1>2, <1>3 DEF PanelEvents

LEMMA EventFields ==
    ASSUME NEW e \in PanelEvents
    PROVE  /\ e.kind \in {"hit", "read complete", "action complete"}
           /\ e.kind = "hit" => e.file \in SearchFiles
           /\ e.kind = "read complete" => e.mode \in {"walk", "matched"}
<1>1. CASE e \in [kind : {"hit"}, file : SearchFiles]
  BY <1>1
<1>2. CASE e \in [kind : {"read complete"}, mode : {"walk", "matched"}]
  BY <1>2
<1>3. CASE e \in [kind : {"action complete"}]
  BY <1>3
<1> QED
  BY <1>1, <1>2, <1>3 DEF PanelEvents

LEMMA HitsAreHitEvents ==
    ASSUME NEW e \in PanelEvents, e.kind = "hit"
    PROVE  e = HitEvent(e.file)
<1>1. CASE e \in [kind : {"hit"}, file : SearchFiles]
  BY <1>1 DEF HitEvent
<1>2. CASE e \in [kind : {"read complete"}, mode : {"walk", "matched"}]
  BY <1>2
<1>3. CASE e \in [kind : {"action complete"}]
  BY <1>3
<1> QED
  BY <1>1, <1>2, <1>3 DEF PanelEvents

LEMMA CancelKeepsType ==
    ASSUME reader = NoReader \/ reader \in Readers, CancelReader
    PROVE  reader' = NoReader \/ reader' \in Readers
  BY ReadersAreRecords DEF CancelReader

LEMMA HitsAreFinite == IsFiniteSet({HitEvent(f) : f \in {g \in SearchFiles : codeCtrl[g] = "match"}})
<1> DEFINE files == {g \in SearchFiles : codeCtrl[g] = "match"}
           hits == {HitEvent(f) : f \in files}
           event == [f \in files |-> HitEvent(f)]
<1>1. IsFiniteSet(files)
  BY FindInFilesAssumption, FS_Subset
<1>2. event \in Surjection(files, hits)
  BY DEF Surjection
<1> QED
  BY <1>1, <1>2, FS_Surjection

LEMMA FindInitType == FindInit => FindTypeOK
<1> SUFFICES ASSUME FindInit PROVE FindTypeOK
  OBVIOUS
<1>1. panelEvents \in Seq(PanelEvents) /\ AllHits \in Seq(SearchFiles)
  BY EmptySeq DEF FindInit
<1>2. codeCtrl \in [SearchFiles -> {"closed", "match", "no match"}]
  BY DEF FindInit
<1>3. 0 \in 0 .. MaxTextChanges
  BY FindInFilesAssumption
<1> QED
  BY <1>1, <1>2, <1>3 DEF FindInit, FindTypeOK

LEMMA FindTypeStep == FindTypeOK /\ [FindNext]_findVars => FindTypeOK'
<1> SUFFICES ASSUME FindTypeOK, [FindNext]_findVars PROVE FindTypeOK'
  OBVIOUS
<1> USE FindInFilesAssumption
<1>1. CASE TextsChange
  <2>1. UNCHANGED <<MAX_HITS, panel, RunningActionId, reader, panelEvents, AllHits, buttons>>
    BY <1>1 DEF TextsChange
  <2>2. PICK f \in SearchFiles :
           UserOpens(f) \/ UserCloses(f) \/ UserEdits(f) \/ UserSaves(f) \/ OtherProgramWrites(f)
    BY <1>1 DEF TextsChange
  <2>3. CASE UserOpens(f)
    BY <2>1, <2>3 DEF UserOpens, FindTypeOK, OpenedFiles, TextOf, owedVars
  <2>4. CASE UserCloses(f)
    BY <2>1, <2>4 DEF UserCloses, FindTypeOK, OpenedFiles
  <2>5. CASE UserEdits(f)
    <3>1. codeCtrl' \in [SearchFiles -> {"closed", "match", "no match"}] /\ codeCtrl'[f] # "closed"
      BY <2>5 DEF UserEdits, FindTypeOK, TextOf
    <3>2. \A g \in SearchFiles : g # f => codeCtrl'[g] = codeCtrl[g]
      BY <2>5 DEF UserEdits, FindTypeOK
    <3>3. modifiedFiles' \subseteq OpenedFiles'
      BY <2>5, <3>1, <3>2 DEF UserEdits, FindTypeOK, OpenedFiles
    <3>4. textChanges' \in 0 .. MaxTextChanges
      <4>1. textChanges < MaxTextChanges /\ textChanges' = textChanges + 1
        BY <2>5 DEF UserEdits
      <4>2. textChanges \in 0 .. MaxTextChanges
        BY DEF FindTypeOK
      <4> QED
        BY <4>1, <4>2
    <3> QED
      BY <2>1, <2>5, <3>1, <3>3, <3>4 DEF UserEdits, FindTypeOK
  <2>6. CASE UserSaves(f)
    BY <2>1, <2>6 DEF UserSaves, TextIsWritten, FindTypeOK, OpenedFiles
  <2>7. CASE OtherProgramWrites(f)
    <3>1. diskHit' \in [SearchFiles -> BOOLEAN]
      <4>1. diskHit' = [diskHit EXCEPT ![f] = ~diskHit[f]]
        BY <2>7 DEF OtherProgramWrites
      <4>2. (~diskHit[f]) \in BOOLEAN
        OBVIOUS
      <4> QED
        BY <4>1, <4>2, ExceptKeepsType DEF FindTypeOK
    <3>2. textChanges' \in 0 .. MaxTextChanges
      <4>1. textChanges < MaxTextChanges /\ textChanges' = textChanges + 1
        BY <2>7 DEF OtherProgramWrites
      <4>2. textChanges \in 0 .. MaxTextChanges
        BY DEF FindTypeOK
      <4> QED
        BY <4>1, <4>2
    <3> QED
      BY <2>1, <2>7, <3>1, <3>2 DEF OtherProgramWrites, TextIsWritten, FindTypeOK, OpenedFiles
  <2> QED
    BY <2>2, <2>3, <2>4, <2>5, <2>6, <2>7
<1>2. CASE Find
  BY <1>2, ReadersAreRecords DEF Find, QueueReader, FindTypeOK, textVars, OpenedFiles
<1>3. CASE FindInOpenedFiles
  <2> DEFINE hits == {HitEvent(f) : f \in {g \in SearchFiles : codeCtrl[g] = "match"}}
  <2>1. IsFiniteSet(hits)
    BY HitsAreFinite
  <2>2. SetToSeq(hits) \in Seq(hits)
    BY <2>1, SetToSeqLists
  <2>3. hits \subseteq PanelEvents
    BY EventsAreRecords
  <2>4. SetToSeq(hits) \in Seq(PanelEvents)
    BY <2>2, <2>3, SeqMonotonic
  <2>5. panelEvents' = panelEvents \o SetToSeq(hits)
    BY <1>3 DEF FindInOpenedFiles
  <2> HIDE DEF hits
  <2>6. panelEvents' \in Seq(PanelEvents)
    BY <2>4, <2>5, ConcatProperties DEF FindTypeOK
  <2> QED
    BY <1>3, <2>6 DEF FindInOpenedFiles, FindTypeOK, textVars, owedVars, OpenedFiles
<1>4. CASE OnStopButton
  BY <1>4, CancelKeepsType DEF OnStopButton, Stop, ReplaceButtons, FindTypeOK, textVars, owedVars, OpenedFiles
<1>5. CASE OnReplaceInAllFilesButton
  <2>1. ToSet(AllHits) \subseteq SearchFiles
    BY ElementsOfSeq DEF FindTypeOK
  <2>2. reader' \in Readers
    BY <1>5, <2>1, ReadersAreRecords DEF OnReplaceInAllFilesButton, QueueReader, FilesFromHits
  <2>3. modifiedFiles' \subseteq OpenedFiles'
    BY <1>5 DEF OnReplaceInAllFilesButton, FindTypeOK, OpenedFiles
  <2> QED
    BY <1>5, <2>1, <2>2, <2>3 DEF OnReplaceInAllFilesButton, QueueReader, FindTypeOK, OpenedFiles
<1>6. CASE PanelHandlesEvent
  <2>1. Tail(panelEvents) \in Seq(PanelEvents)
    BY <1>6, HeadTailProperties DEF PanelHandlesEvent, FindTypeOK
  <2>2. PICK e \in PanelEvents : e = Head(panelEvents)
    BY <1>6, HeadTailProperties DEF PanelHandlesEvent, FindTypeOK
  <2>3. /\ panelEvents' \in Seq(PanelEvents)
        /\ UNCHANGED <<MAX_HITS, textVars, owedVars>>
    BY <1>6, <2>1 DEF PanelHandlesEvent
  <2>4. CASE e.kind = "hit"
    <3>1. e.file \in SearchFiles /\ OnFileHit(e.file)
      BY <1>6, <2>2, <2>4, EventFields DEF PanelHandlesEvent
    <3>2. AllHits' \in Seq(SearchFiles)
      <4>1. Append(AllHits, e.file) \in Seq(SearchFiles)
        BY <3>1, AppendProperties DEF FindTypeOK
      <4>2. AllHits' = Append(AllHits, e.file) \/ AllHits' = AllHits
        BY <3>1 DEF OnFileHit
      <4> QED
        BY <4>1, <4>2 DEF FindTypeOK
    <3>3. reader' = NoReader \/ reader' \in Readers
      BY <3>1, CancelKeepsType DEF OnFileHit, Stop, FindTypeOK
    <3>4. buttons' \subseteq {"stop", "replace"} /\ UNCHANGED <<panel, RunningActionId>>
      BY <3>1 DEF OnFileHit, Stop, ReplaceButtons, FindTypeOK
    <3> QED
      BY <2>3, <3>2, <3>3, <3>4 DEF FindTypeOK, textVars, owedVars, OpenedFiles
  <2>5. CASE e.kind = "read complete"
    <3>1. OnFindInFilesComplete(e.mode)
      BY <1>6, <2>2, <2>5 DEF PanelHandlesEvent
    <3> QED
      BY <2>3, <3>1 DEF OnFindInFilesComplete, ReplaceButtons, FindTypeOK, textVars, owedVars, OpenedFiles
  <2>6. CASE e.kind = "action complete"
    <3>1. OnActionComplete
      BY <1>6, <2>2, <2>6 DEF PanelHandlesEvent
    <3> QED
      BY <2>3, <3>1 DEF OnActionComplete, FindTypeOK, textVars, owedVars, OpenedFiles
  <2> QED
    BY <2>4, <2>5, <2>6, EventFields
<1>7. CASE OtherPanelIsComplete
  BY <1>7 DEF OtherPanelIsComplete, ReplaceButtons, FindTypeOK, textVars, owedVars, OpenedFiles
<1>8. CASE OnToolsNotebookPageClosed
  BY <1>8, CancelKeepsType, EmptySeq DEF OnToolsNotebookPageClosed, FindTypeOK, textVars, owedVars, OpenedFiles
<1>9. CASE ReaderStarts
  BY <1>9, ReadersAreRecords DEF ReaderStarts, FindTypeOK, textVars, owedVars, OpenedFiles
<1>10. CASE ReaderStep
  <2>1. UNCHANGED <<MAX_HITS, panel, RunningActionId, AllHits, buttons>>
    BY <1>10 DEF ReaderStep
  <2>2. ASSUME NEW events \in Seq(PanelEvents), Post(events) PROVE panelEvents' \in Seq(PanelEvents)
    BY <2>2, ConcatProperties DEF Post, FindTypeOK
  <2>3. ASSUME NEW f \in SearchFiles, BackgroundFileRead(f) PROVE FindTypeOK'
    <3>1. << >> \in Seq(PanelEvents) /\ <<HitEvent(f)>> \in Seq(PanelEvents)
      BY EventsAreRecords, TuplesAreSequences
    <3>2. panelEvents' \in Seq(PanelEvents)
      BY <2>2, <2>3, <3>1 DEF BackgroundFileRead
    <3>3. reader' \in Readers
      BY <2>3, ReadersAreRecords DEF BackgroundFileRead, ReaderIsAt, FindTypeOK
    <3> QED
      BY <2>1, <2>3, <3>2, <3>3 DEF BackgroundFileRead, FindTypeOK, textVars, owedVars, OpenedFiles
  <2>4. ASSUME NEW f \in SearchFiles, BackgroundFileMatch(f) PROVE FindTypeOK'
    <3>1. reader' \in Readers
      BY <2>4, ReadersAreRecords DEF BackgroundFileMatch, ReaderIsAt, FindTypeOK
    <3> QED
      BY <2>1, <2>4, <3>1 DEF BackgroundFileMatch, FindTypeOK, OpenedFiles
  <2>5. CASE ReaderEnds
    <3>1. <<[kind |-> "action complete"]>> \in Seq(PanelEvents)
      BY EventsAreRecords, TuplesAreSequences
    <3>2. reader # NoReader =>
            <<[kind |-> "read complete", mode |-> reader.mode], [kind |-> "action complete"]>> \in Seq(PanelEvents)
      BY ReadersAreRecords, EventsAreRecords, TuplesAreSequences DEF FindTypeOK
    <3>3. panelEvents' \in Seq(PanelEvents)
      BY <2>2, <2>5, <3>1, <3>2 DEF ReaderEnds
    <3> QED
      BY <2>1, <2>5, <3>3 DEF ReaderEnds, FindTypeOK, textVars, owedVars, OpenedFiles
  <2>6. CASE PoolStopsAll
    BY <2>1, <2>6, ReadersAreRecords DEF PoolStopsAll, FindTypeOK, textVars, owedVars, OpenedFiles
  <2> QED
    BY <1>10, <2>3, <2>4, <2>5, <2>6 DEF ReaderStep
<1>11. CASE UNCHANGED findVars
  BY <1>11 DEF findVars, FindTypeOK, textVars, owedVars, OpenedFiles
<1> QED
  BY <1>1, <1>2, <1>3, <1>4, <1>5, <1>6, <1>7, <1>8, <1>9, <1>10, <1>11 DEF FindNext

\* The state of a search, the pages, the texts, the reader and what it posted to the
\* panel are of their types.
THEOREM FindTypeCorrect == FindSpec => []FindTypeOK
<1> QED
  BY FindInitType, FindTypeStep, PTL DEF FindSpec

-----------------------------------------------------------------------------
(***************************************************************************)
(* What the panel still has to handle.                                     *)
(***************************************************************************)

IsHit(e) == e.kind = "hit"

\* The file is the one of a hit in the events s.
PostedIn(s, f) == \E i \in DOMAIN s : IsHit(s[i]) /\ s[i].file = f

\* The events s say that a reader of this mode is complete.
CompleteIn(s, which) == \E i \in DOMAIN s : s[i].kind = "read complete" /\ s[i].mode = which

OnlyHits(s) == \A i \in DOMAIN s : IsHit(s[i])

OneHitIn(s) == \A i, j \in DOMAIN s : IsHit(s[i]) /\ IsHit(s[j]) /\ s[i].file = s[j].file => i = j

\* A reader is complete before its action is, and after that there is nothing but hits.
EndsOnce(s) ==
    \A i, j \in DOMAIN s :
        i < j /\ ~IsHit(s[i]) /\ ~IsHit(s[j]) => s[i].kind = "read complete" /\ s[j].kind = "action complete"

\* u has the elements of s, then those of t.
Joins(u, s, t, n) ==
    /\ n \in Nat
    /\ DOMAIN s = 1 .. n /\ DOMAIN t \subseteq Nat \ {0}
    /\ \A i \in DOMAIN s : i \in DOMAIN u /\ u[i] = s[i]
    /\ \A i \in DOMAIN t : i + n \in DOMAIN u /\ u[i + n] = t[i]
    /\ \A i \in DOMAIN u :
          \/ i \in DOMAIN s
          \/ i - n \in DOMAIN t /\ u[i] = t[i - n] /\ i = (i - n) + n

LEMMA ConcatJoins ==
    ASSUME NEW S, NEW s \in Seq(S), NEW t \in Seq(S)
    PROVE  Joins(s \o t, s, t, Len(s))
<1> DEFINE n == Len(s)
           u == s \o t
<1>1. n \in Nat /\ DOMAIN s = 1 .. n /\ Len(t) \in Nat /\ DOMAIN t = 1 .. Len(t)
  BY LenProperties
<1>2. /\ u \in Seq(S) /\ Len(u) = n + Len(t)
      /\ \A i \in 1 .. n + Len(t) : u[i] = IF i <= n THEN s[i] ELSE t[i - n]
  BY ConcatProperties
<1>3. DOMAIN u = 1 .. n + Len(t)
  BY <1>2, LenProperties
<1> HIDE DEF n, u
<1>4. \A i \in DOMAIN s : i \in DOMAIN u /\ u[i] = s[i]
  <2>1. \A i \in 1 .. n : i \in 1 .. n + Len(t) /\ i <= n
    BY <1>1
  <2> QED
    BY <1>1, <1>2, <1>3, <2>1
<1>5. \A i \in DOMAIN t : i + n \in DOMAIN u /\ u[i + n] = t[i]
  <2>1. \A i \in 1 .. Len(t) : i + n \in 1 .. n + Len(t) /\ ~(i + n <= n) /\ (i + n) - n = i
    BY <1>1
  <2> QED
    BY <1>1, <1>2, <1>3, <2>1
<1>6. \A i \in DOMAIN u :
         \/ i \in DOMAIN s
         \/ i - n \in DOMAIN t /\ u[i] = t[i - n] /\ i = (i - n) + n
  <2>1. \A i \in 1 .. n + Len(t) : i \in 1 .. n \/ (i - n \in 1 .. Len(t) /\ ~(i <= n) /\ i = (i - n) + n)
    BY <1>1
  <2> TAKE i \in DOMAIN u
  <2>2. CASE i \in 1 .. n
    BY <1>1, <2>2
  <2>3. CASE i \notin 1 .. n
    <3>1. i \in 1 .. n + Len(t)
      BY <1>3
    <3>2. i - n \in 1 .. Len(t) /\ ~(i <= n) /\ i = (i - n) + n
      BY <2>1, <2>3, <3>1
    <3>3. u[i] = t[i - n]
      BY <1>2, <3>1, <3>2
    <3> QED
      BY <1>1, <3>2, <3>3
  <2> QED
    BY <2>2, <2>3
<1> QED
  BY <1>1, <1>4, <1>5, <1>6 DEF Joins, n, u

\* The first event is handled.
LEMMA EventsHandled ==
    ASSUME NEW s \in Seq(PanelEvents), s # << >>
    PROVE  /\ \A f : PostedIn(s, f) <=> (IsHit(Head(s)) /\ Head(s).file = f) \/ PostedIn(Tail(s), f)
           /\ \A which : CompleteIn(s, which) <=>
                 (Head(s).kind = "read complete" /\ Head(s).mode = which) \/ CompleteIn(Tail(s), which)
           /\ OnlyHits(s) <=> IsHit(Head(s)) /\ OnlyHits(Tail(s))
           /\ OneHitIn(s) => /\ OneHitIn(Tail(s))
                             /\ IsHit(Head(s)) => ~PostedIn(Tail(s), Head(s).file)
           /\ EndsOnce(s) => /\ EndsOnce(Tail(s))
                             /\ Head(s).kind = "read complete" => \A which : ~CompleteIn(Tail(s), which)
                             /\ Head(s).kind = "action complete" => OnlyHits(Tail(s))
<1> DEFINE t == Tail(s)
<1>1. /\ DOMAIN s \subseteq Nat /\ DOMAIN t \subseteq Nat
      /\ 1 \in DOMAIN s /\ s[1] = Head(s)
      /\ \A i \in DOMAIN t : i + 1 \in DOMAIN s /\ i + 1 # 1 /\ t[i] = s[i + 1]
      /\ \A i \in DOMAIN s : i = 1 \/ (i - 1 \in DOMAIN t /\ t[i - 1] = s[i] /\ 1 < i)
  BY TailIndex
<1> DEFINE e == Head(s)
<1> HIDE DEF t, e
<1>2. s[1] = e
  BY <1>1 DEF e
<1>3. \A f : PostedIn(s, f) <=> (IsHit(e) /\ e.file = f) \/ PostedIn(t, f)
  BY <1>1, <1>2 DEF PostedIn
<1>4. \A which : CompleteIn(s, which) <=> (e.kind = "read complete" /\ e.mode = which) \/ CompleteIn(t, which)
  <2>1. SUFFICES ASSUME NEW which
                 PROVE  CompleteIn(s, which) <=> (e.kind = "read complete" /\ e.mode = which) \/ CompleteIn(t, which)
    OBVIOUS
  <2>2. ASSUME CompleteIn(s, which), ~CompleteIn(t, which) PROVE e.kind = "read complete" /\ e.mode = which
    <3>1. PICK i \in DOMAIN s : s[i].kind = "read complete" /\ s[i].mode = which
      BY <2>2 DEF CompleteIn
    <3>2. i = 1
      BY ZenonT(60), <1>1, <2>2, <3>1 DEF CompleteIn
    <3> QED
      BY <1>2, <3>1, <3>2
  <2>3. ASSUME e.kind = "read complete" /\ e.mode = which PROVE CompleteIn(s, which)
    BY <1>1, <1>2, <2>3 DEF CompleteIn
  <2>4. ASSUME CompleteIn(t, which) PROVE CompleteIn(s, which)
    <3>1. PICK i \in DOMAIN t : t[i].kind = "read complete" /\ t[i].mode = which
      BY <2>4 DEF CompleteIn
    <3>2. i + 1 \in DOMAIN s /\ s[i + 1] = t[i]
      BY <1>1
    <3> QED
      BY <3>1, <3>2 DEF CompleteIn
  <2> QED
    BY <2>2, <2>3, <2>4
<1>5. OnlyHits(s) <=> IsHit(e) /\ OnlyHits(t)
  BY <1>1, <1>2 DEF OnlyHits
<1>6. ASSUME OneHitIn(s) PROVE OneHitIn(t) /\ (IsHit(e) => ~PostedIn(t, e.file))
  <2>1. \A i, j \in DOMAIN t : i + 1 = j + 1 => i = j
    BY <1>1
  <2>2. OneHitIn(t)
    <3>1. SUFFICES ASSUME NEW i \in DOMAIN t, NEW j \in DOMAIN t, IsHit(t[i]), IsHit(t[j]), t[i].file = t[j].file
                   PROVE  i = j
      BY DEF OneHitIn
    <3>2. i + 1 \in DOMAIN s /\ j + 1 \in DOMAIN s /\ s[i + 1] = t[i] /\ s[j + 1] = t[j]
      BY <1>1
    <3>3. i + 1 = j + 1
      BY <1>6, <3>1, <3>2 DEF OneHitIn
    <3> QED
      BY <2>1, <3>3
  <2>3. ASSUME IsHit(e), NEW i \in DOMAIN t, IsHit(t[i]), t[i].file = e.file PROVE FALSE
    BY SMTT(30), <1>1, <1>2, <1>6, <2>3 DEF OneHitIn
  <2> QED
    BY <2>2, <2>3 DEF PostedIn
<1>7. ASSUME EndsOnce(s)
      PROVE  /\ EndsOnce(t)
             /\ e.kind = "read complete" => \A which : ~CompleteIn(t, which)
             /\ e.kind = "action complete" => OnlyHits(t)
  <2>1. \A i, j \in DOMAIN t : i < j => i + 1 < j + 1
    BY <1>1
  <2>2. EndsOnce(t)
    <3>1. SUFFICES ASSUME NEW i \in DOMAIN t, NEW j \in DOMAIN t, i < j, ~IsHit(t[i]), ~IsHit(t[j])
                   PROVE  t[i].kind = "read complete" /\ t[j].kind = "action complete"
      BY DEF EndsOnce
    <3>2. i + 1 \in DOMAIN s /\ j + 1 \in DOMAIN s /\ s[i + 1] = t[i] /\ s[j + 1] = t[j]
      BY <1>1
    <3>3. i + 1 < j + 1
      BY <2>1, <3>1
    <3> QED
      BY <1>7, <3>1, <3>2, <3>3 DEF EndsOnce
  <2>3. \A i \in DOMAIN t : 1 < i + 1
    BY <1>1
  <2>4. \A i \in DOMAIN t : ~IsHit(e) /\ ~IsHit(t[i]) => e.kind = "read complete" /\ t[i].kind = "action complete"
    <3>1. SUFFICES ASSUME NEW i \in DOMAIN t, ~IsHit(e), ~IsHit(t[i])
                   PROVE  e.kind = "read complete" /\ t[i].kind = "action complete"
      OBVIOUS
    <3>2. i + 1 \in DOMAIN s /\ s[i + 1] = t[i] /\ 1 \in DOMAIN s /\ 1 < i + 1
      BY <1>1, <2>3
    <3> QED
      BY ZenonT(60), <1>2, <1>7, <3>1, <3>2 DEF EndsOnce
  <2> QED
    BY <2>2, <2>4 DEF CompleteIn, OnlyHits, IsHit
<1> QED
  BY <1>3, <1>4, <1>5, <1>6, <1>7 DEF t, e

\* Hits of other files are posted.
LEMMA HitsPosted ==
    ASSUME NEW s \in Seq(PanelEvents), NEW t \in Seq(PanelEvents), OnlyHits(t)
    PROVE  /\ \A f : PostedIn(s \o t, f) <=> PostedIn(s, f) \/ PostedIn(t, f)
           /\ \A which : CompleteIn(s \o t, which) <=> CompleteIn(s, which)
           /\ OnlyHits(s) => OnlyHits(s \o t)
           /\ OneHitIn(s) /\ OneHitIn(t) /\ (\A f \in SearchFiles : ~(PostedIn(s, f) /\ PostedIn(t, f))) => OneHitIn(s \o t)
           /\ EndsOnce(s) => EndsOnce(s \o t)
<1> DEFINE u == s \o t
           n == Len(s)
<1>1. Joins(u, s, t, n)
  BY ConcatJoins
<1> HIDE DEF u, n
<1>2. \A f : PostedIn(u, f) <=> PostedIn(s, f) \/ PostedIn(t, f)
  BY <1>1 DEF PostedIn, Joins
<1>3. \A which : CompleteIn(u, which) <=> CompleteIn(s, which)
  BY <1>1 DEF CompleteIn, OnlyHits, IsHit, Joins
<1>4. OnlyHits(s) => OnlyHits(u)
  BY <1>1 DEF OnlyHits, Joins
<1>5. ASSUME OneHitIn(s), OneHitIn(t), \A f \in SearchFiles : ~(PostedIn(s, f) /\ PostedIn(t, f))
      PROVE  OneHitIn(u)
  <2>1. SUFFICES ASSUME NEW i \in DOMAIN u, NEW j \in DOMAIN u, IsHit(u[i]), IsHit(u[j]), u[i].file = u[j].file
                 PROVE  i = j
    BY DEF OneHitIn
  <2>2. \A k \in DOMAIN s : s[k] \in PanelEvents
    BY LenProperties
  <2>3. \A k \in DOMAIN s, l \in DOMAIN t : IsHit(s[k]) /\ IsHit(t[l]) => s[k].file # t[l].file
    <3>1. SUFFICES ASSUME NEW k \in DOMAIN s, NEW l \in DOMAIN t, IsHit(s[k]), IsHit(t[l]), s[k].file = t[l].file
                   PROVE  FALSE
      OBVIOUS
    <3>2. s[k].file \in SearchFiles
      BY <2>2, <3>1, EventFields DEF IsHit
    <3> QED
      BY <1>5, <3>1, <3>2 DEF PostedIn
  <2>4. CASE i \in DOMAIN s /\ j \in DOMAIN s
    BY <1>1, <1>5, <2>1, <2>4 DEF OneHitIn, Joins
  <2>5. CASE i \notin DOMAIN s /\ j \notin DOMAIN s
    <3>1. /\ i - n \in DOMAIN t /\ u[i] = t[i - n] /\ i = (i - n) + n
          /\ j - n \in DOMAIN t /\ u[j] = t[j - n] /\ j = (j - n) + n
      BY <1>1, <2>5 DEF Joins
    <3>2. i - n = j - n
      BY <1>5, <2>1, <3>1 DEF OneHitIn
    <3> QED
      BY <3>1, <3>2
  <2>6. CASE i \in DOMAIN s /\ j \notin DOMAIN s
    BY <1>1, <2>1, <2>3, <2>6 DEF Joins
  <2>7. CASE i \notin DOMAIN s /\ j \in DOMAIN s
    BY <1>1, <2>1, <2>3, <2>7 DEF Joins
  <2> QED
    BY <2>4, <2>5, <2>6, <2>7
<1>6. EndsOnce(s) => EndsOnce(u)
  BY ZenonT(60), <1>1 DEF EndsOnce, OnlyHits, Joins
<1> QED
  BY <1>2, <1>3, <1>4, <1>5, <1>6 DEF u

\* The end of a reader is posted.
LEMMA EndPosted ==
    ASSUME NEW s \in Seq(PanelEvents), OnlyHits(s),
           NEW t \in Seq(PanelEvents), \A i \in DOMAIN t : ~IsHit(t[i]), EndsOnce(t)
    PROVE  /\ \A f : PostedIn(s \o t, f) <=> PostedIn(s, f)
           /\ \A which : CompleteIn(s \o t, which) <=> CompleteIn(t, which)
           /\ OneHitIn(s) => OneHitIn(s \o t)
           /\ EndsOnce(s \o t)
<1> DEFINE u == s \o t
           n == Len(s)
<1>1. Joins(u, s, t, n)
  BY ConcatJoins
<1> HIDE DEF u, n
<1>2. \A f : PostedIn(u, f) <=> PostedIn(s, f)
  BY <1>1 DEF PostedIn, Joins
<1>3. \A which : CompleteIn(u, which) <=> CompleteIn(t, which)
  BY ZenonT(60), <1>1 DEF CompleteIn, OnlyHits, IsHit, Joins
<1>4. OneHitIn(s) => OneHitIn(u)
  BY <1>1 DEF OneHitIn, Joins
<1>5. EndsOnce(u)
  <2>1. SUFFICES ASSUME NEW i \in DOMAIN u, NEW j \in DOMAIN u, i < j, ~IsHit(u[i]), ~IsHit(u[j])
                 PROVE  u[i].kind = "read complete" /\ u[j].kind = "action complete"
    BY DEF EndsOnce
  <2>2. i \notin DOMAIN s /\ j \notin DOMAIN s
    BY <1>1, <2>1 DEF OnlyHits, Joins
  <2>3. /\ i - n \in DOMAIN t /\ u[i] = t[i - n] /\ i = (i - n) + n
        /\ j - n \in DOMAIN t /\ u[j] = t[j - n] /\ j = (j - n) + n
        /\ n \in Nat /\ DOMAIN t \subseteq Nat
    BY <1>1, <2>2 DEF Joins
  <2>4. i - n < j - n
    BY <2>1, <2>3
  <2> QED
    BY <2>1, <2>3, <2>4 DEF EndsOnce
<1> QED
  BY <1>2, <1>3, <1>4, <1>5 DEF u

\* What a reader posts at its end, complete or not.
LEMMA EndsOfReaders ==
    ASSUME NEW which \in {"walk", "matched"}
    PROVE  LET done == <<[kind |-> "read complete", mode |-> which], [kind |-> "action complete"]>>
               quit == <<[kind |-> "action complete"]>>
           IN  /\ done \in Seq(PanelEvents) /\ quit \in Seq(PanelEvents)
               /\ \A i \in DOMAIN done : ~IsHit(done[i])
               /\ \A i \in DOMAIN quit : ~IsHit(quit[i])
               /\ EndsOnce(done) /\ EndsOnce(quit)
               /\ \A m : (CompleteIn(done, m) <=> m = which) /\ ~CompleteIn(quit, m)
<1> DEFINE rc == [kind |-> "read complete", mode |-> which]
           ac == [kind |-> "action complete"]
           done == <<rc, ac>>
           quit == <<ac>>
<1>1. rc \in PanelEvents /\ ac \in PanelEvents
  BY EventsAreRecords
<1>2. rc.kind = "read complete" /\ rc.mode = which /\ ac.kind = "action complete"
  OBVIOUS
<1> HIDE DEF rc, ac
<1>3. DOMAIN done = {1, 2} /\ done[1] = rc /\ done[2] = ac /\ DOMAIN quit = {1} /\ quit[1] = ac
  OBVIOUS
<1>4. done \in Seq(PanelEvents) /\ quit \in Seq(PanelEvents)
  BY <1>1, TuplesAreSequences
<1> HIDE DEF done, quit
<1>5. (\A i \in DOMAIN done : ~IsHit(done[i])) /\ \A i \in DOMAIN quit : ~IsHit(quit[i])
  BY <1>2, <1>3 DEF IsHit
<1>6. EndsOnce(done) /\ EndsOnce(quit)
  <2>1. \A i, j \in DOMAIN done : i < j => i = 1 /\ j = 2
    BY <1>3
  <2>2. \A i, j \in DOMAIN quit : ~(i < j)
    BY <1>3
  <2> QED
    BY <1>2, <1>3, <2>1, <2>2 DEF EndsOnce
<1>7. \A m : (CompleteIn(done, m) <=> m = which) /\ ~CompleteIn(quit, m)
  <2>1. \A i \in DOMAIN quit : quit[i].kind # "read complete"
    BY <1>2, <1>3
  <2>2. \A i \in DOMAIN done : done[i].kind = "read complete" => done[i].mode = which
    BY <1>2, <1>3
  <2>3. 1 \in DOMAIN done /\ done[1].kind = "read complete" /\ done[1].mode = which
    BY <1>2, <1>3
  <2> QED
    BY <2>1, <2>2, <2>3 DEF CompleteIn
<1> QED
  BY <1>4, <1>5, <1>6, <1>7 DEF done, quit, rc, ac

-----------------------------------------------------------------------------
(***************************************************************************)
(* The hits: every match is found once, and at the end.                    *)
(***************************************************************************)

Walking == reader # NoReader /\ reader.mode = "walk"
Matching == reader # NoReader /\ reader.mode = "matched"
IsUnread(f) == f \in reader.left /\ f \notin reader.skip

IsFound(f) == \E i \in DOMAIN AllHits : AllHits[i] = f
Posted(f) == PostedIn(panelEvents, f)
Completes(which) == CompleteIn(panelEvents, which)

HasNotBegun ==
    panel = "none" => reader = NoReader /\ panelEvents = << >> /\ AllHits = << >> /\ ~RunningActionId

HandlesNothing == panel = "closed" => panelEvents = << >>

\* A file is in the list, or on the way to it, or still to be read.
OneHitEach ==
    /\ \A i, j \in DOMAIN AllHits : AllHits[i] = AllHits[j] => i = j
    /\ OneHitIn(panelEvents)
    /\ \A f \in SearchFiles : ~(IsFound(f) /\ Posted(f))
    /\ Walking => \A f \in SearchFiles : IsUnread(f) => ~IsFound(f) /\ ~Posted(f)

\* The reader has left the pages to the panel, which has not come to them yet.
PagesAreLeft ==
    panel = "finding" =>
        /\ AllHits = << >>
        /\ \A f \in SearchFiles : Posted(f) => codeCtrl[f] = "closed"
        /\ reader # NoReader => reader.skip = OpenedFiles

SearchIsCovered ==
    /\ panel \in {"finding", "searching", "searched"}
    /\ Walking \/ Completes("walk") \/ panel = "searched"
    /\ Len(AllHits) < MAX_HITS
    => \A f \in expectedHits :
           \/ IsFound(f) \/ Posted(f)
           \/ Walking /\ IsUnread(f) /\ diskHit[f]
           \/ panel = "finding" /\ codeCtrl[f] = "match"

EventsInOrder ==
    /\ EndsOnce(panelEvents)
    /\ reader # NoReader \/ ~RunningActionId => OnlyHits(panelEvents)
    /\ ~RunningActionId => reader = NoReader

\* No reader of a search is left when the panel replaces, nor the other way about.
ReadersFit ==
    /\ panel \in {"finding", "searching"} => ~Matching /\ ~Completes("matched")
    /\ panel = "replacing" => ~Walking /\ ~Completes("walk")
    /\ panel \in {"searched", "replaced"} => reader = NoReader /\ ~Completes("walk") /\ ~Completes("matched")

ReplaceIsOwed ==
    /\ \A f \in owedPages : codeCtrl[f] = "no match"
    /\ Matching => owedFiles \cap reader.skip = {}
    /\ Matching \/ Completes("matched") \/ panel = "replaced" =>
           \A f \in owedFiles : ~diskHit[f] \/ (Matching /\ f \in reader.left)

FindInv ==
    /\ FindTypeOK /\ HasNotBegun /\ HandlesNothing
    /\ OneHitEach /\ PagesAreLeft /\ SearchIsCovered
    /\ EventsInOrder /\ ReadersFit /\ ReplaceIsOwed

LEMMA NoEvents ==
    /\ \A f : ~PostedIn(<< >>, f)
    /\ \A which : ~CompleteIn(<< >>, which)
    /\ OnlyHits(<< >>) /\ OneHitIn(<< >>) /\ EndsOnce(<< >>)
  BY DEF PostedIn, CompleteIn, OnlyHits, OneHitIn, EndsOnce

LEMMA FindInitInv == FindInit => FindInv
<1> SUFFICES ASSUME FindInit PROVE FindInv
  OBVIOUS
<1>1. FindTypeOK
  BY FindInitType
<1>2. /\ reader = NoReader /\ panelEvents = << >> /\ AllHits = << >> /\ ~RunningActionId /\ panel = "none"
      /\ owedFiles = {} /\ owedPages = {} /\ expectedHits = {}
  BY DEF FindInit
<1>3. \A f : ~IsFound(f) /\ ~Posted(f)
  BY <1>2, NoEvents DEF IsFound, Posted
<1>4. HasNotBegun /\ HandlesNothing /\ PagesAreLeft
  BY <1>2 DEF HasNotBegun, HandlesNothing, PagesAreLeft
<1>5. OneHitEach /\ SearchIsCovered
  BY <1>2, <1>3, NoEvents DEF OneHitEach, SearchIsCovered, Walking
<1>6. EventsInOrder /\ ReadersFit /\ ReplaceIsOwed
  BY <1>2, NoEvents DEF EventsInOrder, ReadersFit, ReplaceIsOwed, Matching, Walking, Completes
<1> QED
  BY <1>1, <1>4, <1>5, <1>6 DEF FindInv

\* The texts change: what is found or owed for a file goes with its old text.
LEMMA TextsKeepFindInv ==
    ASSUME FindInv, FindTypeOK', TextsChange
    PROVE  FindInv'
<1> USE DEF FindInv
<1>1. UNCHANGED <<MAX_HITS, panel, RunningActionId, reader, panelEvents, AllHits, buttons>>
  BY DEF TextsChange
<1>2. \A f : (IsFound(f)' <=> IsFound(f)) /\ (Posted(f)' <=> Posted(f)) /\ (IsUnread(f)' <=> IsUnread(f))
  BY <1>1 DEF IsFound, Posted, IsUnread
<1>3. (Walking' <=> Walking) /\ (Matching' <=> Matching) /\ \A which : Completes(which)' <=> Completes(which)
  BY <1>1 DEF Walking, Matching, Completes
<1>4. HasNotBegun' /\ HandlesNothing' /\ EventsInOrder' /\ ReadersFit'
  BY <1>1, <1>3 DEF HasNotBegun, HandlesNothing, EventsInOrder, ReadersFit
<1>5. OneHitEach'
  BY <1>1, <1>2, <1>3 DEF OneHitEach
<1>6. PICK f \in SearchFiles :
         \/ GuiIsFree /\ (UserOpens(f) \/ UserCloses(f) \/ UserEdits(f) \/ UserSaves(f))
         \/ OtherProgramWrites(f)
  BY DEF TextsChange
<1>7. CASE GuiIsFree /\ (UserOpens(f) \/ UserCloses(f) \/ UserEdits(f))
  <2>1. /\ panel # "finding"
        /\ UNCHANGED <<diskHit, expectedHits, owedFiles>>
        /\ owedPages' \subseteq owedPages
    BY <1>7 DEF GuiIsFree, UserOpens, UserCloses, UserEdits, owedVars
  <2>2. \A g \in owedPages' : codeCtrl'[g] = "no match"
    <3>1. CASE UserOpens(f)
      BY <3>1 DEF UserOpens, FindTypeOK, ReplaceIsOwed, owedVars
    <3>2. CASE UserCloses(f)
      BY <3>2 DEF UserCloses, FindTypeOK, ReplaceIsOwed
    <3>3. CASE UserEdits(f)
      <4>1. owedPages' = owedPages \ {f}
        BY <3>3 DEF UserEdits
      <4>2. \A g \in SearchFiles : g # f => codeCtrl'[g] = codeCtrl[g]
        BY <3>3 DEF UserEdits, FindTypeOK
      <4> QED
        BY <4>1, <4>2 DEF ReplaceIsOwed, FindTypeOK
    <3> QED
      BY <1>7, <3>1, <3>2, <3>3
  <2>3. PagesAreLeft'
    BY <1>1, <2>1 DEF PagesAreLeft
  <2>4. SearchIsCovered'
    BY <1>1, <1>2, <1>3, <2>1 DEF SearchIsCovered
  <2>5. ReplaceIsOwed'
    BY <1>1, <1>3, <2>1, <2>2 DEF ReplaceIsOwed
  <2> QED
    BY <1>4, <1>5, <2>3, <2>4, <2>5
<1>8. CASE (GuiIsFree /\ UserSaves(f)) \/ OtherProgramWrites(f)
  <2>1. TextIsWritten(f) /\ UNCHANGED <<codeCtrl, owedPages>>
    BY <1>8 DEF UserSaves, OtherProgramWrites
  <2>2. \A g \in SearchFiles : g # f => diskHit'[g] = diskHit[g]
    <3>1. \E v : diskHit' = [diskHit EXCEPT ![f] = v]
      BY <1>8, Zenon DEF UserSaves, OtherProgramWrites
    <3> QED
      BY <3>1 DEF FindTypeOK
  <2>3. /\ owedFiles' = owedFiles \ {f} /\ expectedHits' \subseteq expectedHits
        /\ reader # NoReader /\ IsUnread(f) => f \notin expectedHits'
    BY <2>1 DEF TextIsWritten, IsUnread
  <2>4. PagesAreLeft'
    BY <1>1, <1>2, <2>1 DEF PagesAreLeft, OpenedFiles
  <2>5. SearchIsCovered'
    <3>1. SUFFICES ASSUME panel \in {"finding", "searching", "searched"},
                          Walking \/ Completes("walk") \/ panel = "searched",
                          Len(AllHits) < MAX_HITS, NEW g \in expectedHits'
                   PROVE  \/ IsFound(g) \/ Posted(g)
                          \/ Walking /\ IsUnread(g) /\ diskHit'[g]
                          \/ panel = "finding" /\ codeCtrl[g] = "match"
      BY <1>1, <1>2, <1>3, <2>1 DEF SearchIsCovered
    <3>2. \/ IsFound(g) \/ Posted(g)
          \/ Walking /\ IsUnread(g) /\ diskHit[g]
          \/ panel = "finding" /\ codeCtrl[g] = "match"
      BY <2>3, <3>1 DEF SearchIsCovered
    <3>3. Walking /\ IsUnread(g) => g # f
      BY <2>3, <3>1 DEF Walking
    <3>4. g \in SearchFiles
      BY <2>3, <3>1 DEF FindTypeOK
    <3> QED
      BY <2>2, <3>2, <3>3, <3>4
  <2>6. ReplaceIsOwed'
    BY <1>1, <1>3, <2>1, <2>2, <2>3 DEF ReplaceIsOwed, FindTypeOK
  <2> QED
    BY <1>4, <1>5, <2>4, <2>5, <2>6
<1> QED
  BY <1>6, <1>7, <1>8

LEMMA FindKeepsFindInv ==
    ASSUME FindInv, FindTypeOK', Find
    PROVE  FindInv'
<1> USE DEF FindInv
<1>1. /\ panel = "none" /\ panel' = "finding"
      /\ panelEvents = << >> /\ panelEvents' = << >> /\ AllHits = << >> /\ AllHits' = << >>
      /\ UNCHANGED <<textVars, owedFiles, owedPages, MAX_HITS>>
  BY DEF Find, HasNotBegun
<1>2. /\ reader'.mode = "walk" /\ reader'.skip = OpenedFiles /\ reader'.left = SearchFiles
      /\ reader' # NoReader /\ RunningActionId'
  BY DEF Find, QueueReader, NoReader
<1>3. \A f : ~IsFound(f)' /\ ~Posted(f)' /\ ~Completes(f)'
  BY <1>1, NoEvents DEF IsFound, Posted, Completes
<1>4. Walking' /\ ~Matching'
  BY <1>2 DEF Walking, Matching
<1>5. \A f \in SearchFiles : IsUnread(f)' <=> codeCtrl[f] = "closed"
  BY <1>2 DEF IsUnread, OpenedFiles
<1>6. HasNotBegun' /\ HandlesNothing'
  BY <1>1 DEF HasNotBegun, HandlesNothing
<1>7. OneHitEach'
  BY <1>1, <1>3, NoEvents DEF OneHitEach
<1>8. PagesAreLeft'
  BY <1>1, <1>2, <1>3 DEF PagesAreLeft, OpenedFiles, textVars
<1>9. SearchIsCovered'
  <2>1. \A f \in expectedHits' : f \in SearchFiles /\ IF codeCtrl[f] = "closed" THEN diskHit[f] ELSE codeCtrl[f] = "match"
    BY DEF Find, OpenedFiles
  <2> QED
    BY <1>1, <1>4, <1>5, <2>1 DEF SearchIsCovered, textVars
<1>10. EventsInOrder' /\ ReadersFit'
  BY <1>1, <1>2, <1>3, <1>4, NoEvents DEF EventsInOrder, ReadersFit
<1>11. ReplaceIsOwed'
  BY <1>1, <1>3, <1>4 DEF ReplaceIsOwed, textVars
<1> QED
  BY <1>6, <1>7, <1>8, <1>9, <1>10, <1>11

LEMMA FindInOpenedFilesKeepsFindInv ==
    ASSUME FindInv, FindTypeOK', FindInOpenedFiles
    PROVE  FindInv'
<1> USE DEF FindInv
<1> DEFINE hits == {HitEvent(f) : f \in {g \in SearchFiles : codeCtrl[g] = "match"}}
           t == SetToSeq(hits)
<1>1. /\ panel = "finding" /\ panel' = "searching" /\ panelEvents' = panelEvents \o t
      /\ UNCHANGED <<MAX_HITS, textVars, RunningActionId, reader, AllHits, owedVars>>
  BY DEF FindInOpenedFiles
<1>2. \A e \in hits : e \in PanelEvents /\ IsHit(e) /\ e.file \in SearchFiles /\ codeCtrl[e.file] = "match" /\ e = HitEvent(e.file)
  <2>1. SUFFICES ASSUME NEW f \in SearchFiles, codeCtrl[f] = "match"
                 PROVE  LET e == HitEvent(f)
                        IN  /\ e \in PanelEvents /\ IsHit(e) /\ e.file \in SearchFiles
                            /\ codeCtrl[e.file] = "match" /\ e = HitEvent(e.file)
    OBVIOUS
  <2>2. HitEvent(f).kind = "hit" /\ HitEvent(f).file = f
    BY DEF HitEvent
  <2> QED
    BY <2>1, <2>2, EventsAreRecords DEF IsHit
<1>3. \A f \in SearchFiles : codeCtrl[f] = "match" => HitEvent(f) \in hits /\ HitEvent(f).file = f
  BY DEF HitEvent
<1>4. IsFiniteSet(hits)
  BY HitsAreFinite
<1> HIDE DEF hits
<1>5. /\ t \in Seq(hits)
      /\ \A e \in hits : \E i \in DOMAIN t : t[i] = e
      /\ \A i, j \in DOMAIN t : t[i] = t[j] => i = j
  BY <1>4, SetToSeqLists
<1> HIDE DEF t
<1>6. t \in Seq(PanelEvents) /\ \A i \in DOMAIN t : t[i] \in hits
  BY <1>2, <1>5, SeqMonotonic, LenProperties
<1>7. OnlyHits(t)
  BY <1>2, <1>6 DEF OnlyHits
<1>8. \A f \in SearchFiles : PostedIn(t, f) <=> codeCtrl[f] = "match"
  BY <1>2, <1>3, <1>5, <1>6 DEF PostedIn
<1>9. OneHitIn(t)
  BY <1>2, <1>5, <1>6 DEF OneHitIn
<1>10. panelEvents \in Seq(PanelEvents)
  BY DEF FindTypeOK
<1>11. \A f \in SearchFiles : Posted(f)' <=> Posted(f) \/ codeCtrl[f] = "match"
  BY <1>1, <1>6, <1>7, <1>8, <1>10, HitsPosted DEF Posted
<1>12. \A which : Completes(which)' <=> Completes(which)
  BY <1>1, <1>6, <1>7, <1>10, HitsPosted DEF Completes
<1>13. \A f : (IsFound(f)' <=> IsFound(f)) /\ ~IsFound(f) /\ (IsUnread(f)' <=> IsUnread(f))
  BY <1>1 DEF IsFound, PagesAreLeft, IsUnread
<1>14. (Walking' <=> Walking) /\ (Matching' <=> Matching)
  BY <1>1 DEF Walking, Matching
<1>15. \A f \in SearchFiles : Posted(f) => codeCtrl[f] = "closed"
  BY <1>1 DEF PagesAreLeft
<1>16. OneHitIn(panelEvents')
  BY <1>1, <1>6, <1>7, <1>8, <1>9, <1>10, <1>15, HitsPosted DEF OneHitEach, Posted
<1>17. OneHitEach'
  <2>1. Walking => \A f \in SearchFiles : IsUnread(f) => codeCtrl[f] # "match"
    BY <1>1 DEF PagesAreLeft, Walking, IsUnread, OpenedFiles
  <2> QED
    BY <1>1, <1>11, <1>13, <1>14, <1>16, <2>1 DEF OneHitEach
<1>18. HasNotBegun' /\ HandlesNothing' /\ PagesAreLeft'
  BY <1>1 DEF HasNotBegun, HandlesNothing, PagesAreLeft
<1>19. SearchIsCovered'
  BY <1>1, <1>11, <1>12, <1>13, <1>14 DEF SearchIsCovered, FindTypeOK, textVars, owedVars
<1>20. EventsInOrder'
  BY <1>1, <1>6, <1>7, <1>10, HitsPosted DEF EventsInOrder
<1>21. ReadersFit' /\ ReplaceIsOwed'
  BY <1>1, <1>12, <1>14 DEF ReadersFit, ReplaceIsOwed, textVars, owedVars
<1> QED
  BY <1>17, <1>18, <1>19, <1>20, <1>21

\* Stopping a reader leaves it nothing more to read, and posts nothing.
LEMMA CancelledReader ==
    ASSUME FindTypeOK, CancelReader
    PROVE  \/ reader' = NoReader
           \/ /\ reader # NoReader /\ reader' # NoReader
              /\ reader'.mode = reader.mode /\ reader'.skip = reader.skip /\ reader'.left = reader.left
<1>1. CASE reader = NoReader
  BY <1>1 DEF CancelReader
<1>2. CASE reader # NoReader
  <2>1. reader \in Readers
    BY <1>2 DEF FindTypeOK
  <2>2. reader' = NoReader \/ reader' = reader \/ reader' = [reader EXCEPT !.state = "cancelled"]
    BY <1>2 DEF CancelReader
  <2>3. [reader EXCEPT !.state = "cancelled"] \in Readers
    BY <2>1, ReadersAreRecords
  <2>4. CASE reader' = [reader EXCEPT !.state = "cancelled"]
    <3>1. reader'.mode = reader.mode /\ reader'.skip = reader.skip /\ reader'.left = reader.left
      BY <2>1, <2>4 DEF Readers
    <3> QED
      BY <1>2, <2>3, <2>4, <3>1, ReadersAreRecords
  <2> QED
    BY <1>2, <2>2, <2>4
<1> QED
  BY <1>1, <1>2

\* A reader that is stopped, and goes at once or only later, leaves the invariant.
LEMMA StopKeepsFindInv ==
    ASSUME FindInv, FindTypeOK', UNCHANGED <<MAX_HITS, textVars, panel, RunningActionId, panelEvents, AllHits, owedVars>>,
           \/ reader' = NoReader
           \/ /\ reader # NoReader /\ reader' # NoReader
              /\ reader'.mode = reader.mode /\ reader'.skip = reader.skip /\ reader'.left = reader.left
    PROVE  FindInv'
<1> USE DEF FindInv
<1>1. \A f : (IsFound(f)' <=> IsFound(f)) /\ (Posted(f)' <=> Posted(f)) /\ (Completes(f)' <=> Completes(f))
  BY DEF IsFound, Posted, Completes
<1>2. /\ Walking' => Walking /\ \A f : IsUnread(f)' <=> IsUnread(f)
      /\ Matching' => Matching
      /\ reader' # NoReader => reader # NoReader
  BY DEF Walking, Matching, IsUnread
<1>3. HasNotBegun' /\ HandlesNothing' /\ EventsInOrder'
  BY <1>2 DEF HasNotBegun, HandlesNothing, EventsInOrder
<1>4. OneHitEach'
  BY <1>1, <1>2 DEF OneHitEach
<1>5. PagesAreLeft'
  BY <1>1, <1>2 DEF PagesAreLeft, OpenedFiles, textVars
<1>6. SearchIsCovered'
  <2>1. CASE reader' = NoReader
    <3>1. SUFFICES ASSUME panel \in {"finding", "searching", "searched"},
                          Completes("walk") \/ panel = "searched",
                          Len(AllHits) < MAX_HITS, NEW g \in expectedHits
                   PROVE  \/ IsFound(g) \/ Posted(g)
                          \/ panel = "finding" /\ codeCtrl[g] = "match"
      BY <1>1, <2>1 DEF SearchIsCovered, Walking, owedVars, textVars
    <3>2. ~Walking
      BY <3>1 DEF EventsInOrder, ReadersFit, Completes, Walking, OnlyHits, CompleteIn, IsHit
    <3> QED
      BY <3>1, <3>2 DEF SearchIsCovered
  <2>2. CASE reader' # NoReader
    <3>1. (Walking' <=> Walking) /\ \A f : IsUnread(f)' <=> IsUnread(f)
      BY <2>2 DEF Walking, IsUnread
    <3> QED
      BY <1>1, <3>1 DEF SearchIsCovered, owedVars, textVars
  <2> QED
    BY <2>1, <2>2
<1>7. ReadersFit'
  BY <1>1, <1>2 DEF ReadersFit, Walking, Matching
<1>8. ReplaceIsOwed'
  <2>1. CASE reader' = NoReader
    <3>1. ~Matching'
      BY <2>1 DEF Matching
    <3>2. Completes("matched") \/ panel = "replaced" => ~Matching
      BY DEF EventsInOrder, ReadersFit, Completes, Matching, OnlyHits, CompleteIn, IsHit
    <3> QED
      BY <1>1, <3>1, <3>2 DEF ReplaceIsOwed, owedVars, textVars
  <2>2. CASE reader' # NoReader
    <3>1. (Matching' <=> Matching) /\ reader'.skip = reader.skip /\ reader'.left = reader.left
      BY <2>2 DEF Matching
    <3> QED
      BY <1>1, <3>1 DEF ReplaceIsOwed, owedVars, textVars
  <2> QED
    BY <2>1, <2>2
<1> QED
  BY <1>3, <1>4, <1>5, <1>6, <1>7, <1>8

LEMMA ReplaceKeepsFindInv ==
    ASSUME FindInv, FindTypeOK', OnReplaceInAllFilesButton
    PROVE  FindInv'
<1> USE DEF FindInv
<1>1. /\ ~RunningActionId /\ RunningActionId' /\ panel' = "replacing"
      /\ reader'.mode = "matched" /\ reader'.skip = OpenedFiles /\ reader'.left = ToSet(AllHits) /\ reader' # NoReader
      /\ owedFiles' = ToSet(AllHits) \ OpenedFiles /\ owedPages' = OpenedFiles
      /\ UNCHANGED <<MAX_HITS, diskHit, panelEvents, AllHits>>
  BY DEF OnReplaceInAllFilesButton, QueueReader, NoReader, FilesFromHits
<1>2. \A f \in OpenedFiles : codeCtrl'[f] = "no match"
  BY DEF OnReplaceInAllFilesButton, OpenedFiles
<1>3. OnlyHits(panelEvents) /\ \A which : ~Completes(which)'
  BY <1>1 DEF EventsInOrder, OnlyHits, Completes, CompleteIn, IsHit
<1>4. \A f : (IsFound(f)' <=> IsFound(f)) /\ (Posted(f)' <=> Posted(f))
  BY <1>1 DEF IsFound, Posted
<1>5. ~Walking' /\ Matching'
  BY <1>1 DEF Walking, Matching
<1>6. HasNotBegun' /\ HandlesNothing' /\ PagesAreLeft' /\ SearchIsCovered' /\ ReadersFit'
  BY <1>1, <1>3, <1>5 DEF HasNotBegun, HandlesNothing, PagesAreLeft, SearchIsCovered, ReadersFit
<1>7. OneHitEach'
  BY <1>1, <1>4, <1>5 DEF OneHitEach
<1>8. EventsInOrder'
  BY <1>1, <1>3 DEF EventsInOrder
<1>9. ReplaceIsOwed'
  BY <1>1, <1>2, <1>5 DEF ReplaceIsOwed
<1> QED
  BY <1>6, <1>7, <1>8, <1>9

LEMMA CloseKeepsFindInv ==
    ASSUME FindInv, FindTypeOK', OnToolsNotebookPageClosed
    PROVE  FindInv'
<1> USE DEF FindInv
<1>1. /\ panel' = "closed" /\ panelEvents' = << >>
      /\ UNCHANGED <<MAX_HITS, textVars, RunningActionId, AllHits, owedVars>>
  BY DEF OnToolsNotebookPageClosed
<1>2. \/ reader' = NoReader
      \/ /\ reader # NoReader /\ reader' # NoReader
         /\ reader'.mode = reader.mode /\ reader'.skip = reader.skip /\ reader'.left = reader.left
  BY CancelledReader DEF OnToolsNotebookPageClosed
<1>3. \A f : (IsFound(f)' <=> IsFound(f)) /\ ~Posted(f)' /\ ~Completes(f)'
  BY <1>1, NoEvents DEF IsFound, Posted, Completes
<1>4. /\ Walking' => Walking /\ \A f : IsUnread(f)' <=> IsUnread(f)
      /\ Matching' => Matching /\ reader'.skip = reader.skip /\ reader'.left = reader.left
      /\ reader' # NoReader => reader # NoReader
  BY <1>2 DEF Walking, Matching, IsUnread
<1>5. HasNotBegun' /\ HandlesNothing' /\ PagesAreLeft' /\ SearchIsCovered' /\ ReadersFit'
  BY <1>1 DEF HasNotBegun, HandlesNothing, PagesAreLeft, SearchIsCovered, ReadersFit
<1>6. OneHitEach'
  BY <1>1, <1>3, <1>4, NoEvents DEF OneHitEach
<1>7. EventsInOrder'
  BY <1>1, <1>4, NoEvents DEF EventsInOrder
<1>8. ReplaceIsOwed'
  <2>1. Matching' => Matching /\ reader'.left = reader.left
    BY <1>4
  <2> QED
    BY <1>1, <1>3, <1>4, <2>1 DEF ReplaceIsOwed, textVars, owedVars
<1> QED
  BY <1>5, <1>6, <1>7, <1>8

\* The first event is handled: its hit is listed, its end of a reader ends the search.
LEMMA PanelKeepsFindInv ==
    ASSUME FindInv, FindTypeOK', PanelHandlesEvent
    PROVE  FindInv'
<1> USE DEF FindInv
<1>1. /\ panel \notin {"none", "finding", "closed"} /\ panelEvents # << >> /\ panelEvents \in Seq(PanelEvents)
      /\ panelEvents' = Tail(panelEvents)
      /\ UNCHANGED <<MAX_HITS, textVars, owedVars>>
  BY DEF PanelHandlesEvent, Shown, FindTypeOK
<1>2. PICK e \in PanelEvents : e = Head(panelEvents)
  BY <1>1, HeadTailProperties
<1>3. /\ \A f : Posted(f) <=> (IsHit(e) /\ e.file = f) \/ Posted(f)'
      /\ \A which : Completes(which) <=> (e.kind = "read complete" /\ e.mode = which) \/ Completes(which)'
      /\ OnlyHits(panelEvents) <=> IsHit(e) /\ OnlyHits(panelEvents')
      /\ OneHitIn(panelEvents') /\ (IsHit(e) => ~Posted(e.file)')
      /\ EndsOnce(panelEvents')
      /\ e.kind = "read complete" => \A which : ~Completes(which)'
      /\ e.kind = "action complete" => OnlyHits(panelEvents')
  BY <1>1, <1>2, EventsHandled DEF Posted, Completes, OneHitEach, EventsInOrder
<1>4. CASE e.kind = "hit"
  <2>1. OnFileHit(e.file) /\ e.file \in SearchFiles
    BY <1>2, <1>4, EventFields DEF PanelHandlesEvent
  <2>2. IsHit(e)
    BY <1>4 DEF IsHit
  <2>3. UNCHANGED <<panel, RunningActionId>>
    BY <2>1 DEF OnFileHit
  <2>4. AllHits \in Seq(SearchFiles) /\ Len(AllHits) \in Nat /\ DOMAIN AllHits = 1 .. Len(AllHits) /\ MAX_HITS \in Nat
    BY LenProperties, FindInFilesAssumption DEF FindTypeOK
  <2>5. \A which : Completes(which)' <=> Completes(which)
    BY <1>3, <1>4
  <2>6. CASE Len(AllHits) < MAX_HITS
    <3>1. AllHits' = Append(AllHits, e.file) /\ reader' = reader
      BY <2>1, <2>6 DEF OnFileHit
    <3>2. /\ Len(AllHits') = Len(AllHits) + 1 /\ DOMAIN AllHits' = 1 .. Len(AllHits) + 1
          /\ \A i \in 1 .. Len(AllHits) : AllHits'[i] = AllHits[i]
          /\ AllHits'[Len(AllHits) + 1] = e.file
      BY <2>1, <2>4, <3>1
    <3>3. \A f : IsFound(f)' <=> IsFound(f) \/ f = e.file
      BY <2>4, <3>2 DEF IsFound
    <3>4. \A f : IsUnread(f)' <=> IsUnread(f)
      BY <3>1 DEF IsUnread
    <3>5. (Walking' <=> Walking) /\ (Matching' <=> Matching)
      BY <3>1 DEF Walking, Matching
    <3>6. \A i, j \in DOMAIN AllHits' : AllHits'[i] = AllHits'[j] => i = j
      <4>1. ~IsFound(e.file)
        BY <1>3, <2>1, <2>2 DEF OneHitEach
      <4>2. \A i \in 1 .. Len(AllHits) : AllHits[i] # e.file
        BY <2>4, <4>1 DEF IsFound
      <4>3. \A i \in DOMAIN AllHits' : i \in 1 .. Len(AllHits) \/ i = Len(AllHits) + 1
        BY <2>4, <3>2
      <4> QED
        BY <2>4, <3>2, <4>2, <4>3 DEF OneHitEach
    <3>7. OneHitEach'
      <4>1. \A f \in SearchFiles : ~(IsFound(f)' /\ Posted(f)')
        BY <1>3, <2>2, <3>3 DEF OneHitEach
      <4>2. Walking => \A f \in SearchFiles : IsUnread(f) => ~IsFound(f)' /\ ~Posted(f)'
        BY <1>3, <2>2, <3>3 DEF OneHitEach
      <4> QED
        BY <1>3, <3>4, <3>5, <3>6, <4>1, <4>2 DEF OneHitEach
    <3>8. HasNotBegun' /\ HandlesNothing' /\ PagesAreLeft'
      BY <1>1, <2>3 DEF HasNotBegun, HandlesNothing, PagesAreLeft
    <3>9. SearchIsCovered'
      <4>1. Len(AllHits') < MAX_HITS' => Len(AllHits) < MAX_HITS
        BY <1>1, <2>4, <3>2
      <4>2. \A f : IsFound(f)' \/ Posted(f)' <=> IsFound(f) \/ Posted(f)
        BY <1>3, <2>2, <3>3
      <4> QED
        BY <1>1, <2>3, <2>5, <3>4, <3>5, <4>1, <4>2 DEF SearchIsCovered, owedVars, textVars
    <3>10. EventsInOrder' /\ ReadersFit' /\ ReplaceIsOwed'
      BY <1>1, <1>3, <2>2, <2>3, <2>5, <3>1, <3>5 DEF EventsInOrder, ReadersFit, ReplaceIsOwed, owedVars, textVars
    <3> QED
      BY <3>7, <3>8, <3>9, <3>10
  <2>7. CASE ~(Len(AllHits) < MAX_HITS)
    <3>1. CancelReader /\ AllHits' = AllHits
      BY <2>1, <2>7 DEF OnFileHit, Stop
    <3>2. \/ reader' = NoReader
          \/ /\ reader # NoReader /\ reader' # NoReader
             /\ reader'.mode = reader.mode /\ reader'.skip = reader.skip /\ reader'.left = reader.left
      BY <3>1, CancelledReader
    <3>3. \A f : (IsFound(f)' <=> IsFound(f)) /\ (Posted(f)' => Posted(f))
      BY <1>3, <3>1 DEF IsFound
    <3>4. /\ Walking' => Walking /\ \A f : IsUnread(f)' <=> IsUnread(f)
          /\ Matching' => Matching /\ reader'.skip = reader.skip /\ reader'.left = reader.left
          /\ reader' # NoReader => reader # NoReader /\ (Matching' <=> Matching)
          /\ reader = NoReader => ~Matching /\ ~Walking
      BY <3>2 DEF Walking, Matching, IsUnread
    <3>5. HasNotBegun' /\ HandlesNothing' /\ PagesAreLeft'
      BY <1>1, <2>3 DEF HasNotBegun, HandlesNothing, PagesAreLeft
    <3>6. OneHitEach'
      BY <1>3, <3>1, <3>3, <3>4 DEF OneHitEach
    <3>7. SearchIsCovered'
      BY <1>1, <2>7, <3>1 DEF SearchIsCovered
    <3>8. EventsInOrder' /\ ReadersFit'
      BY <1>1, <1>3, <2>2, <2>3, <2>5, <3>2, <3>4 DEF EventsInOrder, ReadersFit
    <3>9. ReplaceIsOwed'
      <4>1. Completes("matched") \/ panel = "replaced" => ~Matching
        BY DEF EventsInOrder, ReadersFit, Completes, Matching, OnlyHits, CompleteIn, IsHit
      <4>2. Matching' \/ Completes("matched")' \/ panel' = "replaced" => (Matching' <=> Matching)
        BY <2>3, <2>5, <3>2, <3>4, <4>1 DEF Matching
      <4> QED
        BY <1>1, <2>3, <2>5, <3>4, <4>2 DEF ReplaceIsOwed, owedVars, textVars
    <3> QED
      BY <3>5, <3>6, <3>7, <3>8, <3>9
  <2> QED
    BY <2>6, <2>7
<1>5. ASSUME ~IsHit(e), UNCHANGED <<reader, AllHits>>
      PROVE  /\ reader = NoReader /\ ~Walking /\ ~Walking' /\ ~Matching /\ ~Matching'
             /\ \A f : (IsFound(f)' <=> IsFound(f)) /\ (Posted(f)' <=> Posted(f))
             /\ OneHitEach'
  <2>1. reader = NoReader
    BY <1>3, <1>5 DEF EventsInOrder
  <2>2. ~Walking /\ ~Walking' /\ ~Matching /\ ~Matching'
    BY <1>5, <2>1 DEF Walking, Matching
  <2>3. \A f : (IsFound(f)' <=> IsFound(f)) /\ (Posted(f)' <=> Posted(f))
    BY <1>3, <1>5 DEF IsFound
  <2> QED
    BY <1>3, <1>5, <2>1, <2>2, <2>3 DEF OneHitEach
<1>6. CASE e.kind = "read complete"
  <2>1. OnFindInFilesComplete(e.mode) /\ e.mode \in {"walk", "matched"}
    BY <1>2, <1>6, EventFields DEF PanelHandlesEvent
  <2>2. /\ panel' = IF e.mode = "walk" THEN "searched" ELSE "replaced"
        /\ UNCHANGED <<RunningActionId, reader, AllHits>>
    BY <2>1 DEF OnFindInFilesComplete
  <2>3. ~IsHit(e)
    BY <1>6 DEF IsHit
  <2>4. /\ reader = NoReader /\ ~Walking /\ ~Walking' /\ ~Matching /\ ~Matching'
        /\ \A f : (IsFound(f)' <=> IsFound(f)) /\ (Posted(f)' <=> Posted(f))
        /\ OneHitEach'
    BY <1>5, <2>2, <2>3
  <2>5. Completes(e.mode) /\ \A which : ~Completes(which)'
    BY <1>3, <1>6
  <2>6. HasNotBegun' /\ HandlesNothing' /\ PagesAreLeft'
    BY <2>2 DEF HasNotBegun, HandlesNothing, PagesAreLeft
  <2>7. SearchIsCovered'
    <3>1. SUFFICES ASSUME e.mode = "walk", Len(AllHits) < MAX_HITS, NEW f \in expectedHits
                   PROVE  IsFound(f) \/ Posted(f)
      BY <1>1, <2>2, <2>4, <2>5 DEF SearchIsCovered, owedVars, textVars
    <3>2. panel \in {"searching", "searched"}
      BY <1>1, <2>5, <3>1 DEF ReadersFit, FindTypeOK
    <3> QED
      BY <2>4, <2>5, <3>1, <3>2 DEF SearchIsCovered
  <2>8. EventsInOrder' /\ ReadersFit'
    BY <1>3, <2>2, <2>3, <2>4, <2>5 DEF EventsInOrder, ReadersFit
  <2>9. ReplaceIsOwed'
    BY <1>1, <2>1, <2>2, <2>4, <2>5 DEF ReplaceIsOwed, owedVars, textVars
  <2> QED
    BY <2>4, <2>6, <2>7, <2>8, <2>9
<1>7. CASE e.kind = "action complete"
  <2>1. RunningActionId' = FALSE /\ UNCHANGED <<panel, reader, AllHits>>
    BY <1>2, <1>7 DEF PanelHandlesEvent, OnActionComplete
  <2>2. ~IsHit(e)
    BY <1>7 DEF IsHit
  <2>3. /\ reader = NoReader /\ ~Walking /\ ~Walking' /\ ~Matching /\ ~Matching'
        /\ \A f : (IsFound(f)' <=> IsFound(f)) /\ (Posted(f)' <=> Posted(f))
        /\ OneHitEach'
    BY <1>5, <2>1, <2>2
  <2>4. \A which : Completes(which)' <=> Completes(which)
    BY <1>3, <1>7
  <2>5. HasNotBegun' /\ HandlesNothing' /\ PagesAreLeft'
    BY <1>1, <2>1 DEF HasNotBegun, HandlesNothing, PagesAreLeft
  <2>6. SearchIsCovered'
    BY <1>1, <2>1, <2>3, <2>4 DEF SearchIsCovered, owedVars, textVars
  <2>7. EventsInOrder' /\ ReadersFit'
    BY <1>3, <1>7, <2>1, <2>3, <2>4 DEF EventsInOrder, ReadersFit
  <2>8. ReplaceIsOwed'
    BY <1>1, <2>1, <2>3, <2>4 DEF ReplaceIsOwed, owedVars, textVars
  <2> QED
    BY <2>3, <2>5, <2>6, <2>7, <2>8
<1> QED
  BY <1>4, <1>6, <1>7, EventFields

\* A file of the search is read: a hit in it is posted, unless its page is searched.
LEMMA ReadKeepsFindInv ==
    ASSUME FindInv, FindTypeOK', NEW f \in SearchFiles, BackgroundFileRead(f),
           UNCHANGED <<MAX_HITS, panel, RunningActionId, AllHits, buttons>>
    PROVE  FindInv'
<1> USE DEF FindInv
<1>1. /\ reader \in Readers /\ reader # NoReader /\ reader.mode = "walk" /\ f \in reader.left
      /\ reader' = [reader EXCEPT !.left = @ \ {f}]
      /\ UNCHANGED <<textVars, owedVars>>
  BY DEF BackgroundFileRead, ReaderIsAt, FindTypeOK
<1>2. /\ reader' # NoReader /\ reader'.mode = "walk" /\ reader'.skip = reader.skip
      /\ reader'.left = reader.left \ {f}
  BY <1>1, ReaderReads
<1>3. Walking /\ Walking' /\ ~Matching /\ ~Matching'
  BY <1>1, <1>2 DEF Walking, Matching
<1>4. \A g : IsUnread(g)' <=> IsUnread(g) /\ g # f
  BY <1>2 DEF IsUnread
<1>5. \A g : IsFound(g)' <=> IsFound(g)
  BY DEF IsFound
<1>6. panelEvents \in Seq(PanelEvents) /\ OnlyHits(panelEvents)
  BY <1>1 DEF FindTypeOK, EventsInOrder
<1>7. CASE panel # "closed" /\ diskHit[f] /\ f \notin reader.skip
  <2> DEFINE t == <<HitEvent(f)>>
  <2>1. panelEvents' = panelEvents \o t
    BY <1>7 DEF BackgroundFileRead, Post
  <2>2. t \in Seq(PanelEvents) /\ DOMAIN t = {1} /\ t[1] = HitEvent(f)
    <3>1. t \in Seq(PanelEvents)
      BY EventsAreRecords, TuplesAreSequences
    <3> QED
      BY <3>1
  <2> HIDE DEF t
  <2>3. HitEvent(f).kind = "hit" /\ HitEvent(f).file = f
    BY DEF HitEvent
  <2>4. OnlyHits(t) /\ OneHitIn(t)
    BY <2>2, <2>3 DEF OnlyHits, IsHit, OneHitIn
  <2>5. \A g : PostedIn(t, g) <=> g = f
    BY <2>2, <2>3 DEF PostedIn, IsHit
  <2>6. IsUnread(f)
    BY <1>1, <1>7 DEF IsUnread
  <2>7. ~IsFound(f) /\ ~Posted(f)
    BY <1>3, <2>6 DEF OneHitEach
  <2>8. \A g : Posted(g)' <=> Posted(g) \/ g = f
    BY <1>6, <2>1, <2>2, <2>4, <2>5, HitsPosted DEF Posted
  <2>9. /\ \A which : Completes(which)' <=> Completes(which)
        /\ OnlyHits(panelEvents') /\ EndsOnce(panelEvents')
    BY <1>6, <2>1, <2>2, <2>4, HitsPosted DEF Completes, EventsInOrder
  <2>10. OneHitIn(panelEvents')
    BY <1>6, <2>1, <2>2, <2>4, <2>5, <2>7, HitsPosted DEF OneHitEach, Posted
  <2>11. HasNotBegun' /\ HandlesNothing'
    BY <1>1, <1>7 DEF HasNotBegun, HandlesNothing
  <2>12. OneHitEach'
    BY <1>3, <1>4, <1>5, <2>7, <2>8, <2>10 DEF OneHitEach
  <2>13. PagesAreLeft'
    BY <1>1, <1>2, <1>7, <2>8 DEF PagesAreLeft, OpenedFiles, textVars
  <2>14. SearchIsCovered'
    BY <1>1, <1>3, <1>4, <1>5, <2>8 DEF SearchIsCovered, owedVars, textVars
  <2>15. EventsInOrder' /\ ReadersFit' /\ ReplaceIsOwed'
    BY <1>1, <1>3, <2>9 DEF EventsInOrder, ReadersFit, ReplaceIsOwed, owedVars, textVars
  <2> QED
    BY <2>11, <2>12, <2>13, <2>14, <2>15
<1>8. CASE ~(panel # "closed" /\ diskHit[f] /\ f \notin reader.skip)
  <2>1. panelEvents' = panelEvents
    BY <1>6, <1>8, ConcatEmptySeq DEF BackgroundFileRead, Post
  <2>2. \A g : (Posted(g)' <=> Posted(g)) /\ (Completes(g)' <=> Completes(g))
    BY <2>1 DEF Posted, Completes
  <2>3. HasNotBegun' /\ HandlesNothing'
    BY <1>1, <2>1 DEF HasNotBegun, HandlesNothing
  <2>4. OneHitEach'
    BY <1>3, <1>4, <1>5, <2>1, <2>2 DEF OneHitEach
  <2>5. PagesAreLeft'
    BY <1>1, <1>2, <2>2 DEF PagesAreLeft, OpenedFiles, textVars
  <2>6. SearchIsCovered'
    <3>1. panel # "closed" => ~(diskHit[f] /\ IsUnread(f))
      BY <1>8 DEF IsUnread
    <3> QED
      BY <1>1, <1>3, <1>4, <1>5, <2>2, <3>1 DEF SearchIsCovered, owedVars, textVars
  <2>7. EventsInOrder' /\ ReadersFit' /\ ReplaceIsOwed'
    BY <1>1, <1>3, <2>1, <2>2 DEF EventsInOrder, ReadersFit, ReplaceIsOwed, owedVars, textVars
  <2> QED
    BY <2>3, <2>4, <2>5, <2>6, <2>7
<1> QED
  BY <1>7, <1>8

\* A file of the replacement is written, or owes nothing any more.
LEMMA MatchKeepsFindInv ==
    ASSUME FindInv, FindTypeOK', NEW f \in SearchFiles, BackgroundFileMatch(f),
           UNCHANGED <<MAX_HITS, panel, RunningActionId, AllHits, buttons>>
    PROVE  FindInv'
<1> USE DEF FindInv
<1>1. /\ reader \in Readers /\ reader # NoReader /\ reader.mode = "matched" /\ f \in reader.left
      /\ reader' = [reader EXCEPT !.left = @ \ {f}]
      /\ UNCHANGED <<codeCtrl, modifiedFiles, textChanges, panelEvents, expectedHits, owedPages>>
  BY DEF BackgroundFileMatch, ReaderIsAt, FindTypeOK
<1>2. /\ reader' # NoReader /\ reader'.mode = "matched" /\ reader'.skip = reader.skip
      /\ reader'.left = reader.left \ {f}
  BY <1>1, ReaderReads
<1>3. ~Walking /\ ~Walking' /\ Matching /\ Matching'
  BY <1>1, <1>2 DEF Walking, Matching
<1>4. \A g : (IsFound(g)' <=> IsFound(g)) /\ (Posted(g)' <=> Posted(g)) /\ (Completes(g)' <=> Completes(g))
  BY <1>1 DEF IsFound, Posted, Completes
<1>5. panel \notin {"finding", "searching", "searched"}
  BY <1>1, <1>3 DEF ReadersFit
<1>6. HasNotBegun' /\ HandlesNothing' /\ PagesAreLeft' /\ SearchIsCovered'
  BY <1>1, <1>5 DEF HasNotBegun, HandlesNothing, PagesAreLeft, SearchIsCovered
<1>7. OneHitEach' /\ EventsInOrder' /\ ReadersFit'
  BY <1>1, <1>2, <1>3, <1>4, <1>5 DEF OneHitEach, EventsInOrder, ReadersFit
<1>8. ReplaceIsOwed'
  <2>1. \A g \in owedFiles : g \notin reader.skip /\ (~diskHit[g] \/ g \in reader.left)
    BY <1>3 DEF ReplaceIsOwed
  <2>2. owedFiles' \subseteq owedFiles /\ \A g \in owedFiles' : ~diskHit'[g] \/ g \in reader'.left
    <3>1. CASE f \in reader.skip /\ UNCHANGED <<diskHit, owedFiles>>
      BY <1>2, <2>1, <3>1
    <3>2. CASE f \notin reader.skip /\ diskHit' = [diskHit EXCEPT ![f] = FALSE] /\ UNCHANGED owedFiles
      <4>1. ~diskHit'[f] /\ \A g \in SearchFiles : g # f => diskHit'[g] = diskHit[g]
        BY <3>2 DEF FindTypeOK
      <4> QED
        BY <1>2, <2>1, <3>2, <4>1 DEF FindTypeOK
    <3>3. CASE f \notin reader.skip /\ UNCHANGED diskHit /\ owedFiles' = owedFiles \ {f}
      BY <1>2, <2>1, <3>3
    <3> QED
      BY <3>1, <3>2, <3>3 DEF BackgroundFileMatch
  <2> QED
    BY <1>1, <1>2, <1>3, <2>1, <2>2 DEF ReplaceIsOwed
<1> QED
  BY <1>6, <1>7, <1>8

LEMMA EndKeepsFindInv ==
    ASSUME FindInv, FindTypeOK', ReaderEnds,
           UNCHANGED <<MAX_HITS, panel, RunningActionId, AllHits, buttons>>
    PROVE  FindInv'
<1> USE DEF FindInv
<1>1. /\ reader \in Readers /\ reader # NoReader /\ reader' = NoReader
      /\ reader.mode \in {"walk", "matched"}
      /\ UNCHANGED <<textVars, owedVars>>
      /\ panelEvents \in Seq(PanelEvents) /\ OnlyHits(panelEvents) /\ RunningActionId
  BY ReadersAreRecords DEF ReaderEnds, FindTypeOK, EventsInOrder
<1>2. CASE panel = "closed"
  <2>1. panelEvents' = panelEvents
    BY <1>2 DEF ReaderEnds, Post
  <2> QED
    BY <1>1, <2>1, StopKeepsFindInv
<1>3. CASE panel # "closed"
  <2> DEFINE done == <<[kind |-> "read complete", mode |-> reader.mode], [kind |-> "action complete"]>>
             quit == <<[kind |-> "action complete"]>>
  <2>1. PICK t \in {done, quit} :
            panelEvents' = panelEvents \o t /\ (t = done => reader.left = {})
    BY <1>3 DEF ReaderEnds, Post
  <2>2. /\ t \in Seq(PanelEvents) /\ (\A i \in DOMAIN t : ~IsHit(t[i])) /\ EndsOnce(t)
        /\ \A m : CompleteIn(t, m) => m = reader.mode /\ t = done
    BY <1>1, <2>1, EndsOfReaders
  <2> HIDE DEF done, quit
  <2>3. /\ \A g : Posted(g)' <=> Posted(g)
        /\ \A m : Completes(m)' => m = reader.mode /\ reader.left = {}
        /\ OneHitIn(panelEvents') /\ EndsOnce(panelEvents')
    BY <1>1, <2>1, <2>2, EndPosted DEF Posted, Completes, OneHitEach
  <2>4. ~Walking' /\ ~Matching'
    BY <1>1 DEF Walking, Matching
  <2>5. \A g : IsFound(g)' <=> IsFound(g)
    BY DEF IsFound
  <2>6. \A m : ~Completes(m)
    BY <1>1 DEF OnlyHits, Completes, CompleteIn, IsHit
  <2>7. panel # "none" /\ panel \notin {"searched", "replaced"}
    BY <1>1 DEF HasNotBegun, ReadersFit
  <2>8. HasNotBegun' /\ HandlesNothing'
    BY <1>3, <2>7 DEF HasNotBegun, HandlesNothing
  <2>9. OneHitEach'
    BY <2>3, <2>4, <2>5 DEF OneHitEach
  <2>10. PagesAreLeft'
    BY <1>1, <2>3 DEF PagesAreLeft, OpenedFiles, textVars
  <2>11. SearchIsCovered'
    <3>1. SUFFICES ASSUME panel \in {"finding", "searching"}, Completes("walk")',
                          Len(AllHits) < MAX_HITS, NEW g \in expectedHits
                   PROVE  IsFound(g) \/ Posted(g) \/ (panel = "finding" /\ codeCtrl[g] = "match")
      BY <1>1, <2>3, <2>4, <2>5, <2>7 DEF SearchIsCovered, owedVars, textVars
    <3>2. Walking /\ ~IsUnread(g)
      BY <1>1, <2>3, <3>1 DEF Walking, IsUnread
    <3> QED
      BY <3>1, <3>2 DEF SearchIsCovered
  <2>12. EventsInOrder'
    BY <1>1, <2>3 DEF EventsInOrder
  <2>13. ReadersFit'
    BY <1>1, <2>3, <2>4, <2>7 DEF ReadersFit, Walking, Matching
  <2>14. ReplaceIsOwed'
    <3>1. SUFFICES ASSUME Completes("matched")', NEW g \in owedFiles PROVE ~diskHit[g]
      BY <1>1, <2>3, <2>4, <2>7 DEF ReplaceIsOwed, owedVars, textVars
    <3>2. Matching /\ g \notin reader.left
      BY <1>1, <2>3, <3>1 DEF Matching
    <3> QED
      BY <3>1, <3>2 DEF ReplaceIsOwed
  <2> QED
    BY <2>8, <2>9, <2>10, <2>11, <2>12, <2>13, <2>14
<1> QED
  BY <1>2, <1>3

LEMMA FindStepInv == FindInv /\ [FindNext]_findVars => FindInv'
<1> SUFFICES ASSUME FindInv, [FindNext]_findVars PROVE FindInv'
  OBVIOUS
<1>1. FindTypeOK'
  BY FindTypeStep DEF FindInv
<1>2. CASE TextsChange
  BY <1>1, <1>2, TextsKeepFindInv
<1>3. CASE Find
  BY <1>1, <1>3, FindKeepsFindInv
<1>4. CASE FindInOpenedFiles
  BY <1>1, <1>4, FindInOpenedFilesKeepsFindInv
<1>5. CASE OnStopButton
  BY <1>1, <1>5, CancelledReader, StopKeepsFindInv DEF OnStopButton, Stop, FindInv
<1>6. CASE OnReplaceInAllFilesButton
  BY <1>1, <1>6, ReplaceKeepsFindInv
<1>7. CASE PanelHandlesEvent
  BY <1>1, <1>7, PanelKeepsFindInv
<1>8. ASSUME UNCHANGED <<MAX_HITS, textVars, panel, RunningActionId, reader, panelEvents, AllHits, owedVars>>
      PROVE  FindInv'
  <2>1. UNCHANGED <<MAX_HITS, textVars, panel, RunningActionId, panelEvents, AllHits, owedVars>>
    BY <1>8
  <2>2. \/ reader' = NoReader
        \/ /\ reader # NoReader /\ reader' # NoReader
           /\ reader'.mode = reader.mode /\ reader'.skip = reader.skip /\ reader'.left = reader.left
    BY <1>8
  <2> QED
    BY <1>1, <2>1, <2>2, StopKeepsFindInv
<1>9. CASE OtherPanelIsComplete
  BY <1>8, <1>9 DEF OtherPanelIsComplete
<1>10. CASE OnToolsNotebookPageClosed
  BY <1>1, <1>10, CloseKeepsFindInv
<1>11. ASSUME reader \in Readers, reader # NoReader,
              UNCHANGED <<MAX_HITS, textVars, panel, RunningActionId, panelEvents, AllHits, owedVars>>,
              NEW state \in {"running", "cancelled"}, reader' = [reader EXCEPT !.state = state]
       PROVE  FindInv'
  <2>1. /\ reader'.mode = reader.mode /\ reader'.skip = reader.skip /\ reader'.left = reader.left
        /\ reader' \in Readers
    BY <1>11 DEF Readers
  <2>2. reader' # NoReader
    BY <2>1, ReadersAreRecords
  <2> QED
    BY <1>1, <1>11, <2>1, <2>2, StopKeepsFindInv
<1>12. CASE ReaderStarts
  BY <1>11, <1>12 DEF ReaderStarts, FindInv, FindTypeOK
<1>13. CASE ReaderStep
  <2>1. UNCHANGED <<MAX_HITS, panel, RunningActionId, AllHits, buttons>>
    BY <1>13 DEF ReaderStep
  <2>2. ASSUME NEW f \in SearchFiles, BackgroundFileRead(f) PROVE FindInv'
    BY <1>1, <2>1, <2>2, ReadKeepsFindInv
  <2>3. ASSUME NEW f \in SearchFiles, BackgroundFileMatch(f) PROVE FindInv'
    BY <1>1, <2>1, <2>3, MatchKeepsFindInv
  <2>4. CASE ReaderEnds
    BY <1>1, <2>1, <2>4, EndKeepsFindInv
  <2>5. CASE PoolStopsAll
    <3>1. CASE reader.state = "queued"
      BY <1>1, <2>1, <2>5, <3>1, StopKeepsFindInv DEF PoolStopsAll
    <3>2. CASE reader.state # "queued"
      BY <1>11, <2>1, <2>5, <3>2 DEF PoolStopsAll, FindInv, FindTypeOK
    <3> QED
      BY <3>1, <3>2
  <2> QED
    BY <1>13, <2>2, <2>3, <2>4, <2>5 DEF ReaderStep
<1>14. CASE UNCHANGED findVars
  BY <1>8, <1>14 DEF findVars
<1> QED
  BY <1>2, <1>3, <1>4, <1>5, <1>6, <1>7, <1>9, <1>10, <1>12, <1>13, <1>14 DEF FindNext

LEMMA FindInvReachesAll == FindInv => SearchReachesAll
<1> SUFFICES ASSUME FindInv PROVE SearchReachesAll
  OBVIOUS
<1> USE DEF FindInv
<1>1. ASSUME panel = "searched", Len(AllHits) < MAX_HITS, NEW f \in expectedHits
      PROVE  f \in ToSet(AllHits) \/ HitEvent(f) \in ToSet(panelEvents)
  <2>1. ~Walking
    BY <1>1 DEF ReadersFit, Walking
  <2>2. IsFound(f) \/ Posted(f)
    BY <1>1, <2>1 DEF SearchIsCovered
  <2>3. IsFound(f) => f \in ToSet(AllHits)
    BY DEF IsFound, ToSet
  <2>4. ASSUME Posted(f) PROVE HitEvent(f) \in ToSet(panelEvents)
    <3>1. PICK i \in DOMAIN panelEvents : IsHit(panelEvents[i]) /\ panelEvents[i].file = f
      BY <2>4 DEF Posted, PostedIn
    <3>2. panelEvents[i] \in PanelEvents
      <4>1. panelEvents \in Seq(PanelEvents)
        BY DEF FindTypeOK
      <4>2. i \in 1 .. Len(panelEvents)
        BY <4>1, LenProperties
      <4> QED
        BY <4>1, <4>2, ElementOfSeq
    <3>3. panelEvents[i] = HitEvent(f)
      BY <3>1, <3>2, HitsAreHitEvents DEF IsHit
    <3> QED
      BY <3>1, <3>3 DEF ToSet
  <2> QED
    BY <2>2, <2>3, <2>4
<1>2. HitsAreComplete
  BY <1>1 DEF HitsAreComplete, OneHitEach
<1>3. ReplaceReachesEveryHit
  BY DEF ReplaceReachesEveryHit, ReplaceIsOwed, ReadersFit, Matching
<1> QED
  BY <1>2, <1>3 DEF SearchReachesAll

\* Whatever the files, their texts and the limit of hits: no file is found twice by
\* the pages and the reader together, a search that was not stopped has every match,
\* and a replacement leaves none where it had to replace.
THEOREM SearchReachesEverything == FindSpec => []SearchReachesAll
<1>1. FindInv /\ [FindNext]_findVars => FindInv'
  BY FindStepInv
<1> QED
  BY FindInitInv, <1>1, FindInvReachesAll, PTL DEF FindSpec

-----------------------------------------------------------------------------
(***************************************************************************)
(* The explorer: types.                                                    *)
(***************************************************************************)

PanelEventsOfExplorer == [kind : {"listed", "changed"}] \cup ModifyEvents

\* The fields of the actions of the pool, of the results, and of what is posted on.
LEMMA ActionFields ==
    ASSUME NEW a \in ExplorerActions
    PROVE  /\ a.kind \in {"list", "delete", "rename"} /\ a.dir \in ListedDirs
           /\ a.kind # "list" => a.name \in Names
           /\ a.kind = "rename" => a.new \in Names
<1>1. CASE a \in [kind : {"list"}, dir : ListedDirs]
  BY <1>1
<1>2. CASE a \in [kind : {"delete"}, dir : ListedDirs, name : Names]
  BY <1>2
<1>3. CASE a \in [kind : {"rename"}, dir : ListedDirs, name : Names, new : Names]
  BY <1>3
<1> QED
  BY <1>1, <1>2, <1>3 DEF ExplorerActions

LEMMA ModifyFields ==
    ASSUME NEW e \in ModifyEvents
    PROVE  /\ e.kind \in {"deleted", "not renamed"} /\ e.dir \in ListedDirs /\ e.name \in Names
           /\ e.kind = "not renamed" => e.new \in Names
<1>1. CASE e \in [kind : {"deleted"}, dir : ListedDirs, name : Names]
  BY <1>1
<1>2. CASE e \in [kind : {"not renamed"}, dir : ListedDirs, name : Names, new : Names]
  BY <1>2
<1> QED
  BY <1>1, <1>2 DEF ModifyEvents

LEMMA ResultFields ==
    ASSUME NEW e \in ListEvents \cup ModifyEvents
    PROVE  /\ e.kind \in {"listed", "deleted", "not renamed"} /\ e.dir \in ListedDirs
           /\ e.kind = "listed" => e.names \subseteq Names /\ e.watch \in Nat /\ e.change \in Nat
           /\ e.kind # "listed" => e \in ModifyEvents
<1>1. CASE e \in ListEvents
  BY <1>1 DEF ListEvents
<1>2. CASE e \in ModifyEvents
  BY <1>2, ModifyFields
<1> QED
  BY <1>1, <1>2

LEMMA PanelFields ==
    ASSUME NEW e \in PanelEventsOfExplorer
    PROVE  /\ e.kind \in {"listed", "changed", "deleted", "not renamed"}
           /\ e.kind \notin {"listed", "changed"} => e \in ModifyEvents
<1>1. CASE e \in [kind : {"listed", "changed"}]
  BY <1>1
<1>2. CASE e \in ModifyEvents
  BY <1>2, ModifyFields
<1> QED
  BY <1>1, <1>2 DEF PanelEventsOfExplorer

\* What is queued and posted is of its type.
LEMMA ExplorerRecords ==
    /\ \A dir \in ListedDirs : [kind |-> "list", dir |-> dir] \in ExplorerActions
    /\ \A dir \in ListedDirs, name \in Names :
          /\ [kind |-> "delete", dir |-> dir, name |-> name] \in ExplorerActions
          /\ [kind |-> "deleted", dir |-> dir, name |-> name] \in ModifyEvents
    /\ \A dir \in ListedDirs, name, new \in Names :
          /\ [kind |-> "rename", dir |-> dir, name |-> name, new |-> new] \in ExplorerActions
          /\ [kind |-> "not renamed", dir |-> dir, name |-> name, new |-> new] \in ModifyEvents
    /\ \A dir \in ListedDirs, names \in SUBSET Names, w \in Nat, c \in Nat :
          [kind |-> "listed", dir |-> dir, names |-> names, watch |-> w, change |-> c] \in ListEvents
    /\ [kind |-> "listed"] \in PanelEventsOfExplorer /\ [kind |-> "changed"] \in PanelEventsOfExplorer
<1>1. \A dir \in ListedDirs : [kind |-> "list", dir |-> dir] \in ExplorerActions
  BY DEF ExplorerActions
<1>2. \A dir \in ListedDirs, name \in Names :
          /\ [kind |-> "delete", dir |-> dir, name |-> name] \in [kind : {"delete"}, dir : ListedDirs, name : Names]
          /\ [kind |-> "deleted", dir |-> dir, name |-> name] \in [kind : {"deleted"}, dir : ListedDirs, name : Names]
  OBVIOUS
<1>3. \A dir \in ListedDirs, name, new \in Names :
          /\ [kind |-> "rename", dir |-> dir, name |-> name, new |-> new]
                \in [kind : {"rename"}, dir : ListedDirs, name : Names, new : Names]
          /\ [kind |-> "not renamed", dir |-> dir, name |-> name, new |-> new]
                \in [kind : {"not renamed"}, dir : ListedDirs, name : Names, new : Names]
  OBVIOUS
<1>4. \A dir \in ListedDirs, names \in SUBSET Names, w \in Nat, c \in Nat :
          [kind |-> "listed", dir |-> dir, names |-> names, watch |-> w, change |-> c] \in ListEvents
  BY DEF ListEvents
<1>5. [kind |-> "listed"] \in PanelEventsOfExplorer /\ [kind |-> "changed"] \in PanelEventsOfExplorer
  BY DEF PanelEventsOfExplorer
<1> QED
  BY <1>1, <1>2, <1>3, <1>4, <1>5 DEF ExplorerActions, ModifyEvents

\* One record to the end of a sequence of its type, or the first one taken off.
LEMMA AppendedIsTyped ==
    ASSUME NEW S, NEW s \in Seq(S), NEW x \in S
    PROVE  Append(s, x) \in Seq(S)
  BY AppendProperties

LEMMA TakenIsTyped ==
    ASSUME NEW S, NEW s \in Seq(S), s # << >>
    PROVE  Head(s) \in S /\ Tail(s) \in Seq(S)
  BY HeadTailProperties

\* Some record of the kind is in the sequence.
HasKind(s, kind) == \E i \in DOMAIN s : s[i].kind = kind

LEMMA KindAppended ==
    ASSUME NEW S, NEW s \in Seq(S), NEW x \in S, NEW kind
    PROVE  HasKind(Append(s, x), kind) <=> HasKind(s, kind) \/ x.kind = kind
<1>1. PICK n \in Nat : /\ n \in DOMAIN Append(s, x) /\ Append(s, x)[n] = x
                       /\ \A i \in DOMAIN Append(s, x) : i \in DOMAIN s \/ i = n
                       /\ \A i \in DOMAIN s : i \in DOMAIN Append(s, x) /\ Append(s, x)[i] = s[i]
  BY AppendIndex
<1> QED
  BY <1>1 DEF HasKind

LEMMA KindTaken ==
    ASSUME NEW S, NEW s \in Seq(S), s # << >>, NEW kind
    PROVE  HasKind(s, kind) <=> Head(s).kind = kind \/ HasKind(Tail(s), kind)
<1>1. ASSUME HasKind(s, kind) PROVE Head(s).kind = kind \/ HasKind(Tail(s), kind)
  <2>1. PICK i \in DOMAIN s : s[i].kind = kind
    BY <1>1 DEF HasKind
  <2>2. i = 1 \/ (i - 1 \in DOMAIN Tail(s) /\ Tail(s)[i - 1] = s[i])
    BY TailIndex
  <2> QED
    BY <2>1, <2>2, TailIndex DEF HasKind
<1>2. Head(s).kind = kind \/ HasKind(Tail(s), kind) => HasKind(s, kind)
  BY TailIndex DEF HasKind
<1> QED
  BY <1>1, <1>2

LEMMA NothingOfAKind ==
    ASSUME NEW kind
    PROVE  ~HasKind(<< >>, kind)
  BY DEF HasKind

\* A directory is watched and named in events of the watch once it is shown.
ExplorerTyped ==
    /\ ExplorerTypeOK
    /\ Watcher = WorkingDir
    /\ watchEvents > 0 \/ HasKind(explorerEvents, "changed") => WorkingDir \in ListedDirs

LEMMA ExplorerInitType == ExplorerInit => ExplorerTypeOK
<1> SUFFICES ASSUME ExplorerInit PROVE ExplorerTypeOK
  OBVIOUS
<1>1. /\ explorerQueue \in Seq(ExplorerActions) /\ listingEvents \in Seq(ListEvents \cup ModifyEvents)
      /\ explorerEvents \in Seq([kind : {"listed", "changed"}] \cup ModifyEvents)
  BY EmptySeq DEF ExplorerInit
<1>2. 0 \in 0 .. MaxVisits /\ 0 \in 0 .. MaxUserChanges /\ 0 \in 0 .. MaxDiskChanges
  BY ExplorerAssumption
<1> QED
  BY <1>1, <1>2 DEF ExplorerInit, ExplorerTypeOK

\* The change of a directory.
LEMMA DiskChangesTyped ==
    ASSUME ExplorerTypeOK, NEW dir \in ListedDirs, NEW names \in SUBSET Names, DiskChanges(dir, names)
    PROVE  /\ disk' \in [ListedDirs -> SUBSET Names] /\ changes' \in [ListedDirs -> Nat] /\ watchEvents' \in Nat
           /\ disk'[dir] = names /\ changes'[dir] = changes[dir] + 1
           /\ \A d \in ListedDirs : d # dir => disk'[d] = disk[d] /\ changes'[d] = changes[d]
  BY DEF DiskChanges, ExplorerTypeOK

LEMMA RelabeledTyped ==
    ASSUME ExplorerTypeOK, NEW name \in Names, NEW new \in Names, nameRows[name] > 0
    PROVE  Relabeled(name, new) \in [Names -> Nat]
<1>1. nameRows \in [Names -> Nat]
  BY DEF ExplorerTypeOK
<1>2. ASSUME NEW n \in Names PROVE (nameRows[n] + IF n = new THEN 1 ELSE 0) - (IF n = name THEN 1 ELSE 0) \in Nat
  <2>1. nameRows[n] \in Nat /\ (n = name => nameRows[n] > 0)
    BY <1>1
  <2> QED
    BY <2>1
<1> QED
  BY <1>2 DEF Relabeled

LEMMA ExplorerTypeStep == ExplorerTyped /\ [ExplorerNext]_explorerVars => ExplorerTypeOK'
<1> SUFFICES ASSUME ExplorerTypeOK, ExplorerTyped, [ExplorerNext]_explorerVars PROVE ExplorerTypeOK'
  BY DEF ExplorerTyped
<1> USE ExplorerAssumption
<1>1. ASSUME NEW dir \in ListedDirs, NEW name \in Names, OtherProgramChanges(dir, name) PROVE ExplorerTypeOK'
  <2> DEFINE names == IF name \in disk[dir] THEN disk[dir] \ {name} ELSE disk[dir] \cup {name}
  <2>1. names \in SUBSET Names
    BY DEF ExplorerTypeOK
  <2>2. DiskChanges(dir, names)
    BY <1>1 DEF OtherProgramChanges
  <2>3. diskChanges' \in 0 .. MaxDiskChanges
    BY <1>1 DEF OtherProgramChanges, ExplorerTypeOK
  <2> HIDE DEF names
  <2> QED
    BY <1>1, <2>1, <2>2, <2>3, DiskChangesTyped DEF OtherProgramChanges, ExplorerTypeOK, listingVars, rowVars
<1>2. ASSUME NEW dir \in ListedDirs, RefreshDir(dir) PROVE ExplorerTypeOK'
  <2>1. explorerQueue' \in Seq(ExplorerActions)
    BY <1>2, ExplorerRecords, AppendedIsTyped DEF RefreshDir, StartRefresh, QueueAction, ExplorerTypeOK
  <2>2. visits' \in 0 .. MaxVisits
    BY <1>2 DEF RefreshDir, ExplorerTypeOK
  <2> QED
    BY <1>2, <2>1, <2>2 DEF RefreshDir, ExplorerTypeOK, listingVars, rowVars, namesVars
<1>3. ASSUME NEW name \in Names, OnListMenuDelete(name) PROVE ExplorerTypeOK'
  <2>1. WorkingDir \in ListedDirs /\ userChanges' \in 0 .. MaxUserChanges
    BY <1>3 DEF OnListMenuDelete, UserChange, ExplorerTypeOK
  <2>2. explorerQueue' \in Seq(ExplorerActions)
    BY <1>3, <2>1, ExplorerRecords, AppendedIsTyped DEF OnListMenuDelete, QueueAction, ExplorerTypeOK
  <2> QED
    BY <1>3, <2>1, <2>2 DEF OnListMenuDelete, UserChange, ExplorerTypeOK, listingVars, namesVars
<1>4. ASSUME NEW name \in Names, OnListMenuCreateNew(name) PROVE ExplorerTypeOK'
  <2>1. WorkingDir \in ListedDirs /\ userChanges' \in 0 .. MaxUserChanges
    BY <1>4 DEF OnListMenuCreateNew, UserChange, ExplorerTypeOK
  <2>2. disk[WorkingDir] \cup {name} \in SUBSET Names
    BY <2>1 DEF ExplorerTypeOK
  <2>3. nameRows' \in [Names -> Nat]
    BY <1>4 DEF OnListMenuCreateNew, ExplorerTypeOK
  <2> QED
    BY <1>4, <2>1, <2>2, <2>3, DiskChangesTyped DEF OnListMenuCreateNew, UserChange, ExplorerTypeOK, listingVars
<1>5. ASSUME NEW name \in Names, NEW new \in Names, OnListEndLabelEdit(name, new) PROVE ExplorerTypeOK'
  <2>1. WorkingDir \in ListedDirs /\ userChanges' \in 0 .. MaxUserChanges
    BY <1>5 DEF OnListEndLabelEdit, UserChange, ExplorerTypeOK
  <2>2. explorerQueue' \in Seq(ExplorerActions)
    BY <1>5, <2>1, ExplorerRecords, AppendedIsTyped DEF OnListEndLabelEdit, QueueAction, ExplorerTypeOK
  <2>3. nameRows' \in [Names -> Nat]
    BY <1>5, RelabeledTyped DEF OnListEndLabelEdit
  <2>4. labels' \subseteq [dir : ListedDirs, name : Names, new : Names]
    BY <1>5, <2>1 DEF OnListEndLabelEdit, ExplorerTypeOK
  <2> QED
    BY <1>5, <2>1, <2>2, <2>3, <2>4 DEF OnListEndLabelEdit, UserChange, ExplorerTypeOK, listingVars, namesVars
<1>6. CASE ExplorerActionRuns
  <2>1. Tail(explorerQueue) \in Seq(ExplorerActions)
    BY <1>6, TakenIsTyped DEF ExplorerActionRuns, ExplorerTypeOK
  <2>2. PICK a \in ExplorerActions : a = Head(explorerQueue)
    BY <1>6, TakenIsTyped DEF ExplorerActionRuns, ExplorerTypeOK
  <2>3. explorerQueue' \in Seq(ExplorerActions) /\ UNCHANGED <<counters, listingVars, explorerEvents, rowVars>>
    BY <1>6, <2>1 DEF ExplorerActionRuns
  <2>4. SUFFICES /\ disk' \in [ListedDirs -> SUBSET Names] /\ changes' \in [ListedDirs -> Nat] /\ watchEvents' \in Nat
                 /\ listingEvents' \in Seq(ListEvents \cup ModifyEvents)
    BY <2>3 DEF ExplorerTypeOK, counters, listingVars, rowVars
  <2>5. \A e \in ListEvents \cup ModifyEvents : Posts(e) => listingEvents' \in Seq(ListEvents \cup ModifyEvents)
    BY AppendedIsTyped DEF Posts, ExplorerTypeOK
  <2>6. UNCHANGED <<namesVars, watchEvents>> =>
            disk' \in [ListedDirs -> SUBSET Names] /\ changes' \in [ListedDirs -> Nat] /\ watchEvents' \in Nat
    BY DEF namesVars, ExplorerTypeOK
  <2>7. a.dir \in ListedDirs /\ disk[a.dir] \in SUBSET Names
    BY ActionFields DEF ExplorerTypeOK
  <2>8. CASE a.kind = "list"
    <3>1. ListFiles(a)
      BY <1>6, <2>2, <2>8 DEF ExplorerActionRuns
    <3>2. [kind |-> "listed", dir |-> a.dir, names |-> disk[a.dir], watch |-> watches, change |-> changes[a.dir]] \in ListEvents
      BY <2>7, ExplorerRecords DEF ExplorerTypeOK
    <3> QED
      BY <2>5, <2>6, <3>1, <3>2 DEF ListFiles
  <2>9. CASE a.kind = "delete"
    <3>1. DeleteName(a) /\ a.name \in Names
      BY <1>6, <2>2, <2>9, ActionFields DEF ExplorerActionRuns
    <3>2. [kind |-> "deleted", dir |-> a.dir, name |-> a.name] \in ModifyEvents
      BY <2>7, <3>1, ExplorerRecords
    <3>3. disk[a.dir] \ {a.name} \in SUBSET Names
      BY <2>7
    <3>4. CASE DiskChanges(a.dir, disk[a.dir] \ {a.name}) /\ Posts([kind |-> "deleted", dir |-> a.dir, name |-> a.name])
      BY <2>5, <2>7, <3>2, <3>3, <3>4, DiskChangesTyped
    <3>5. CASE UNCHANGED <<namesVars, watchEvents, listingEvents>>
      BY <2>6, <3>5 DEF ExplorerTypeOK
    <3> QED
      BY <3>1, <3>4, <3>5 DEF DeleteName
  <2>10. CASE a.kind = "rename"
    <3>1. RenameName(a) /\ a.name \in Names /\ a.new \in Names
      BY <1>6, <2>2, <2>10, ActionFields DEF ExplorerActionRuns
    <3>2. [kind |-> "not renamed", dir |-> a.dir, name |-> a.name, new |-> a.new] \in ModifyEvents
      BY <2>7, <3>1, ExplorerRecords
    <3>3. (disk[a.dir] \ {a.name}) \cup {a.new} \in SUBSET Names
      BY <2>7, <3>1
    <3>4. CASE DiskChanges(a.dir, (disk[a.dir] \ {a.name}) \cup {a.new}) /\ UNCHANGED listingEvents
      BY <2>7, <3>3, <3>4, DiskChangesTyped DEF ExplorerTypeOK
    <3>5. CASE /\ Posts([kind |-> "not renamed", dir |-> a.dir, name |-> a.name, new |-> a.new])
               /\ UNCHANGED <<namesVars, watchEvents>>
      BY <2>5, <2>6, <3>2, <3>5
    <3> QED
      BY <3>1, <3>4, <3>5 DEF RenameName
  <2> QED
    BY <2>8, <2>9, <2>10, ActionFields
<1>7. CASE FileListingHandlesEvent
  <2>1. Tail(listingEvents) \in Seq(ListEvents \cup ModifyEvents)
    BY <1>7, TakenIsTyped DEF FileListingHandlesEvent, ExplorerTypeOK
  <2>2. PICK e \in ListEvents \cup ModifyEvents : e = Head(listingEvents)
    BY <1>7, TakenIsTyped DEF FileListingHandlesEvent, ExplorerTypeOK
  <2>3. listingEvents' \in Seq(ListEvents \cup ModifyEvents) /\ UNCHANGED <<namesVars, counters, explorerQueue, rowVars>>
    BY <1>7, <2>1 DEF FileListingHandlesEvent
  <2>4. \A x \in PanelEventsOfExplorer : Append(explorerEvents, x) \in Seq([kind : {"listed", "changed"}] \cup ModifyEvents)
    BY AppendedIsTyped DEF ExplorerTypeOK, PanelEventsOfExplorer
  <2>5. CASE e.kind = "listed"
    <3>1. OnExplorerListComplete(e)
      BY <1>7, <2>2, <2>5 DEF FileListingHandlesEvent
    <3>2. e.dir \in ListedDirs /\ e.names \subseteq Names
      BY <2>5, ResultFields
    <3>3. explorerEvents' \in Seq([kind : {"listed", "changed"}] \cup ModifyEvents)
      BY <2>4, <3>1, ExplorerRecords DEF OnExplorerListComplete
    <3>4. watchEvents' \in Nat /\ watches' \in Nat /\ missed' \in BOOLEAN /\ Watcher' \in ListedDirs \cup {NoDir}
      BY <3>1, <3>2 DEF OnExplorerListComplete, ExplorerTypeOK
    <3>5. WorkingDir' = e.dir /\ DirFilesListed' = e.names
      BY <3>1 DEF OnExplorerListComplete
    <3> QED
      BY <2>3, <3>2, <3>3, <3>4, <3>5 DEF ExplorerTypeOK, namesVars, counters, rowVars
  <2>6. CASE e.kind # "listed"
    <3>1. explorerEvents' = Append(explorerEvents, e) /\ UNCHANGED <<listingVars, watchEvents>>
      BY <1>7, <2>2, <2>6 DEF FileListingHandlesEvent
    <3>2. e \in PanelEventsOfExplorer
      BY <2>6, ResultFields DEF PanelEventsOfExplorer
    <3> QED
      BY <2>3, <2>4, <3>1, <3>2 DEF ExplorerTypeOK, namesVars, counters, rowVars, listingVars
  <2> QED
    BY <2>5, <2>6
<1>8. CASE OnWatchEvent
  <2>1. Append(explorerEvents, [kind |-> "changed"]) \in Seq([kind : {"listed", "changed"}] \cup ModifyEvents)
    BY AppendedIsTyped, ExplorerRecords DEF ExplorerTypeOK, PanelEventsOfExplorer
  <2>2. watchEvents' \in Nat
    BY <1>8 DEF OnWatchEvent, ExplorerTypeOK
  <2> QED
    BY <1>8, <2>1, <2>2 DEF OnWatchEvent, ExplorerTypeOK, namesVars, counters, rowVars, listingVars
<1>9. CASE WatchLosesEvents
  BY <1>9 DEF WatchLosesEvents, ExplorerTypeOK, namesVars, counters, rowVars
<1>10. CASE ExplorerPanelHandlesEvent
  <2>1. Tail(explorerEvents) \in Seq([kind : {"listed", "changed"}] \cup ModifyEvents)
    BY <1>10, TakenIsTyped DEF ExplorerPanelHandlesEvent, ExplorerTypeOK
  <2>2. PICK e \in PanelEventsOfExplorer : e = Head(explorerEvents)
    BY <1>10, TakenIsTyped DEF ExplorerPanelHandlesEvent, ExplorerTypeOK, PanelEventsOfExplorer
  <2>3. /\ explorerEvents' \in Seq([kind : {"listed", "changed"}] \cup ModifyEvents)
        /\ UNCHANGED <<namesVars, counters, watchEvents, listingVars, listingEvents>>
    BY <1>10, <2>1 DEF ExplorerPanelHandlesEvent
  <2>4. SUFFICES /\ nameRows' \in [Names -> Nat] /\ misreverted' \in BOOLEAN
                 /\ labels' \subseteq [dir : ListedDirs, name : Names, new : Names]
                 /\ explorerQueue' \in Seq(ExplorerActions)
    BY <2>3 DEF ExplorerTypeOK, namesVars, counters, listingVars
  <2>5. CASE e.kind = "listed"
    <3>1. ShowDir
      BY <1>10, <2>2, <2>5 DEF ExplorerPanelHandlesEvent
    <3> QED
      BY <3>1 DEF ShowDir, ExplorerTypeOK
  <2>6. CASE e.kind = "changed"
    <3>1. StartRefresh(WorkingDir) /\ UNCHANGED rowVars
      BY <1>10, <2>2, <2>6 DEF ExplorerPanelHandlesEvent
    <3>2. HasKind(explorerEvents, "changed")
      BY <1>10, <2>2, <2>6, KindTaken DEF ExplorerPanelHandlesEvent, ExplorerTypeOK
    <3>3. WorkingDir \in ListedDirs
      BY <3>2 DEF ExplorerTyped
    <3> QED
      BY <3>1, <3>3, ExplorerRecords, AppendedIsTyped DEF StartRefresh, QueueAction, rowVars, ExplorerTypeOK
  <2>7. CASE e.kind \notin {"listed", "changed"}
    <3>1. OnExplorerModifyComplete(e) /\ e \in ModifyEvents
      BY <1>10, <2>2, <2>7, PanelFields DEF ExplorerPanelHandlesEvent
    <3>2. e.dir \in ListedDirs /\ e.name \in Names /\ (e.kind # "deleted" => e.new \in Names)
      BY <3>1, ModifyFields
    <3>3. explorerQueue' = explorerQueue /\ labels' \subseteq labels
      BY <3>1 DEF OnExplorerModifyComplete, rowVars
    <3>4. misreverted' \in BOOLEAN
      BY <3>1 DEF OnExplorerModifyComplete, rowVars, ExplorerTypeOK
    <3>5. nameRows' \in [Names -> Nat]
      <4>1. CASE UNCHANGED nameRows
        BY <4>1 DEF ExplorerTypeOK
      <4>2. CASE e.kind = "deleted" /\ nameRows[e.name] > 0 /\ nameRows' = [nameRows EXCEPT ![e.name] = @ - 1]
        BY <3>2, <4>2 DEF ExplorerTypeOK
      <4>3. CASE e.kind # "deleted" /\ nameRows[e.new] > 0 /\ nameRows' = Relabeled(e.new, e.name)
        BY <3>2, <4>3, RelabeledTyped
      <4> QED
        BY <3>1, <4>1, <4>2, <4>3 DEF OnExplorerModifyComplete, rowVars
    <3> QED
      BY <3>3, <3>4, <3>5 DEF ExplorerTypeOK
  <2> QED
    BY <2>5, <2>6, <2>7
<1>11. CASE UNCHANGED explorerVars
  BY <1>11 DEF explorerVars, ExplorerTypeOK
<1> QED
  BY <1>1, <1>2, <1>3, <1>4, <1>5, <1>6, <1>7, <1>8, <1>9, <1>10, <1>11 DEF ExplorerNext
-----------------------------------------------------------------------------
(***************************************************************************)
(* What is shown follows the disk.                                         *)
(***************************************************************************)

IsListed(e) == e.kind = "listed"
IsDeleted(e, dir) == e.kind = "deleted" /\ e.dir = dir
\* A listing of the directory that is shown, made under its watch.
IsCurrent(e, dir, watch) == IsListed(e) /\ e.dir = dir /\ e.watch = watch

NoListAfter(s, i) == \A j \in DOMAIN s : i < j => ~IsListed(s[j])
DeletedLast(s, dir) == \E i \in DOMAIN s : IsDeleted(s[i], dir) /\ NoListAfter(s, i)
ListedLast(s, dir, watch, names) ==
    \E i \in DOMAIN s : IsCurrent(s[i], dir, watch) /\ s[i].names = names /\ NoListAfter(s, i)
ListedThenDeleted(s, dir, watch) ==
    \E i, j \in DOMAIN s : i < j /\ IsCurrent(s[i], dir, watch) /\ IsDeleted(s[j], dir) /\ NoListAfter(s, j)

\* No listing knows more than the watches w, the changes c and the names d.
AreOld(s, w, c, d) ==
    \A i \in DOMAIN s : IsListed(s[i]) =>
        /\ s[i].watch <= w /\ s[i].change <= c[s[i].dir]
        /\ s[i].change = c[s[i].dir] => s[i].names = d[s[i].dir]
\* What is deleted after a listing is a change that the listing does not know.
DeletedLater(s, c) ==
    \A i, j \in DOMAIN s : i < j /\ IsListed(s[i]) /\ IsDeleted(s[j], s[i].dir) => s[i].change < c[s[i].dir]

LEMMA NoListAppended ==
    ASSUME NEW S, NEW s \in Seq(S), NEW x \in S
    PROVE  \E n \in Nat :
             /\ n \in DOMAIN Append(s, x) /\ Append(s, x)[n] = x /\ NoListAfter(Append(s, x), n)
             /\ \A i \in DOMAIN Append(s, x) : i \in DOMAIN s \/ i = n
             /\ \A i \in DOMAIN s : /\ i \in DOMAIN Append(s, x) /\ Append(s, x)[i] = s[i] /\ i < n /\ ~(n < i)
                                    /\ NoListAfter(Append(s, x), i) <=> NoListAfter(s, i) /\ ~IsListed(x)
<1>1. PICK n \in Nat : /\ n \in DOMAIN Append(s, x) /\ n \notin DOMAIN s /\ Append(s, x)[n] = x
                       /\ \A i \in DOMAIN Append(s, x) : i \in DOMAIN s \/ i = n
                       /\ \A i \in DOMAIN s : i \in Nat /\ i < n /\ ~(n < i) /\ i \in DOMAIN Append(s, x) /\ Append(s, x)[i] = s[i]
  BY AppendIndex
<1>2. NoListAfter(Append(s, x), n)
  BY <1>1 DEF NoListAfter
<1>3. ASSUME NEW i \in DOMAIN s
      PROVE  NoListAfter(Append(s, x), i) <=> NoListAfter(s, i) /\ ~IsListed(x)
  <2>1. ASSUME NoListAfter(Append(s, x), i) PROVE NoListAfter(s, i) /\ ~IsListed(x)
    BY <1>1, <2>1 DEF NoListAfter
  <2>2. ASSUME NoListAfter(s, i), ~IsListed(x) PROVE NoListAfter(Append(s, x), i)
    BY <1>1, <2>2 DEF NoListAfter
  <2> QED
    BY <2>1, <2>2
<1> QED
  BY <1>1, <1>2, <1>3

LEMMA NoListTaken ==
    ASSUME NEW S, NEW s \in Seq(S), s # << >>
    PROVE  /\ 1 \in DOMAIN s /\ s[1] = Head(s)
           /\ NoListAfter(s, 1) <=> ~HasKind(Tail(s), "listed")
           /\ \A i \in DOMAIN Tail(s) : /\ i + 1 \in DOMAIN s /\ s[i + 1] = Tail(s)[i] /\ 1 < i + 1
                                        /\ NoListAfter(Tail(s), i) <=> NoListAfter(s, i + 1)
           /\ \A i \in DOMAIN s : i = 1 \/ \E k \in DOMAIN Tail(s) : i = k + 1
           /\ \A i, j \in DOMAIN Tail(s) : i < j <=> i + 1 < j + 1
<1>1. /\ DOMAIN s \subseteq Nat /\ DOMAIN Tail(s) \subseteq Nat
      /\ 1 \in DOMAIN s /\ s[1] = Head(s)
      /\ \A i \in DOMAIN Tail(s) : i + 1 \in DOMAIN s /\ i + 1 # 1 /\ Tail(s)[i] = s[i + 1]
      /\ \A i \in DOMAIN s : i = 1 \/ (i - 1 \in DOMAIN Tail(s) /\ Tail(s)[i - 1] = s[i] /\ 1 < i)
  BY TailIndex
<1>2. \A i \in DOMAIN s : i = 1 \/ \E k \in DOMAIN Tail(s) : i = k + 1
  <2> TAKE i \in DOMAIN s
  <2>1. i = 1 \/ (i - 1 \in DOMAIN Tail(s) /\ i = (i - 1) + 1)
    BY <1>1
  <2> QED
    BY <2>1
<1>3. \A i, j \in DOMAIN Tail(s) : i < j <=> i + 1 < j + 1
  BY <1>1
<1>4. \A i \in DOMAIN Tail(s) : 1 < i + 1
  <2> TAKE i \in DOMAIN Tail(s)
  <2>1. i \in Nat /\ i + 1 # 1
    BY <1>1
  <2> QED
    BY <2>1
<1>5. NoListAfter(s, 1) <=> ~HasKind(Tail(s), "listed")
  <2>1. ASSUME NoListAfter(s, 1), NEW i \in DOMAIN Tail(s) PROVE ~IsListed(Tail(s)[i])
    BY <1>1, <1>4, <2>1 DEF NoListAfter
  <2>2. ASSUME ~HasKind(Tail(s), "listed"), NEW j \in DOMAIN s, 1 < j PROVE ~IsListed(s[j])
    <3>1. PICK k \in DOMAIN Tail(s) : j = k + 1
      BY <1>2, <2>2
    <3> QED
      BY <1>1, <2>2, <3>1 DEF HasKind, IsListed
  <2> QED
    BY <2>1, <2>2 DEF NoListAfter, HasKind, IsListed
<1>6. ASSUME NEW i \in DOMAIN Tail(s)
      PROVE  NoListAfter(Tail(s), i) <=> NoListAfter(s, i + 1)
  <2>1. ASSUME NoListAfter(s, i + 1), NEW j \in DOMAIN Tail(s), i < j PROVE ~IsListed(Tail(s)[j])
    BY <1>1, <1>3, <2>1 DEF NoListAfter
  <2>2. ASSUME NoListAfter(Tail(s), i), NEW j \in DOMAIN s, i + 1 < j PROVE ~IsListed(s[j])
    <3>1. j # 1
      BY <1>1, <2>2
    <3>2. PICK k \in DOMAIN Tail(s) : j = k + 1
      BY <1>2, <3>1
    <3> QED
      BY <1>1, <1>3, <2>2, <3>2 DEF NoListAfter
  <2> QED
    BY <2>1, <2>2 DEF NoListAfter
<1> QED
  BY <1>1, <1>2, <1>3, <1>4, <1>5, <1>6

LEMMA LastAppended ==
    ASSUME NEW S, NEW s \in Seq(S), NEW x \in S
    PROVE  /\ \A dir : DeletedLast(Append(s, x), dir) <=> IsDeleted(x, dir) \/ (DeletedLast(s, dir) /\ ~IsListed(x))
           /\ \A dir, watch, names : ListedLast(Append(s, x), dir, watch, names)
                 <=> (IsCurrent(x, dir, watch) /\ x.names = names) \/ (ListedLast(s, dir, watch, names) /\ ~IsListed(x))
<1>1. PICK n \in Nat :
             /\ n \in DOMAIN Append(s, x) /\ Append(s, x)[n] = x /\ NoListAfter(Append(s, x), n)
             /\ \A i \in DOMAIN Append(s, x) : i \in DOMAIN s \/ i = n
             /\ \A i \in DOMAIN s : /\ i \in DOMAIN Append(s, x) /\ Append(s, x)[i] = s[i] /\ i < n /\ ~(n < i)
                                    /\ NoListAfter(Append(s, x), i) <=> NoListAfter(s, i) /\ ~IsListed(x)
  BY NoListAppended
<1>2. \A dir : DeletedLast(Append(s, x), dir) <=> IsDeleted(x, dir) \/ (DeletedLast(s, dir) /\ ~IsListed(x))
  BY <1>1 DEF DeletedLast
<1>3. \A dir, watch, names : ListedLast(Append(s, x), dir, watch, names)
         <=> (IsCurrent(x, dir, watch) /\ x.names = names) \/ (ListedLast(s, dir, watch, names) /\ ~IsListed(x))
  BY <1>1 DEF ListedLast
<1> QED
  BY <1>2, <1>3

LEMMA LaterAppended ==
    ASSUME NEW S, NEW s \in Seq(S), NEW x \in S, NEW dir, NEW watch, ListedThenDeleted(Append(s, x), dir, watch)
    PROVE  ~IsListed(x) /\ (ListedThenDeleted(s, dir, watch) \/ IsDeleted(x, dir))
<1>1. PICK n \in Nat :
             /\ n \in DOMAIN Append(s, x) /\ Append(s, x)[n] = x /\ NoListAfter(Append(s, x), n)
             /\ \A i \in DOMAIN Append(s, x) : i \in DOMAIN s \/ i = n
             /\ \A i \in DOMAIN s : /\ i \in DOMAIN Append(s, x) /\ Append(s, x)[i] = s[i] /\ i < n /\ ~(n < i)
                                    /\ NoListAfter(Append(s, x), i) <=> NoListAfter(s, i) /\ ~IsListed(x)
  BY NoListAppended
<1>2. PICK i \in DOMAIN Append(s, x), j \in DOMAIN Append(s, x) :
          i < j /\ IsCurrent(Append(s, x)[i], dir, watch) /\ IsDeleted(Append(s, x)[j], dir) /\ NoListAfter(Append(s, x), j)
  BY DEF ListedThenDeleted
<1>3. CASE j = n
  BY <1>1, <1>2, <1>3 DEF IsDeleted, IsListed
<1>4. CASE j \in DOMAIN s
  <2>1. i \in DOMAIN s
    BY <1>1, <1>2, <1>4
  <2> QED
    BY <1>1, <1>2, <1>4, <2>1 DEF ListedThenDeleted
<1> QED
  BY <1>1, <1>2, <1>3, <1>4

LEMMA LastTaken ==
    ASSUME NEW S, NEW s \in Seq(S), s # << >>
    PROVE  /\ \A dir : DeletedLast(Tail(s), dir) => DeletedLast(s, dir)
           /\ \A dir : IsDeleted(Head(s), dir) /\ ~HasKind(Tail(s), "listed") => DeletedLast(s, dir)
           /\ \A dir, watch, names : ListedLast(Tail(s), dir, watch, names) => ListedLast(s, dir, watch, names)
           /\ \A dir, watch : IsCurrent(Head(s), dir, watch) /\ ~HasKind(Tail(s), "listed")
                                  => ListedLast(s, dir, watch, Head(s).names)
           /\ \A dir, watch : ListedThenDeleted(Tail(s), dir, watch) => ListedThenDeleted(s, dir, watch)
           /\ \A dir, watch : IsCurrent(Head(s), dir, watch) /\ DeletedLast(Tail(s), dir) => ListedThenDeleted(s, dir, watch)
<1>1. /\ 1 \in DOMAIN s /\ s[1] = Head(s)
      /\ NoListAfter(s, 1) <=> ~HasKind(Tail(s), "listed")
      /\ \A i \in DOMAIN Tail(s) : /\ i + 1 \in DOMAIN s /\ s[i + 1] = Tail(s)[i] /\ 1 < i + 1
                                   /\ NoListAfter(Tail(s), i) <=> NoListAfter(s, i + 1)
      /\ \A i, j \in DOMAIN Tail(s) : i < j <=> i + 1 < j + 1
  BY NoListTaken
<1>2. \A dir : DeletedLast(Tail(s), dir) => DeletedLast(s, dir)
  BY <1>1 DEF DeletedLast
<1>3. \A dir : IsDeleted(Head(s), dir) /\ ~HasKind(Tail(s), "listed") => DeletedLast(s, dir)
  BY <1>1 DEF DeletedLast
<1>4. \A dir, watch, names : ListedLast(Tail(s), dir, watch, names) => ListedLast(s, dir, watch, names)
  BY <1>1 DEF ListedLast
<1>5. \A dir, watch : IsCurrent(Head(s), dir, watch) /\ ~HasKind(Tail(s), "listed")
                                  => ListedLast(s, dir, watch, Head(s).names)
  BY <1>1 DEF ListedLast
<1>6. \A dir, watch : ListedThenDeleted(Tail(s), dir, watch) => ListedThenDeleted(s, dir, watch)
  BY <1>1 DEF ListedThenDeleted
<1>7. ASSUME NEW dir, NEW watch, IsCurrent(Head(s), dir, watch), DeletedLast(Tail(s), dir)
      PROVE  ListedThenDeleted(s, dir, watch)
  <2>1. PICK j \in DOMAIN Tail(s) : IsDeleted(Tail(s)[j], dir) /\ NoListAfter(Tail(s), j)
    BY <1>7 DEF DeletedLast
  <2> QED
    BY <1>1, <1>7, <2>1 DEF ListedThenDeleted
<1> QED
  BY <1>2, <1>3, <1>4, <1>5, <1>6, <1>7

\* The directory that is shown is the one that is watched.
LEMMA ExplorerTypedStep == ExplorerTyped /\ [ExplorerNext]_explorerVars => ExplorerTyped'
<1> SUFFICES ASSUME ExplorerTyped, [ExplorerNext]_explorerVars PROVE ExplorerTyped'
  OBVIOUS
<1>1. ExplorerTypeOK /\ ExplorerTypeOK'
  BY ExplorerTypeStep DEF ExplorerTyped
<1>2. Watcher = WorkingDir /\ (watchEvents > 0 \/ HasKind(explorerEvents, "changed") => WorkingDir \in ListedDirs)
  BY DEF ExplorerTyped
<1>3. SUFFICES /\ Watcher' = WorkingDir'
               /\ watchEvents' > 0 \/ HasKind(explorerEvents', "changed") => WorkingDir' \in ListedDirs
  BY <1>1 DEF ExplorerTyped
<1>4. ASSUME UNCHANGED <<WorkingDir, Watcher, explorerEvents>>,
             watchEvents' = watchEvents \/ watchEvents' = 0
                \/ \E dir \in ListedDirs : watchEvents' = IF Watcher = dir THEN watchEvents + 1 ELSE watchEvents
      PROVE  /\ Watcher' = WorkingDir'
             /\ watchEvents' > 0 \/ HasKind(explorerEvents', "changed") => WorkingDir' \in ListedDirs
  BY <1>2, <1>4
<1>5. ASSUME NEW dir \in ListedDirs, NEW name \in Names, OtherProgramChanges(dir, name)
      PROVE  /\ UNCHANGED <<WorkingDir, Watcher, explorerEvents>>
             /\ \E d \in ListedDirs : watchEvents' = IF Watcher = d THEN watchEvents + 1 ELSE watchEvents
  BY <1>5 DEF OtherProgramChanges, DiskChanges, listingVars
<1>6. ASSUME NEW dir \in ListedDirs, RefreshDir(dir)
      PROVE  UNCHANGED <<WorkingDir, Watcher, explorerEvents, watchEvents>>
  BY <1>6 DEF RefreshDir, listingVars
<1>7. ASSUME NEW name \in Names, OnListMenuDelete(name)
      PROVE  UNCHANGED <<WorkingDir, Watcher, explorerEvents, watchEvents>>
  BY <1>7 DEF OnListMenuDelete, UserChange, listingVars
<1>8. ASSUME NEW name \in Names, OnListMenuCreateNew(name)
      PROVE  /\ UNCHANGED <<WorkingDir, Watcher, explorerEvents>>
             /\ \E d \in ListedDirs : watchEvents' = IF Watcher = d THEN watchEvents + 1 ELSE watchEvents
  BY <1>1, <1>8 DEF OnListMenuCreateNew, UserChange, DiskChanges, listingVars, ExplorerTypeOK
<1>9. ASSUME NEW name \in Names, NEW new \in Names, OnListEndLabelEdit(name, new)
      PROVE  UNCHANGED <<WorkingDir, Watcher, explorerEvents, watchEvents>>
  BY <1>9 DEF OnListEndLabelEdit, UserChange, listingVars
<1>10. ASSUME ExplorerActionRuns
       PROVE  /\ UNCHANGED <<WorkingDir, Watcher, explorerEvents>>
              /\ \/ watchEvents' = watchEvents
                 \/ \E d \in ListedDirs : watchEvents' = IF Watcher = d THEN watchEvents + 1 ELSE watchEvents
  <2>1. PICK a \in ExplorerActions : a = Head(explorerQueue)
    BY <1>1, <1>10, TakenIsTyped DEF ExplorerActionRuns, ExplorerTypeOK
  <2>2. a.dir \in ListedDirs /\ a.kind \in {"list", "delete", "rename"}
    BY ActionFields
  <2>3. CASE a.kind = "list"
    BY <1>10, <2>1, <2>3 DEF ExplorerActionRuns, ListFiles, listingVars
  <2>4. CASE a.kind = "delete"
    <3>1. DeleteName(a) /\ UNCHANGED <<listingVars, explorerEvents>>
      BY <1>10, <2>1, <2>4 DEF ExplorerActionRuns
    <3> QED
      BY <2>2, <3>1 DEF DeleteName, DiskChanges, listingVars
  <2>5. CASE a.kind = "rename"
    <3>1. RenameName(a) /\ UNCHANGED <<listingVars, explorerEvents>>
      BY <1>10, <2>1, <2>5 DEF ExplorerActionRuns
    <3> QED
      BY <2>2, <3>1 DEF RenameName, DiskChanges, listingVars
  <2> QED
    BY <2>2, <2>3, <2>4, <2>5
<1>11. CASE FileListingHandlesEvent
  <2>1. PICK e \in ListEvents \cup ModifyEvents : e = Head(listingEvents)
    BY <1>1, <1>11, TakenIsTyped DEF FileListingHandlesEvent, ExplorerTypeOK
  <2>2. CASE e.kind = "listed"
    <3>1. OnExplorerListComplete(e)
      BY <1>11, <2>1, <2>2 DEF FileListingHandlesEvent
    <3> QED
      BY <1>2, <3>1, ResultFields DEF OnExplorerListComplete, ChangedDir
  <2>3. CASE e.kind # "listed"
    <3>1. explorerEvents' = Append(explorerEvents, e) /\ UNCHANGED <<listingVars, watchEvents>>
      BY <1>11, <2>1, <2>3 DEF FileListingHandlesEvent
    <3>2. e \in PanelEventsOfExplorer /\ e.kind # "changed"
      BY <2>3, ResultFields, ModifyFields DEF PanelEventsOfExplorer
    <3>3. HasKind(explorerEvents', "changed") => HasKind(explorerEvents, "changed")
      <4>1. explorerEvents \in Seq(PanelEventsOfExplorer)
        BY <1>1 DEF ExplorerTypeOK, PanelEventsOfExplorer
      <4>2. HasKind(Append(explorerEvents, e), "changed") <=> HasKind(explorerEvents, "changed") \/ e.kind = "changed"
        BY <3>2, <4>1, KindAppended
      <4> QED
        BY <3>1, <3>2, <4>2
    <3> QED
      BY <1>2, <3>1, <3>3 DEF listingVars
  <2> QED
    BY <2>2, <2>3
<1>12. CASE OnWatchEvent
  BY <1>2, <1>12 DEF OnWatchEvent, listingVars
<1>13. CASE WatchLosesEvents
  BY <1>4, <1>13 DEF WatchLosesEvents
<1>14. CASE ExplorerPanelHandlesEvent
  <2>1. HasKind(explorerEvents', "changed") => HasKind(explorerEvents, "changed")
    BY <1>1, <1>14, KindTaken DEF ExplorerPanelHandlesEvent, ExplorerTypeOK
  <2> QED
    BY <1>2, <1>14, <2>1 DEF ExplorerPanelHandlesEvent, listingVars
<1>15. CASE UNCHANGED explorerVars
  BY <1>2, <1>15 DEF explorerVars
<1> QED
  BY <1>4, <1>5, <1>6, <1>7, <1>8, <1>9, <1>10, <1>11, <1>12, <1>13, <1>14, <1>15 DEF ExplorerNext

\* The files that are listed, the rows, the results and the events are of their
\* types, and the directory that is watched is the one that is shown.
THEOREM ExplorerTypeCorrect == ExplorerSpec => []ExplorerTypeOK
<1>1. ExplorerInit => ExplorerTyped
  BY ExplorerInitType, NothingOfAKind DEF ExplorerTyped, ExplorerInit
<1>2. ExplorerTyped => ExplorerTypeOK
  BY DEF ExplorerTyped
<1> QED
  BY <1>1, <1>2, ExplorerTypedStep, PTL DEF ExplorerSpec

-----------------------------------------------------------------------------
LEMMA OldAppended ==
    ASSUME NEW S, NEW s \in Seq(S), NEW x \in S, NEW w, NEW c, NEW d, AreOld(s, w, c, d),
           IsListed(x) => /\ x.watch <= w /\ x.change <= c[x.dir]
                          /\ x.change = c[x.dir] => x.names = d[x.dir]
    PROVE  AreOld(Append(s, x), w, c, d)
<1>1. PICK n \in Nat : /\ n \in DOMAIN Append(s, x) /\ Append(s, x)[n] = x
                       /\ \A i \in DOMAIN Append(s, x) : i \in DOMAIN s \/ i = n
                       /\ \A i \in DOMAIN s : i \in DOMAIN Append(s, x) /\ Append(s, x)[i] = s[i]
  BY AppendIndex
<1> QED
  BY <1>1 DEF AreOld

LEMMA OldTaken ==
    ASSUME NEW S, NEW s \in Seq(S), s # << >>, NEW w, NEW c, NEW d, AreOld(s, w, c, d)
    PROVE  /\ AreOld(Tail(s), w, c, d)
           /\ IsListed(Head(s)) => /\ Head(s).watch <= w /\ Head(s).change <= c[Head(s).dir]
                                   /\ Head(s).change = c[Head(s).dir] => Head(s).names = d[Head(s).dir]
<1>1. /\ 1 \in DOMAIN s /\ s[1] = Head(s)
      /\ \A i \in DOMAIN Tail(s) : i + 1 \in DOMAIN s /\ Tail(s)[i] = s[i + 1]
  BY TailIndex
<1>2. AreOld(Tail(s), w, c, d)
  BY <1>1 DEF AreOld
<1> QED
  BY <1>1, <1>2 DEF AreOld

LEMMA ElementTyped ==
    ASSUME NEW S, NEW s \in Seq(S), NEW i \in DOMAIN s
    PROVE  s[i] \in S
<1>1. i \in 1 .. Len(s)
  BY LenProperties
<1> QED
  BY <1>1, ElementOfSeq

LEMMA ListingTyped ==
    ASSUME NEW s \in Seq(ListEvents \cup ModifyEvents), NEW i \in DOMAIN s, IsListed(s[i])
    PROVE  s[i].dir \in ListedDirs /\ s[i].watch \in Nat /\ s[i].change \in Nat
  BY ElementTyped, ResultFields DEF IsListed

\* A watch that is begun, and a directory that changes.
LEMMA OldWithNewWatch ==
    ASSUME NEW s \in Seq(ListEvents \cup ModifyEvents), NEW w \in Nat, NEW c, NEW d, AreOld(s, w, c, d)
    PROVE  AreOld(s, w + 1, c, d)
<1>1. ASSUME NEW i \in DOMAIN s, IsListed(s[i]) PROVE s[i].watch <= w + 1
  <2>1. s[i].watch \in Nat
    BY <1>1, ListingTyped
  <2>2. s[i].watch <= w
    BY <1>1 DEF AreOld
  <2> QED
    BY <2>1, <2>2
<1> QED
  BY <1>1 DEF AreOld

LEMMA OldWithNewChange ==
    ASSUME ExplorerTypeOK, NEW here \in ListedDirs, NEW names \in SUBSET Names, DiskChanges(here, names),
           AreOld(listingEvents, watches, changes, disk), DeletedLater(listingEvents, changes)
    PROVE  AreOld(listingEvents, watches, changes', disk') /\ DeletedLater(listingEvents, changes')
<1> DEFINE s == listingEvents
<1>1. /\ s \in Seq(ListEvents \cup ModifyEvents) /\ changes \in [ListedDirs -> Nat]
      /\ changes'[here] = changes[here] + 1
      /\ \A d \in ListedDirs : d # here => disk'[d] = disk[d] /\ changes'[d] = changes[d]
  BY DiskChangesTyped DEF ExplorerTypeOK
<1> HIDE DEF s
<1>2. ASSUME NEW i \in DOMAIN s, IsListed(s[i])
      PROVE  /\ s[i].watch <= watches /\ s[i].change <= changes'[s[i].dir]
             /\ s[i].change = changes'[s[i].dir] => s[i].names = disk'[s[i].dir]
  <2>1. s[i].dir \in ListedDirs /\ s[i].change \in Nat /\ changes[here] \in Nat
    BY <1>1, <1>2, ListingTyped
  <2>2. s[i].watch <= watches /\ s[i].change <= changes[s[i].dir] /\ (s[i].change = changes[s[i].dir] => s[i].names = disk[s[i].dir])
    BY <1>2 DEF AreOld, s
  <2>3. CASE s[i].dir # here
    BY <1>1, <2>1, <2>2, <2>3
  <2>4. CASE s[i].dir = here
    <3>1. s[i].change <= changes'[here] /\ s[i].change # changes'[here]
      BY <1>1, <2>1, <2>2, <2>4
    <3> QED
      BY <2>2, <2>4, <3>1
  <2> QED
    BY <2>3, <2>4
<1>3. ASSUME NEW i \in DOMAIN s, IsListed(s[i]), s[i].change < changes[s[i].dir]
      PROVE  s[i].change < changes'[s[i].dir]
  <2>1. s[i].dir \in ListedDirs /\ s[i].change \in Nat /\ changes[here] \in Nat
    BY <1>1, <1>3, ListingTyped
  <2>2. CASE s[i].dir # here
    BY <1>1, <1>3, <2>1, <2>2
  <2>3. CASE s[i].dir = here
    BY <1>1, <1>3, <2>1, <2>3
  <2> QED
    BY <2>2, <2>3
<1>4. AreOld(s, watches, changes', disk')
  BY <1>2 DEF AreOld
<1>5. DeletedLater(s, changes')
  BY <1>3 DEF DeletedLater, s
<1> QED
  BY <1>4, <1>5 DEF s

LEMMA DeletedLaterAppended ==
    ASSUME NEW S, NEW s \in Seq(S), NEW x \in S, NEW c, DeletedLater(s, c),
           \A i \in DOMAIN s : IsListed(s[i]) /\ IsDeleted(x, s[i].dir) => s[i].change < c[s[i].dir]
    PROVE  DeletedLater(Append(s, x), c)
<1>1. PICK n \in Nat : /\ n \in DOMAIN Append(s, x) /\ Append(s, x)[n] = x
                       /\ \A i \in DOMAIN Append(s, x) : i \in DOMAIN s \/ i = n
                       /\ \A i \in DOMAIN s : ~(n < i) /\ i \in DOMAIN Append(s, x) /\ Append(s, x)[i] = s[i]
  BY AppendIndex
<1>2. ~(n < n)
  OBVIOUS
<1> QED
  BY <1>1, <1>2 DEF DeletedLater

LEMMA DeletedLaterTaken ==
    ASSUME NEW s \in Seq(ListEvents \cup ModifyEvents), s # << >>, NEW c, DeletedLater(s, c)
    PROVE  /\ DeletedLater(Tail(s), c)
           /\ IsListed(Head(s)) /\ DeletedLast(Tail(s), Head(s).dir) => Head(s).change < c[Head(s).dir]
<1>1. /\ 1 \in DOMAIN s /\ s[1] = Head(s)
      /\ \A i \in DOMAIN Tail(s) : /\ i + 1 \in DOMAIN s /\ s[i + 1] = Tail(s)[i] /\ 1 < i + 1
      /\ \A i, j \in DOMAIN Tail(s) : i < j <=> i + 1 < j + 1
  BY NoListTaken
<1>2. DeletedLater(Tail(s), c)
  BY <1>1 DEF DeletedLater
<1>3. ASSUME IsListed(Head(s)), DeletedLast(Tail(s), Head(s).dir) PROVE Head(s).change < c[Head(s).dir]
  <2>1. PICK j \in DOMAIN Tail(s) : IsDeleted(Tail(s)[j], Head(s).dir)
    BY <1>3 DEF DeletedLast
  <2> QED
    BY <1>1, <1>3, <2>1 DEF DeletedLater, IsDeleted
<1> QED
  BY <1>2, <1>3

-----------------------------------------------------------------------------
\* A listing of the directory that is shown is still to come.
ToCome == watchEvents > 0 \/ HasKind(explorerEvents, "changed") \/ HasKind(explorerQueue, "list")
Listing == HasKind(listingEvents, "listed")

\* A listing on its way that knows the last change of its directory has its files.
ListingsAreOld ==
    AreOld(listingEvents, watches, changes, disk) /\ DeletedLater(listingEvents, changes)
\* What FileListing has is what is on disk, or a listing is still to come.
ListIsTold ==
    WorkingDir # NoDir /\ ~missed => DirFilesListed = disk[WorkingDir] \/ ToCome \/ Listing
\* The last listing on its way, made under this watch, has what is on disk.
LastListingIsTold ==
    \A names : ListedLast(listingEvents, WorkingDir, watches, names) => names = disk[WorkingDir] \/ ToCome
\* A deletion that a listing does not follow is one that the watch tells.
DeletionsAreTold ==
    /\ DeletedLast(explorerEvents, WorkingDir) /\ ~missed => ToCome \/ Listing
    /\ DeletedLast(listingEvents, WorkingDir) /\ ~missed => ToCome
    /\ ListedThenDeleted(listingEvents, WorkingDir, watches) => ToCome

FollowInv == ExplorerTyped /\ ListingsAreOld /\ ListIsTold /\ LastListingIsTold /\ DeletionsAreTold

LEMMA NothingInEmpty ==
    /\ \A dir : ~DeletedLast(<< >>, dir)
    /\ \A dir, watch, names : ~ListedLast(<< >>, dir, watch, names)
    /\ \A dir, watch : ~ListedThenDeleted(<< >>, dir, watch)
    /\ \A w, c, d : AreOld(<< >>, w, c, d)
    /\ \A c : DeletedLater(<< >>, c)
  BY DEF DeletedLast, ListedLast, ListedThenDeleted, AreOld, DeletedLater

LEMMA ExplorerInitFollows == ExplorerInit => FollowInv
<1> SUFFICES ASSUME ExplorerInit PROVE FollowInv
  OBVIOUS
<1>1. ExplorerTyped
  BY ExplorerInitType, NothingOfAKind DEF ExplorerTyped, ExplorerInit
<1> QED
  BY <1>1, NothingInEmpty
  DEF ExplorerInit, FollowInv, ListingsAreOld, ListIsTold, LastListingIsTold, DeletionsAreTold

LEMMA ListedHere ==
    ASSUME NEW s \in Seq(ListEvents \cup ModifyEvents), NEW dir, NEW watch, NEW names, ListedLast(s, dir, watch, names)
    PROVE  dir \in ListedDirs
  BY ElementTyped, ResultFields DEF ListedLast, IsCurrent

\* Steps that leave the disk and the listings alone and lose nothing that is to come.
LEMMA QuietStepFollows ==
    ASSUME FollowInv, ExplorerTyped', UNCHANGED <<namesVars, listingVars, listingEvents>>, ToCome => ToCome',
           explorerEvents' = explorerEvents \/ ToCome'
              \/ (explorerEvents # << >> /\ explorerEvents' = Tail(explorerEvents))
    PROVE  FollowInv'
<1>1. DeletedLast(explorerEvents', WorkingDir) => DeletedLast(explorerEvents, WorkingDir) \/ ToCome'
  <2>1. explorerEvents \in Seq(PanelEventsOfExplorer)
    BY DEF FollowInv, ExplorerTyped, ExplorerTypeOK, PanelEventsOfExplorer
  <2> QED
    BY <2>1, LastTaken
<1>2. ListingsAreOld'
  BY DEF FollowInv, ListingsAreOld, namesVars, listingVars
<1>3. ListIsTold'
  BY DEF FollowInv, ListIsTold, namesVars, listingVars, Listing
<1>4. LastListingIsTold'
  BY DEF FollowInv, LastListingIsTold, namesVars, listingVars
<1>5. DeletionsAreTold'
  BY <1>1 DEF FollowInv, DeletionsAreTold, namesVars, listingVars, Listing
<1> QED
  BY <1>2, <1>3, <1>4, <1>5 DEF FollowInv

\* A directory that changes: the watch tells of it when it is the one that is shown.
LEMMA DiskStepFollows ==
    ASSUME FollowInv, ExplorerTyped', UNCHANGED <<listingVars, explorerEvents>>,
           NEW dir \in ListedDirs, NEW names \in SUBSET Names, DiskChanges(dir, names),
           HasKind(explorerQueue, "list") => HasKind(explorerQueue', "list"),
           \/ listingEvents' = listingEvents
           \/ \E name \in Names : listingEvents' = Append(listingEvents, [kind |-> "deleted", dir |-> dir, name |-> name])
    PROVE  FollowInv'
<1>1. /\ disk' \in [ListedDirs -> SUBSET Names] /\ changes' \in [ListedDirs -> Nat]
      /\ changes'[dir] = changes[dir] + 1
      /\ \A d \in ListedDirs : d # dir => disk'[d] = disk[d] /\ changes'[d] = changes[d]
  BY DiskChangesTyped DEF FollowInv, ExplorerTyped
<1>2. /\ watches \in Nat /\ watches <= watches /\ changes \in [ListedDirs -> Nat]
      /\ listingEvents \in Seq(ListEvents \cup ModifyEvents) /\ watchEvents \in Nat /\ Watcher = WorkingDir
      /\ WorkingDir \in ListedDirs \cup {NoDir}
  BY DEF FollowInv, ExplorerTyped, ExplorerTypeOK
<1>3. AreOld(listingEvents, watches, changes', disk') /\ DeletedLater(listingEvents, changes')
  <2>1. AreOld(listingEvents, watches, changes, disk) /\ DeletedLater(listingEvents, changes)
    BY DEF FollowInv, ListingsAreOld
  <2> QED
    BY <2>1, OldWithNewChange DEF FollowInv, ExplorerTyped
<1>4. ToCome => ToCome'
  <2>1. watchEvents > 0 => watchEvents' > 0
    BY <1>2 DEF DiskChanges
  <2>2. HasKind(explorerEvents, "changed") => HasKind(explorerEvents', "changed")
    OBVIOUS
  <2> QED
    BY <2>1, <2>2 DEF ToCome
<1>5. ToCome' \/ (dir # WorkingDir /\ (WorkingDir \in ListedDirs => disk'[WorkingDir] = disk[WorkingDir]))
  <2>1. dir = WorkingDir => watchEvents' = watchEvents + 1
    BY <1>2 DEF DiskChanges
  <2> QED
    BY <1>1, <1>2, <2>1 DEF ToCome
<1>6. disk'[WorkingDir] = disk[WorkingDir] \/ ToCome' \/ WorkingDir \notin ListedDirs
  BY <1>5
<1>7. ASSUME NEW name \in Names, listingEvents' = Append(listingEvents, [kind |-> "deleted", dir |-> dir, name |-> name])
      PROVE  FollowInv'
  <2> DEFINE x == [kind |-> "deleted", dir |-> dir, name |-> name]
  <2>1. x \in ListEvents \cup ModifyEvents /\ ~IsListed(x) /\ x.dir = dir /\ x.kind = "deleted"
    BY ExplorerRecords DEF IsListed
  <2>2. listingEvents' = Append(listingEvents, x)
    BY <1>7
  <2> HIDE DEF x
  <2>3. AreOld(listingEvents', watches, changes', disk')
    BY <1>2, <1>3, <2>1, <2>2, OldAppended
  <2>4. DeletedLater(listingEvents', changes')
    <3>1. ASSUME NEW i \in DOMAIN listingEvents, IsListed(listingEvents[i]), IsDeleted(x, listingEvents[i].dir)
          PROVE  listingEvents[i].change < changes'[listingEvents[i].dir]
      <4>1. listingEvents[i].dir = dir
        BY <2>1, <3>1 DEF IsDeleted
      <4>2. listingEvents[i].change \in Nat /\ listingEvents[i].change <= changes[dir]
        BY <1>2, <3>1, <4>1, ElementTyped, ResultFields DEF IsListed, FollowInv, ListingsAreOld, AreOld
      <4>3. changes[dir] \in Nat
        BY <1>2
      <4> QED
        BY <1>1, <4>1, <4>2, <4>3
    <3> QED
      BY <1>2, <1>3, <2>1, <2>2, <3>1, DeletedLaterAppended
  <2>5. ListingsAreOld'
    BY <2>3, <2>4 DEF ListingsAreOld, listingVars
  <2>6. Listing => Listing'
    BY <1>2, <2>1, <2>2, KindAppended DEF Listing
  <2>7. IsDeleted(x, WorkingDir) => ToCome'
    BY <1>5, <2>1 DEF IsDeleted
  <2>8. \A n : ListedLast(listingEvents', WorkingDir, watches, n) => ListedLast(listingEvents, WorkingDir, watches, n)
    BY <1>2, <2>1, <2>2, LastAppended DEF IsCurrent
  <2>9. DeletedLast(listingEvents', WorkingDir) => DeletedLast(listingEvents, WorkingDir) \/ IsDeleted(x, WorkingDir)
    BY <1>2, <2>1, <2>2, LastAppended
  <2>10. ListedThenDeleted(listingEvents', WorkingDir, watches)
            => ListedThenDeleted(listingEvents, WorkingDir, watches) \/ IsDeleted(x, WorkingDir)
    BY <1>2, <2>1, <2>2, LaterAppended
  <2>11. ListIsTold'
    BY <1>2, <1>4, <1>6, <2>6 DEF FollowInv, ListIsTold, listingVars
  <2>12. LastListingIsTold'
    BY <1>2, <1>4, <1>6, <2>8, ListedHere DEF FollowInv, LastListingIsTold, listingVars
  <2>13. DeletionsAreTold'
    BY <1>4, <2>6, <2>7, <2>9, <2>10 DEF FollowInv, DeletionsAreTold, listingVars
  <2> QED
    BY <2>5, <2>11, <2>12, <2>13 DEF FollowInv
<1>8. CASE listingEvents' = listingEvents
  <2>1. ListingsAreOld'
    BY <1>3, <1>8 DEF ListingsAreOld, listingVars
  <2>2. ListIsTold'
    BY <1>2, <1>4, <1>6, <1>8 DEF FollowInv, ListIsTold, listingVars, Listing
  <2>3. LastListingIsTold'
    BY <1>2, <1>4, <1>6, <1>8, ListedHere DEF FollowInv, LastListingIsTold, listingVars
  <2>4. DeletionsAreTold'
    BY <1>4, <1>8 DEF FollowInv, DeletionsAreTold, listingVars, Listing
  <2> QED
    BY <2>1, <2>2, <2>3, <2>4 DEF FollowInv
<1> QED
  BY <1>7, <1>8

\* No listing was made under a watch that is only begun.
LEMMA NoneUnderNewWatch ==
    ASSUME NEW s \in Seq(ListEvents \cup ModifyEvents), NEW w \in Nat, NEW c, NEW d, AreOld(s, w, c, d), NEW dir
    PROVE  (\A names : ~ListedLast(s, dir, w + 1, names)) /\ ~ListedThenDeleted(s, dir, w + 1)
<1>1. ASSUME NEW i \in DOMAIN s PROVE ~IsCurrent(s[i], dir, w + 1)
  <2>1. SUFFICES ASSUME IsListed(s[i]) PROVE s[i].watch # w + 1
    BY DEF IsCurrent
  <2>2. s[i].watch \in Nat /\ s[i].watch <= w
    BY <2>1, ListingTyped DEF AreOld
  <2> QED
    BY <2>2
<1> QED
  BY <1>1 DEF ListedLast, ListedThenDeleted

LEMMA ListingFollows ==
    ASSUME FollowInv, ExplorerTyped', NEW a, a.dir \in ListedDirs, ListFiles(a),
           UNCHANGED <<listingVars, explorerEvents>>
    PROVE  FollowInv'
<1> DEFINE x == [kind |-> "listed", dir |-> a.dir, names |-> disk[a.dir], watch |-> watches, change |-> changes[a.dir]]
<1>1. /\ watches \in Nat /\ changes[a.dir] \in Nat /\ disk[a.dir] \in SUBSET Names
      /\ listingEvents \in Seq(ListEvents \cup ModifyEvents)
  BY DEF FollowInv, ExplorerTyped, ExplorerTypeOK
<1>2. x \in ListEvents \cup ModifyEvents
  BY <1>1, ExplorerRecords
<1>3. /\ IsListed(x) /\ x.kind = "listed" /\ x.dir = a.dir /\ x.names = disk[a.dir] /\ x.watch = watches /\ x.change = changes[a.dir]
      /\ \A dir : ~IsDeleted(x, dir)
  BY DEF IsListed, IsDeleted
<1>4. listingEvents' = Append(listingEvents, x) /\ UNCHANGED namesVars
  BY DEF ListFiles, Posts
<1> HIDE DEF x
<1>5. Listing'
  BY <1>1, <1>2, <1>3, <1>4, KindAppended DEF Listing
<1>6. AreOld(listingEvents', watches, changes, disk)
  <2>1. x.watch <= watches /\ x.change <= changes[x.dir] /\ x.names = disk[x.dir]
    BY <1>1, <1>3
  <2> QED
    BY <1>1, <1>2, <1>4, <2>1, OldAppended DEF FollowInv, ListingsAreOld
<1>7. DeletedLater(listingEvents', changes)
  BY <1>1, <1>2, <1>3, <1>4, DeletedLaterAppended DEF FollowInv, ListingsAreOld
<1>8. ListingsAreOld'
  BY <1>4, <1>6, <1>7 DEF ListingsAreOld, namesVars, listingVars
<1>9. ListIsTold'
  BY <1>5 DEF ListIsTold
<1>10. LastListingIsTold'
  <2>1. \A n : ListedLast(listingEvents', WorkingDir, watches, n) => n = disk[WorkingDir]
    BY <1>1, <1>2, <1>3, <1>4, LastAppended DEF IsCurrent
  <2> QED
    BY <1>4, <2>1 DEF LastListingIsTold, namesVars, listingVars
<1>11. DeletionsAreTold'
  <2>1. ~DeletedLast(listingEvents', WorkingDir)
    BY <1>1, <1>2, <1>3, <1>4, LastAppended
  <2>2. ~ListedThenDeleted(listingEvents', WorkingDir, watches)
    BY <1>1, <1>2, <1>3, <1>4, LaterAppended
  <2> QED
    BY <1>5, <2>1, <2>2 DEF DeletionsAreTold, listingVars
<1> QED
  BY <1>8, <1>9, <1>10, <1>11 DEF FollowInv

LEMMA ListCompleteFollows ==
    ASSUME FollowInv, ExplorerTyped', listingEvents # << >>, listingEvents' = Tail(listingEvents),
           NEW e \in ListEvents \cup ModifyEvents, e = Head(listingEvents), e.kind = "listed",
           OnExplorerListComplete(e), UNCHANGED <<namesVars, explorerQueue>>
    PROVE  FollowInv'
<1> DEFINE isNew == ChangedDir(e.dir) \/ Watcher = NoDir
<1>1. /\ watches \in Nat /\ changes \in [ListedDirs -> Nat] /\ explorerEvents \in Seq(PanelEventsOfExplorer)
      /\ listingEvents \in Seq(ListEvents \cup ModifyEvents) /\ Tail(listingEvents) \in Seq(ListEvents \cup ModifyEvents)
      /\ Watcher = WorkingDir
  BY TakenIsTyped DEF FollowInv, ExplorerTyped, ExplorerTypeOK, PanelEventsOfExplorer
<1>2. e.dir \in ListedDirs /\ e.watch \in Nat /\ e.change \in Nat
  BY ResultFields
<1>3. /\ AreOld(Tail(listingEvents), watches, changes, disk)
      /\ e.watch <= watches /\ e.change <= changes[e.dir] /\ (e.change = changes[e.dir] => e.names = disk[e.dir])
  BY <1>1, OldTaken DEF FollowInv, ListingsAreOld, IsListed
<1>4. /\ DeletedLater(Tail(listingEvents), changes)
      /\ DeletedLast(Tail(listingEvents), e.dir) => e.change < changes[e.dir]
  BY <1>1, DeletedLaterTaken DEF FollowInv, ListingsAreOld, IsListed
<1>5. WorkingDir' = e.dir /\ DirFilesListed' = e.names /\ explorerEvents' = Append(explorerEvents, [kind |-> "listed"])
  BY DEF OnExplorerListComplete
<1>6. ~DeletedLast(explorerEvents', e.dir)
  <2> DEFINE x == [kind |-> "listed"]
  <2>1. x \in PanelEventsOfExplorer /\ IsListed(x) /\ ~IsDeleted(x, e.dir)
    BY ExplorerRecords DEF IsListed, IsDeleted
  <2>2. explorerEvents' = Append(explorerEvents, x)
    BY <1>5
  <2> HIDE DEF x
  <2> QED
    BY <1>1, <2>1, <2>2, LastAppended
<1>7. /\ watches' = IF isNew THEN watches + 1 ELSE watches
      /\ watchEvents' = IF isNew THEN 0 ELSE watchEvents
      /\ missed' = (e.watch # watches' /\ (e.change # changes[e.dir] \/ (~isNew /\ missed)))
  BY DEF OnExplorerListComplete
<1>8. ~isNew => e.dir = WorkingDir
  BY DEF ChangedDir
<1> HIDE DEF isNew
<1>9. AreOld(listingEvents', watches', changes', disk')
  <2>1. CASE isNew
    <3>1. AreOld(Tail(listingEvents), watches + 1, changes, disk)
      BY <1>1, <1>3, OldWithNewWatch
    <3> QED
      BY <1>7, <2>1, <3>1 DEF namesVars
  <2>2. CASE ~isNew
    BY <1>3, <1>7, <2>2 DEF namesVars
  <2> QED
    BY <2>1, <2>2
<1>10. ListingsAreOld'
  BY <1>4, <1>9 DEF ListingsAreOld, namesVars
<1>11. ~(DeletedLast(Tail(listingEvents), e.dir) /\ e.change = changes[e.dir])
  <2>1. changes[e.dir] \in Nat
    BY <1>1, <1>2
  <2> QED
    BY <1>2, <1>4, <2>1
<1>12. CASE isNew
  <2>1. watches' = watches + 1 /\ e.watch # watches'
    BY <1>1, <1>2, <1>3, <1>7, <1>12
  <2>2. ~missed' => e.change = changes[e.dir]
    BY <1>7, <2>1
  <2>3. ListIsTold'
    BY <1>3, <1>5, <2>2 DEF ListIsTold, namesVars
  <2>4. (\A names : ~ListedLast(listingEvents', e.dir, watches', names)) /\ ~ListedThenDeleted(listingEvents', e.dir, watches')
    BY <1>1, <1>3, <2>1, NoneUnderNewWatch
  <2>5. LastListingIsTold'
    BY <1>5, <2>4 DEF LastListingIsTold
  <2>6. DeletionsAreTold'
    BY <1>5, <1>6, <1>11, <2>2, <2>4 DEF DeletionsAreTold
  <2> QED
    BY <1>10, <2>3, <2>5, <2>6 DEF FollowInv
<1>13. CASE ~isNew
  <2>1. watches' = watches /\ watchEvents' = watchEvents /\ e.dir = WorkingDir /\ WorkingDir' = WorkingDir
    BY <1>5, <1>7, <1>8, <1>13
  <2>2. ToCome => ToCome'
    BY ZenonT(60), <1>1, <1>5, <2>1, KindAppended, ExplorerRecords DEF ToCome
  <2>3. ~missed' => e.watch = watches \/ (e.change = changes[e.dir] /\ ~missed)
    BY <1>7, <1>13, <2>1 DEF FollowInv, ExplorerTyped, ExplorerTypeOK
  <2>4. e.watch = watches => IsCurrent(Head(listingEvents), WorkingDir, watches)
    BY <2>1 DEF IsCurrent, IsListed
  <2>5. ListIsTold'
    <3>1. ASSUME ~missed', ~Listing', ~ToCome' PROVE e.names = disk[e.dir]
      <4>1. CASE e.watch = watches
        <5>1. ListedLast(listingEvents, WorkingDir, watches, e.names)
          BY <1>1, <2>4, <3>1, <4>1, LastTaken DEF Listing
        <5> QED
          BY <2>1, <2>2, <3>1, <5>1 DEF FollowInv, LastListingIsTold
      <4> QED
        BY <1>3, <2>3, <3>1, <4>1
    <3> QED
      BY <1>5, <3>1 DEF ListIsTold, namesVars
  <2>6. LastListingIsTold'
    <3>1. \A n : ListedLast(listingEvents', WorkingDir, watches, n) => ListedLast(listingEvents, WorkingDir, watches, n)
      BY <1>1, LastTaken
    <3> QED
      BY <2>1, <2>2, <3>1 DEF FollowInv, LastListingIsTold, namesVars
  <2>7. DeletionsAreTold'
    <3>1. ListedThenDeleted(listingEvents', WorkingDir, watches) => ToCome'
      BY <1>1, <2>2, LastTaken DEF FollowInv, DeletionsAreTold
    <3>2. ASSUME DeletedLast(listingEvents', WorkingDir), ~missed' PROVE ToCome'
      <4>1. e.watch = watches
        BY <1>11, <2>1, <2>3, <3>2
      <4>2. ListedThenDeleted(listingEvents, WorkingDir, watches)
        BY <1>1, <2>4, <3>2, <4>1, LastTaken
      <4> QED
        BY <2>2, <4>2 DEF FollowInv, DeletionsAreTold
    <3> QED
      BY <1>6, <2>1, <3>1, <3>2 DEF DeletionsAreTold
  <2> QED
    BY <1>10, <2>5, <2>6, <2>7 DEF FollowInv
<1> QED
  BY <1>12, <1>13

LEMMA PassedOnFollows ==
    ASSUME FollowInv, ExplorerTyped', listingEvents # << >>, listingEvents' = Tail(listingEvents),
           NEW e \in ListEvents \cup ModifyEvents, e = Head(listingEvents), e.kind # "listed",
           explorerEvents' = Append(explorerEvents, e), UNCHANGED <<listingVars, watchEvents, namesVars, explorerQueue>>
    PROVE  FollowInv'
<1>1. /\ explorerEvents \in Seq(PanelEventsOfExplorer) /\ e \in PanelEventsOfExplorer
      /\ listingEvents \in Seq(ListEvents \cup ModifyEvents) /\ ~IsListed(e)
  BY ResultFields DEF FollowInv, ExplorerTyped, ExplorerTypeOK, PanelEventsOfExplorer, IsListed
<1>2. ToCome => ToCome'
  BY <1>1, KindAppended DEF ToCome
<1>3. Listing <=> Listing'
  BY <1>1, KindTaken DEF Listing
<1>4. ListingsAreOld'
  <2>1. AreOld(Tail(listingEvents), watches, changes, disk) /\ DeletedLater(Tail(listingEvents), changes)
    BY <1>1, OldTaken, DeletedLaterTaken DEF FollowInv, ListingsAreOld
  <2> QED
    BY <2>1 DEF ListingsAreOld, namesVars, listingVars
<1>5. ListIsTold'
  BY <1>2, <1>3 DEF FollowInv, ListIsTold, listingVars, namesVars
<1>6. LastListingIsTold'
  <2>1. \A n : ListedLast(listingEvents', WorkingDir, watches, n) => ListedLast(listingEvents, WorkingDir, watches, n)
    BY <1>1, LastTaken
  <2> QED
    BY <1>2, <2>1 DEF FollowInv, LastListingIsTold, namesVars, listingVars
<1>7. DeletionsAreTold'
  <2>1. DeletedLast(listingEvents', WorkingDir) => DeletedLast(listingEvents, WorkingDir)
    BY <1>1, LastTaken
  <2>2. ListedThenDeleted(listingEvents', WorkingDir, watches) => ListedThenDeleted(listingEvents, WorkingDir, watches)
    BY <1>1, LastTaken
  <2>3. DeletedLast(explorerEvents', WorkingDir) => IsDeleted(e, WorkingDir) \/ DeletedLast(explorerEvents, WorkingDir)
    BY <1>1, LastAppended
  <2>4. IsDeleted(e, WorkingDir) /\ ~Listing' => DeletedLast(listingEvents, WorkingDir)
    BY <1>1, LastTaken DEF Listing
  <2> QED
    BY <1>2, <1>3, <2>1, <2>2, <2>3, <2>4 DEF FollowInv, DeletionsAreTold, listingVars
<1> QED
  BY <1>4, <1>5, <1>6, <1>7 DEF FollowInv

LEMMA LossFollows ==
    ASSUME FollowInv, ExplorerTyped', WatchLosesEvents
    PROVE  FollowInv'
<1>1. watches \in Nat /\ listingEvents \in Seq(ListEvents \cup ModifyEvents) /\ AreOld(listingEvents, watches, changes, disk)
  BY DEF FollowInv, ExplorerTyped, ExplorerTypeOK, ListingsAreOld
<1>2. watches' = watches + 1 /\ missed' /\ UNCHANGED <<namesVars, listingEvents, WorkingDir>>
  BY DEF WatchLosesEvents
<1>3. AreOld(listingEvents, watches + 1, changes, disk)
  BY <1>1, OldWithNewWatch
<1>4. (\A names : ~ListedLast(listingEvents, WorkingDir, watches + 1, names)) /\ ~ListedThenDeleted(listingEvents, WorkingDir, watches + 1)
  BY <1>1, NoneUnderNewWatch
<1>5. ListingsAreOld' /\ ListIsTold'
  BY <1>2, <1>3 DEF FollowInv, ListingsAreOld, ListIsTold, namesVars
<1>6. LastListingIsTold' /\ DeletionsAreTold'
  BY <1>2, <1>4 DEF LastListingIsTold, DeletionsAreTold
<1> QED
  BY <1>5, <1>6 DEF FollowInv

LEMMA RefusalFollows ==
    ASSUME FollowInv, ExplorerTyped', UNCHANGED <<namesVars, listingVars, watchEvents, explorerEvents>>, ToCome => ToCome',
           NEW x \in ModifyEvents, x.kind = "not renamed", listingEvents' = Append(listingEvents, x)
    PROVE  FollowInv'
<1>1. /\ listingEvents \in Seq(ListEvents \cup ModifyEvents) /\ x \in ListEvents \cup ModifyEvents
      /\ ~IsListed(x) /\ \A dir : ~IsDeleted(x, dir)
  BY DEF FollowInv, ExplorerTyped, ExplorerTypeOK, IsListed, IsDeleted
<1>2. Listing => Listing'
  BY <1>1, KindAppended DEF Listing
<1>3. AreOld(listingEvents', watches, changes, disk)
  BY <1>1, OldAppended DEF FollowInv, ListingsAreOld
<1>4. DeletedLater(listingEvents', changes)
  BY <1>1, DeletedLaterAppended DEF FollowInv, ListingsAreOld
<1>5. ListingsAreOld'
  BY <1>3, <1>4 DEF ListingsAreOld, namesVars, listingVars
<1>6. ListIsTold'
  BY <1>2 DEF FollowInv, ListIsTold, namesVars, listingVars
<1>7. LastListingIsTold'
  <2>1. \A n : ListedLast(listingEvents', WorkingDir, watches, n) => ListedLast(listingEvents, WorkingDir, watches, n)
    BY <1>1, LastAppended DEF IsCurrent
  <2> QED
    BY <2>1 DEF FollowInv, LastListingIsTold, namesVars, listingVars
<1>8. DeletionsAreTold'
  <2>1. DeletedLast(listingEvents', WorkingDir) => DeletedLast(listingEvents, WorkingDir)
    BY <1>1, LastAppended
  <2>2. ListedThenDeleted(listingEvents', WorkingDir, watches) => ListedThenDeleted(listingEvents, WorkingDir, watches)
    BY <1>1, LaterAppended
  <2> QED
    BY <1>2, <2>1, <2>2 DEF FollowInv, DeletionsAreTold, listingVars
<1> QED
  BY <1>5, <1>6, <1>7, <1>8 DEF FollowInv

\* What the pool takes and what the user asks for.
LEMMA QueueKinds ==
    ASSUME ExplorerTypeOK
    PROVE  /\ \A a \in ExplorerActions : QueueAction(a) =>
                 (HasKind(explorerQueue', "list") <=> HasKind(explorerQueue, "list") \/ a.kind = "list")
           /\ explorerQueue # << >> /\ Head(explorerQueue).kind # "list" /\ HasKind(explorerQueue, "list")
                 => HasKind(Tail(explorerQueue), "list")
<1>1. explorerQueue \in Seq(ExplorerActions)
  BY DEF ExplorerTypeOK
<1>2. \A a \in ExplorerActions : QueueAction(a) =>
         (HasKind(explorerQueue', "list") <=> HasKind(explorerQueue, "list") \/ a.kind = "list")
  BY <1>1, KindAppended DEF QueueAction
<1> QED
  BY <1>1, <1>2, KindTaken

LEMMA PoolFollows ==
    ASSUME FollowInv, ExplorerTyped', ExplorerActionRuns
    PROVE  FollowInv'
<1>1. ExplorerTypeOK
  BY DEF FollowInv, ExplorerTyped
<1>2. PICK a \in ExplorerActions : a = Head(explorerQueue)
  BY <1>1, TakenIsTyped DEF ExplorerActionRuns, ExplorerTypeOK
<1>3. explorerQueue # << >> /\ explorerQueue' = Tail(explorerQueue) /\ UNCHANGED <<listingVars, explorerEvents>>
  BY DEF ExplorerActionRuns
<1>4. a.dir \in ListedDirs /\ disk[a.dir] \in SUBSET Names
  BY <1>1, ActionFields DEF ExplorerTypeOK
<1>5. a.kind # "list" => (HasKind(explorerQueue, "list") => HasKind(explorerQueue', "list"))
  BY <1>1, <1>2, <1>3, QueueKinds
<1>6. a.kind # "list" /\ watchEvents' = watchEvents => (ToCome => ToCome')
  BY <1>3, <1>5 DEF ToCome
<1>7. CASE a.kind = "list"
  <2>1. ListFiles(a)
    BY <1>2, <1>7 DEF ExplorerActionRuns
  <2> QED
    BY <1>3, <1>4, <2>1, ListingFollows
<1>8. CASE a.kind = "delete"
  <2>1. DeleteName(a) /\ a.name \in Names
    BY <1>2, <1>8, ActionFields DEF ExplorerActionRuns
  <2>2. CASE DiskChanges(a.dir, disk[a.dir] \ {a.name}) /\ Posts([kind |-> "deleted", dir |-> a.dir, name |-> a.name])
    <3>1. listingEvents' = Append(listingEvents, [kind |-> "deleted", dir |-> a.dir, name |-> a.name])
      BY <2>2 DEF Posts
    <3>2. disk[a.dir] \ {a.name} \in SUBSET Names
      BY <1>4
    <3>3. DiskChanges(a.dir, disk[a.dir] \ {a.name})
      BY <2>2
    <3> DEFINE names == disk[a.dir] \ {a.name}
    <3> HIDE DEF names
    <3> QED
      BY <1>3, <1>4, <1>5, <1>8, <2>1, <3>1, <3>2, <3>3, DiskStepFollows
  <2>3. CASE UNCHANGED <<namesVars, watchEvents, listingEvents>>
    BY <1>3, <1>6, <1>8, <2>3, QuietStepFollows DEF FollowInv
  <2> QED
    BY <2>1, <2>2, <2>3 DEF DeleteName
<1>9. CASE a.kind = "rename"
  <2>1. RenameName(a) /\ a.name \in Names /\ a.new \in Names
    BY <1>2, <1>9, ActionFields DEF ExplorerActionRuns
  <2>2. CASE DiskChanges(a.dir, (disk[a.dir] \ {a.name}) \cup {a.new}) /\ UNCHANGED listingEvents
    <3>1. (disk[a.dir] \ {a.name}) \cup {a.new} \in SUBSET Names
      BY <1>4, <2>1
    <3> QED
      BY <1>3, <1>4, <1>5, <1>9, <2>2, <3>1, DiskStepFollows
  <2>3. CASE /\ Posts([kind |-> "not renamed", dir |-> a.dir, name |-> a.name, new |-> a.new])
             /\ UNCHANGED <<namesVars, watchEvents>>
    <3> DEFINE x == [kind |-> "not renamed", dir |-> a.dir, name |-> a.name, new |-> a.new]
    <3>1. x \in ModifyEvents /\ x.kind = "not renamed" /\ listingEvents' = Append(listingEvents, x)
      BY <1>4, <2>1, <2>3, ExplorerRecords DEF Posts
    <3> HIDE DEF x
    <3> QED
      BY <1>3, <1>6, <1>9, <2>3, <3>1, RefusalFollows
  <2> QED
    BY <2>1, <2>2, <2>3 DEF RenameName
<1> QED
  BY <1>7, <1>8, <1>9, ActionFields

LEMMA PanelFollows ==
    ASSUME FollowInv, ExplorerTyped', ExplorerPanelHandlesEvent
    PROVE  FollowInv'
<1>1. /\ explorerEvents \in Seq(PanelEventsOfExplorer) /\ explorerQueue \in Seq(ExplorerActions)
      /\ HasKind(explorerEvents, "changed") => WorkingDir \in ListedDirs
  BY DEF FollowInv, ExplorerTyped, ExplorerTypeOK, PanelEventsOfExplorer
<1>2. /\ explorerEvents # << >> /\ explorerEvents' = Tail(explorerEvents)
      /\ UNCHANGED <<namesVars, counters, watchEvents, listingVars, listingEvents>>
  BY DEF ExplorerPanelHandlesEvent
<1>3. PICK e \in PanelEventsOfExplorer : e = Head(explorerEvents)
  BY <1>1, <1>2, TakenIsTyped
<1>4. CASE e.kind = "changed"
  <2>1. StartRefresh(WorkingDir)
    BY <1>3, <1>4 DEF ExplorerPanelHandlesEvent
  <2>2. WorkingDir \in ListedDirs
    BY <1>1, <1>2, <1>3, <1>4, KindTaken
  <2>3. [kind |-> "list", dir |-> WorkingDir] \in ExplorerActions
    BY <2>2, ExplorerRecords
  <2>4. HasKind(explorerQueue', "list")
    BY <2>1, <2>3, QueueKinds DEF StartRefresh, FollowInv, ExplorerTyped
  <2>5. ToCome'
    BY <2>4 DEF ToCome
  <2> QED
    BY <1>2, <2>5, QuietStepFollows
<1>5. CASE e.kind # "changed"
  <2>1. explorerQueue' = explorerQueue
    BY <1>3, <1>5 DEF ExplorerPanelHandlesEvent, ShowDir, OnExplorerModifyComplete
  <2>2. HasKind(explorerEvents, "changed") => HasKind(explorerEvents', "changed")
    BY <1>1, <1>2, <1>3, <1>5, KindTaken
  <2>3. ToCome => ToCome'
    BY <1>2, <2>1, <2>2 DEF ToCome
  <2> QED
    BY <1>2, <2>3, QuietStepFollows
<1> QED
  BY <1>4, <1>5

LEMMA ExplorerStepFollows == FollowInv /\ [ExplorerNext]_explorerVars => FollowInv'
<1> SUFFICES ASSUME FollowInv, [ExplorerNext]_explorerVars PROVE FollowInv'
  OBVIOUS
<1>1. ExplorerTyped' /\ ExplorerTypeOK /\ ExplorerTyped
  BY ExplorerTypedStep DEF FollowInv, ExplorerTyped
<1>2. ASSUME NEW dir \in ListedDirs, NEW name \in Names, OtherProgramChanges(dir, name) PROVE FollowInv'
  <2> DEFINE names == IF name \in disk[dir] THEN disk[dir] \ {name} ELSE disk[dir] \cup {name}
  <2>1. names \in SUBSET Names
    BY <1>1 DEF ExplorerTypeOK
  <2>2. DiskChanges(dir, names) /\ UNCHANGED <<explorerQueue, listingVars, listingEvents, explorerEvents>>
    BY <1>2 DEF OtherProgramChanges
  <2> HIDE DEF names
  <2> QED
    BY <1>1, <2>1, <2>2, DiskStepFollows
<1>3. ASSUME NEW dir \in ListedDirs, RefreshDir(dir) PROVE FollowInv'
  <2>1. HasKind(explorerQueue', "list")
    BY <1>1, <1>3, QueueKinds, ExplorerRecords DEF RefreshDir, StartRefresh
  <2>2. ToCome'
    BY <2>1 DEF ToCome
  <2> QED
    BY <1>1, <1>3, <2>2, QuietStepFollows DEF RefreshDir
<1>4. ASSUME NEW a \in ExplorerActions, QueueAction(a), UNCHANGED <<namesVars, watchEvents, listingVars, listingEvents, explorerEvents>>
      PROVE  FollowInv'
  <2>1. ToCome => ToCome'
    BY <1>1, <1>4, QueueKinds DEF ToCome
  <2> QED
    BY <1>1, <1>4, <2>1, QuietStepFollows
<1>5. ASSUME NEW name \in Names, OnListMenuDelete(name) PROVE FollowInv'
  <2>1. WorkingDir \in ListedDirs
    BY <1>1, <1>5 DEF OnListMenuDelete, UserChange, ExplorerTypeOK
  <2>2. [kind |-> "delete", dir |-> WorkingDir, name |-> name] \in ExplorerActions
    BY <2>1, ExplorerRecords
  <2> QED
    BY <1>4, <1>5, <2>2 DEF OnListMenuDelete, UserChange
<1>6. ASSUME NEW name \in Names, OnListMenuCreateNew(name) PROVE FollowInv'
  <2>1. WorkingDir \in ListedDirs
    BY <1>1, <1>6 DEF OnListMenuCreateNew, UserChange, ExplorerTypeOK
  <2>2. disk[WorkingDir] \cup {name} \in SUBSET Names
    BY <1>1, <2>1 DEF ExplorerTypeOK
  <2>3. /\ DiskChanges(WorkingDir, disk[WorkingDir] \cup {name})
        /\ UNCHANGED <<explorerQueue, listingVars, listingEvents, explorerEvents>>
    BY <1>6 DEF OnListMenuCreateNew, UserChange
  <2> QED
    BY <1>1, <2>1, <2>2, <2>3, DiskStepFollows
<1>7. ASSUME NEW name \in Names, NEW new \in Names, OnListEndLabelEdit(name, new) PROVE FollowInv'
  <2>1. WorkingDir \in ListedDirs
    BY <1>1, <1>7 DEF OnListEndLabelEdit, UserChange, ExplorerTypeOK
  <2>2. [kind |-> "rename", dir |-> WorkingDir, name |-> name, new |-> new] \in ExplorerActions
    BY <2>1, ExplorerRecords
  <2> QED
    BY <1>4, <1>7, <2>2 DEF OnListEndLabelEdit, UserChange
<1>8. CASE FileListingHandlesEvent
  <2>1. listingEvents # << >> /\ listingEvents' = Tail(listingEvents) /\ UNCHANGED <<namesVars, explorerQueue>>
    BY <1>8 DEF FileListingHandlesEvent
  <2>2. PICK e \in ListEvents \cup ModifyEvents : e = Head(listingEvents)
    BY <1>1, <2>1, TakenIsTyped DEF ExplorerTypeOK
  <2>3. CASE e.kind = "listed"
    <3>1. OnExplorerListComplete(e)
      BY <1>8, <2>2, <2>3 DEF FileListingHandlesEvent
    <3> QED
      BY <1>1, <2>1, <2>2, <2>3, <3>1, ListCompleteFollows
  <2>4. CASE e.kind # "listed"
    <3>1. explorerEvents' = Append(explorerEvents, e) /\ UNCHANGED <<listingVars, watchEvents>>
      BY <1>8, <2>2, <2>4 DEF FileListingHandlesEvent
    <3> QED
      BY <1>1, <2>1, <2>2, <2>4, <3>1, PassedOnFollows
  <2> QED
    BY <2>3, <2>4
<1>9. CASE OnWatchEvent
  <2>1. explorerEvents' = Append(explorerEvents, [kind |-> "changed"])
    BY <1>1, <1>9 DEF OnWatchEvent, ExplorerTyped
  <2>2. explorerEvents \in Seq(PanelEventsOfExplorer)
    BY <1>1 DEF ExplorerTypeOK, PanelEventsOfExplorer
  <2>3. ToCome'
    <3> DEFINE x == [kind |-> "changed"]
    <3>1. x \in PanelEventsOfExplorer /\ x.kind = "changed" /\ explorerEvents' = Append(explorerEvents, x)
      BY <2>1, ExplorerRecords
    <3> HIDE DEF x
    <3>2. HasKind(explorerEvents', "changed")
      BY <2>2, <3>1, KindAppended
    <3> QED
      BY <3>2 DEF ToCome
  <2> QED
    BY <1>1, <1>9, <2>3, QuietStepFollows DEF OnWatchEvent
<1>10. CASE UNCHANGED explorerVars
  <2>1. ToCome => ToCome'
    BY <1>10 DEF explorerVars, ToCome
  <2> QED
    BY <1>1, <1>10, <2>1, QuietStepFollows DEF explorerVars, namesVars, listingVars
<1> QED
  BY <1>1, <1>2, <1>3, <1>5, <1>6, <1>7, <1>8, <1>9, <1>10, PoolFollows, LossFollows, PanelFollows DEF ExplorerNext

-----------------------------------------------------------------------------
(***************************************************************************)
(* The renames and the rows.                                               *)
(***************************************************************************)

\* The rename that the user asked for as k, in the queue or refused.
IsRename(e, k) == e.kind \in {"rename", "not renamed"} /\ e.dir = k.dir /\ e.name = k.name /\ e.new = k.new
RenameIn(s, k) == \E i \in DOMAIN s : IsRename(s[i], k)
OnceIn(s, k) == \A i, j \in DOMAIN s : IsRename(s[i], k) /\ IsRename(s[j], k) => i = j

RowRenames == [dir : {WorkingDir}, name : Names, new : Names]
RenamePending(k) == RenameIn(explorerQueue, k) \/ RenameIn(listingEvents, k) \/ RenameIn(explorerEvents, k)
\* The same rename is nowhere a second time.
IsAlone(k) ==
    /\ OnceIn(explorerQueue, k) /\ OnceIn(listingEvents, k) /\ OnceIn(explorerEvents, k)
    /\ ~(RenameIn(explorerQueue, k) /\ RenameIn(listingEvents, k))
    /\ ~(RenameIn(explorerQueue, k) /\ RenameIn(explorerEvents, k))
    /\ ~(RenameIn(listingEvents, k) /\ RenameIn(explorerEvents, k))
EachHasLabel == \A k \in RowRenames : IsAlone(k) /\ (RenamePending(k) => k \in labels)

\* Nothing will set the rows again.
RowsSettled == WorkingDir # NoDir /\ ~missed /\ ~ToCome /\ ~Listing /\ ~HasKind(explorerEvents, "listed")

LabelsTo(L, n) == {k \in L : k.new = n}

\* The rows of a directory with these names, when the labels L were edited since.
RowsFit(names, rows, L) ==
    /\ \A k, l \in L : k.name = l.name => k = l
    /\ \A k \in L : k.name \in names
    /\ \A n \in Names : rows[n] = (IF n \in names /\ ~ \E k \in L : k.name = n THEN 1 ELSE 0)
                                  + Cardinality(LabelsTo(L, n))

\* What is settled has only labels whose rename is not refused or done yet, and the
\* rows of the directory with these labels edited.  (The second needs EachHasLabel:
\* a label that is edited twice in the same way is kept once.)
LabelsArePending == RowsSettled => \A k \in labels : k \in RowRenames /\ k.name # k.new /\ RenamePending(k)
RowsAreKnown == RowsSettled /\ ~misreverted /\ EachHasLabel => RowsFit(disk[WorkingDir], nameRows, labels)

RowsInv == FollowInv /\ IsFiniteSet(labels) /\ LabelsArePending /\ RowsAreKnown

LEMMA RenameAppended ==
    ASSUME NEW S, NEW s \in Seq(S), NEW x \in S, NEW k
    PROVE  /\ RenameIn(Append(s, x), k) <=> RenameIn(s, k) \/ IsRename(x, k)
           /\ OnceIn(Append(s, x), k) <=> OnceIn(s, k) /\ ~(RenameIn(s, k) /\ IsRename(x, k))
<1>1. PICK n \in Nat : /\ n \in DOMAIN Append(s, x) /\ n \notin DOMAIN s /\ Append(s, x)[n] = x
                       /\ \A i \in DOMAIN Append(s, x) : i \in DOMAIN s \/ i = n
                       /\ \A i \in DOMAIN s : i \in DOMAIN Append(s, x) /\ Append(s, x)[i] = s[i]
  BY AppendIndex
<1>2. RenameIn(Append(s, x), k) <=> RenameIn(s, k) \/ IsRename(x, k)
  BY <1>1 DEF RenameIn
<1>3. OnceIn(Append(s, x), k) <=> OnceIn(s, k) /\ ~(RenameIn(s, k) /\ IsRename(x, k))
  BY <1>1 DEF RenameIn, OnceIn
<1> QED
  BY <1>2, <1>3

LEMMA RenameTaken ==
    ASSUME NEW S, NEW s \in Seq(S), s # << >>, NEW k
    PROVE  /\ RenameIn(s, k) <=> IsRename(Head(s), k) \/ RenameIn(Tail(s), k)
           /\ OnceIn(s, k) <=> OnceIn(Tail(s), k) /\ ~(IsRename(Head(s), k) /\ RenameIn(Tail(s), k))
<1>1. /\ DOMAIN Tail(s) \subseteq Nat /\ 1 \in DOMAIN s /\ s[1] = Head(s)
      /\ \A i \in DOMAIN Tail(s) : i + 1 \in DOMAIN s /\ i + 1 # 1 /\ Tail(s)[i] = s[i + 1]
  BY TailIndex
<1>2. \A i \in DOMAIN s : i = 1 \/ \E j \in DOMAIN Tail(s) : i = j + 1
  BY NoListTaken
<1>3. \A i, j \in DOMAIN Tail(s) : i + 1 = j + 1 => i = j
  BY <1>1
<1>4. RenameIn(s, k) <=> IsRename(Head(s), k) \/ RenameIn(Tail(s), k)
  BY <1>1, <1>2 DEF RenameIn
<1>5. OnceIn(s, k) => OnceIn(Tail(s), k) /\ ~(IsRename(Head(s), k) /\ RenameIn(Tail(s), k))
  BY <1>1, <1>3 DEF OnceIn, RenameIn
<1>6. ASSUME OnceIn(Tail(s), k), ~(IsRename(Head(s), k) /\ RenameIn(Tail(s), k)) PROVE OnceIn(s, k)
  <2>1. ASSUME NEW i \in DOMAIN s, NEW j \in DOMAIN s, IsRename(s[i], k), IsRename(s[j], k) PROVE i = j
    <3>1. CASE i = 1 /\ j = 1
      BY <3>1
    <3>2. CASE i = 1 /\ j # 1
      BY <1>1, <1>2, <1>6, <2>1, <3>2 DEF RenameIn
    <3>3. CASE i # 1 /\ j = 1
      BY <1>1, <1>2, <1>6, <2>1, <3>3 DEF RenameIn
    <3>4. CASE i # 1 /\ j # 1
      <4>1. PICK a \in DOMAIN Tail(s), b \in DOMAIN Tail(s) : i = a + 1 /\ j = b + 1
        BY <1>2, <3>4
      <4>2. a = b
        BY <1>1, <1>6, <2>1, <4>1 DEF OnceIn
      <4> QED
        BY <4>1, <4>2
    <3> QED
      BY <3>1, <3>2, <3>3, <3>4
  <2> QED
    BY <2>1 DEF OnceIn
<1> QED
  BY <1>4, <1>5, <1>6

LEMMA NoRenameInEmpty == \A k : ~RenameIn(<< >>, k) /\ OnceIn(<< >>, k)
  BY DEF RenameIn, OnceIn

\* How many labels have a name.
LEMMA LabelsCounted ==
    ASSUME NEW L, IsFiniteSet(L)
    PROVE  /\ \A n : Cardinality(LabelsTo(L, n)) \in Nat
           /\ \A n : (\A k \in L : k.new # n) => Cardinality(LabelsTo(L, n)) = 0
           /\ \A r, n : r \notin L => Cardinality(LabelsTo(L \cup {r}, n))
                                      = IF n = r.new THEN Cardinality(LabelsTo(L, n)) + 1 ELSE Cardinality(LabelsTo(L, n))
           /\ \A r \in L : \A n : Cardinality(LabelsTo(L, n))
                                      = IF n = r.new THEN Cardinality(LabelsTo(L \ {r}, n)) + 1 ELSE Cardinality(LabelsTo(L \ {r}, n))
           /\ \A r : IsFiniteSet(L \ {r})
<1>1. ASSUME NEW K, IsFiniteSet(K), NEW n PROVE IsFiniteSet(LabelsTo(K, n)) /\ Cardinality(LabelsTo(K, n)) \in Nat
  <2>1. LabelsTo(K, n) \in SUBSET K
    BY DEF LabelsTo
  <2> QED
    BY <1>1, <2>1, FS_Subset, FS_CardinalityType
<1>2. ASSUME NEW n, \A k \in L : k.new # n PROVE Cardinality(LabelsTo(L, n)) = 0
  <2>1. LabelsTo(L, n) = {}
    BY <1>2 DEF LabelsTo
  <2> QED
    BY <2>1, FS_EmptySet
<1>3. ASSUME NEW K, IsFiniteSet(K), NEW r, NEW n, r \notin K
      PROVE  Cardinality(LabelsTo(K \cup {r}, n))
                = IF n = r.new THEN Cardinality(LabelsTo(K, n)) + 1 ELSE Cardinality(LabelsTo(K, n))
  <2>1. CASE n = r.new
    <3>1. LabelsTo(K \cup {r}, n) = LabelsTo(K, n) \cup {r} /\ r \notin LabelsTo(K, n)
      BY <1>3, <2>1 DEF LabelsTo
    <3>2. IsFiniteSet(LabelsTo(K, n))
      BY <1>1, <1>3
    <3>3. Cardinality(LabelsTo(K, n) \cup {r}) = Cardinality(LabelsTo(K, n)) + 1
      BY <3>1, <3>2, FS_AddElement
    <3> QED
      BY <2>1, <3>1, <3>3
  <2>2. CASE n # r.new
    <3>1. LabelsTo(K \cup {r}, n) = LabelsTo(K, n)
      BY <2>2 DEF LabelsTo
    <3> QED
      BY <2>2, <3>1
  <2> QED
    BY <2>1, <2>2
<1>4. \A r : IsFiniteSet(L \ {r})
  BY FS_RemoveElement
<1>5. ASSUME NEW r \in L, NEW n
      PROVE  Cardinality(LabelsTo(L, n))
                = IF n = r.new THEN Cardinality(LabelsTo(L \ {r}, n)) + 1 ELSE Cardinality(LabelsTo(L \ {r}, n))
  <2>1. (L \ {r}) \cup {r} = L /\ r \notin L \ {r}
    OBVIOUS
  <2> DEFINE K == L \ {r}
  <2>2. IsFiniteSet(K) /\ K \cup {r} = L /\ r \notin K
    BY <1>4, <2>1
  <2> HIDE DEF K
  <2>3. Cardinality(LabelsTo(K \cup {r}, n)) = IF n = r.new THEN Cardinality(LabelsTo(K, n)) + 1 ELSE Cardinality(LabelsTo(K, n))
    BY <1>3, <2>2
  <2> QED
    BY <2>2, <2>3 DEF K
<1> QED
  BY <1>1, <1>2, <1>3, <1>4, <1>5

\* One label more, and the row moved to its new name.
LEMMA RowsRelabeled ==
    ASSUME NEW names, NEW rows \in [Names -> Nat], NEW L, IsFiniteSet(L), RowsFit(names, rows, L),
           NEW r, r \notin L, r.name \in Names, r.new \in Names, r.name # r.new,
           rows[r.name] > 0, \A k \in L : k.new # r.name
    PROVE  RowsFit(names, [n \in Names |-> (rows[n] + IF n = r.new THEN 1 ELSE 0) - IF n = r.name THEN 1 ELSE 0], L \cup {r})
<1> DEFINE M == L \cup {r}
<1>1. /\ \A k, l \in L : k.name = l.name => k = l
      /\ \A k \in L : k.name \in names
      /\ \A n \in Names : rows[n] = (IF n \in names /\ ~ \E k \in L : k.name = n THEN 1 ELSE 0) + Cardinality(LabelsTo(L, n))
  BY DEF RowsFit
<1>2. /\ \A n : Cardinality(LabelsTo(L, n)) \in Nat
      /\ Cardinality(LabelsTo(L, r.name)) = 0
      /\ \A n : Cardinality(LabelsTo(M, n)) = IF n = r.new THEN Cardinality(LabelsTo(L, n)) + 1 ELSE Cardinality(LabelsTo(L, n))
  BY LabelsCounted
<1>3. rows[r.name] = 1 /\ r.name \in names /\ ~ \E k \in L : k.name = r.name
  BY <1>1, <1>2
<1>4. /\ \A k, l \in M : k.name = l.name => k = l
      /\ \A k \in M : k.name \in names
      /\ \A n : (\E k \in M : k.name = n) <=> n = r.name \/ \E k \in L : k.name = n
  BY <1>1, <1>3
<1> HIDE DEF M
<1>5. ASSUME NEW n \in Names
      PROVE  (rows[n] + IF n = r.new THEN 1 ELSE 0) - (IF n = r.name THEN 1 ELSE 0)
                = (IF n \in names /\ ~ \E k \in M : k.name = n THEN 1 ELSE 0) + Cardinality(LabelsTo(M, n))
  <2>1. Cardinality(LabelsTo(L, n)) \in Nat /\ rows[n] \in Nat
    BY <1>2
  <2>2. rows[n] = (IF n \in names /\ ~ \E k \in L : k.name = n THEN 1 ELSE 0) + Cardinality(LabelsTo(L, n))
    BY <1>1
  <2>3. (\E k \in M : k.name = n) <=> n = r.name \/ \E k \in L : k.name = n
    BY <1>4
  <2>4. CASE n = r.name
    <3>1. rows[n] = 1 /\ Cardinality(LabelsTo(M, n)) = 0 /\ n # r.new /\ \E k \in M : k.name = n
      BY <1>2, <1>3, <2>3, <2>4
    <3> QED
      BY <2>4, <3>1
  <2>5. CASE n = r.new
    <3>1. Cardinality(LabelsTo(M, n)) = Cardinality(LabelsTo(L, n)) + 1 /\ n # r.name
      BY <1>2, <2>5
    <3> QED
      BY <2>1, <2>2, <2>3, <2>5, <3>1
  <2>6. CASE n # r.name /\ n # r.new
    <3>1. Cardinality(LabelsTo(M, n)) = Cardinality(LabelsTo(L, n))
      BY <1>2, <2>6
    <3> QED
      BY <2>1, <2>2, <2>3, <2>6, <3>1
  <2> QED
    BY <2>4, <2>5, <2>6
<1> QED
  BY <1>4, <1>5 DEF RowsFit, M

\* A label less, and the row moved back.
LEMMA RowsRestored ==
    ASSUME NEW names, NEW rows \in [Names -> Nat], NEW L, IsFiniteSet(L), RowsFit(names, rows, L),
           NEW r \in L, r.name \in Names, r.new \in Names, r.name # r.new
    PROVE  /\ rows[r.new] > 0
           /\ RowsFit(names, [n \in Names |-> (rows[n] + IF n = r.name THEN 1 ELSE 0) - IF n = r.new THEN 1 ELSE 0], L \ {r})
<1> DEFINE M == L \ {r}
<1>1. /\ \A k, l \in L : k.name = l.name => k = l
      /\ \A k \in L : k.name \in names
      /\ \A n \in Names : rows[n] = (IF n \in names /\ ~ \E k \in L : k.name = n THEN 1 ELSE 0) + Cardinality(LabelsTo(L, n))
  BY DEF RowsFit
<1>2. /\ \A n : Cardinality(LabelsTo(L, n)) \in Nat /\ Cardinality(LabelsTo(M, n)) \in Nat
      /\ \A n : Cardinality(LabelsTo(L, n)) = IF n = r.new THEN Cardinality(LabelsTo(M, n)) + 1 ELSE Cardinality(LabelsTo(M, n))
  <2>1. IsFiniteSet(M)
    BY LabelsCounted
  <2> HIDE DEF M
  <2>2. \A n : Cardinality(LabelsTo(L, n)) \in Nat /\ Cardinality(LabelsTo(M, n)) \in Nat
    BY <2>1, LabelsCounted
  <2> QED
    BY <2>2, LabelsCounted DEF M
<1>3. /\ \A k, l \in M : k.name = l.name => k = l
      /\ \A k \in M : k.name \in names
      /\ ~ \E k \in M : k.name = r.name
      /\ r.name \in names /\ \E k \in L : k.name = r.name
      /\ \A n : n # r.name => ((\E k \in M : k.name = n) <=> \E k \in L : k.name = n)
  BY <1>1
<1> HIDE DEF M
<1>4. ASSUME NEW n \in Names
      PROVE  (rows[n] + IF n = r.name THEN 1 ELSE 0) - (IF n = r.new THEN 1 ELSE 0)
                = (IF n \in names /\ ~ \E k \in M : k.name = n THEN 1 ELSE 0) + Cardinality(LabelsTo(M, n))
  <2>1. Cardinality(LabelsTo(L, n)) \in Nat /\ Cardinality(LabelsTo(M, n)) \in Nat /\ rows[n] \in Nat
    BY <1>2
  <2>2. rows[n] = (IF n \in names /\ ~ \E k \in L : k.name = n THEN 1 ELSE 0) + Cardinality(LabelsTo(L, n))
    BY <1>1
  <2>3. CASE n = r.name
    <3>1. /\ rows[n] = Cardinality(LabelsTo(L, n)) /\ Cardinality(LabelsTo(L, n)) = Cardinality(LabelsTo(M, n))
          /\ n \in names /\ ~ \E k \in M : k.name = n
      BY <1>2, <1>3, <2>1, <2>2, <2>3
    <3> QED
      BY <2>1, <2>3, <3>1
  <2>4. CASE n = r.new
    <3>1. /\ Cardinality(LabelsTo(L, n)) = Cardinality(LabelsTo(M, n)) + 1
          /\ n # r.name /\ ((\E k \in M : k.name = n) <=> \E k \in L : k.name = n)
      BY <1>2, <1>3, <2>4
    <3> QED
      BY <2>1, <2>2, <2>4, <3>1
  <2>5. CASE n # r.name /\ n # r.new
    <3>1. /\ Cardinality(LabelsTo(L, n)) = Cardinality(LabelsTo(M, n))
          /\ ((\E k \in M : k.name = n) <=> \E k \in L : k.name = n)
      BY <1>2, <1>3, <2>5
    <3> QED
      BY <2>1, <2>2, <2>5, <3>1
  <2> QED
    BY <2>3, <2>4, <2>5
<1>5. rows[r.new] > 0
  <2> DEFINE c == Cardinality(LabelsTo(M, r.new))
  <2>1. c \in Nat /\ Cardinality(LabelsTo(L, r.new)) = c + 1
    BY <1>2
  <2>2. rows[r.new] = (IF r.new \in names /\ ~ \E k \in L : k.name = r.new THEN 1 ELSE 0) + Cardinality(LabelsTo(L, r.new))
    BY <1>1
  <2> HIDE DEF c
  <2> QED
    BY <2>1, <2>2
<1> QED
  BY <1>3, <1>4, <1>5 DEF RowsFit, M

LEMMA RenameNamed ==
    ASSUME NEW e, NEW k \in RowRenames, IsRename(e, k)
    PROVE  k = [dir |-> e.dir, name |-> e.name, new |-> e.new] /\ e.dir = WorkingDir
  BY DEF RowRenames, IsRename

LEMMA RowsOfUnsettled ==
    ASSUME FollowInv', IsFiniteSet(labels'), ~RowsSettled'
    PROVE  RowsInv'
  BY DEF RowsInv, LabelsArePending, RowsAreKnown

LEMMA ExplorerInitRows == ExplorerInit => RowsInv
<1> SUFFICES ASSUME ExplorerInit PROVE RowsInv
  OBVIOUS
<1>1. FollowInv
  BY ExplorerInitFollows
<1>2. IsFiniteSet(labels) /\ ~RowsSettled
  BY FS_EmptySet DEF ExplorerInit, RowsSettled
<1> QED
  BY <1>1, <1>2 DEF RowsInv, LabelsArePending, RowsAreKnown

\* Steps that leave the rows alone: what was settled is as it was, and the renames
\* are where they were or one place further.
LEMMA RowsStay ==
    ASSUME RowsInv, FollowInv', UNCHANGED <<rowVars, WorkingDir, missed>>,
           RowsSettled' => RowsSettled /\ disk'[WorkingDir] = disk[WorkingDir],
           RowsSettled' => \A k \in RowRenames : (RenamePending(k) => RenamePending(k)') /\ (IsAlone(k)' => IsAlone(k))
    PROVE  RowsInv'
<1>1. CASE ~RowsSettled'
  BY <1>1, RowsOfUnsettled DEF RowsInv, rowVars
<1>2. CASE RowsSettled'
  <2>1. RowRenames' = RowRenames /\ labels' = labels /\ nameRows' = nameRows /\ misreverted' = misreverted /\ WorkingDir' = WorkingDir
    BY DEF RowRenames, rowVars
  <2>2. LabelsArePending'
    BY <1>2, <2>1 DEF RowsInv, LabelsArePending
  <2>3. EachHasLabel' => EachHasLabel
    BY <1>2, <2>1 DEF EachHasLabel
  <2>4. RowsAreKnown'
    BY <1>2, <2>1, <2>3 DEF RowsInv, RowsAreKnown
  <2> QED
    BY <2>1, <2>2, <2>4 DEF RowsInv
<1> QED
  BY <1>1, <1>2

LEMMA LabelEditKeepsRows ==
    ASSUME RowsInv, FollowInv', NEW name \in Names, NEW new \in Names, OnListEndLabelEdit(name, new)
    PROVE  RowsInv'
<1> DEFINE a == [kind |-> "rename", dir |-> WorkingDir, name |-> name, new |-> new]
<1>1. PICK r \in RowRenames : r = [dir |-> WorkingDir, name |-> name, new |-> new]
  BY DEF RowRenames
<1>2. r.name = name /\ r.new = new /\ r.dir = WorkingDir
  BY <1>1
<1>3. /\ explorerQueue \in Seq(ExplorerActions) /\ nameRows \in [Names -> Nat] /\ WorkingDir \in ListedDirs
      /\ IsFiniteSet(labels) /\ ExplorerTypeOK
  BY DEF RowsInv, FollowInv, ExplorerTyped, ExplorerTypeOK, OnListEndLabelEdit, UserChange
<1>4. /\ nameRows[name] > 0 /\ new # name /\ explorerQueue' = Append(explorerQueue, a)
      /\ nameRows' = Relabeled(name, new) /\ labels' = {k \in labels : k.new # name} \cup {r}
      /\ UNCHANGED <<namesVars, watchEvents, listingVars, listingEvents, explorerEvents, misreverted>>
  BY <1>1 DEF OnListEndLabelEdit, QueueAction, UserChange
<1>5. a \in ExplorerActions /\ a.kind = "rename" /\ IsRename(a, r)
  BY <1>3, <1>2, ExplorerRecords DEF IsRename
<1>6. \A k \in RowRenames : IsRename(a, k) => k = r
  <2> TAKE k \in RowRenames
  <2> HAVE IsRename(a, k)
  <2>1. k.dir = WorkingDir /\ k.name = name /\ k.new = new
    BY DEF IsRename
  <2> QED
    BY <1>1, <2>1 DEF RowRenames
<1> HIDE DEF a
<1>7. \A k : /\ RenameIn(explorerQueue', k) <=> RenameIn(explorerQueue, k) \/ IsRename(a, k)
             /\ OnceIn(explorerQueue', k) <=> OnceIn(explorerQueue, k) /\ ~(RenameIn(explorerQueue, k) /\ IsRename(a, k))
  BY <1>3, <1>4, <1>5, RenameAppended
<1>8. RowsSettled' => RowsSettled
  <2>1. HasKind(explorerQueue', "list") <=> HasKind(explorerQueue, "list")
    BY <1>3, <1>4, <1>5, KindAppended
  <2> QED
    BY <1>4, <2>1 DEF RowsSettled, ToCome, Listing, listingVars
<1>9. RowRenames' = RowRenames
  BY <1>4 DEF RowRenames, listingVars
<1>10. \A k : RenamePending(k) => RenamePending(k)'
  BY <1>4, <1>7 DEF RenamePending
<1>11. IsFiniteSet(labels')
  <2>1. IsFiniteSet({k \in labels : k.new # name})
    BY <1>3, FS_Subset
  <2> QED
    BY <1>4, <2>1, FS_AddElement
<1>12. RenamePending(r)'
  BY <1>5, <1>7 DEF RenamePending
<1>13. LabelsArePending'
  <2>1. ASSUME RowsSettled', NEW k \in labels' PROVE k \in RowRenames /\ k.name # k.new /\ RenamePending(k)'
    <3>1. CASE k = r
      BY <1>4, <1>12, <1>2, <3>1
    <3>2. CASE k \in labels
      BY <1>8, <1>10, <2>1, <3>2 DEF RowsInv, LabelsArePending
    <3> QED
      BY <1>4, <2>1, <3>1, <3>2
  <2> QED
    BY <1>9, <2>1 DEF LabelsArePending
<1>14. RowsAreKnown'
  <2>1. SUFFICES ASSUME RowsSettled', ~misreverted', EachHasLabel' PROVE RowsFit(disk[WorkingDir], nameRows', labels')
    BY <1>4 DEF RowsAreKnown, namesVars, listingVars
  <2>2. RowsSettled /\ ~misreverted /\ \A k \in labels : k \in RowRenames /\ RenamePending(k)
    BY <1>4, <1>8, <2>1 DEF RowsInv, LabelsArePending
  <2>3. \A k \in RowRenames : IsAlone(k)' /\ (RenamePending(k)' => k \in labels')
    BY <1>9, <2>1 DEF EachHasLabel
  <2>4. \A k \in RowRenames : IsAlone(k)' => IsAlone(k)
    BY <1>4, <1>7 DEF IsAlone
  <2>5. ~RenamePending(r)
    <3>1. IsAlone(r)'
      BY <2>3
    <3> QED
      BY <1>4, <1>5, <1>7, <3>1 DEF IsAlone, RenamePending
  <2>6. \A k \in labels : k \in labels' /\ k # r /\ k.new # name
    <3> TAKE k \in labels
    <3>1. k \in RowRenames /\ RenamePending(k) /\ k # r
      BY <2>2, <2>5
    <3>2. k \in labels'
      BY <1>10, <2>3, <3>1
    <3> QED
      BY <1>4, <3>1, <3>2
  <2>7. EachHasLabel
    <3>1. \A k \in RowRenames : RenamePending(k) => k \in labels
      BY <1>4, <1>10, <2>3, <2>5
    <3> QED
      BY <2>3, <2>4, <3>1 DEF EachHasLabel
  <2>8. RowsFit(disk[WorkingDir], nameRows, labels)
    BY <2>2, <2>7 DEF RowsInv, RowsAreKnown
  <2>9. labels' = labels \cup {r} /\ r \notin labels
    BY <1>4, <2>6
  <2>10. nameRows' = [n \in Names |-> (nameRows[n] + IF n = r.new THEN 1 ELSE 0) - IF n = r.name THEN 1 ELSE 0]
    BY <1>4, <1>2 DEF Relabeled
  <2>11. r.name \in Names /\ r.new \in Names /\ r.name # r.new /\ nameRows[r.name] > 0 /\ \A k \in labels : k.new # r.name
    BY <1>4, <1>2, <2>6
  <2> QED
    BY <1>3, <2>8, <2>9, <2>10, <2>11, RowsRelabeled
<1> QED
  BY <1>11, <1>13, <1>14 DEF RowsInv

\* A record handed on from the head of one sequence to the end of another.
LEMMA HandedOn ==
    ASSUME NEW S, NEW s \in Seq(S), s # << >>, NEW T, NEW t \in Seq(T), NEW x \in T, NEW k,
           IsRename(x, k) <=> IsRename(Head(s), k)
    PROVE  /\ RenameIn(s, k) \/ RenameIn(t, k) <=> RenameIn(Tail(s), k) \/ RenameIn(Append(t, x), k)
           /\ /\ OnceIn(Tail(s), k) /\ OnceIn(Append(t, x), k)
              /\ ~(RenameIn(Tail(s), k) /\ RenameIn(Append(t, x), k))
              => OnceIn(s, k) /\ OnceIn(t, k) /\ ~(RenameIn(s, k) /\ RenameIn(t, k))
<1>1. /\ RenameIn(s, k) <=> IsRename(Head(s), k) \/ RenameIn(Tail(s), k)
      /\ OnceIn(s, k) <=> OnceIn(Tail(s), k) /\ ~(IsRename(Head(s), k) /\ RenameIn(Tail(s), k))
  BY RenameTaken
<1>2. /\ RenameIn(Append(t, x), k) <=> RenameIn(t, k) \/ IsRename(x, k)
      /\ OnceIn(Append(t, x), k) <=> OnceIn(t, k) /\ ~(RenameIn(t, k) /\ IsRename(x, k))
  BY RenameAppended
<1> QED
  BY <1>1, <1>2

\* A directory that changes is another one when what is shown is settled.
LEMMA SettledDisk ==
    ASSUME FollowInv, NEW dir \in ListedDirs, NEW names \in SUBSET Names, DiskChanges(dir, names),
           UNCHANGED <<WorkingDir, explorerEvents>>, RowsSettled'
    PROVE  dir # WorkingDir /\ disk'[WorkingDir] = disk[WorkingDir] /\ watchEvents' = watchEvents
<1>1. /\ ExplorerTypeOK /\ watchEvents \in Nat /\ Watcher = WorkingDir
      /\ WorkingDir \in ListedDirs \cup {NoDir} /\ WorkingDir # NoDir /\ ~(watchEvents' > 0)
  BY DEF FollowInv, ExplorerTyped, ExplorerTypeOK, RowsSettled, ToCome
<1>2. dir # WorkingDir
  BY <1>1 DEF DiskChanges
<1>3. disk'[WorkingDir] = disk[WorkingDir]
  BY <1>1, <1>2, DiskChangesTyped
<1> QED
  BY <1>1, <1>2, <1>3 DEF DiskChanges

LEMMA PoolKeepsRows ==
    ASSUME RowsInv, FollowInv', ExplorerActionRuns
    PROVE  RowsInv'
<1>1. /\ ExplorerTypeOK /\ explorerQueue \in Seq(ExplorerActions) /\ listingEvents \in Seq(ListEvents \cup ModifyEvents)
      /\ FollowInv /\ watchEvents \in Nat /\ IsFiniteSet(labels)
  BY DEF RowsInv, FollowInv, ExplorerTyped, ExplorerTypeOK
<1>2. PICK a \in ExplorerActions : a = Head(explorerQueue)
  BY <1>1, TakenIsTyped DEF ExplorerActionRuns
<1>3. explorerQueue # << >> /\ explorerQueue' = Tail(explorerQueue) /\ UNCHANGED <<listingVars, explorerEvents, rowVars>>
  BY DEF ExplorerActionRuns
<1>4. a.dir \in ListedDirs /\ disk[a.dir] \in SUBSET Names
  BY <1>1, ActionFields DEF ExplorerTypeOK
<1>5. UNCHANGED <<rowVars, WorkingDir, missed>> /\ IsFiniteSet(labels')
  BY <1>1, <1>3 DEF listingVars, rowVars
<1>6. ASSUME a.kind # "list", RowsSettled', watchEvents' = watchEvents, Listing => Listing' PROVE RowsSettled
  <2>1. HasKind(explorerQueue, "list") => HasKind(explorerQueue', "list")
    BY <1>1, <1>2, <1>3, <1>6, QueueKinds
  <2> QED
    BY <1>3, <1>6, <2>1 DEF RowsSettled, ToCome, listingVars
<1>7. CASE a.kind = "list"
  <2>1. ListFiles(a)
    BY <1>2, <1>7 DEF ExplorerActionRuns
  <2> DEFINE x == [kind |-> "listed", dir |-> a.dir, names |-> disk[a.dir], watch |-> watches, change |-> changes[a.dir]]
  <2>2. watches \in Nat /\ changes[a.dir] \in Nat
    BY <1>1, <1>4 DEF ExplorerTypeOK
  <2>3. x \in ListEvents \cup ModifyEvents /\ x.kind = "listed" /\ listingEvents' = Append(listingEvents, x)
    BY <1>4, <2>1, <2>2, ExplorerRecords DEF ListFiles, Posts
  <2> HIDE DEF x
  <2>4. Listing'
    BY <1>1, <2>3, KindAppended DEF Listing
  <2>5. ~RowsSettled'
    BY <2>4 DEF RowsSettled
  <2> QED
    BY <1>5, <2>5, RowsOfUnsettled
<1>8. ASSUME a.kind # "list",
             \A k \in RowRenames : ~IsRename(a, k),
             \/ listingEvents' = listingEvents
             \/ \E x \in ListEvents \cup ModifyEvents : x.kind = "deleted" /\ listingEvents' = Append(listingEvents, x),
             RowsSettled' => disk'[WorkingDir] = disk[WorkingDir] /\ watchEvents' = watchEvents
      PROVE  RowsInv'
  <2>1. Listing => Listing'
    <3>1. \A x \in ListEvents \cup ModifyEvents : HasKind(listingEvents, "listed") => HasKind(Append(listingEvents, x), "listed")
      BY <1>1, KindAppended
    <3> QED
      BY <1>8, <3>1 DEF Listing
  <2>2. RowsSettled' => RowsSettled /\ disk'[WorkingDir] = disk[WorkingDir]
    BY <1>6, <1>8, <2>1
  <2>3. ASSUME NEW k \in RowRenames
        PROVE  /\ RenameIn(explorerQueue', k) <=> RenameIn(explorerQueue, k)
               /\ OnceIn(explorerQueue', k) <=> OnceIn(explorerQueue, k)
    BY <1>1, <1>2, <1>3, <1>8, RenameTaken
  <2>4. ASSUME NEW k \in RowRenames
        PROVE  /\ RenameIn(listingEvents', k) <=> RenameIn(listingEvents, k)
               /\ OnceIn(listingEvents', k) <=> OnceIn(listingEvents, k)
    <3>1. CASE listingEvents' = listingEvents
      BY <3>1
    <3>2. ASSUME NEW x \in ListEvents \cup ModifyEvents, x.kind = "deleted", listingEvents' = Append(listingEvents, x)
          PROVE  /\ RenameIn(listingEvents', k) <=> RenameIn(listingEvents, k)
                 /\ OnceIn(listingEvents', k) <=> OnceIn(listingEvents, k)
      <4>1. ~IsRename(x, k)
        BY <3>2 DEF IsRename
      <4> QED
        BY <1>1, <3>2, <4>1, RenameAppended
    <3> QED
      BY <1>8, <3>1, <3>2
  <2>5. \A k \in RowRenames : (RenamePending(k) => RenamePending(k)') /\ (IsAlone(k)' => IsAlone(k))
    BY <1>3, <2>3, <2>4 DEF RenamePending, IsAlone
  <2> QED
    BY <1>5, <2>2, <2>5, RowsStay
<1>9. CASE a.kind = "delete"
  <2>1. DeleteName(a) /\ a.name \in Names /\ \A k \in RowRenames : ~IsRename(a, k)
    BY <1>2, <1>9, ActionFields DEF ExplorerActionRuns, IsRename
  <2>2. CASE DiskChanges(a.dir, disk[a.dir] \ {a.name}) /\ Posts([kind |-> "deleted", dir |-> a.dir, name |-> a.name])
    <3> DEFINE x == [kind |-> "deleted", dir |-> a.dir, name |-> a.name]
    <3>1. x \in ListEvents \cup ModifyEvents /\ x.kind = "deleted" /\ listingEvents' = Append(listingEvents, x)
      BY <1>4, <2>1, <2>2, ExplorerRecords DEF Posts
    <3> HIDE DEF x
    <3>2. disk[a.dir] \ {a.name} \in SUBSET Names
      BY <1>4
    <3>3. RowsSettled' => disk'[WorkingDir] = disk[WorkingDir] /\ watchEvents' = watchEvents
      BY <1>1, <1>3, <1>4, <1>5, <2>2, <3>2, SettledDisk
    <3> QED
      BY <1>8, <1>9, <2>1, <3>1, <3>3
  <2>3. CASE UNCHANGED <<namesVars, watchEvents, listingEvents>>
    BY <1>8, <1>9, <2>1, <2>3 DEF namesVars
  <2> QED
    BY <2>1, <2>2, <2>3 DEF DeleteName
<1>10. CASE a.kind = "rename"
  <2>1. RenameName(a) /\ a.name \in Names /\ a.new \in Names
    BY <1>2, <1>10, ActionFields DEF ExplorerActionRuns
  <2>2. CASE DiskChanges(a.dir, (disk[a.dir] \ {a.name}) \cup {a.new}) /\ UNCHANGED listingEvents
    <3>1. (disk[a.dir] \ {a.name}) \cup {a.new} \in SUBSET Names
      BY <1>4, <2>1
    <3>2. RowsSettled' => disk'[WorkingDir] = disk[WorkingDir] /\ watchEvents' = watchEvents /\ a.dir # WorkingDir
      BY <1>1, <1>3, <1>4, <1>5, <2>2, <3>1, SettledDisk
    <3>3. CASE ~RowsSettled'
      BY <1>5, <3>3, RowsOfUnsettled
    <3>4. CASE RowsSettled'
      <4>1. \A k \in RowRenames : ~IsRename(a, k)
        BY <3>2, <3>4, RenameNamed
      <4> QED
        BY <1>8, <1>10, <2>2, <3>2, <4>1
    <3> QED
      BY <3>3, <3>4
  <2>3. CASE /\ Posts([kind |-> "not renamed", dir |-> a.dir, name |-> a.name, new |-> a.new])
             /\ UNCHANGED <<namesVars, watchEvents>>
    <3> DEFINE x == [kind |-> "not renamed", dir |-> a.dir, name |-> a.name, new |-> a.new]
    <3>1. x \in ListEvents \cup ModifyEvents /\ listingEvents' = Append(listingEvents, x)
      BY <1>4, <2>1, <2>3, ExplorerRecords DEF Posts
    <3>2. \A k : IsRename(x, k) <=> IsRename(a, k)
      BY <1>10 DEF IsRename
    <3> HIDE DEF x
    <3>3. Listing => Listing'
      BY <1>1, <3>1, KindAppended DEF Listing
    <3>4. RowsSettled' => RowsSettled /\ disk'[WorkingDir] = disk[WorkingDir]
      BY <1>6, <1>10, <2>3, <3>3 DEF namesVars
    <3>5. ASSUME NEW k \in RowRenames PROVE (RenamePending(k) => RenamePending(k)') /\ (IsAlone(k)' => IsAlone(k))
      <4>1. /\ RenameIn(explorerQueue, k) \/ RenameIn(listingEvents, k) <=> RenameIn(explorerQueue', k) \/ RenameIn(listingEvents', k)
            /\ OnceIn(explorerQueue', k) /\ OnceIn(listingEvents', k) /\ ~(RenameIn(explorerQueue', k) /\ RenameIn(listingEvents', k))
               => OnceIn(explorerQueue, k) /\ OnceIn(listingEvents, k) /\ ~(RenameIn(explorerQueue, k) /\ RenameIn(listingEvents, k))
        BY ZenonT(60), <1>1, <1>2, <1>3, <3>1, <3>2, HandedOn
      <4> QED
        BY <1>3, <4>1 DEF RenamePending, IsAlone
    <3> QED
      BY <1>5, <3>4, <3>5, RowsStay
  <2> QED
    BY <2>1, <2>2, <2>3 DEF RenameName
<1> QED
  BY <1>7, <1>9, <1>10, ActionFields

LEMMA ListingKeepsRows ==
    ASSUME RowsInv, FollowInv', FileListingHandlesEvent
    PROVE  RowsInv'
<1>1. /\ ExplorerTypeOK /\ explorerEvents \in Seq(PanelEventsOfExplorer)
      /\ listingEvents \in Seq(ListEvents \cup ModifyEvents) /\ IsFiniteSet(labels)
  BY DEF RowsInv, FollowInv, ExplorerTyped, ExplorerTypeOK, PanelEventsOfExplorer
<1>2. /\ listingEvents # << >> /\ listingEvents' = Tail(listingEvents)
      /\ UNCHANGED <<namesVars, counters, explorerQueue, rowVars>>
  BY DEF FileListingHandlesEvent
<1>3. PICK e \in ListEvents \cup ModifyEvents : e = Head(listingEvents)
  BY <1>1, <1>2, TakenIsTyped
<1>4. CASE e.kind = "listed"
  <2>1. explorerEvents' = Append(explorerEvents, [kind |-> "listed"])
    BY <1>3, <1>4 DEF FileListingHandlesEvent, OnExplorerListComplete
  <2> DEFINE x == [kind |-> "listed"]
  <2>2. x \in PanelEventsOfExplorer /\ x.kind = "listed" /\ explorerEvents' = Append(explorerEvents, x)
    BY <2>1, ExplorerRecords
  <2> HIDE DEF x
  <2>3. HasKind(explorerEvents', "listed")
    BY <1>1, <2>2, KindAppended
  <2>4. ~RowsSettled' /\ IsFiniteSet(labels')
    BY <1>1, <1>2, <2>3 DEF RowsSettled, rowVars
  <2> QED
    BY <2>4, RowsOfUnsettled
<1>5. CASE e.kind # "listed"
  <2>1. explorerEvents' = Append(explorerEvents, e) /\ UNCHANGED <<listingVars, watchEvents>>
    BY <1>3, <1>5 DEF FileListingHandlesEvent
  <2>2. e \in PanelEventsOfExplorer
    BY <1>5, ResultFields DEF PanelEventsOfExplorer
  <2>3. RowsSettled' => RowsSettled
    <3>1. Listing => Listing'
      BY <1>1, <1>2, <1>3, <1>5, KindTaken DEF Listing
    <3>2. \A kind : HasKind(explorerEvents, kind) => HasKind(explorerEvents', kind)
      BY <1>1, <2>1, <2>2, KindAppended
    <3> QED
      BY <1>2, <2>1, <3>1, <3>2 DEF RowsSettled, ToCome, listingVars
  <2>4. ASSUME NEW k \in RowRenames PROVE (RenamePending(k) => RenamePending(k)') /\ (IsAlone(k)' => IsAlone(k))
    <3>1. /\ RenameIn(listingEvents, k) \/ RenameIn(explorerEvents, k) <=> RenameIn(listingEvents', k) \/ RenameIn(explorerEvents', k)
          /\ OnceIn(listingEvents', k) /\ OnceIn(explorerEvents', k) /\ ~(RenameIn(listingEvents', k) /\ RenameIn(explorerEvents', k))
             => OnceIn(listingEvents, k) /\ OnceIn(explorerEvents, k) /\ ~(RenameIn(listingEvents, k) /\ RenameIn(explorerEvents, k))
      BY <1>1, <1>2, <1>3, <2>1, <2>2, HandedOn
    <3> QED
      BY <1>2, <3>1 DEF RenamePending, IsAlone
  <2>5. UNCHANGED <<rowVars, WorkingDir, missed>> /\ disk'[WorkingDir] = disk[WorkingDir]
    BY <1>2, <2>1 DEF listingVars, namesVars
  <2> QED
    BY <2>3, <2>4, <2>5, RowsStay
<1> QED
  BY <1>4, <1>5

LEMMA RefusalKeepsRows ==
    ASSUME RowsInv, FollowInv', NEW e \in ModifyEvents, e.kind = "not renamed", e.dir = WorkingDir,
           explorerEvents # << >>, e = Head(explorerEvents), explorerEvents' = Tail(explorerEvents),
           UNCHANGED <<namesVars, watchEvents, listingVars, listingEvents>>, OnExplorerModifyComplete(e)
    PROVE  RowsInv'
<1>1. /\ explorerEvents \in Seq(PanelEventsOfExplorer) /\ nameRows \in [Names -> Nat] /\ IsFiniteSet(labels)
  BY DEF RowsInv, FollowInv, ExplorerTyped, ExplorerTypeOK, PanelEventsOfExplorer
<1>2. e.name \in Names /\ e.new \in Names
  BY ModifyFields
<1>3. PICK r \in RowRenames : r = [dir |-> e.dir, name |-> e.name, new |-> e.new]
  BY <1>2 DEF RowRenames
<1>4. r.name = e.name /\ r.new = e.new /\ r.dir = WorkingDir /\ IsRename(e, r)
  BY <1>3 DEF IsRename
<1>5. \A k \in RowRenames : IsRename(e, k) => k = r
  BY <1>3, RenameNamed
<1>6. /\ nameRows' = IF nameRows[e.new] > 0 THEN Relabeled(e.new, e.name) ELSE nameRows
      /\ labels' = labels \ {r} /\ misreverted' = (misreverted \/ r \notin labels) /\ explorerQueue' = explorerQueue
  BY <1>3 DEF OnExplorerModifyComplete
<1>7. \A k : /\ RenameIn(explorerEvents, k) <=> IsRename(e, k) \/ RenameIn(explorerEvents', k)
             /\ OnceIn(explorerEvents, k) <=> OnceIn(explorerEvents', k) /\ ~(IsRename(e, k) /\ RenameIn(explorerEvents', k))
  BY <1>1, RenameTaken
<1>8. RowsSettled' => RowsSettled
  <2>1. \A kind : HasKind(explorerEvents, kind) /\ kind # "not renamed" => HasKind(explorerEvents', kind)
    BY <1>1, KindTaken
  <2> QED
    BY <1>6, <2>1 DEF RowsSettled, ToCome, Listing, listingVars
<1>9. RowRenames' = RowRenames
  BY DEF RowRenames, listingVars
<1>10. \A k \in RowRenames : k # r /\ RenamePending(k) => RenamePending(k)'
  BY <1>5, <1>6, <1>7 DEF RenamePending
<1>11. IsFiniteSet(labels')
  BY <1>1, <1>6, FS_RemoveElement
<1>12. LabelsArePending'
  <2>1. ASSUME RowsSettled', NEW k \in labels' PROVE k \in RowRenames /\ k.name # k.new /\ RenamePending(k)'
    <3>1. k \in labels /\ k # r
      BY <1>6
    <3> QED
      BY <1>8, <1>10, <2>1, <3>1 DEF RowsInv, LabelsArePending
  <2> QED
    BY <1>9, <2>1 DEF LabelsArePending
<1>13. RowsAreKnown'
  <2>1. SUFFICES ASSUME RowsSettled', ~misreverted', EachHasLabel' PROVE RowsFit(disk[WorkingDir], nameRows', labels')
    BY DEF RowsAreKnown, namesVars, listingVars
  <2>2. RowsSettled /\ ~misreverted /\ r \in labels
    BY <1>6, <1>8, <2>1
  <2>3. r.name # r.new
    BY <2>2 DEF RowsInv, LabelsArePending
  <2>4. \A k \in RowRenames : IsAlone(k)' /\ (RenamePending(k)' => k \in labels')
    BY <1>9, <2>1 DEF EachHasLabel
  <2>5. ~RenamePending(r)'
    BY <1>6, <2>4
  <2>6. \A k \in RowRenames : IsAlone(k)
    <3>1. IsAlone(r)
      <4>1. IsAlone(r)' /\ ~RenamePending(r)'
        BY <2>4, <2>5
      <4> QED
        BY <1>6, <1>7, <4>1 DEF IsAlone, RenamePending
    <3>2. ASSUME NEW k \in RowRenames, k # r PROVE IsAlone(k)
      <4>1. IsAlone(k)' /\ ~IsRename(e, k)
        BY <1>5, <2>4, <3>2
      <4> QED
        BY <1>6, <1>7, <4>1 DEF IsAlone
    <3> QED
      BY <3>1, <3>2
  <2>7. EachHasLabel
    <3>1. \A k \in RowRenames : RenamePending(k) => k \in labels
      BY <1>6, <1>10, <2>2, <2>4
    <3> QED
      BY <2>6, <3>1 DEF EachHasLabel
  <2>8. RowsFit(disk[WorkingDir], nameRows, labels)
    BY <2>2, <2>7 DEF RowsInv, RowsAreKnown
  <2>9. r.name \in Names /\ r.new \in Names
    BY <1>2, <1>4
  <2>10. /\ nameRows[r.new] > 0
         /\ RowsFit(disk[WorkingDir],
                    [n \in Names |-> (nameRows[n] + IF n = r.name THEN 1 ELSE 0) - IF n = r.new THEN 1 ELSE 0], labels \ {r})
    BY <1>1, <2>2, <2>3, <2>8, <2>9, RowsRestored
  <2>11. nameRows' = [n \in Names |-> (nameRows[n] + IF n = r.name THEN 1 ELSE 0) - IF n = r.new THEN 1 ELSE 0]
    BY <1>4, <1>6, <2>10 DEF Relabeled
  <2> QED
    BY <1>6, <2>10, <2>11
<1> QED
  BY <1>11, <1>12, <1>13 DEF RowsInv

LEMMA PanelKeepsRows ==
    ASSUME RowsInv, FollowInv', ExplorerPanelHandlesEvent
    PROVE  RowsInv'
<1>1. /\ ExplorerTypeOK /\ explorerEvents \in Seq(PanelEventsOfExplorer) /\ explorerQueue \in Seq(ExplorerActions)
      /\ HasKind(explorerEvents, "changed") => WorkingDir \in ListedDirs
      /\ FollowInv /\ IsFiniteSet(labels)
  BY DEF RowsInv, FollowInv, ExplorerTyped, ExplorerTypeOK, PanelEventsOfExplorer
<1>2. /\ explorerEvents # << >> /\ explorerEvents' = Tail(explorerEvents)
      /\ UNCHANGED <<namesVars, counters, watchEvents, listingVars, listingEvents>>
  BY DEF ExplorerPanelHandlesEvent
<1>3. PICK e \in PanelEventsOfExplorer : e = Head(explorerEvents)
  BY <1>1, <1>2, TakenIsTyped
<1>4. CASE e.kind = "listed"
  <2>1. /\ nameRows' = [n \in Names |-> IF n \in DirFilesListed THEN 1 ELSE 0] /\ labels' = {}
    BY <1>3, <1>4 DEF ExplorerPanelHandlesEvent, ShowDir
  <2>2. IsFiniteSet(labels') /\ LabelsArePending'
    BY <2>1, FS_EmptySet DEF LabelsArePending
  <2>3. RowsAreKnown'
    <3>1. SUFFICES ASSUME RowsSettled' PROVE RowsFit(disk'[WorkingDir'], nameRows', labels')
      BY DEF RowsAreKnown
    <3>2. DirFilesListed' = disk'[WorkingDir'] /\ DirFilesListed' = DirFilesListed
      BY <1>2, <3>1 DEF FollowInv, ListIsTold, RowsSettled, listingVars
    <3>3. \A n : LabelsTo(labels', n) = {} /\ Cardinality(LabelsTo(labels', n)) = 0
      BY <2>1, FS_EmptySet DEF LabelsTo
    <3> QED
      BY <2>1, <3>2, <3>3 DEF RowsFit
  <2> QED
    BY <2>2, <2>3 DEF RowsInv
<1>5. CASE e.kind = "changed"
  <2>1. StartRefresh(WorkingDir) /\ labels' = labels
    BY <1>3, <1>5 DEF ExplorerPanelHandlesEvent, rowVars
  <2>2. WorkingDir \in ListedDirs
    BY <1>1, <1>2, <1>3, <1>5, KindTaken
  <2>3. HasKind(explorerQueue', "list")
    BY <1>1, <2>1, <2>2, ExplorerRecords, QueueKinds DEF StartRefresh
  <2>4. ~RowsSettled'
    BY <2>3 DEF RowsSettled, ToCome
  <2> QED
    BY <1>1, <2>1, <2>4, RowsOfUnsettled
<1>6. CASE e.kind \notin {"listed", "changed"}
  <2>1. OnExplorerModifyComplete(e) /\ e \in ModifyEvents /\ e.kind \in {"deleted", "not renamed"}
    BY <1>3, <1>6, PanelFields, ModifyFields DEF ExplorerPanelHandlesEvent
  <2>2. explorerQueue' = explorerQueue
    BY <2>1 DEF OnExplorerModifyComplete
  <2>3. \A kind : HasKind(explorerEvents, kind) /\ kind # e.kind => HasKind(explorerEvents', kind)
    BY <1>1, <1>2, <1>3, KindTaken
  <2>4. RowsSettled' => RowsSettled
    BY <1>2, <1>6, <2>2, <2>3 DEF RowsSettled, ToCome, Listing, listingVars
  <2>5. CASE e.dir # WorkingDir
    <3>1. UNCHANGED rowVars
      BY <2>1, <2>5 DEF OnExplorerModifyComplete
    <3>2. ASSUME NEW k \in RowRenames
          PROVE  /\ RenameIn(explorerEvents', k) <=> RenameIn(explorerEvents, k)
                 /\ OnceIn(explorerEvents', k) <=> OnceIn(explorerEvents, k)
      <4>1. ~IsRename(e, k)
        BY <2>5, RenameNamed
      <4> QED
        BY <1>1, <1>2, <1>3, <4>1, RenameTaken
    <3>3. \A k \in RowRenames : (RenamePending(k) => RenamePending(k)') /\ (IsAlone(k)' => IsAlone(k))
      BY <1>2, <2>2, <3>2 DEF RenamePending, IsAlone
    <3>4. UNCHANGED <<rowVars, WorkingDir, missed>> /\ disk'[WorkingDir] = disk[WorkingDir]
      BY <1>2, <3>1 DEF listingVars, namesVars
    <3> QED
      BY <2>4, <3>3, <3>4, RowsStay
  <2>6. CASE e.dir = WorkingDir /\ e.kind = "deleted"
    <3>1. ~RowsSettled'
      <4>1. SUFFICES ASSUME RowsSettled' PROVE FALSE
        OBVIOUS
      <4>2. RowsSettled /\ ~HasKind(Tail(explorerEvents), "listed")
        BY <1>2, <2>4, <4>1 DEF RowsSettled
      <4>3. DeletedLast(explorerEvents, WorkingDir)
        BY <1>1, <1>2, <1>3, <2>6, <4>2, LastTaken DEF IsDeleted
      <4> QED
        BY <1>1, <4>2, <4>3 DEF FollowInv, DeletionsAreTold, RowsSettled
    <3>2. labels' = labels
      BY <2>1, <2>6 DEF OnExplorerModifyComplete
    <3> QED
      BY <1>1, <3>1, <3>2, RowsOfUnsettled
  <2>7. CASE e.dir = WorkingDir /\ e.kind = "not renamed"
    BY <1>2, <1>3, <2>1, <2>7, RefusalKeepsRows
  <2> QED
    BY <2>1, <2>5, <2>6, <2>7
<1> QED
  BY <1>4, <1>5, <1>6

LEMMA ExplorerStepRows == RowsInv /\ [ExplorerNext]_explorerVars => RowsInv'
<1> SUFFICES ASSUME RowsInv, [ExplorerNext]_explorerVars PROVE RowsInv'
  OBVIOUS
<1>1. FollowInv' /\ FollowInv /\ ExplorerTypeOK /\ ExplorerTyped /\ IsFiniteSet(labels) /\ explorerQueue \in Seq(ExplorerActions)
  BY ExplorerStepFollows DEF RowsInv, FollowInv, ExplorerTyped, ExplorerTypeOK
<1>2. ASSUME UNCHANGED <<rowVars, WorkingDir, missed, listingEvents, explorerEvents>>, explorerQueue' = explorerQueue,
             RowsSettled' => watchEvents' = watchEvents /\ disk'[WorkingDir] = disk[WorkingDir]
      PROVE  RowsInv'
  <2>1. RowsSettled' => RowsSettled /\ disk'[WorkingDir] = disk[WorkingDir]
    BY <1>2 DEF RowsSettled, ToCome, Listing
  <2>2. \A k \in RowRenames : (RenamePending(k) => RenamePending(k)') /\ (IsAlone(k)' => IsAlone(k))
    BY <1>2 DEF RenamePending, IsAlone
  <2>3. UNCHANGED <<rowVars, WorkingDir, missed>>
    BY <1>2
  <2> QED
    BY <1>1, <2>1, <2>2, <2>3, RowsStay
<1>3. ASSUME NEW dir \in ListedDirs, NEW name \in Names, OtherProgramChanges(dir, name) PROVE RowsInv'
  <2> DEFINE names == IF name \in disk[dir] THEN disk[dir] \ {name} ELSE disk[dir] \cup {name}
  <2>1. names \in SUBSET Names
    BY <1>1 DEF ExplorerTypeOK
  <2>2. DiskChanges(dir, names) /\ UNCHANGED <<rowVars, WorkingDir, missed, explorerQueue, listingEvents, explorerEvents>>
    BY <1>3 DEF OtherProgramChanges, listingVars
  <2> HIDE DEF names
  <2>3. RowsSettled' => watchEvents' = watchEvents /\ disk'[WorkingDir] = disk[WorkingDir]
    BY <1>1, <2>1, <2>2, SettledDisk
  <2> QED
    BY <1>2, <2>2, <2>3
<1>4. ASSUME NEW dir \in ListedDirs, RefreshDir(dir) PROVE RowsInv'
  <2>1. HasKind(explorerQueue', "list")
    BY <1>1, <1>4, QueueKinds, ExplorerRecords DEF RefreshDir, StartRefresh
  <2>2. ~RowsSettled' /\ labels' = labels
    BY <1>4, <2>1 DEF RowsSettled, ToCome, RefreshDir, rowVars
  <2> QED
    BY <1>1, <2>2, RowsOfUnsettled
<1>5. ASSUME NEW name \in Names, OnListMenuDelete(name) PROVE RowsInv'
  <2> DEFINE a == [kind |-> "delete", dir |-> WorkingDir, name |-> name]
  <2>1. WorkingDir \in ListedDirs
    BY <1>1, <1>5 DEF OnListMenuDelete, UserChange, ExplorerTypeOK
  <2>2. a \in ExplorerActions /\ a.kind = "delete" /\ explorerQueue' = Append(explorerQueue, a)
    BY <1>5, <2>1, ExplorerRecords DEF OnListMenuDelete, QueueAction
  <2>3. \A k : ~IsRename(a, k)
    BY DEF IsRename
  <2> HIDE DEF a
  <2>4. UNCHANGED <<rowVars, listingVars, namesVars, watchEvents, listingEvents, explorerEvents>>
    BY <1>5 DEF OnListMenuDelete, UserChange, rowVars
  <2>5. HasKind(explorerQueue, "list") => HasKind(explorerQueue', "list")
    BY <1>1, <2>2, KindAppended
  <2>6. RowsSettled' => RowsSettled
    BY <2>4, <2>5 DEF RowsSettled, ToCome, Listing, listingVars
  <2>7. \A k \in RowRenames : /\ RenameIn(explorerQueue', k) <=> RenameIn(explorerQueue, k)
                              /\ OnceIn(explorerQueue', k) <=> OnceIn(explorerQueue, k)
    BY <1>1, <2>2, <2>3, RenameAppended
  <2>8. \A k \in RowRenames : (RenamePending(k) => RenamePending(k)') /\ (IsAlone(k)' => IsAlone(k))
    BY <2>4, <2>7 DEF RenamePending, IsAlone
  <2>9. UNCHANGED <<rowVars, WorkingDir, missed>> /\ disk'[WorkingDir] = disk[WorkingDir]
    BY <2>4 DEF listingVars, namesVars
  <2> QED
    BY <1>1, <2>6, <2>8, <2>9, RowsStay
<1>6. ASSUME NEW name \in Names, OnListMenuCreateNew(name) PROVE RowsInv'
  <2>1. WorkingDir \in ListedDirs /\ disk[WorkingDir] \cup {name} \in SUBSET Names
    BY <1>1, <1>6 DEF OnListMenuCreateNew, UserChange, ExplorerTypeOK
  <2>2. /\ DiskChanges(WorkingDir, disk[WorkingDir] \cup {name})
        /\ UNCHANGED <<WorkingDir, explorerEvents>> /\ labels' = labels
    BY <1>6 DEF OnListMenuCreateNew, UserChange, listingVars
  <2>3. ~RowsSettled'
    BY <1>1, <2>1, <2>2, SettledDisk
  <2> QED
    BY <1>1, <2>2, <2>3, RowsOfUnsettled
<1>7. CASE OnWatchEvent
  <2>1. explorerEvents' = Append(explorerEvents, [kind |-> "changed"]) /\ labels' = labels
    BY <1>1, <1>7 DEF OnWatchEvent, ExplorerTyped, rowVars
  <2> DEFINE x == [kind |-> "changed"]
  <2>2. x \in PanelEventsOfExplorer /\ x.kind = "changed" /\ explorerEvents' = Append(explorerEvents, x)
    BY <2>1, ExplorerRecords
  <2> HIDE DEF x
  <2>3. explorerEvents \in Seq(PanelEventsOfExplorer)
    BY <1>1 DEF ExplorerTypeOK, PanelEventsOfExplorer
  <2>4. HasKind(explorerEvents', "changed")
    BY <2>2, <2>3, KindAppended
  <2>5. ~RowsSettled'
    BY <2>4 DEF RowsSettled, ToCome
  <2> QED
    BY <1>1, <2>1, <2>5, RowsOfUnsettled
<1>8. CASE WatchLosesEvents
  <2>1. ~RowsSettled' /\ labels' = labels
    BY <1>8 DEF WatchLosesEvents, RowsSettled, rowVars
  <2> QED
    BY <1>1, <2>1, RowsOfUnsettled
<1>9. CASE UNCHANGED explorerVars
  BY <1>2, <1>9 DEF explorerVars, rowVars
<1>10. \A name, new \in Names : OnListEndLabelEdit(name, new) => RowsInv'
  BY <1>1, LabelEditKeepsRows
<1> QED
  BY <1>1, <1>3, <1>4, <1>5, <1>6, <1>7, <1>8, <1>9, <1>10, PoolKeepsRows, ListingKeepsRows, PanelKeepsRows DEF ExplorerNext

LEMMA QuietRowsFollow == RowsInv => RowsFollowDisk
<1> SUFFICES ASSUME RowsInv, WorkingDir # NoDir, ExplorerIsQuiet, ~missed, ~misreverted
             PROVE  nameRows = [n \in Names |-> IF n \in disk[WorkingDir] THEN 1 ELSE 0]
  BY DEF RowsFollowDisk
<1>1. explorerQueue = << >> /\ listingEvents = << >> /\ explorerEvents = << >> /\ watchEvents = 0
  BY DEF ExplorerIsQuiet
<1>2. RowsSettled
  BY <1>1, NothingOfAKind DEF RowsSettled, ToCome, Listing
<1>3. \A k : ~RenamePending(k) /\ IsAlone(k)
  BY <1>1, NoRenameInEmpty DEF RenamePending, IsAlone
<1>4. labels = {}
  BY <1>2, <1>3 DEF RowsInv, LabelsArePending
<1>5. RowsFit(disk[WorkingDir], nameRows, labels)
  BY <1>2, <1>3 DEF RowsInv, RowsAreKnown, EachHasLabel
<1>6. nameRows \in [Names -> Nat]
  BY DEF RowsInv, FollowInv, ExplorerTyped, ExplorerTypeOK
<1>7. \A n : Cardinality(LabelsTo(labels, n)) = 0
  <2>1. \A n : LabelsTo(labels, n) = {}
    BY <1>4 DEF LabelsTo
  <2> QED
    BY <2>1, FS_EmptySet
<1>8. \A n \in Names : nameRows[n] = IF n \in disk[WorkingDir] THEN 1 ELSE 0
  BY <1>4, <1>5, <1>7 DEF RowsFit
<1> QED
  BY <1>6, <1>8

\* Whatever the directories, the names and the changes, by the user and by other
\* programs: once everything is handled the rows of the panel are the files of the
\* directory, but for a change that the watch did not tell and a refused rename
\* undone in rows that were set since.
THEOREM ExplorerRowsFollowDisk == ExplorerSpec => []RowsFollowDisk
<1> QED
  BY ExplorerInitRows, ExplorerStepRows, QuietRowsFollow, PTL DEF ExplorerSpec

-----------------------------------------------------------------------------
(***************************************************************************)
(* The walk: the tree of the directories.                                  *)
(***************************************************************************)

IsTree == /\ parentDir \in [SearchDirs -> 0 .. NumDirs] /\ fileDir \in [DirFiles -> SearchDirs]
          /\ \A d \in SearchDirs : parentDir[d] < d

Ancestors == AncestorsIn(parentDir)

\* A directory comes after the one that it is in, so that there are its ancestors.
LEMMA AncestorsAre ==
    ASSUME IsTree
    PROVE  /\ Ancestors \in [SearchDirs -> SUBSET SearchDirs]
           /\ \A d \in SearchDirs :
                 Ancestors[d] = {d} \cup IF parentDir[d] = 0 THEN {} ELSE Ancestors[parentDir[d]]
<1> DEFINE p == parentDir
           order == [i \in 1 .. NumDirs |-> i]
           D == SearchDirs
           S == SUBSET SearchDirs
           F == [q \in D \X [D -> S] |-> {q[1]} \cup IF p[q[1]] = 0 THEN {} ELSE q[2][p[q[1]]]]
           E(a) == a = [d \in D |-> {d} \cup IF p[d] = 0 THEN {} ELSE a[p[d]]]
           a0 == CHOOSE a : E(a)
<1>1. NumDirs \in Nat /\ S # {}
  BY DirectorySearchAssumption
<1>2. IsOrderOf(order, D, NumDirs)
  BY DEF IsOrderOf, IsInjective, SearchDirs
<1>3. \A d \in D : p[d] \in Nat /\ p[d] < d /\ (p[d] # 0 => p[d] \in D)
  BY DEF IsTree, SearchDirs
<1>4. \A d \in D, g \in [D -> S] : {d} \cup (IF p[d] = 0 THEN {} ELSE g[p[d]]) \in S
  BY <1>3
<1>5. /\ F \in [D \X [D -> S] -> S]
      /\ \A d \in D, g \in [D -> S] : F[<<d, g>>] = {d} \cup IF p[d] = 0 THEN {} ELSE g[p[d]]
  BY <1>4
<1> HIDE DEF F, S
<1>6. NeedsThoseBefore(F, order, D, S, NumDirs)
  <2>1. \A i \in 1 .. NumDirs : order[i] = i /\ i \in D
    BY DEF SearchDirs
  <2> HIDE DEF order
  <2>2. ASSUME NEW i \in 1 .. NumDirs, NEW g \in [D -> S], NEW h \in [D -> S],
               \A j \in 1 .. NumDirs : j < i => g[order[j]] = h[order[j]]
        PROVE  F[<<order[i], g>>] = F[<<order[i], h>>]
    <3>1. \A d \in D : d \in 1 .. NumDirs /\ order[d] = d
      BY <2>1 DEF SearchDirs
    <3>2. p[i] # 0 => p[i] \in 1 .. NumDirs /\ p[i] < i /\ order[p[i]] = p[i]
      BY <1>3, <2>1, <3>1
    <3>3. order[i] = i /\ (p[i] # 0 => g[p[i]] = h[p[i]])
      BY <2>1, <2>2, <3>2
    <3> HIDE DEF p
    <3>4. /\ F[<<i, g>>] = {i} \cup IF p[i] = 0 THEN {} ELSE g[p[i]]
          /\ F[<<i, h>>] = {i} \cup IF p[i] = 0 THEN {} ELSE h[p[i]]
      BY <1>5, <2>1
    <3> QED
      BY <3>3, <3>4
  <2> QED
    BY <1>5, <2>2 DEF NeedsThoseBefore
<1> HIDE DEF order
<1>7. PICK g : g \in [D -> S] /\ \A d \in D : g[d] = F[<<d, g>>]
  <2>1. PICK a : IsComputed(a, F, D, S)
    BY <1>1, <1>2, <1>6, RecursionExists
  <2> QED
    BY <2>1 DEF IsComputed
<1>8. E(g)
  <2>1. \A d \in D : g[d] = {d} \cup IF p[d] = 0 THEN {} ELSE g[p[d]]
    BY <1>5, <1>7
  <2>2. g = [d \in D |-> g[d]]
    BY <1>7
  <2> QED
    BY <2>1, <2>2
<1>9. E(a0)
  <2> HIDE DEF E
  <2> QED
    BY <1>8
<1>10. Ancestors = a0
  BY DEF Ancestors, AncestorsIn, a0, E
<1> HIDE DEF a0
<1>11. \A d \in D : a0[d] = {d} \cup IF p[d] = 0 THEN {} ELSE a0[p[d]]
  BY <1>9
<1>12. a0 = [d \in D |-> a0[d]]
  BY <1>9
<1>13. \A d \in D : a0[d] \subseteq SearchDirs
  <2> DEFINE Good == {i \in 0 .. NumDirs : \A d \in D : d <= i => a0[d] \subseteq SearchDirs}
  <2>1. 0 \in Good
    BY <1>1 DEF SearchDirs
  <2>2. \A i \in 1 .. NumDirs : i - 1 \in Good => i \in Good
    <3> SUFFICES ASSUME NEW i \in 1 .. NumDirs, i - 1 \in Good, NEW d \in D, d <= i
                 PROVE  a0[d] \subseteq SearchDirs
      BY <1>1
    <3>1. p[d] # 0 => a0[p[d]] \subseteq SearchDirs
      <4>1. d \in Nat /\ (p[d] <= i - 1)
        BY <1>3 DEF SearchDirs
      <4> QED
        BY <1>3, <4>1
    <3> QED
      BY <1>11, <3>1
  <2> HIDE DEF Good
  <2>3. \A i \in 0 .. NumDirs : i \in Good
    BY <1>1, <2>1, <2>2, CountingUp
  <2>4. NumDirs \in Good
    BY <1>1, <2>3
  <2> QED
    BY <2>4 DEF Good, SearchDirs
<1> QED
  BY <1>10, <1>11, <1>12, <1>13

\* The ancestors of a directory are one within the other.
LEMMA AncestorsNest ==
    ASSUME IsTree
    PROVE  \A d \in SearchDirs :
              /\ d \in Ancestors[d]
              /\ \A x \in Ancestors[d] : x \in SearchDirs /\ x <= d /\ Ancestors[x] \subseteq Ancestors[d]
              /\ \A x, y \in Ancestors[d] : x <= y => x \in Ancestors[y]
              /\ \A x \in Ancestors[d] : x # d => \E c \in Ancestors[d] : parentDir[c] = x
<1> DEFINE p == parentDir
           a == Ancestors
           Nests(d) == /\ \A x \in a[d] : x <= d /\ a[x] \subseteq a[d]
                       /\ \A x, y \in a[d] : x <= y => x \in a[y]
                       /\ \A x \in a[d] : x # d => \E c \in a[d] : p[c] = x
           Good == {i \in 0 .. NumDirs : \A d \in SearchDirs : d <= i => Nests(d)}
<1>1. NumDirs \in Nat /\ SearchDirs = 1 .. NumDirs
  BY DirectorySearchAssumption DEF SearchDirs
<1>2. /\ \A d \in SearchDirs : a[d] = {d} \cup IF p[d] = 0 THEN {} ELSE a[p[d]]
      /\ \A d \in SearchDirs : a[d] \subseteq SearchDirs
  BY AncestorsAre
<1>3. \A d \in SearchDirs : d \in Nat /\ p[d] \in Nat /\ p[d] < d /\ (p[d] # 0 => p[d] \in SearchDirs)
  BY <1>1 DEF IsTree
<1> HIDE DEF a, p
<1>4. 0 \in Good
  BY <1>1
<1>5. \A i \in 1 .. NumDirs : i - 1 \in Good => i \in Good
  <2> SUFFICES ASSUME NEW i \in 1 .. NumDirs, i - 1 \in Good, NEW d \in SearchDirs, d <= i
               PROVE  Nests(d)
    BY <1>1
  <2>1. CASE p[d] = 0
    BY <1>2, <1>3, <2>1
  <2>2. CASE p[d] # 0
    <3>1. p[d] \in SearchDirs /\ p[d] <= i - 1
      BY <1>3, <2>2
    <3>2. Nests(p[d])
      BY <3>1
    <3>3. a[d] = {d} \cup a[p[d]]
      BY <1>2, <2>2
    <3>4. \A x \in a[p[d]] : x \in Nat /\ x < d
      BY <1>2, <1>3, <3>1, <3>2
    <3>5. \A x \in a[d] : x <= d /\ a[x] \subseteq a[d]
      BY <1>3, <3>2, <3>3, <3>4
    <3>6. \A x, y \in a[d] : x <= y => x \in a[y]
      BY <1>3, <3>2, <3>3, <3>4
    <3>7. \A x \in a[d] : x # d => \E c \in a[d] : p[c] = x
      <4> SUFFICES ASSUME NEW x \in a[d], x # d PROVE \E c \in a[d] : p[c] = x
        OBVIOUS
      <4>1. d \in a[d] /\ x \in a[p[d]]
        BY <3>3
      <4>2. CASE x = p[d]
        BY <4>1, <4>2
      <4>3. CASE x # p[d]
        BY <3>2, <3>3, <4>1, <4>3
      <4> QED
        BY <4>2, <4>3
    <3> QED
      BY <3>5, <3>6, <3>7
  <2> QED
    BY <2>1, <2>2
<1> HIDE DEF Good
<1>6. \A i \in 0 .. NumDirs : i \in Good
  BY <1>1, <1>4, <1>5, CountingUp
<1>7. \A d \in SearchDirs : Nests(d)
  <2>1. NumDirs \in Good
    BY <1>1, <1>6
  <2> QED
    BY <1>1, <2>1 DEF Good
<1> QED
  BY <1>2, <1>7 DEF a, p

\* A file below a directory is in it, or below one of the directories in it, and not
\* both, and not below two of them.
LEMMA FilesBelow ==
    ASSUME IsTree, NEW f \in DirFiles, NEW x \in SearchDirs
    PROVE  /\ IsUnder(f, x) <=> fileDir[f] = x \/ \E c \in SubDirectories(x) : IsUnder(f, c)
           /\ \A c \in SubDirectories(x) : c \in SearchDirs /\ (IsUnder(f, c) => fileDir[f] # x)
           /\ \A b, c \in SubDirectories(x) : IsUnder(f, b) /\ IsUnder(f, c) => b = c
           /\ \A c \in SubDirectories(x) : Ancestors[x] \subseteq Ancestors[c]
<1> DEFINE p == parentDir
           a == Ancestors
           d == fileDir[f]
<1>1. d \in SearchDirs /\ x \in Nat /\ x # 0
  BY DirectorySearchAssumption DEF IsTree, SearchDirs
<1>2. /\ \A e \in SearchDirs : a[e] = {e} \cup IF p[e] = 0 THEN {} ELSE a[p[e]]
      /\ \A e \in SearchDirs : e \in Nat /\ p[e] < e
  BY AncestorsAre DEF IsTree, SearchDirs
<1>3. \A e \in SearchDirs :
         /\ e \in a[e]
         /\ \A y \in a[e] : y \in SearchDirs /\ y <= e /\ a[y] \subseteq a[e]
         /\ \A y, z \in a[e] : y <= z => y \in a[z]
         /\ \A y \in a[e] : y # e => \E c \in a[e] : p[c] = y
  BY AncestorsNest
<1>4. \A e : IsUnder(f, e) <=> e \in a[d]
  BY DEF IsUnder, a, Ancestors
<1>5. \A c : c \in SubDirectories(x) <=> c \in SearchDirs /\ p[c] = x
  BY DEF SubDirectories
<1> HIDE DEF a, p, d
<1>6. \A c \in SubDirectories(x) : c \in SearchDirs /\ a[c] = {c} \cup a[x] /\ x < c /\ c \in Nat
  <2> TAKE c \in SubDirectories(x)
  <2>1. c \in SearchDirs /\ p[c] = x
    BY <1>5
  <2> QED
    BY <1>1, <1>2, <2>1
<1>7. d = x \/ (\E c \in SubDirectories(x) : c \in a[d]) => x \in a[d]
  BY <1>1, <1>3, <1>6
<1>8. x \in a[d] => d = x \/ \E c \in SubDirectories(x) : c \in a[d]
  BY <1>1, <1>3, <1>5
<1>9. \A c \in SubDirectories(x) : c \in a[d] => d # x
  BY <1>1, <1>2, <1>3, <1>6
<1>10. ASSUME NEW b \in SubDirectories(x), NEW c \in SubDirectories(x), b \in a[d], c \in a[d], b < c
       PROVE  FALSE
  <2>1. b \in a[c] /\ b # c /\ b \in Nat /\ c \in Nat
    BY <1>1, <1>3, <1>6, <1>10
  <2>2. b \in a[x]
    BY <1>6, <2>1
  <2>3. b <= x /\ x < b
    BY <1>3, <1>6, <2>2
  <2> QED
    BY <1>1, <2>1, <2>3
<1>11. ASSUME NEW b \in SubDirectories(x), NEW c \in SubDirectories(x), b \in a[d], c \in a[d] PROVE b = c
  <2>1. b \in Nat /\ c \in Nat
    BY <1>6
  <2>2. ~(b < c) /\ ~(c < b)
    BY <1>10, <1>11
  <2> QED
    BY <2>1, <2>2
<1>12. \A c \in SubDirectories(x) : a[x] \subseteq a[c]
  BY <1>6
<1> QED
  BY <1>4, <1>6, <1>7, <1>8, <1>9, <1>11, <1>12 DEF a, d

-----------------------------------------------------------------------------
(***************************************************************************)
(* The walk: what is enumerated.                                           *)
(***************************************************************************)

FilePaths == {"file"} \X DirFiles
DirPaths == {"dir"} \X SearchDirs

ListsOnce(s, kind, T) ==
    /\ s \in Seq({kind} \X T) /\ IsInjective(s)
    /\ \A x : x \in Range(s) <=> \E n \in T : x = <<kind, n>>

LEMMA ListedProperties ==
    ASSUME NEW kind, NEW T, T \subseteq Nat, IsFiniteSet(T)
    PROVE  ListsOnce(Listed(kind, T), kind, T)
<1> DEFINE asc == Ascending(T)
           n == Cardinality(T)
           s == Listed(kind, T)
<1>1. /\ n \in Nat /\ DOMAIN asc = 1 .. n /\ Range(asc) = T
      /\ \A i \in DOMAIN asc : Cardinality(Below(T, asc[i])) = i - 1
  <2>1. /\ n \in Nat /\ DOMAIN asc = 1 .. n
        /\ \A i \in DOMAIN asc : Cardinality(Below(T, asc[i])) = i - 1
    BY AscendingProperties
  <2>2. Range(asc) = T
    BY AscendingRange
  <2> QED
    BY <2>1, <2>2
<1>2. s = [i \in 1 .. n |-> <<kind, asc[i]>>]
  BY DEF Listed
<1> HIDE DEF asc, n
<1>3. \A i \in 1 .. n : asc[i] \in T /\ s[i] = <<kind, asc[i]>>
  BY <1>1, <1>2 DEF Range
<1>4. s \in [1 .. n -> {kind} \X T] /\ DOMAIN s = 1 .. n
  BY <1>2, <1>3
<1>5. s \in Seq({kind} \X T)
  BY <1>1, <1>4, SeqDef
<1> HIDE DEF s
<1>6. IsInjective(s)
  <2>1. ASSUME NEW i \in 1 .. n, NEW j \in 1 .. n, s[i] = s[j] PROVE i = j
    <3>1. asc[i] = asc[j]
      BY <1>3, <2>1
    <3>2. i - 1 = j - 1
      BY <1>1, <3>1
    <3> QED
      BY <1>1, <3>2
  <2> QED
    BY <1>4, <2>1 DEF IsInjective
<1>7. \A x : x \in Range(s) <=> \E m \in T : x = <<kind, m>>
  <2>1. \A m \in T : \E i \in 1 .. n : asc[i] = m
    BY <1>1 DEF Range
  <2>2. \A x : x \in Range(s) <=> \E i \in 1 .. n : s[i] = x
    BY <1>4 DEF Range
  <2>3. ASSUME NEW x, x \in Range(s) PROVE \E m \in T : x = <<kind, m>>
    <3>1. PICK i \in 1 .. n : s[i] = x
      BY <2>2, <2>3
    <3> QED
      BY <1>3, <3>1
  <2>4. ASSUME NEW m \in T PROVE <<kind, m>> \in Range(s)
    BY <1>3, <2>1, <2>2
  <2> QED
    BY <2>3, <2>4
<1> QED
  BY <1>5, <1>6, <1>7 DEF s, ListsOnce

LEMMA SubDirectoriesFinite ==
    ASSUME NEW d
    PROVE  SubDirectories(d) \in SUBSET SearchDirs /\ SubDirectories(d) \in SUBSET Nat /\ IsFiniteSet(SubDirectories(d))
<1>1. NumDirs \in Nat /\ SearchDirs = 1 .. NumDirs
  BY DirectorySearchAssumption DEF SearchDirs
<1>2. IsFiniteSet(SearchDirs) /\ SearchDirs \subseteq Nat
  BY <1>1, FS_Interval
<1>3. SubDirectories(d) \subseteq SearchDirs
  BY DEF SubDirectories
<1> QED
  BY <1>2, <1>3, FS_Subset

LEMMA FilesOfProperties ==
    ASSUME NEW d
    PROVE  /\ FilesOf(d) \in Seq(FilePaths) /\ IsInjective(FilesOf(d))
           /\ \A x : x \in Range(FilesOf(d)) <=>
                       \E f \in DirFiles : x = <<"file", f>> /\ fileDir[f] = d /\ MatchesWildcards(f)
<1> DEFINE T == {f \in DirFiles : fileDir[f] = d /\ MatchesWildcards(f)}
<1>1. NumDirFiles \in Nat /\ DirFiles = 1 .. NumDirFiles
  BY DirectorySearchAssumption DEF DirFiles
<1>2. IsFiniteSet(DirFiles) /\ DirFiles \subseteq Nat
  BY <1>1, FS_Interval
<1>3. T \in SUBSET Nat /\ IsFiniteSet(T) /\ T \subseteq DirFiles
  BY <1>2, FS_Subset
<1>4. \A f : f \in T <=> f \in DirFiles /\ fileDir[f] = d /\ MatchesWildcards(f)
  OBVIOUS
<1>5. FilesOf(d) = Listed("file", T)
  BY DEF FilesOf
<1> HIDE DEF T
<1>6. /\ Listed("file", T) \in Seq({"file"} \X T) /\ IsInjective(Listed("file", T))
      /\ \A x : x \in Range(Listed("file", T)) <=> \E f \in T : x = <<"file", f>>
  <2>1. ListsOnce(Listed("file", T), "file", T)
    BY <1>3, ListedProperties
  <2> QED
    BY <2>1 DEF ListsOnce
<1>7. Seq({"file"} \X T) \subseteq Seq(FilePaths)
  <2>1. {"file"} \X T \subseteq FilePaths
    BY <1>3 DEF FilePaths
  <2> QED
    BY <2>1
<1> QED
  BY <1>4, <1>5, <1>6, <1>7

\* The lists of the directories in one, and all that is enumerated of it.
ListsBelow(d, g) ==
    [i \in DOMAIN Ascending(SubDirectories(d)) |-> g[Ascending(SubDirectories(d))[i]]]
Gathered(d, g) == FlattenSeq(ListsBelow(d, g)) \o FilesOf(d)

LEMMA ListsBelowAre ==
    ASSUME NEW d, NEW g \in [SearchDirs -> Seq(FilePaths)]
    PROVE  /\ ListsBelow(d, g) \in Seq(Seq(FilePaths))
           /\ \A x : x \in SubDirectories(d) <=>
                       \E i \in DOMAIN ListsBelow(d, g) : x = Ascending(SubDirectories(d))[i]
           /\ \A i \in DOMAIN ListsBelow(d, g) :
                 /\ ListsBelow(d, g)[i] = g[Ascending(SubDirectories(d))[i]]
                 /\ Ascending(SubDirectories(d))[i] \in SubDirectories(d)
           /\ \A i, j \in DOMAIN ListsBelow(d, g) :
                 Ascending(SubDirectories(d))[i] = Ascending(SubDirectories(d))[j] => i = j
<1> DEFINE T == SubDirectories(d)
           asc == Ascending(T)
           n == Cardinality(T)
           s == ListsBelow(d, g)
<1>1. T \in SUBSET SearchDirs /\ T \in SUBSET Nat /\ IsFiniteSet(T)
  BY SubDirectoriesFinite
<1> HIDE DEF T
<1>2. /\ n \in Nat /\ DOMAIN asc = 1 .. n
      /\ \A i \in DOMAIN asc : Cardinality(Below(T, asc[i])) = i - 1
  BY <1>1, AscendingProperties
<1>3. Range(asc) = T
  BY <1>1, AscendingRange
<1>4. s = [i \in 1 .. n |-> g[asc[i]]]
  BY <1>2 DEF ListsBelow, T
<1> HIDE DEF asc, n
<1>5. /\ \A i \in 1 .. n : asc[i] \in T
      /\ \A x \in T : \E i \in 1 .. n : x = asc[i]
  BY <1>2, <1>3 DEF Range
<1>6. \A i \in 1 .. n : g[asc[i]] \in Seq(FilePaths)
  BY <1>1, <1>5
<1>7. s \in [1 .. n -> Seq(FilePaths)] /\ DOMAIN s = 1 .. n /\ \A i \in 1 .. n : s[i] = g[asc[i]]
  BY <1>4, <1>6
<1> HIDE DEF s
<1>8. s \in Seq(Seq(FilePaths))
  BY <1>2, <1>7, SeqDef
<1>9. ASSUME NEW i \in 1 .. n, NEW j \in 1 .. n, asc[i] = asc[j] PROVE i = j
  <2>1. i - 1 = j - 1
    BY <1>2, <1>9
  <2> QED
    BY <2>1
<1> QED
  BY <1>5, <1>7, <1>8, <1>9 DEF s, asc, T

LEMMA GatheredIsList ==
    ASSUME NEW d, NEW g \in [SearchDirs -> Seq(FilePaths)]
    PROVE  /\ Gathered(d, g) \in Seq(FilePaths)
           /\ FlattenSeq(ListsBelow(d, g)) \in Seq(FilePaths) /\ FilesOf(d) \in Seq(FilePaths)
<1> DEFINE s == FlattenSeq(ListsBelow(d, g))
           t == FilesOf(d)
<1>1. s \in Seq(FilePaths)
  BY ListsBelowAre, FlattenSeqRange
<1>2. t \in Seq(FilePaths)
  BY FilesOfProperties
<1> HIDE DEF s, t
<1>3. s \o t \in Seq(FilePaths)
  BY <1>1, <1>2, ConcatProperties
<1> QED
  BY <1>1, <1>2, <1>3 DEF Gathered, s, t

LEMMA GatheredFromThoseBelow ==
    ASSUME NEW d, NEW g, NEW h, \A c \in SubDirectories(d) : g[c] = h[c]
    PROVE  Gathered(d, g) = Gathered(d, h)
<1> DEFINE asc == Ascending(SubDirectories(d))
<1>1. \A k \in DOMAIN asc : asc[k] \in SubDirectories(d)
  <2>1. Range(asc) = SubDirectories(d)
    BY SubDirectoriesFinite, AscendingRange
  <2> QED
    BY <2>1 DEF Range
<1>2. \A k \in DOMAIN asc : g[asc[k]] = h[asc[k]]
  BY <1>1
<1>3. ListsBelow(d, g) = ListsBelow(d, h)
  BY <1>2 DEF ListsBelow
<1> QED
  BY <1>3 DEF Gathered

LEMMA EnumeratedIs ==
    ASSUME IsTree
    PROVE  /\ EnumerateAllFiles \in [SearchDirs -> Seq(FilePaths)]
           /\ \A d \in SearchDirs : EnumerateAllFiles[d] = Gathered(d, EnumerateAllFiles)
<1> DEFINE D == SearchDirs
           S == Seq(FilePaths)
           N == NumDirs
           order == [i \in 1 .. N |-> N + 1 - i]
           F == [q \in D \X [D -> S] |-> Gathered(q[1], q[2])]
           E(a) == a = [d \in D |-> Gathered(d, a)]
           a0 == CHOOSE a : E(a)
<1>1. N \in Nat /\ S # {}
  <2>1. << >> \in S
    BY EmptySeq
  <2> QED
    BY <2>1, DirectorySearchAssumption
<1>2. \A i \in 1 .. N : order[i] = N + 1 - i /\ order[i] \in D
  BY <1>1 DEF SearchDirs
<1>3. \A d \in D : N + 1 - d \in 1 .. N /\ order[N + 1 - d] = d
  BY <1>1 DEF SearchDirs
<1>4. order \in [1 .. N -> D] /\ DOMAIN order = 1 .. N
  BY <1>2
<1> HIDE DEF order
<1>5. IsOrderOf(order, D, N)
  <2>1. \A i, j \in 1 .. N : order[i] = order[j] => i = j
    BY <1>1, <1>2
  <2> QED
    BY <1>3, <1>4, <2>1 DEF IsOrderOf, IsInjective
<1>6. \A d \in D, g \in [D -> S] : Gathered(d, g) \in S
  BY GatheredIsList
<1>7. F \in [D \X [D -> S] -> S] /\ \A d \in D, g \in [D -> S] : F[<<d, g>>] = Gathered(d, g)
  BY <1>6
<1> HIDE DEF F
<1>8. ASSUME NEW i \in 1 .. N, NEW g \in [D -> S], NEW h \in [D -> S],
             \A j \in 1 .. N : j < i => g[order[j]] = h[order[j]]
      PROVE  F[<<order[i], g>>] = F[<<order[i], h>>]
  <2> DEFINE d == order[i]
  <2>1. ASSUME NEW c \in SubDirectories(d) PROVE g[c] = h[c]
    <3>1. c \in D /\ parentDir[c] = d /\ d < c
      BY DEF SubDirectories, IsTree
    <3>2. N + 1 - c \in 1 .. N /\ N + 1 - c < i /\ order[N + 1 - c] = c
      <4>1. N + 1 - c \in 1 .. N /\ order[N + 1 - c] = c
        BY <1>3, <3>1
      <4>2. d = N + 1 - i
        BY <1>2
      <4>3. c \in Nat
        BY <3>1 DEF SearchDirs
      <4> QED
        BY <1>1, <3>1, <4>1, <4>2, <4>3
    <3> QED
      BY <1>8, <3>2
  <2>5. Gathered(d, g) = Gathered(d, h)
    BY <2>1, GatheredFromThoseBelow
  <2>6. d \in D
    BY <1>2
  <2> HIDE DEF d
  <2>7. F[<<d, g>>] = F[<<d, h>>]
    BY <1>7, <2>5, <2>6
  <2> QED
    BY <2>7 DEF d
<1> HIDE DEF S, D
<1>9. NeedsThoseBefore(F, order, D, S, N)
  BY <1>7, <1>8 DEF NeedsThoseBefore
<1>10. PICK g : g \in [D -> S] /\ \A d \in D : g[d] = F[<<d, g>>]
  <2>1. PICK a : IsComputed(a, F, D, S)
    BY <1>1, <1>5, <1>9, RecursionExists
  <2> QED
    BY <2>1 DEF IsComputed
<1>11. E(g)
  <2>1. \A d \in D : g[d] = Gathered(d, g)
    BY <1>7, <1>10
  <2>2. g = [d \in D |-> g[d]]
    BY <1>10
  <2> QED
    BY <2>1, <2>2
<1>12. E(a0)
  <2> HIDE DEF E
  <2> QED
    BY <1>11
<1>13. EnumerateAllFiles = a0
  BY DEF EnumerateAllFiles, Gathered, ListsBelow, a0, E, D
<1> HIDE DEF a0
<1>14. \A d \in D : a0[d] = Gathered(d, a0)
  BY <1>12
<1>15. a0 = [d \in D |-> a0[d]]
  BY <1>12
<1>16. a0 = g
  <2> DEFINE Good == {i \in 0 .. N : \A j \in 1 .. N : j <= i => a0[order[j]] = g[order[j]]}
  <2>1. 0 \in Good
    BY <1>1
  <2>2. \A i \in 1 .. N : i - 1 \in Good => i \in Good
    <3> SUFFICES ASSUME NEW i \in 1 .. N, i - 1 \in Good, NEW j \in 1 .. N, j <= i
                 PROVE  a0[order[j]] = g[order[j]]
      BY <1>1
    <3> DEFINE d == order[j]
    <3>1. ASSUME NEW c \in SubDirectories(d) PROVE a0[c] = g[c]
      <4>1. c \in D /\ parentDir[c] = d /\ d < c
        BY DEF SubDirectories, IsTree, D
      <4>2. N + 1 - c \in 1 .. N /\ N + 1 - c <= i - 1 /\ order[N + 1 - c] = c
        BY <1>1, <1>2, <1>3, <4>1 DEF SearchDirs, D
      <4> QED
        BY <4>2
    <3>2. Gathered(d, a0) = Gathered(d, g)
      BY <3>1, GatheredFromThoseBelow
    <3>3. d \in D
      BY <1>2
    <3>4. F[<<d, g>>] = Gathered(d, g)
      BY <1>7, <1>10, <3>3
    <3> HIDE DEF d
    <3>5. a0[d] = g[d]
      BY <1>10, <1>14, <3>2, <3>3, <3>4
    <3> QED
      BY <3>5 DEF d
  <2> HIDE DEF Good
  <2>3. \A i \in 0 .. N : i \in Good
    BY <1>1, <2>1, <2>2, CountingUp
  <2>4. N \in Good
    BY <1>1, <2>3
  <2>5. \A d \in D : a0[d] = g[d]
    <3> TAKE d \in D
    <3>1. N + 1 - d \in 1 .. N /\ order[N + 1 - d] = d /\ N + 1 - d <= N
      BY <1>1, <1>3
    <3> QED
      BY <2>4, <3>1 DEF Good
  <2> QED
    BY <1>10, <1>15, <2>5
<1> QED
  BY <1>10, <1>13, <1>14, <1>16 DEF D, S

\* The files below a directory, those that some source accepts, those in a list.
FilesUnder(x) == {f \in DirFiles : IsUnder(f, x)}
Accepted == {f \in DirFiles : MatchesWildcards(f)}
FilePath(f) == <<"file", f>>
HandFiles(s) == {f \in DirFiles : FilePath(f) \in Range(s)}

LEMMA UnderBelow ==
    ASSUME IsTree, NEW x \in SearchDirs
    PROVE  /\ \A f \in DirFiles :
                 f \in FilesUnder(x) <=> fileDir[f] = x \/ \E c \in SubDirectories(x) : f \in FilesUnder(c)
           /\ \A c \in SubDirectories(x) : /\ c \in SearchDirs /\ FilesUnder(c) \subseteq FilesUnder(x)
                                           /\ \A f \in FilesUnder(c) : fileDir[f] # x
           /\ \A b, c \in SubDirectories(x) : \A f : f \in FilesUnder(b) /\ f \in FilesUnder(c) => b = c
<1>1. \A f \in DirFiles :
         /\ IsUnder(f, x) <=> fileDir[f] = x \/ \E c \in SubDirectories(x) : IsUnder(f, c)
         /\ \A c \in SubDirectories(x) : c \in SearchDirs /\ (IsUnder(f, c) => fileDir[f] # x)
         /\ \A b, c \in SubDirectories(x) : IsUnder(f, b) /\ IsUnder(f, c) => b = c
  BY FilesBelow
<1>2. \A c \in SubDirectories(x) : c \in SearchDirs
  BY DEF SubDirectories
<1> QED
  BY <1>1, <1>2 DEF FilesUnder

LEMMA HandOf ==
    ASSUME NEW s \in Seq(FilePaths)
    PROVE  \A x \in Range(s) : \E f \in HandFiles(s) : x = FilePath(f)
<1> TAKE x \in Range(s)
<1>1. x \in FilePaths
  BY RangeInSet
<1>2. PICK f \in DirFiles : x = FilePath(f)
  BY <1>1 DEF FilePath, FilePaths
<1>3. f \in HandFiles(s)
  BY <1>2 DEF HandFiles
<1> QED
  BY <1>2, <1>3

LEMMA FilesOfHand ==
    ASSUME NEW x
    PROVE  \A f : f \in HandFiles(FilesOf(x)) <=> f \in Accepted /\ fileDir[f] = x
<1>1. \A y : y \in Range(FilesOf(x)) <=>
                \E f \in DirFiles : y = <<"file", f>> /\ fileDir[f] = x /\ MatchesWildcards(f)
  BY FilesOfProperties
<1>2. ASSUME NEW f \in HandFiles(FilesOf(x)) PROVE f \in Accepted /\ fileDir[f] = x
  <2>1. f \in DirFiles /\ <<"file", f>> \in Range(FilesOf(x))
    BY <1>2 DEF HandFiles, FilePath
  <2>2. PICK g \in DirFiles : <<"file", f>> = <<"file", g>> /\ fileDir[g] = x /\ MatchesWildcards(g)
    BY <1>1, <2>1
  <2> QED
    BY <2>2 DEF Accepted
<1>3. ASSUME NEW f \in Accepted, fileDir[f] = x PROVE f \in HandFiles(FilesOf(x))
  <2>1. f \in DirFiles /\ MatchesWildcards(f)
    BY <1>3 DEF Accepted
  <2>2. <<"file", f>> \in Range(FilesOf(x))
    BY <1>1, <1>3, <2>1
  <2> QED
    BY <2>1, <2>2 DEF HandFiles, FilePath
<1> QED
  BY <1>2, <1>3

\* All that some source accepts below a directory is enumerated, once.
EnumeratesBelow(s, d) ==
    /\ s \in Seq(FilePaths) /\ IsInjective(s)
    /\ \A f : f \in HandFiles(s) <=> f \in FilesUnder(d) /\ f \in Accepted

LEMMA GatheredEnumerates ==
    ASSUME IsTree, NEW d \in SearchDirs, NEW g \in [SearchDirs -> Seq(FilePaths)],
           \A c \in SubDirectories(d) : EnumeratesBelow(g[c], c)
    PROVE  EnumeratesBelow(Gathered(d, g), d)
<1> DEFINE lists == ListsBelow(d, g)
           at == Ascending(SubDirectories(d))
           s == FlattenSeq(lists)
           t == FilesOf(d)
<1>1. /\ lists \in Seq(Seq(FilePaths))
      /\ \A x : x \in SubDirectories(d) <=> \E i \in DOMAIN lists : x = at[i]
      /\ \A i \in DOMAIN lists : lists[i] = g[at[i]] /\ at[i] \in SubDirectories(d)
      /\ \A i, j \in DOMAIN lists : at[i] = at[j] => i = j
  BY ListsBelowAre
<1> HIDE DEF lists, at
<1>2. s \in Seq(FilePaths) /\ \A x : x \in Range(s) <=> \E i \in DOMAIN lists : x \in Range(lists[i])
  BY <1>1, FlattenSeqRange
<1>3. /\ \A f \in DirFiles :
            f \in FilesUnder(d) <=> fileDir[f] = d \/ \E c \in SubDirectories(d) : f \in FilesUnder(c)
      /\ \A c \in SubDirectories(d) : \A f \in FilesUnder(c) : fileDir[f] # d
      /\ \A b, c \in SubDirectories(d) : \A f : f \in FilesUnder(b) /\ f \in FilesUnder(c) => b = c
  BY UnderBelow
<1>4. \A i \in DOMAIN lists :
         /\ lists[i] \in Seq(FilePaths) /\ IsInjective(lists[i])
         /\ \A f : f \in HandFiles(lists[i]) <=> f \in FilesUnder(at[i]) /\ f \in Accepted
  BY <1>1 DEF EnumeratesBelow
<1>5. IsInjective(s)
  <2>1. ASSUME NEW i \in DOMAIN lists, NEW j \in DOMAIN lists, i # j,
               NEW x, x \in Range(lists[i]), x \in Range(lists[j])
        PROVE  FALSE
    <3>1. PICK f \in HandFiles(lists[i]) : x = FilePath(f)
      BY <1>4, <2>1, HandOf
    <3>2. PICK h \in HandFiles(lists[j]) : x = FilePath(h)
      BY <1>4, <2>1, HandOf
    <3>3. f = h
      BY <3>1, <3>2 DEF FilePath
    <3>4. at[i] = at[j]
      BY <1>1, <1>3, <1>4, <3>3
    <3> QED
      BY <1>1, <2>1, <3>4
  <2> QED
    BY <1>1, <1>4, <2>1, FlattenSeqInjective
<1> HIDE DEF s
<1>6. \A f : f \in HandFiles(s) <=> f \in Accepted /\ \E c \in SubDirectories(d) : f \in FilesUnder(c)
  <2>1. ASSUME NEW f \in HandFiles(s) PROVE f \in Accepted /\ \E c \in SubDirectories(d) : f \in FilesUnder(c)
    <3>1. f \in DirFiles /\ FilePath(f) \in Range(s)
      BY DEF HandFiles
    <3>2. PICK i \in DOMAIN lists : FilePath(f) \in Range(lists[i])
      BY <1>2, <3>1
    <3>3. f \in HandFiles(lists[i])
      BY <3>1, <3>2 DEF HandFiles
    <3> QED
      BY <1>1, <1>4, <3>3
  <2>2. ASSUME NEW f \in Accepted, NEW c \in SubDirectories(d), f \in FilesUnder(c) PROVE f \in HandFiles(s)
    <3>1. PICK i \in DOMAIN lists : c = at[i]
      BY <1>1
    <3>2. f \in HandFiles(lists[i])
      BY <1>4, <2>2, <3>1
    <3> QED
      BY <1>2, <3>2 DEF HandFiles
  <2> QED
    BY <2>1, <2>2
<1>7. t \in Seq(FilePaths) /\ IsInjective(t) /\ \A f : f \in HandFiles(t) <=> f \in Accepted /\ fileDir[f] = d
  BY FilesOfProperties, FilesOfHand
<1> HIDE DEF t
<1>8. IsInjective(s \o t)
  <2>1. ASSUME NEW x, x \in Range(s), x \in Range(t) PROVE FALSE
    <3>1. PICK f \in HandFiles(s) : x = FilePath(f)
      BY <1>2, <2>1, HandOf
    <3>2. PICK h \in HandFiles(t) : x = FilePath(h)
      BY <1>7, <2>1, HandOf
    <3>3. f = h
      BY <3>1, <3>2 DEF FilePath
    <3> QED
      BY <1>3, <1>6, <1>7, <3>3
  <2> QED
    BY <1>2, <1>5, <1>7, <2>1, ConcatInjective
<1>9. s \o t \in Seq(FilePaths) /\ Range(s \o t) = Range(s) \cup Range(t)
  BY <1>2, <1>7, RangeOfConcat
<1>10. \A f : f \in HandFiles(s \o t) <=> f \in HandFiles(s) \/ f \in HandFiles(t)
  BY <1>9 DEF HandFiles
<1>11. \A f : f \in Accepted => f \in DirFiles
  BY DEF Accepted
<1>12. \A f : f \in HandFiles(s \o t) <=> f \in FilesUnder(d) /\ f \in Accepted
  <2> TAKE f
  <2>1. CASE f \in Accepted
    BY <1>3, <1>6, <1>7, <1>10, <1>11, <2>1
  <2>2. CASE f \notin Accepted
    BY <1>6, <1>7, <1>10, <2>2
  <2> QED
    BY <2>1, <2>2
<1>13. Gathered(d, g) = s \o t
  BY DEF Gathered, s, t, lists
<1> QED
  BY <1>8, <1>9, <1>12, <1>13 DEF EnumeratesBelow

LEMMA AllIsEnumerated ==
    ASSUME IsTree
    PROVE  \A d \in SearchDirs : EnumeratesBelow(EnumerateAllFiles[d], d)
<1> DEFINE all == EnumerateAllFiles
           N == NumDirs
           Good == {i \in 0 .. N : \A d \in SearchDirs : N < d + i => EnumeratesBelow(all[d], d)}
<1>1. N \in Nat /\ SearchDirs = 1 .. N
  BY DirectorySearchAssumption DEF SearchDirs
<1>2. all \in [SearchDirs -> Seq(FilePaths)] /\ \A d \in SearchDirs : all[d] = Gathered(d, all)
  BY EnumeratedIs
<1> HIDE DEF all
<1>3. 0 \in Good
  BY <1>1
<1>4. \A i \in 1 .. N : i - 1 \in Good => i \in Good
  <2> SUFFICES ASSUME NEW i \in 1 .. N, i - 1 \in Good PROVE i \in Good
    OBVIOUS
  <2>1. ASSUME NEW d \in SearchDirs, N < d + i PROVE EnumeratesBelow(all[d], d)
    <3>1. ASSUME NEW c \in SubDirectories(d) PROVE EnumeratesBelow(all[c], c)
      <4>1. c \in SearchDirs /\ d < c
        BY DEF SubDirectories, IsTree
      <4>2. N < c + (i - 1)
        BY <1>1, <2>1, <4>1
      <4> QED
        BY <2>1, <4>1, <4>2
    <3> QED
      BY <1>2, <3>1, GatheredEnumerates
  <2>2. i \in 0 .. N
    BY <1>1
  <2> QED
    BY <2>1, <2>2
<1> HIDE DEF Good
<1>5. \A i \in 0 .. N : i \in Good
  BY <1>1, <1>3, <1>4, CountingUp
<1>6. N \in Good /\ \A d \in SearchDirs : N < d + N
  BY <1>1, <1>5
<1> QED
  BY <1>6 DEF Good, all

-----------------------------------------------------------------------------
(***************************************************************************)
(* The walk: what is left to be walked.                                    *)
(***************************************************************************)

NumSources == Len(InitSources)
OwedIn(i) == FilesUnder(InitSources[i]) \cap Accepted
WalkIn(i, f) == <<InitSources[i], FilePath(f)>>

\* The first k sources are left as a whole, of the one above them the files in fs.
IsLeft(k, fs, w) ==
    \/ \E i \in 1 .. k : \E f \in OwedIn(i) : w = WalkIn(i, f)
    \/ \E f \in fs : w = WalkIn(k + 1, f)

\* Of that one the files in the list H, and what is below the directories in E.
InDirs(E) == UNION {FilesUnder(E[q][2]) : q \in DOMAIN E}
FilesLeft(H, E) == HandFiles(H) \cup (InDirs(E) \cap Accepted)

HandIsApart(H, E) ==
    /\ H \in Seq(FilePaths) /\ IsInjective(H)
    /\ E \in Seq(DirPaths)
    /\ \A q \in DOMAIN E : \A f \in FilesUnder(E[q][2]) : f \notin HandFiles(H)
    /\ \A q, r \in DOMAIN E : \A f \in DirFiles :
          f \in FilesUnder(E[q][2]) /\ f \in FilesUnder(E[r][2]) => q = r

WalkedOrLeft(W, k, fs) ==
    /\ IsInjective(W)
    /\ \A w \in Owed : w \in Range(W) \/ IsLeft(k, fs, w)
    /\ \A w : IsLeft(k, fs, w) => w \in Owed /\ w \notin Range(W)
    /\ Range(W) \subseteq Owed

LEMMA TreeStays ==
    ASSUME UNCHANGED diskVars
    PROVE  /\ IsTree' <=> IsTree
           /\ \A x : FilesUnder(x)' = FilesUnder(x)
           /\ Accepted' = Accepted
           /\ EnumerateAllFiles' = EnumerateAllFiles
           /\ Owed' = Owed
<1>1. UNCHANGED <<parentDir, fileDir, accepts, InitSources, mode>>
  BY DEF diskVars
<1>2. IsTree' <=> IsTree
  BY <1>1 DEF IsTree
<1>3. \A f, x : IsUnder(f, x)' <=> IsUnder(f, x)
  BY <1>1 DEF IsUnder, AncestorsIn
<1>4. \A f : MatchesWildcards(f)' <=> MatchesWildcards(f)
  BY <1>1, <1>3 DEF MatchesWildcards
<1>5. Accepted' = Accepted /\ \A x : FilesUnder(x)' = FilesUnder(x)
  BY <1>3, <1>4 DEF Accepted, FilesUnder
<1>6. \A d : FilesOf(d)' = FilesOf(d) /\ SubDirectories(d)' = SubDirectories(d)
  BY <1>1, <1>4 DEF FilesOf, SubDirectories
<1>7. EnumerateAllFiles' = EnumerateAllFiles
  BY <1>6 DEF EnumerateAllFiles
<1>8. Owed' = Owed
  BY <1>1, <1>3, <1>4 DEF Owed
<1> QED
  BY <1>2, <1>5, <1>7, <1>8
\* What is below a directory is put in the place of the directory.
LEMMA DirIsOpened ==
    ASSUME IsTree, NEW F \in Seq(DirPaths), NEW x \in SearchDirs, HandIsApart(<< >>, Append(F, <<"dir", x>>))
    PROVE  /\ HandIsApart(FilesOf(x), F \o Listed("dir", SubDirectories(x)))
           /\ FilesLeft(FilesOf(x), F \o Listed("dir", SubDirectories(x)))
                = FilesLeft(<< >>, Append(F, <<"dir", x>>))
<1> DEFINE T == SubDirectories(x)
           L == Listed("dir", T)
           E == Append(F, <<"dir", x>>)
           E2 == F \o L
           H == FilesOf(x)
           n == Len(F)
<1>1. /\ \A f \in DirFiles : f \in FilesUnder(x) <=> fileDir[f] = x \/ \E c \in T : f \in FilesUnder(c)
      /\ \A c \in T : /\ c \in SearchDirs /\ FilesUnder(c) \subseteq FilesUnder(x)
                      /\ \A f \in FilesUnder(c) : fileDir[f] # x
      /\ \A b, c \in T : \A f : f \in FilesUnder(b) /\ f \in FilesUnder(c) => b = c
  BY UnderBelow
<1>2. /\ H \in Seq(FilePaths) /\ IsInjective(H)
      /\ \A f : f \in HandFiles(H) <=> f \in Accepted /\ fileDir[f] = x
  BY FilesOfProperties, FilesOfHand
<1>3. L \in Seq({"dir"} \X T) /\ IsInjective(L) /\ \A y : y \in Range(L) <=> \E c \in T : y = <<"dir", c>>
  <2>1. T \subseteq Nat /\ IsFiniteSet(T)
    BY SubDirectoriesFinite
  <2>2. ListsOnce(L, "dir", T)
    BY <2>1, ListedProperties
  <2> QED
    BY <2>2 DEF ListsOnce
<1>4. L \in Seq(DirPaths)
  <2>1. {"dir"} \X T \subseteq DirPaths
    BY <1>1 DEF DirPaths
  <2> QED
    BY <1>3, <2>1
<1> HIDE DEF T, L, H
<1>5. /\ \A j \in DOMAIN L : L[j][2] \in T
      /\ \A c \in T : \E j \in DOMAIN L : L[j][2] = c
      /\ \A i, j \in DOMAIN L : L[i][2] = L[j][2] => i = j
  <2>1. \A j \in DOMAIN L : L[j] \in {"dir"} \X T
    BY <1>3
  <2>2. \A j \in DOMAIN L : L[j] = <<"dir", L[j][2]>> /\ L[j][2] \in T
    BY <2>1
  <2>3. \A c \in T : \E j \in DOMAIN L : L[j] = <<"dir", c>>
    <3> TAKE c \in T
    <3>1. <<"dir", c>> \in Range(L)
      BY <1>3
    <3> QED
      BY <3>1 DEF Range
  <2>4. \A i, j \in DOMAIN L : L[i] = L[j] => i = j
    BY <1>3 DEF IsInjective
  <2> QED
    BY <2>2, <2>3, <2>4
<1>6. <<"dir", x>> \in DirPaths /\ n \in Nat /\ DOMAIN F = 1 .. n
  BY DEF DirPaths
<1>7. /\ \A q \in DOMAIN E : (q \in DOMAIN F /\ E[q] = F[q]) \/ (q = n + 1 /\ E[q] = <<"dir", x>>)
      /\ n + 1 \in DOMAIN E /\ n + 1 \notin DOMAIN F /\ E[n + 1] = <<"dir", x>>
      /\ \A q \in DOMAIN F : q \in DOMAIN E /\ E[q] = F[q]
  BY <1>6
<1>8. /\ E2 \in Seq(DirPaths)
      /\ \A q \in DOMAIN E2 : \/ q \in DOMAIN F /\ E2[q] = F[q]
                              \/ q \notin DOMAIN F /\ q - n \in DOMAIN L /\ E2[q] = L[q - n] /\ q \in Nat
      /\ \A q \in DOMAIN F : q \in DOMAIN E2 /\ E2[q] = F[q]
      /\ \A j \in DOMAIN L : j + n \in DOMAIN E2 /\ E2[j + n] = L[j]
  BY <1>4, <1>6
<1> HIDE DEF n, E, E2
<1>9. /\ \A q, r \in DOMAIN E : \A f \in DirFiles :
            f \in FilesUnder(E[q][2]) /\ f \in FilesUnder(E[r][2]) => q = r
  BY DEF HandIsApart, E
<1>10. \A q \in DOMAIN F : \A f \in FilesUnder(F[q][2]) : f \notin FilesUnder(x)
  <2> SUFFICES ASSUME NEW q \in DOMAIN F, NEW f, f \in FilesUnder(F[q][2]), f \in FilesUnder(x) PROVE FALSE
    OBVIOUS
  <2>1. f \in DirFiles /\ E[n + 1][2] = x /\ E[q][2] = F[q][2]
    BY <1>7 DEF FilesUnder
  <2> QED
    BY <1>7, <1>9, <2>1
<1>11. \A q \in DOMAIN E2 : \A f \in FilesUnder(E2[q][2]) :
          \/ q \in DOMAIN F /\ f \in FilesUnder(F[q][2])
          \/ q \notin DOMAIN F /\ q - n \in DOMAIN L /\ E2[q] = L[q - n] /\ f \in FilesUnder(x) /\ fileDir[f] # x
  BY <1>1, <1>5, <1>8
<1>12. \A q \in DOMAIN E2 : \A f \in FilesUnder(E2[q][2]) : f \notin HandFiles(H)
  <2> SUFFICES ASSUME NEW q \in DOMAIN E2, NEW f \in FilesUnder(E2[q][2]), f \in HandFiles(H) PROVE FALSE
    OBVIOUS
  <2>1. f \in DirFiles /\ fileDir[f] = x
    BY <1>2 DEF Accepted
  <2>2. f \in FilesUnder(x)
    BY <1>1, <2>1
  <2> QED
    BY <1>10, <1>11, <2>1, <2>2
<1>13. ASSUME NEW q \in DOMAIN E2, NEW r \in DOMAIN E2, NEW f \in DirFiles,
              f \in FilesUnder(E2[q][2]), f \in FilesUnder(E2[r][2])
       PROVE  q = r
  <2>1. CASE q \in DOMAIN F /\ r \in DOMAIN F
    <3>1. E[q] = E2[q] /\ E[r] = E2[r] /\ q \in DOMAIN E /\ r \in DOMAIN E
      BY <1>7, <1>8, <2>1
    <3> QED
      BY <1>9, <1>13, <3>1
  <2>2. CASE q \notin DOMAIN F /\ r \notin DOMAIN F
    <3>1. /\ q - n \in DOMAIN L /\ r - n \in DOMAIN L /\ q \in Nat /\ r \in Nat
          /\ E2[q] = L[q - n] /\ E2[r] = L[r - n]
      BY <1>8, <2>2
    <3>2. L[q - n][2] = L[r - n][2]
      BY <1>1, <1>5, <1>13, <3>1
    <3>3. q - n = r - n
      BY <1>5, <3>1, <3>2
    <3> QED
      BY <1>6, <3>1, <3>3
  <2>3. CASE q \in DOMAIN F /\ r \notin DOMAIN F
    BY <1>10, <1>11, <1>13, <2>3
  <2>4. CASE q \notin DOMAIN F /\ r \in DOMAIN F
    BY <1>10, <1>11, <1>13, <2>4
  <2> QED
    BY <2>1, <2>2, <2>3, <2>4
<1>14. HandIsApart(H, E2)
  BY <1>2, <1>8, <1>12, <1>13 DEF HandIsApart
<1>15. ASSUME NEW f PROVE f \in FilesLeft(H, E2) <=> f \in FilesLeft(<< >>, E)
  <2>1. \A g : g \notin HandFiles(<< >>)
    BY DEF HandFiles, Range
  <2>2. ASSUME f \in FilesLeft(H, E2) PROVE f \in FilesLeft(<< >>, E)
    <3>1. CASE f \in HandFiles(H)
      <4>1. f \in Accepted /\ f \in FilesUnder(x) /\ E[n + 1][2] = x
        BY <1>1, <1>2, <1>7, <3>1 DEF Accepted
      <4> QED
        BY <1>7, <4>1 DEF FilesLeft, InDirs
    <3>2. CASE f \in Accepted /\ \E q \in DOMAIN E2 : f \in FilesUnder(E2[q][2])
      <4>1. PICK q \in DOMAIN E2 : f \in FilesUnder(E2[q][2])
        BY <3>2
      <4>2. CASE q \in DOMAIN F
        <5>1. q \in DOMAIN E /\ E[q] = E2[q]
          BY <1>7, <1>8, <4>2
        <5> QED
          BY <3>2, <4>1, <5>1 DEF FilesLeft, InDirs
      <4>3. CASE q \notin DOMAIN F
        <5>1. f \in FilesUnder(x) /\ E[n + 1][2] = x
          BY <1>7, <1>11, <4>1, <4>3
        <5> QED
          BY <1>7, <3>2, <5>1 DEF FilesLeft, InDirs
      <4> QED
        BY <4>2, <4>3
    <3> QED
      BY <2>2, <3>1, <3>2 DEF FilesLeft, InDirs
  <2>3. ASSUME f \in FilesLeft(<< >>, E) PROVE f \in FilesLeft(H, E2)
    <3>1. PICK q \in DOMAIN E : f \in Accepted /\ f \in FilesUnder(E[q][2])
      BY <2>1, <2>3 DEF FilesLeft, InDirs
    <3>2. CASE q \in DOMAIN F
      <4>1. q \in DOMAIN E2 /\ E[q] = E2[q]
        BY <1>7, <1>8, <3>2
      <4> QED
        BY <3>1, <4>1 DEF FilesLeft, InDirs
    <3>3. CASE q \notin DOMAIN F
      <4>1. f \in FilesUnder(x) /\ f \in DirFiles
        BY <1>7, <3>1, <3>3 DEF Accepted
      <4>2. CASE fileDir[f] = x
        BY <1>2, <3>1, <4>2 DEF FilesLeft
      <4>3. CASE fileDir[f] # x
        <5>1. PICK c \in T : f \in FilesUnder(c)
          BY <1>1, <4>1, <4>3
        <5>2. PICK j \in DOMAIN L : L[j][2] = c
          BY <1>5
        <5>3. j + n \in DOMAIN E2 /\ E2[j + n][2] = c
          BY <1>8, <5>2
        <5> QED
          BY <3>1, <5>1, <5>3 DEF FilesLeft, InDirs
      <4> QED
        BY <4>2, <4>3
    <3> QED
      BY <3>2, <3>3
  <2> QED
    BY <2>2, <2>3
<1> QED
  BY <1>14, <1>15 DEF T, L, E, E2, H

\* A file that is walked is left no more.
LEMMA FileIsWalked ==
    ASSUME NEW H, NEW E, HandIsApart(H, E), H # << >>, NEW k \in Nat, k + 1 \in DOMAIN InitSources,
           InitSources \in Seq(SearchDirs), IsInjective(InitSources),
           NEW W, NEW S, W \in Seq(S), WalkedOrLeft(W, k, FilesLeft(H, E)),
           NEW w, w = <<InitSources[k + 1], Last(H)>>, w \in S
    PROVE  HandIsApart(Front(H), E) /\ WalkedOrLeft(Append(W, w), k, FilesLeft(Front(H), E))
<1> DEFINE fs == FilesLeft(H, E)
           gs == FilesLeft(Front(H), E)
           V == Append(W, w)
<1>1. H \in Seq(FilePaths) /\ IsInjective(H)
  BY DEF HandIsApart
<1>2. /\ Front(H) \in Seq(FilePaths) /\ Len(H) \in DOMAIN H /\ H[Len(H)] = Last(H)
      /\ \A i \in DOMAIN Front(H) : i \in DOMAIN H /\ i # Len(H) /\ Front(H)[i] = H[i]
      /\ \A i \in DOMAIN H : i = Len(H) \/ i \in DOMAIN Front(H)
      /\ Last(H) \in FilePaths
  BY <1>1, FrontLast
<1>3. PICK f \in DirFiles : Last(H) = FilePath(f)
  BY <1>2 DEF FilePaths, FilePath
<1>4. \A i, j \in DOMAIN H : H[i] = H[j] => i = j
  BY <1>1 DEF IsInjective
<1>5. IsInjective(Front(H))
  BY <1>2, <1>4 DEF IsInjective
<1>6. \A y : y \in Range(H) <=> y \in Range(Front(H)) \/ y = Last(H)
  BY <1>2 DEF Range
<1>7. Last(H) \notin Range(Front(H))
  BY <1>2, <1>4 DEF Range
<1>8. \A g : g \in HandFiles(H) <=> g \in HandFiles(Front(H)) \/ g = f
  BY <1>3, <1>6 DEF HandFiles, FilePath
<1>9. f \notin HandFiles(Front(H)) /\ f \in HandFiles(H)
  BY <1>3, <1>7, <1>8 DEF HandFiles
<1>10. HandIsApart(Front(H), E)
  BY <1>2, <1>5, <1>8 DEF HandIsApart
<1>11. f \notin InDirs(E)
  BY <1>9 DEF HandIsApart, InDirs
<1>12. \A g : g \in fs <=> g \in gs \/ g = f
  BY <1>8 DEF FilesLeft
<1>13. f \notin gs
  BY <1>9, <1>11 DEF FilesLeft
<1>14. w = WalkIn(k + 1, f)
  BY <1>3 DEF WalkIn
<1>15. \A i \in 1 .. k : i \in DOMAIN InitSources /\ InitSources[i] # InitSources[k + 1]
  BY DEF IsInjective
<1>16. \A y : IsLeft(k, fs, y) <=> IsLeft(k, gs, y) \/ y = w
  BY <1>12, <1>14 DEF IsLeft
<1>17. ~IsLeft(k, gs, w)
  <2>1. \A i \in 1 .. k : \A g : w # WalkIn(i, g)
    BY <1>15 DEF WalkIn
  <2>2. \A g : w = WalkIn(k + 1, g) => g = f
    BY <1>14 DEF WalkIn, FilePath
  <2> QED
    BY <1>13, <2>1, <2>2 DEF IsLeft
<1>18. w \notin Range(W) /\ w \in Owed
  BY <1>16 DEF WalkedOrLeft
<1>19. IsInjective(V) /\ \A y : y \in Range(V) <=> y \in Range(W) \/ y = w
  <2>1. IsInjective(W)
    BY DEF WalkedOrLeft
  <2>2. /\ \A i \in DOMAIN V : (i \in DOMAIN W /\ V[i] = W[i]) \/ (i = Len(W) + 1 /\ V[i] = w)
        /\ Len(W) + 1 \in DOMAIN V /\ V[Len(W) + 1] = w
        /\ \A i \in DOMAIN W : i \in DOMAIN V /\ V[i] = W[i]
    OBVIOUS
  <2> HIDE DEF V
  <2>3. \A y : y \in Range(V) <=> y \in Range(W) \/ y = w
    BY <2>2 DEF Range
  <2>4. \A i \in DOMAIN W : W[i] # w
    BY <1>18 DEF Range
  <2>5. \A i, j \in DOMAIN W : W[i] = W[j] => i = j
    BY <2>1 DEF IsInjective
  <2>6. \A i, j \in DOMAIN V : V[i] = V[j] => i = j
    BY <2>2, <2>4, <2>5
  <2> QED
    BY <2>3, <2>6 DEF IsInjective
<1> HIDE DEF V
<1>20. WalkedOrLeft(V, k, gs)
  <2>1. /\ \A y \in Owed : y \in Range(W) \/ IsLeft(k, fs, y)
        /\ \A y : IsLeft(k, fs, y) => y \in Owed /\ y \notin Range(W)
        /\ Range(W) \subseteq Owed
    BY DEF WalkedOrLeft
  <2>2. \A y \in Owed : y \in Range(V) \/ IsLeft(k, gs, y)
    BY <1>16, <1>19, <2>1
  <2>3. \A y : IsLeft(k, gs, y) => y \in Owed /\ y \notin Range(V)
    BY <1>16, <1>17, <1>19, <2>1
  <2>4. Range(V) \subseteq Owed
    BY <1>18, <1>19, <2>1
  <2> QED
    BY <1>19, <2>2, <2>3, <2>4 DEF WalkedOrLeft
<1> QED
  BY <1>10, <1>20 DEF V

\* The next source has all of its files left.
LEMMA SourceIsOpened ==
    ASSUME NEW k \in Nat \ {0}, NEW W, WalkedOrLeft(W, k, {})
    PROVE  WalkedOrLeft(W, k - 1, OwedIn(k))
<1>1. \A w : IsLeft(k, {}, w) <=> IsLeft(k - 1, OwedIn(k), w)
  <2>1. 1 .. k = (1 .. (k - 1)) \cup {k} /\ (k - 1) + 1 = k
    OBVIOUS
  <2> QED
    BY <2>1 DEF IsLeft
<1> QED
  BY <1>1 DEF WalkedOrLeft

LEMMA DirOfSource ==
    ASSUME NEW i, InitSources[i] \in SearchDirs
    PROVE  /\ HandIsApart(<< >>, Append(<< >>, <<"dir", InitSources[i]>>))
           /\ FilesLeft(<< >>, Append(<< >>, <<"dir", InitSources[i]>>)) = OwedIn(i)
<1> DEFINE d == InitSources[i]
           E == Append(<< >>, <<"dir", d>>)
<1>1. E \in Seq(DirPaths) /\ DOMAIN E = {1} /\ E[1] = <<"dir", d>>
  BY DEF DirPaths
<1>2. << >> \in Seq(FilePaths) /\ IsInjective(<< >>) /\ HandFiles(<< >>) = {}
  BY DEF HandFiles, Range, IsInjective
<1>3. E[1][2] = d
  BY <1>1
<1> HIDE DEF E, d
<1>4. HandIsApart(<< >>, E)
  BY <1>1, <1>2 DEF HandIsApart
<1>5. InDirs(E) = FilesUnder(d)
  BY <1>1, <1>3 DEF InDirs
<1> QED
  BY <1>2, <1>4, <1>5 DEF FilesLeft, OwedIn, E, d

LEMMA FilesOfSource ==
    ASSUME IsTree, NEW i, InitSources[i] \in SearchDirs
    PROVE  /\ HandIsApart(EnumerateAllFiles[InitSources[i]], << >>)
           /\ FilesLeft(EnumerateAllFiles[InitSources[i]], << >>) = OwedIn(i)
<1> DEFINE d == InitSources[i]
           H == EnumerateAllFiles[d]
<1>1. EnumeratesBelow(H, d)
  BY AllIsEnumerated
<1>2. << >> \in Seq(DirPaths) /\ InDirs(<< >>) = {}
  BY DEF InDirs
<1> HIDE DEF H, d
<1>3. /\ H \in Seq(FilePaths) /\ IsInjective(H)
      /\ \A f : f \in HandFiles(H) <=> f \in FilesUnder(d) /\ f \in Accepted
  BY <1>1 DEF EnumeratesBelow
<1>4. HandIsApart(H, << >>)
  BY <1>2, <1>3 DEF HandIsApart
<1>5. FilesLeft(H, << >>) = FilesUnder(d) \cap Accepted
  BY <1>2, <1>3 DEF FilesLeft
<1> QED
  BY <1>4, <1>5 DEF OwedIn, H, d

-----------------------------------------------------------------------------
(***************************************************************************)
(* The walk: types.                                                        *)
(***************************************************************************)

\* The stack of files that Init fills, source by source.
Enumerated == [i \in DOMAIN InitSources |-> EnumerateAllFiles[InitSources[i]]]
SourcePaths == [i \in DOMAIN InitSources |-> SourcePath(InitSources[i])]
Segments == [i \in DOMAIN SourcePaths |-> Append(Enumerated[i], SourcePaths[i])]

\* The part of the stack that the first i sources fill.
IsStack(g) ==
    /\ g \in [0 .. NumSources -> Seq(SearchPaths)] /\ g[0] = << >>
    /\ \A i \in 1 .. NumSources :
          g[i] = g[i - 1] \o Append(EnumerateAllFiles[InitSources[i]], SourcePath(InitSources[i]))

EnumerationFits ==
    /\ SourcePaths \in Seq(SearchPaths)
    /\ FlattenSeq(Segments) \in Seq(SearchPaths) /\ Len(FlattenSeq(Enumerated)) \in Nat
    /\ \E g : /\ IsStack(g) /\ g[NumSources] = FlattenSeq(Segments)
              /\ Len(FlattenSeq(Enumerated)) + NumSources = Len(g[NumSources])

LEMMA KindsOfPaths ==
    /\ FilePaths \subseteq SearchPaths /\ DirPaths \subseteq SearchPaths
    /\ \A d \in SearchDirs : SourcePath(d) \in SearchPaths
    /\ \A p \in SearchPaths : p[1] = "source" \/ p \in DirPaths \/ p \in FilePaths
    /\ \A p \in FilePaths \cup DirPaths : p[1] # "source"
    /\ \A p \in DirPaths : p[2] \in SearchDirs /\ p = <<"dir", p[2]>>
    /\ Seq(FilePaths) \subseteq Seq(SearchPaths) /\ Seq(DirPaths) \subseteq Seq(SearchPaths)
<1>1. FilePaths \subseteq SearchPaths /\ DirPaths \subseteq SearchPaths
  BY DEF FilePaths, DirPaths, SearchPaths
<1>2. Seq(FilePaths) \subseteq Seq(SearchPaths) /\ Seq(DirPaths) \subseteq Seq(SearchPaths)
  BY <1>1
<1> QED
  BY <1>1, <1>2 DEF FilePaths, DirPaths, SearchPaths, SourcePath

LEMMA SegmentsAre ==
    ASSUME IsTree, InitSources \in Seq(SearchDirs)
    PROVE  EnumerationFits
<1> DEFINE n == NumSources
           all == EnumerateAllFiles
<1>1. n \in Nat /\ DOMAIN InitSources = 1 .. n /\ \A i \in 1 .. n : InitSources[i] \in SearchDirs
  BY DEF NumSources
<1>2. \A d \in SearchDirs : all[d] \in Seq(FilePaths) /\ all[d] \in Seq(SearchPaths)
  BY EnumeratedIs, KindsOfPaths
<1>3. \A d \in SearchDirs : SourcePath(d) \in SearchPaths
  BY KindsOfPaths
<1> HIDE DEF all, n
<1>4. SourcePaths = [i \in 1 .. n |-> SourcePath(InitSources[i])]
      /\ Enumerated = [i \in 1 .. n |-> all[InitSources[i]]]
  BY <1>1 DEF SourcePaths, Enumerated, all
<1>5. SourcePaths \in [1 .. n -> SearchPaths] /\ Enumerated \in [1 .. n -> Seq(FilePaths)]
  BY <1>1, <1>2, <1>3, <1>4
<1>6. SourcePaths \in Seq(SearchPaths) /\ Enumerated \in Seq(Seq(FilePaths))
  BY <1>1, <1>5, SeqDef
<1>7. Segments = [i \in 1 .. n |-> Append(all[InitSources[i]], SourcePath(InitSources[i]))]
  BY <1>4 DEF Segments
<1>8. \A i \in 1 .. n : Append(all[InitSources[i]], SourcePath(InitSources[i])) \in Seq(SearchPaths)
  BY <1>1, <1>2, <1>3
<1>9. Segments \in [1 .. n -> Seq(SearchPaths)]
  BY <1>7, <1>8
<1>10. Segments \in Seq(Seq(SearchPaths)) /\ Len(Segments) = n /\ Len(Enumerated) = n
  BY <1>1, <1>5, <1>9, SeqDef, LenProperties
<1>11. PICK g : IsFlattening(g, Segments, SearchPaths)
  BY <1>10, FlatteningExists
<1>12. PICK h : IsFlattening(h, Enumerated, FilePaths)
  BY <1>6, FlatteningExists
<1>13. /\ g \in [0 .. n -> Seq(SearchPaths)] /\ g[0] = << >>
       /\ \A i \in 1 .. n : g[i] = g[i - 1] \o Append(all[InitSources[i]], SourcePath(InitSources[i]))
       /\ FlattenSeq(Segments) = g[n]
  BY <1>7, <1>10, <1>11 DEF IsFlattening
<1>14. /\ h \in [0 .. n -> Seq(FilePaths)] /\ h[0] = << >>
       /\ \A i \in 1 .. n : h[i] = h[i - 1] \o all[InitSources[i]]
       /\ FlattenSeq(Enumerated) = h[n]
  BY <1>4, <1>10, <1>12 DEF IsFlattening
<1>15. Len(h[n]) + n = Len(g[n])
  <2> DEFINE Good == {i \in 0 .. n : Len(h[i]) + i = Len(g[i])}
  <2>1. 0 \in Good
    BY <1>1, <1>13, <1>14
  <2>2. ASSUME NEW i \in 1 .. n, i - 1 \in Good PROVE i \in Good
    <3> DEFINE e == all[InitSources[i]]
               p == SourcePath(InitSources[i])
    <3>1. e \in Seq(FilePaths) /\ e \in Seq(SearchPaths) /\ p \in SearchPaths
      BY <1>1, <1>2, <1>3
    <3>2. i \in 0 .. n /\ i - 1 \in 0 .. n
      BY <1>1
    <3>3. g[i] = g[i - 1] \o Append(e, p) /\ h[i] = h[i - 1] \o e
      BY <1>13, <1>14
    <3> HIDE DEF e, p
    <3>4. g[i - 1] \in Seq(SearchPaths) /\ h[i - 1] \in Seq(FilePaths)
      BY <1>13, <1>14, <3>2
    <3> DEFINE a == g[i - 1]
               b == h[i - 1]
    <3>5. Len(b) + (i - 1) = Len(a)
      BY <2>2
    <3>6. g[i] = a \o Append(e, p) /\ h[i] = b \o e /\ a \in Seq(SearchPaths) /\ b \in Seq(FilePaths)
      BY <3>3, <3>4
    <3> HIDE DEF a, b
    <3>7. Len(g[i]) = Len(a) + (Len(e) + 1)
      <4>1. Append(e, p) \in Seq(SearchPaths) /\ Len(Append(e, p)) = Len(e) + 1
        BY <3>1
      <4> QED
        BY <3>6, <4>1, ConcatProperties
    <3>8. Len(h[i]) = Len(b) + Len(e)
      BY <3>1, <3>6, ConcatProperties
    <3>9. Len(a) \in Nat /\ Len(b) \in Nat /\ Len(e) \in Nat
      BY <3>1, <3>6
    <3> DEFINE la == Len(a)
               lb == Len(b)
               le == Len(e)
    <3> HIDE DEF la, lb, le
    <3>10. lb + (i - 1) = la /\ Len(g[i]) = la + (le + 1) /\ Len(h[i]) = lb + le
      BY <3>5, <3>7, <3>8 DEF la, lb, le
    <3>11. la \in Nat /\ lb \in Nat /\ le \in Nat /\ i \in Int
      BY <1>1, <3>9 DEF la, lb, le
    <3>12. Len(h[i]) + i = Len(g[i])
      BY <3>10, <3>11
    <3> QED
      BY <3>2, <3>12
  <2> HIDE DEF Good
  <2>3. \A i \in 0 .. n : i \in Good
    BY <1>1, <2>1, <2>2, CountingUp
  <2>4. n \in Good
    BY <1>1, <2>3
  <2> QED
    BY <2>4 DEF Good
<1>16. n \in 0 .. n
  BY <1>1
<1>17. IsStack(g)
  BY <1>13 DEF IsStack, all, n
<1>18. FlattenSeq(Segments) \in Seq(SearchPaths) /\ Len(FlattenSeq(Enumerated)) \in Nat
  BY <1>13, <1>14, <1>16
<1> QED
  BY <1>6, <1>13, <1>14, <1>15, <1>17, <1>18 DEF EnumerationFits, n

LEMMA EnumerationFitsNext == (IsTree /\ InitSources \in Seq(SearchDirs) => EnumerationFits)'
<1>1. IsTree /\ InitSources \in Seq(SearchDirs) => EnumerationFits
  BY SegmentsAre
<1> QED
  BY <1>1, PTL

LEMMA InitWalkTypes ==
    ASSUME SearchTypeOK, InitWalk
    PROVE  /\ SearchTypeOK' /\ EnumerationFits'
           /\ IsTree' /\ InitSources' # << >> /\ IsInjective(InitSources')
           /\ mode' = "PRECISE" => CurrentFiles' = FlattenSeq(Segments') /\ TotalFileCount' = Len(FlattenSeq(Enumerated'))
                                   /\ Directories' = Directories
           /\ mode' = "RECURSIVE" => Directories' = SourcePaths' /\ CurrentFiles' = CurrentFiles
<1>1. /\ parentDir' \in [SearchDirs -> 0 .. NumDirs] /\ \A d \in SearchDirs : parentDir'[d] < d
      /\ fileDir' \in [DirFiles -> SearchDirs] /\ mode' \in {"PRECISE", "RECURSIVE"}
      /\ accepts' \in [DOMAIN InitSources' -> SUBSET DirFiles]
      /\ InitSources' \in SeqOf(SearchDirs, MaxSources) /\ InitSources' # << >> /\ IsInjective(InitSources')
      /\ UNCHANGED <<HasCalledBegin, HasCalledEnd, begun, walks>>
  BY DEF InitWalk
<1>2. InitSources' \in Seq(SearchDirs) /\ Len(InitSources') <= MaxSources
  BY <1>1, DirectorySearchAssumption DEF SeqOf
<1>3. IsTree'
  BY <1>1 DEF IsTree
<1>4. EnumerationFits'
  BY <1>2, <1>3, EnumerationFitsNext
<1>5. /\ mode' = "PRECISE" => CurrentFiles' = FlattenSeq(Segments') /\ TotalFileCount' = Len(FlattenSeq(Enumerated'))
                              /\ Directories' = Directories
      /\ mode' = "RECURSIVE" => Directories' = SourcePaths' /\ UNCHANGED <<CurrentFiles, TotalFileCount>>
  BY DEF InitWalk, Segments, Enumerated, SourcePaths
<1>6. SearchTypeOK'
  BY <1>1, <1>2, <1>4, <1>5 DEF SearchTypeOK, EnumerationFits
<1> QED
  BY <1>1, <1>3, <1>4, <1>5, <1>6

LEMMA EnumerateNextDirTypes ==
    ASSUME SearchTypeOK, EnumerateNextDir
    PROVE  SearchTypeOK'
<1> DEFINE path == Last(Directories)
           subDirs == Listed("dir", SubDirectories(path[2]))
<1>1. /\ UNCHANGED <<parentDir, fileDir, accepts, InitSources, mode, TotalFileCount, walks>>
      /\ Directories \in Seq(SearchPaths) /\ Directories # << >>
      /\ Directories' = Front(Directories) \o subDirs /\ CurrentFiles' = FilesOf(path[2])
      /\ IF IsSource(path) THEN begun' = path[2] /\ HasCalledBegin' = TRUE /\ HasCalledEnd' = FALSE
                           ELSE UNCHANGED <<begun, HasCalledBegin, HasCalledEnd>>
  BY DEF EnumerateNextDir, BeginSearch, SearchTypeOK, diskVars
<1>2. subDirs \in Seq(SearchPaths)
  <2> DEFINE T == SubDirectories(path[2])
  <2>1. T \in SUBSET SearchDirs /\ T \in SUBSET Nat /\ IsFiniteSet(T)
    BY SubDirectoriesFinite
  <2> HIDE DEF T
  <2>2. ListsOnce(Listed("dir", T), "dir", T)
    BY <2>1, ListedProperties
  <2>3. {"dir"} \X T \subseteq SearchPaths
    BY <2>1 DEF SearchPaths
  <2>4. Listed("dir", T) \in Seq(SearchPaths)
    BY <2>2, <2>3 DEF ListsOnce
  <2> QED
    BY <2>4 DEF T
<1>3. FilesOf(path[2]) \in Seq(SearchPaths)
  BY FilesOfProperties, KindsOfPaths
<1>4. Front(Directories) \in Seq(SearchPaths)
  BY <1>1, FrontLast
<1>5. IsSource(path) => path[2] \in 0 .. NumDirs
  <2>1. \A i \in DOMAIN InitSources : InitSources[i] \in SearchDirs
    BY DEF SearchTypeOK
  <2> QED
    BY <2>1, DirectorySearchAssumption DEF IsSource, SourcePath, SearchDirs
<1> HIDE DEF path, subDirs
<1>6. Directories' \in Seq(SearchPaths) /\ CurrentFiles' \in Seq(SearchPaths)
  BY <1>1, <1>2, <1>3, <1>4
<1>7. begun' \in 0 .. NumDirs /\ HasCalledBegin' \in BOOLEAN /\ HasCalledEnd' \in BOOLEAN
  BY <1>1, <1>5 DEF SearchTypeOK
<1> QED
  BY <1>1, <1>6, <1>7 DEF SearchTypeOK

LEMMA WalkNextTypes ==
    ASSUME SearchTypeOK, WalkNext
    PROVE  SearchTypeOK'
<1> DEFINE path == Last(CurrentFiles)
           below == Front(CurrentFiles)
           source == IF IsSource(path) THEN path[2] ELSE begun
           walked == IF ~IsSource(path) THEN <<path>>
                     ELSE IF below = << >> THEN << >> ELSE <<Last(below)>>
           told == [i \in DOMAIN walked |-> <<source, walked[i]>>]
<1>1. /\ UNCHANGED <<parentDir, fileDir, accepts, InitSources, mode, TotalFileCount, Directories>>
      /\ CurrentFiles \in Seq(SearchPaths) /\ CurrentFiles # << >>
      /\ CurrentFiles' = IF IsSource(path) /\ below # << >> THEN Front(below) ELSE below
      /\ walks' = walks \o told
      /\ HasCalledBegin' \in BOOLEAN /\ HasCalledEnd' \in BOOLEAN
      /\ begun' = 0 \/ begun' = source
  BY DEF WalkNext, SearchTypeOK, diskVars
<1>2. below \in Seq(SearchPaths) /\ path \in SearchPaths
  BY <1>1, FrontLast
<1>3. below # << >> => Front(below) \in Seq(SearchPaths) /\ Last(below) \in SearchPaths
  BY <1>2, FrontLast
<1>4. source \in 0 .. NumDirs
  <2>1. \A i \in DOMAIN InitSources : InitSources[i] \in SearchDirs
    BY DEF SearchTypeOK
  <2>2. IsSource(path) => path[2] \in 0 .. NumDirs
    BY <2>1, DirectorySearchAssumption DEF IsSource, SourcePath, SearchDirs
  <2> QED
    BY <2>2 DEF SearchTypeOK
<1> HIDE DEF path, below, source
<1>5. walked \in Seq(SearchPaths)
  BY <1>2, <1>3
<1>6. told \in Seq((0 .. NumDirs) \X SearchPaths)
  <2> HIDE DEF walked
  <2>1. \A i \in DOMAIN walked : <<source, walked[i]>> \in (0 .. NumDirs) \X SearchPaths
    BY <1>4, <1>5
  <2>2. DOMAIN walked = 1 .. Len(walked) /\ Len(walked) \in Nat
    BY <1>5
  <2> QED
    BY <2>1, <2>2, SeqDef
<1> HIDE DEF told, walked
<1>7. walks' \in Seq((0 .. NumDirs) \X SearchPaths)
  BY <1>1, <1>6 DEF SearchTypeOK
<1>8. CurrentFiles' \in Seq(SearchPaths)
  BY <1>1, <1>2, <1>3
<1>9. begun' \in 0 .. NumDirs
  BY <1>1, <1>4, DirectorySearchAssumption
<1> QED
  BY <1>1, <1>7, <1>8, <1>9 DEF SearchTypeOK

-----------------------------------------------------------------------------
(***************************************************************************)
(* The walk: what the walk keeps.                                          *)
(***************************************************************************)

NothingEmpty ==
    mode = "RECURSIVE" \/ \A i \in 2 .. Len(InitSources) : EnumerateAllFiles[InitSources[i]] # << >>

\* The walker is told of the source above the first k, and of its end only when
\* nothing is left.
ToldOf(k) ==
    IF k = NumSources
    THEN begun = 0 /\ ~HasCalledBegin /\ ~HasCalledEnd
    ELSE HasCalledBegin /\ IF HasCalledEnd THEN ~More /\ begun = 0 ELSE begun = InitSources[k + 1]

SourcesUpTo(k) == [i \in 1 .. k |-> SourcePath(InitSources[i])]

\* The two stacks while k sources are left as a whole, H are the files in hand and E
\* the directories that are left of the source they are of.
StacksAre(k, H, E, g) ==
    IF mode = "PRECISE"
    THEN /\ CurrentFiles = g[k] \o H /\ Directories = << >> /\ E = << >>
         /\ TotalFileCount + k = Len(walks) + Len(H) + Len(g[k])
    ELSE CurrentFiles = H /\ Directories = SourcesUpTo(k) \o E

WalkIsAt(k, H, E, g) ==
    /\ k \in 0 .. NumSources
    /\ k = NumSources => H = << >> /\ E = << >>
    /\ HandIsApart(H, E) /\ WalkedOrLeft(walks, k, FilesLeft(H, E))
    /\ ToldOf(k) /\ IsStack(g) /\ StacksAre(k, H, E, g)

NotInitialized ==
    /\ Directories = << >> /\ CurrentFiles = << >> /\ TotalFileCount = 0
    /\ HasCalledBegin = FALSE /\ HasCalledEnd = FALSE /\ begun = 0 /\ walks = << >>

SearchInv ==
    /\ SearchTypeOK
    /\ mode = "none" => NotInitialized
    /\ mode # "none" => /\ IsTree /\ InitSources # << >> /\ IsInjective(InitSources)
                        /\ NothingEmpty => \E k, H, E, g : WalkIsAt(k, H, E, g)

LEMMA WalkStays ==
    ASSUME UNCHANGED diskVars
    PROVE  /\ \A H, E : HandIsApart(H, E)' <=> HandIsApart(H, E)
           /\ \A k, H, E, w : IsLeft(k, FilesLeft(H, E), w)' <=> IsLeft(k, FilesLeft(H, E), w)
           /\ \A g : IsStack(g)' <=> IsStack(g)
           /\ NothingEmpty' <=> NothingEmpty
           /\ Owed' = Owed /\ (IsTree' <=> IsTree)
           /\ UNCHANGED <<parentDir, fileDir, accepts, InitSources, mode>>
           /\ NumSources' = NumSources /\ \A k : SourcesUpTo(k)' = SourcesUpTo(k)
<1>1. /\ IsTree' <=> IsTree
      /\ \A x : FilesUnder(x)' = FilesUnder(x)
      /\ Accepted' = Accepted
      /\ EnumerateAllFiles' = EnumerateAllFiles
      /\ Owed' = Owed
  BY TreeStays
<1>2. UNCHANGED <<parentDir, fileDir, accepts, InitSources, mode>>
  BY DEF diskVars
<1>3. \A H, E : HandIsApart(H, E)' <=> HandIsApart(H, E)
  BY <1>1 DEF HandIsApart, HandFiles
<1>4. \A k, H, E, w : IsLeft(k, FilesLeft(H, E), w)' <=> IsLeft(k, FilesLeft(H, E), w)
  BY <1>1, <1>2 DEF IsLeft, FilesLeft, InDirs, HandFiles, OwedIn, WalkIn
<1>5. \A g : IsStack(g)' <=> IsStack(g)
  BY <1>1, <1>2 DEF IsStack, NumSources
<1>6. NothingEmpty' <=> NothingEmpty
  BY <1>1, <1>2 DEF NothingEmpty
<1>7. NumSources' = NumSources /\ \A k : SourcesUpTo(k)' = SourcesUpTo(k)
  BY <1>2 DEF NumSources, SourcesUpTo
<1> QED
  BY <1>1, <1>2, <1>3, <1>4, <1>5, <1>6, <1>7

LEMMA WalkGoesTo ==
    ASSUME UNCHANGED diskVars, NEW k, NEW H, NEW E, NEW g, k \in 0 .. NumSources,
           k = NumSources => H = << >> /\ E = << >>,
           HandIsApart(H, E), NEW W, W = walks', WalkedOrLeft(W, k, FilesLeft(H, E)),
           ToldOf(k)', IsStack(g), StacksAre(k, H, E, g)'
    PROVE  WalkIsAt(k, H, E, g)'
<1>1. /\ HandIsApart(H, E)' /\ IsStack(g)' /\ Owed' = Owed /\ NumSources' = NumSources
      /\ \A w : IsLeft(k, FilesLeft(H, E), w)' <=> IsLeft(k, FilesLeft(H, E), w)
  BY WalkStays
<1>2. WalkedOrLeft(walks, k, FilesLeft(H, E))'
  BY <1>1 DEF WalkedOrLeft
<1> QED
  BY <1>1, <1>2 DEF WalkIsAt

LEMMA NothingInHand ==
    /\ FilesLeft(<< >>, << >>) = {} /\ HandIsApart(<< >>, << >>)
<1>1. << >> \in Seq(FilePaths) /\ IsInjective(<< >>) /\ HandFiles(<< >>) = {}
  BY DEF HandFiles, Range, IsInjective
<1>2. << >> \in Seq(DirPaths) /\ InDirs(<< >>) = {} /\ DOMAIN << >> = {}
  BY DEF InDirs
<1> QED
  BY <1>1, <1>2 DEF FilesLeft, HandIsApart

\* The sources are at the bottom of the stack of directories.
LEMMA SourcesAre ==
    ASSUME InitSources \in Seq(SearchDirs), NEW k \in 0 .. NumSources
    PROVE  /\ SourcesUpTo(k) \in Seq(SearchPaths)
           /\ k = 0 => SourcesUpTo(k) = << >>
           /\ k # 0 => /\ SourcesUpTo(k) # << >> /\ Last(SourcesUpTo(k)) = SourcePath(InitSources[k])
                       /\ Front(SourcesUpTo(k)) = SourcesUpTo(k - 1)
                       /\ k \in DOMAIN InitSources /\ InitSources[k] \in SearchDirs
<1>1. NumSources \in Nat /\ DOMAIN InitSources = 1 .. NumSources
  BY DEF NumSources
<1>2. \A i \in 1 .. k : InitSources[i] \in SearchDirs /\ SourcePath(InitSources[i]) \in SearchPaths
  BY <1>1, KindsOfPaths
<1>3. SourcesUpTo(k) \in [1 .. k -> SearchPaths]
  BY <1>2 DEF SourcesUpTo
<1>4. SourcesUpTo(k) \in Seq(SearchPaths) /\ Len(SourcesUpTo(k)) = k
  BY <1>1, <1>3, SeqDef, LenProperties
<1>5. ASSUME k = 0 PROVE SourcesUpTo(k) = << >>
  BY <1>4, <1>5, EmptySeq
<1>6. ASSUME k # 0
      PROVE  /\ SourcesUpTo(k) # << >> /\ Last(SourcesUpTo(k)) = SourcePath(InitSources[k])
             /\ Front(SourcesUpTo(k)) = SourcesUpTo(k - 1)
  <2>1. SourcesUpTo(k) # << >> /\ SourcesUpTo(k)[k] = SourcePath(InitSources[k])
    BY <1>1, <1>4, <1>6 DEF SourcesUpTo
  <2>2. Last(SourcesUpTo(k)) = SourcesUpTo(k)[k]
    BY <1>4 DEF Last
  <2>3. Front(SourcesUpTo(k)) = [i \in 1 .. k - 1 |-> SourcesUpTo(k)[i]]
    BY <1>4 DEF Front
  <2>4. \A i \in 1 .. k - 1 : SourcesUpTo(k)[i] = SourcePath(InitSources[i])
    BY <1>1 DEF SourcesUpTo
  <2>5. Front(SourcesUpTo(k)) = SourcesUpTo(k - 1)
    BY <2>3, <2>4 DEF SourcesUpTo
  <2> QED
    BY <2>1, <2>2, <2>5
<1> QED
  BY <1>1, <1>2, <1>4, <1>5, <1>6

\* A path that is not a source's is told apart from them.
LEMMA SourcePathsAre ==
    /\ \A p \in FilePaths \cup DirPaths : ~IsSource(p)
    /\ \A i \in DOMAIN InitSources : /\ IsSource(SourcePath(InitSources[i]))
                                     /\ SourcePath(InitSources[i])[2] = InitSources[i]
<1>1. \A p \in FilePaths \cup DirPaths : p[1] # "source"
  BY KindsOfPaths
<1>2. \A d : SourcePath(d)[1] = "source" /\ SourcePath(d)[2] = d
  BY DEF SourcePath
<1>3. \A p \in FilePaths \cup DirPaths : \A d : p # SourcePath(d)
  BY <1>1, <1>2
<1> QED
  BY <1>2, <1>3 DEF IsSource

\* What is said of a walk while there is something left.
LEMMA WalkGoesOn ==
    ASSUME SearchInv, mode # "none", NEW k, NEW H, NEW E, NEW g, WalkIsAt(k, H, E, g)
    PROVE  /\ NumSources \in Nat \ {0} /\ DOMAIN InitSources = 1 .. NumSources
           /\ InitSources \in Seq(SearchDirs) /\ IsInjective(InitSources) /\ IsTree
           /\ k \in 0 .. NumSources /\ (k = NumSources => H = << >> /\ E = << >>)
           /\ HandIsApart(H, E) /\ H \in Seq(FilePaths) /\ E \in Seq(DirPaths)
           /\ \A i \in 1 .. NumSources : InitSources[i] \in SearchDirs
           /\ mode \in {"PRECISE", "RECURSIVE"}
           /\ walks \in Seq((0 .. NumDirs) \X SearchPaths)
           /\ WalkedOrLeft(walks, k, FilesLeft(H, E)) /\ IsStack(g)
           /\ More /\ k # NumSources => HasCalledBegin /\ ~HasCalledEnd /\ begun = InitSources[k + 1]
<1>1. SearchTypeOK /\ IsTree /\ InitSources # << >> /\ IsInjective(InitSources)
  BY DEF SearchInv
<1>2. /\ InitSources \in Seq(SearchDirs) /\ mode \in {"PRECISE", "RECURSIVE"}
      /\ walks \in Seq((0 .. NumDirs) \X SearchPaths)
      /\ HasCalledBegin \in BOOLEAN /\ HasCalledEnd \in BOOLEAN
  BY <1>1 DEF SearchTypeOK
<1>3. NumSources \in Nat \ {0} /\ DOMAIN InitSources = 1 .. NumSources
  BY <1>1, <1>2 DEF NumSources
<1>4. \A i \in 1 .. NumSources : InitSources[i] \in SearchDirs
  BY <1>2, <1>3
<1>5. /\ k \in 0 .. NumSources /\ (k = NumSources => H = << >> /\ E = << >>)
      /\ HandIsApart(H, E) /\ WalkedOrLeft(walks, k, FilesLeft(H, E)) /\ IsStack(g) /\ ToldOf(k)
  BY DEF WalkIsAt
<1>6. More /\ k # NumSources => HasCalledBegin /\ ~HasCalledEnd /\ begun = InitSources[k + 1]
  BY <1>2, <1>5 DEF ToldOf
<1>7. H \in Seq(FilePaths) /\ E \in Seq(DirPaths)
  BY <1>5 DEF HandIsApart
<1> QED
  BY <1>1, <1>2, <1>3, <1>4, <1>5, <1>6, <1>7

LEMMA EnumerateKeepsWalk ==
    ASSUME SearchInv, mode # "none", EnumerateNextDir, NEW k, NEW H, NEW E, NEW g, WalkIsAt(k, H, E, g)
    PROVE  \E k2, H2, E2, g2 : WalkIsAt(k2, H2, E2, g2)'
<1>1. /\ NumSources \in Nat \ {0} /\ DOMAIN InitSources = 1 .. NumSources
      /\ InitSources \in Seq(SearchDirs) /\ IsTree
      /\ k \in 0 .. NumSources /\ (k = NumSources => H = << >> /\ E = << >>)
      /\ HandIsApart(H, E) /\ H \in Seq(FilePaths) /\ E \in Seq(DirPaths)
      /\ \A i \in 1 .. NumSources : InitSources[i] \in SearchDirs
      /\ mode \in {"PRECISE", "RECURSIVE"}
      /\ WalkedOrLeft(walks, k, FilesLeft(H, E)) /\ IsStack(g)
      /\ More /\ k # NumSources => HasCalledBegin /\ ~HasCalledEnd /\ begun = InitSources[k + 1]
  BY WalkGoesOn
<1>2. PICK path : path = Last(Directories)
  OBVIOUS
<1>3. PICK x : x = path[2]
  OBVIOUS
<1>4. PICK L : L = Listed("dir", SubDirectories(x))
  OBVIOUS
<1>5. PICK h : h = FilesOf(x)
  OBVIOUS
<1>6. /\ CurrentFiles = << >> /\ Directories # << >>
      /\ IF IsSource(path) THEN begun' = x /\ HasCalledBegin' = TRUE /\ HasCalledEnd' = FALSE
                           ELSE UNCHANGED <<begun, HasCalledBegin, HasCalledEnd>>
      /\ Directories' = Front(Directories) \o L /\ CurrentFiles' = h
      /\ UNCHANGED <<diskVars, walks>>
  BY <1>2, <1>3, <1>4, <1>5 DEF EnumerateNextDir, BeginSearch
<1>7. /\ UNCHANGED <<InitSources, mode>> /\ NumSources' = NumSources /\ \A i : SourcesUpTo(i)' = SourcesUpTo(i)
  BY <1>6, WalkStays
<1>8. mode = "RECURSIVE" /\ H = << >> /\ Directories = SourcesUpTo(k) \o E
  BY <1>1, <1>6 DEF WalkIsAt, StacksAre
<1>9. L \in Seq(DirPaths)
  <2>1. SubDirectories(x) \subseteq SearchDirs /\ SubDirectories(x) \in SUBSET Nat /\ IsFiniteSet(SubDirectories(x))
    BY SubDirectoriesFinite
  <2>2. ListsOnce(L, "dir", SubDirectories(x))
    BY <1>4, <2>1, ListedProperties
  <2>3. {"dir"} \X SubDirectories(x) \subseteq DirPaths
    BY <2>1 DEF DirPaths
  <2> QED
    BY <2>2, <2>3 DEF ListsOnce
<1>10. More
  BY <1>6 DEF More
<1>11. SourcesUpTo(k) \in Seq(SearchPaths) /\ E \in Seq(SearchPaths) /\ L \in Seq(SearchPaths)
  BY <1>1, <1>9, SourcesAre, KindsOfPaths
<1>12. PICK W : W = walks'
  OBVIOUS
<1>13. CASE E # << >>
  <2>1. PICK F : F = Front(E)
    OBVIOUS
  <2>2. /\ F \in Seq(DirPaths) /\ path \in DirPaths /\ E = Append(F, path)
        /\ Front(Directories) = SourcesUpTo(k) \o F
    <3>1. path = Last(E) /\ Front(Directories) = SourcesUpTo(k) \o F
      BY <1>2, <1>8, <1>11, <1>13, <2>1, EndOfConcat
    <3> QED
      BY <1>1, <1>13, <2>1, <3>1, FrontLast, LastIsAppended
  <2>3. ~IsSource(path) /\ x \in SearchDirs /\ path = <<"dir", x>>
    BY <1>3, <2>2, SourcePathsAre, KindsOfPaths
  <2>4. HandIsApart(h, F \o L) /\ FilesLeft(h, F \o L) = FilesLeft(H, E)
    BY <1>1, <1>4, <1>5, <1>8, <2>2, <2>3, DirIsOpened
  <2>5. k # NumSources
    BY <1>1, <1>13
  <2>6. ToldOf(k)'
    BY <1>1, <1>6, <1>7, <1>10, <2>3, <2>5 DEF ToldOf
  <2>7. StacksAre(k, h, F \o L, g)'
    <3>1. (SourcesUpTo(k) \o F) \o L = SourcesUpTo(k) \o (F \o L)
      BY <1>11, <2>2, KindsOfPaths, ConcatAssociative
    <3> QED
      BY <1>6, <1>7, <1>8, <2>2, <3>1 DEF StacksAre
  <2>8. PICK E2 : E2 = F \o L
    OBVIOUS
  <2>9. WalkIsAt(k, h, E2, g)'
    <3>1. WalkedOrLeft(W, k, FilesLeft(h, E2))
      BY <1>1, <1>6, <1>12, <2>4, <2>8
    <3> QED
      BY <1>1, <1>6, <1>12, <2>4, <2>5, <2>6, <2>7, <2>8, <3>1, WalkGoesTo
  <2> QED
    BY <2>9
<1>14. CASE E = << >>
  <2>1. Directories = SourcesUpTo(k)
    BY <1>8, <1>11, <1>14, ConcatEmptySeq
  <2>2. k # 0
    BY <1>1, <1>6, <2>1, SourcesAre
  <2>3. /\ path = SourcePath(InitSources[k]) /\ Front(Directories) = SourcesUpTo(k - 1)
        /\ k \in DOMAIN InitSources /\ InitSources[k] \in SearchDirs
    BY <1>1, <1>2, <2>1, <2>2, SourcesAre
  <2>4. IsSource(path) /\ x = InitSources[k] /\ x \in SearchDirs
    BY <1>3, <2>3, SourcePathsAre
  <2>5. /\ HandIsApart(<< >>, Append(<< >>, <<"dir", x>>))
        /\ FilesLeft(<< >>, Append(<< >>, <<"dir", x>>)) = OwedIn(k)
    BY <2>3, <2>4, DirOfSource
  <2>6. << >> \in Seq(DirPaths) /\ << >> \o L = L
    BY <1>9, ConcatEmptySeq
  <2>7. HandIsApart(h, L) /\ FilesLeft(h, L) = OwedIn(k)
    BY <1>1, <1>4, <1>5, <2>4, <2>5, <2>6, DirIsOpened
  <2>8. PICK j : j = k - 1
    OBVIOUS
  <2>9. j \in 0 .. NumSources /\ j # NumSources /\ j + 1 = k /\ k \in Nat \ {0}
    BY <1>1, <2>2, <2>8
  <2>10. WalkedOrLeft(W, j, FilesLeft(h, L))
    <3>1. WalkedOrLeft(W, k, {})
      BY <1>1, <1>6, <1>8, <1>12, <1>14, NothingInHand
    <3> QED
      BY <2>7, <2>8, <2>9, <3>1, SourceIsOpened
  <2>11. ToldOf(j)'
    BY <1>6, <1>7, <2>4, <2>9 DEF ToldOf
  <2>12. StacksAre(j, h, L, g)'
    BY <1>6, <1>7, <1>8, <2>3, <2>8 DEF StacksAre
  <2>13. WalkIsAt(j, h, L, g)'
    BY <1>1, <1>6, <1>12, <2>7, <2>9, <2>10, <2>11, <2>12, WalkGoesTo
  <2> QED
    BY <2>13
<1> QED
  BY <1>13, <1>14

\* What a call of Walk does with a file and with the entry of a source.
LEMMA WalkTakes ==
    ASSUME WalkNext, NEW path, path = Last(CurrentFiles), NEW below, below = Front(CurrentFiles),
           SearchTypeOK
    PROVE  /\ CurrentFiles # << >> /\ UNCHANGED <<diskVars, TotalFileCount, Directories>>
           /\ ~IsSource(path) /\ HasCalledBegin /\ ~HasCalledEnd =>
                 /\ CurrentFiles' = below /\ walks' = Append(walks, <<begun, path>>)
                 /\ HasCalledBegin' /\ (HasCalledEnd' <=> ~More')
                 /\ begun' = IF ~More' THEN 0 ELSE begun
           /\ IsSource(path) =>
                 /\ HasCalledBegin' /\ (HasCalledEnd' <=> ~More')
                 /\ begun' = IF ~More' THEN 0 ELSE path[2]
                 /\ IF below = << >> THEN CurrentFiles' = below /\ walks' = walks
                    ELSE CurrentFiles' = Front(below) /\ walks' = Append(walks, <<path[2], Last(below)>>)
<1>1. /\ CurrentFiles # << >> /\ UNCHANGED <<diskVars, TotalFileCount, Directories>>
      /\ walks \in Seq((0 .. NumDirs) \X SearchPaths)
  BY DEF WalkNext, SearchTypeOK
<1>2. ASSUME ~IsSource(path), HasCalledBegin, ~HasCalledEnd
      PROVE  /\ CurrentFiles' = below /\ walks' = Append(walks, <<begun, path>>)
             /\ HasCalledBegin' /\ (HasCalledEnd' <=> ~More')
             /\ begun' = IF ~More' THEN 0 ELSE begun
  <2>1. walks' = walks \o [i \in DOMAIN <<path>> |-> <<begun, <<path>>[i]>>]
    BY <1>2 DEF WalkNext
  <2>2. [i \in DOMAIN <<path>> |-> <<begun, <<path>>[i]>>] = <<<<begun, path>>>>
    OBVIOUS
  <2>3. walks' = Append(walks, <<begun, path>>)
    BY <1>1, <2>1, <2>2
  <2> QED
    BY <1>2, <2>3 DEF WalkNext
<1>3. ASSUME IsSource(path)
      PROVE  /\ HasCalledBegin' /\ (HasCalledEnd' <=> ~More')
             /\ begun' = IF ~More' THEN 0 ELSE path[2]
             /\ IF below = << >> THEN CurrentFiles' = below /\ walks' = walks
                ELSE CurrentFiles' = Front(below) /\ walks' = Append(walks, <<path[2], Last(below)>>)
  <2>1. /\ HasCalledBegin' /\ (HasCalledEnd' <=> ~More')
        /\ begun' = IF ~More' THEN 0 ELSE path[2]
    BY <1>3 DEF WalkNext
  <2>2. CASE below = << >>
    <3>1. walks' = walks \o [i \in DOMAIN << >> |-> <<path[2], << >>[i]>>] /\ CurrentFiles' = below
      BY <1>3, <2>2 DEF WalkNext
    <3>2. [i \in DOMAIN << >> |-> <<path[2], << >>[i]>>] = << >>
      OBVIOUS
    <3>3. walks' = walks
      BY <1>1, <3>1, <3>2, ConcatEmptySeq
    <3> QED
      BY <2>1, <2>2, <3>1, <3>3
  <2>3. CASE below # << >>
    <3>1. /\ walks' = walks \o [i \in DOMAIN <<Last(below)>> |-> <<path[2], <<Last(below)>>[i]>>]
          /\ CurrentFiles' = Front(below)
      BY <1>3, <2>3 DEF WalkNext
    <3>2. [i \in DOMAIN <<Last(below)>> |-> <<path[2], <<Last(below)>>[i]>>] = <<<<path[2], Last(below)>>>>
      OBVIOUS
    <3>3. walks' = Append(walks, <<path[2], Last(below)>>)
      BY <1>1, <3>1, <3>2
    <3> QED
      BY <2>1, <2>3, <3>1, <3>3
  <2> QED
    BY <2>2, <2>3
<1> QED
  BY <1>1, <1>2, <1>3

\* The stack of files below the one that is walked next.
LEMMA StackBelow ==
    ASSUME SearchInv, mode # "none", NEW k, NEW H, NEW E, NEW g, WalkIsAt(k, H, E, g)
    PROVE  /\ H # << >> => Last(CurrentFiles) = Last(H) /\ Last(H) \in FilePaths
           /\ H # << >> /\ mode = "PRECISE" => Front(CurrentFiles) = g[k] \o Front(H)
           /\ mode = "PRECISE" /\ k # 0 =>
                 /\ g[k - 1] \in Seq(SearchPaths) /\ g[k] \in Seq(SearchPaths)
                 /\ EnumerateAllFiles[InitSources[k]] \in Seq(FilePaths)
                 /\ g[k] # << >> /\ Last(g[k]) = SourcePath(InitSources[k])
                 /\ Front(g[k]) = g[k - 1] \o EnumerateAllFiles[InitSources[k]]
                 /\ Len(g[k]) = Len(g[k - 1]) + Len(EnumerateAllFiles[InitSources[k]]) + 1
           /\ g[k] \in Seq(SearchPaths)
<1>1. /\ NumSources \in Nat \ {0} /\ IsTree /\ k \in 0 .. NumSources
      /\ H \in Seq(FilePaths) /\ \A i \in 1 .. NumSources : InitSources[i] \in SearchDirs
      /\ IsStack(g) /\ mode \in {"PRECISE", "RECURSIVE"}
  BY WalkGoesOn
<1>2. /\ g \in [0 .. NumSources -> Seq(SearchPaths)]
      /\ \A i \in 1 .. NumSources :
            g[i] = g[i - 1] \o Append(EnumerateAllFiles[InitSources[i]], SourcePath(InitSources[i]))
  BY <1>1 DEF IsStack
<1>3. H \in Seq(SearchPaths) /\ g[k] \in Seq(SearchPaths)
  BY <1>1, <1>2, KindsOfPaths
<1>4. mode = "PRECISE" => CurrentFiles = g[k] \o H
  BY DEF WalkIsAt, StacksAre
<1>5. mode = "RECURSIVE" => CurrentFiles = H
  BY DEF WalkIsAt, StacksAre
<1>6. ASSUME H # << >>
      PROVE  /\ Last(CurrentFiles) = Last(H) /\ Last(H) \in FilePaths
             /\ mode = "PRECISE" => Front(CurrentFiles) = g[k] \o Front(H)
  <2>1. Last(H) \in FilePaths
    BY <1>1, <1>6, FrontLast
  <2> DEFINE a == g[k]
  <2>3. a \in Seq(SearchPaths) /\ H \in Seq(SearchPaths) /\ H # << >>
    BY <1>3, <1>6
  <2> HIDE DEF a
  <2>4. Last(a \o H) = Last(H) /\ Front(a \o H) = a \o Front(H)
    BY <2>3, EndOfConcat
  <2>2. mode = "PRECISE" => Last(CurrentFiles) = Last(H) /\ Front(CurrentFiles) = g[k] \o Front(H)
    BY <1>4, <2>4 DEF a
  <2> QED
    BY <1>1, <1>5, <2>1, <2>2
<1>7. ASSUME k # 0
      PROVE  /\ g[k - 1] \in Seq(SearchPaths) /\ EnumerateAllFiles[InitSources[k]] \in Seq(FilePaths)
             /\ g[k] # << >> /\ Last(g[k]) = SourcePath(InitSources[k])
             /\ Front(g[k]) = g[k - 1] \o EnumerateAllFiles[InitSources[k]]
             /\ Len(g[k]) = Len(g[k - 1]) + Len(EnumerateAllFiles[InitSources[k]]) + 1
  <2> DEFINE a == g[k - 1]
             e == EnumerateAllFiles[InitSources[k]]
             p == SourcePath(InitSources[k])
             b == Append(e, p)
  <2>1. k \in 1 .. NumSources /\ k - 1 \in 0 .. NumSources
    BY <1>1, <1>7
  <2>2. InitSources[k] \in SearchDirs
    BY <1>1, <2>1
  <2>3. a \in Seq(SearchPaths) /\ g[k] = a \o b
    BY <1>2, <2>1
  <2>4. e \in Seq(FilePaths) /\ e \in Seq(SearchPaths) /\ p \in SearchPaths
    BY <1>1, <2>2, EnumeratedIs, KindsOfPaths
  <2> HIDE DEF a, e, p
  <2>5. b \in Seq(SearchPaths) /\ b # << >> /\ Len(b) = Len(e) + 1 /\ b[Len(b)] = p
        /\ \A i \in 1 .. Len(e) : b[i] = e[i]
    BY <2>4
  <2>6. Last(b) = p /\ Front(b) = e
    <3>1. Last(b) = p
      BY <2>5 DEF Last
    <3>2. /\ Front(b) \in Seq(SearchPaths) /\ Len(Front(b)) = Len(e)
          /\ \A i \in DOMAIN Front(b) : Front(b)[i] = b[i]
      <4>1. Len(e) \in Nat /\ Len(b) - 1 = Len(e)
        BY <2>4, <2>5
      <4> HIDE DEF b
      <4> QED
        BY <2>5, <4>1, FrontLast
    <3>3. DOMAIN Front(b) = 1 .. Len(e) /\ DOMAIN e = 1 .. Len(e)
      BY <2>4, <3>2
    <3>4. \A i \in 1 .. Len(e) : Front(b)[i] = e[i]
      BY <2>5, <3>2, <3>3
    <3>5. Front(b) = e
      BY <2>4, <3>2, <3>4
    <3> QED
      BY <3>1, <3>5
  <2> HIDE DEF b
  <2>9. a \in Seq(SearchPaths) /\ b \in Seq(SearchPaths) /\ b # << >>
    BY <2>3, <2>5
  <2>10. Last(a \o b) = Last(b) /\ Front(a \o b) = a \o Front(b) /\ a \o b # << >>
    BY <2>9, EndOfConcat
  <2>7. Last(g[k]) = p /\ Front(g[k]) = a \o e /\ g[k] # << >>
    BY <2>3, <2>6, <2>10
  <2>8. Len(g[k]) = Len(a) + Len(e) + 1
    <3>1. Len(a \o b) = Len(a) + Len(b) /\ Len(a) \in Nat /\ Len(e) \in Nat
      BY <2>4, <2>9, ConcatProperties
    <3> QED
      BY <2>3, <2>5, <3>1
  <2> QED
    BY <2>3, <2>4, <2>7, <2>8 DEF a, e, p
<1> QED
  BY <1>3, <1>6, <1>7

LEMMA WalkNextKeepsWalk ==
    ASSUME SearchInv, mode # "none", NothingEmpty, WalkNext, NEW k, NEW H, NEW E, NEW g, WalkIsAt(k, H, E, g)
    PROVE  \E k2, H2, E2, g2 : WalkIsAt(k2, H2, E2, g2)'
<1>1. /\ NumSources \in Nat \ {0} /\ DOMAIN InitSources = 1 .. NumSources
      /\ InitSources \in Seq(SearchDirs) /\ IsInjective(InitSources) /\ IsTree
      /\ k \in 0 .. NumSources /\ (k = NumSources => H = << >> /\ E = << >>)
      /\ HandIsApart(H, E) /\ H \in Seq(FilePaths) /\ E \in Seq(DirPaths)
      /\ \A i \in 1 .. NumSources : InitSources[i] \in SearchDirs
      /\ mode \in {"PRECISE", "RECURSIVE"}
      /\ walks \in Seq((0 .. NumDirs) \X SearchPaths)
      /\ WalkedOrLeft(walks, k, FilesLeft(H, E)) /\ IsStack(g)
      /\ More /\ k # NumSources => HasCalledBegin /\ ~HasCalledEnd /\ begun = InitSources[k + 1]
  BY WalkGoesOn
<1>2. PICK path : path = Last(CurrentFiles)
  OBVIOUS
<1>3. PICK below : below = Front(CurrentFiles)
  OBVIOUS
<1>4. /\ CurrentFiles # << >> /\ UNCHANGED <<diskVars, TotalFileCount, Directories>>
      /\ ~IsSource(path) /\ HasCalledBegin /\ ~HasCalledEnd =>
            /\ CurrentFiles' = below /\ walks' = Append(walks, <<begun, path>>)
            /\ HasCalledBegin' /\ (HasCalledEnd' <=> ~More')
            /\ begun' = IF ~More' THEN 0 ELSE begun
      /\ IsSource(path) =>
            /\ HasCalledBegin' /\ (HasCalledEnd' <=> ~More')
            /\ begun' = IF ~More' THEN 0 ELSE path[2]
            /\ IF below = << >> THEN CurrentFiles' = below /\ walks' = walks
               ELSE CurrentFiles' = Front(below) /\ walks' = Append(walks, <<path[2], Last(below)>>)
  BY <1>2, <1>3, WalkTakes DEF SearchInv
<1>5. /\ UNCHANGED <<InitSources, mode>> /\ NumSources' = NumSources /\ \A i : SourcesUpTo(i)' = SourcesUpTo(i)
  BY <1>4, WalkStays
<1>6. More
  BY <1>4 DEF More
<1>7. /\ H # << >> => Last(CurrentFiles) = Last(H) /\ Last(H) \in FilePaths
      /\ H # << >> /\ mode = "PRECISE" => Front(CurrentFiles) = g[k] \o Front(H)
      /\ mode = "PRECISE" /\ k # 0 =>
            /\ g[k - 1] \in Seq(SearchPaths) /\ g[k] \in Seq(SearchPaths)
            /\ EnumerateAllFiles[InitSources[k]] \in Seq(FilePaths)
            /\ g[k] # << >> /\ Last(g[k]) = SourcePath(InitSources[k])
            /\ Front(g[k]) = g[k - 1] \o EnumerateAllFiles[InitSources[k]]
            /\ Len(g[k]) = Len(g[k - 1]) + Len(EnumerateAllFiles[InitSources[k]]) + 1
      /\ g[k] \in Seq(SearchPaths)
  BY StackBelow
<1>8. /\ mode = "PRECISE" => /\ CurrentFiles = g[k] \o H /\ Directories = << >> /\ E = << >>
                             /\ TotalFileCount + k = Len(walks) + Len(H) + Len(g[k])
      /\ mode = "RECURSIVE" => CurrentFiles = H /\ Directories = SourcesUpTo(k) \o E
  BY DEF WalkIsAt, StacksAre
<1>9. TotalFileCount \in Nat
  BY DEF SearchInv, SearchTypeOK
<1>10. PICK W : W = walks'
  OBVIOUS
<1>11. \A d \in SearchDirs, p \in FilePaths : <<d, p>> \in (0 .. NumDirs) \X SearchPaths
  BY KindsOfPaths, DirectorySearchAssumption DEF SearchDirs
<1>12. CASE H # << >>
  <2>1. path = Last(H) /\ path \in FilePaths /\ ~IsSource(path)
    BY <1>2, <1>7, <1>12, SourcePathsAre
  <2>2. k # NumSources /\ k \in Nat /\ k + 1 \in DOMAIN InitSources /\ InitSources[k + 1] \in SearchDirs
    BY <1>1, <1>12
  <2>3. /\ begun = InitSources[k + 1] /\ CurrentFiles' = below
        /\ walks' = Append(walks, <<InitSources[k + 1], path>>)
        /\ HasCalledBegin' /\ (HasCalledEnd' <=> ~More') /\ begun' = IF ~More' THEN 0 ELSE InitSources[k + 1]
    BY <1>1, <1>4, <1>6, <2>1, <2>2
  <2>4. PICK w : w = <<InitSources[k + 1], path>>
    OBVIOUS
  <2>5. PICK F : F = Front(H)
    OBVIOUS
  <2>6. HandIsApart(F, E) /\ WalkedOrLeft(Append(walks, w), k, FilesLeft(F, E))
    <3>1. w \in (0 .. NumDirs) \X SearchPaths
      BY <1>11, <2>1, <2>2, <2>4
    <3> QED
      BY <1>1, <1>12, <2>1, <2>2, <2>4, <2>5, <3>1, FileIsWalked
  <2>7. ToldOf(k)'
    BY <1>5, <2>2, <2>3 DEF ToldOf
  <2>8. StacksAre(k, F, E, g)'
    <3>1. CASE mode = "PRECISE"
      <4>1. CurrentFiles' = g[k] \o F /\ Directories' = << >> /\ E = << >>
        BY <1>3, <1>4, <1>7, <1>8, <1>12, <2>3, <2>5, <3>1
      <4>2. TotalFileCount' + k = Len(walks') + Len(F) + Len(g[k])
        <5>1. Len(walks') = Len(walks) + 1 /\ Len(walks) \in Nat
          BY <1>1, <2>3
        <5>2. Len(F) = Len(H) - 1 /\ Len(H) \in Nat /\ Len(g[k]) \in Nat
          BY <1>1, <1>7, <1>12, <2>5, FrontLast
        <5>3. /\ TotalFileCount' = TotalFileCount /\ TotalFileCount \in Nat /\ k \in Nat
              /\ TotalFileCount + k = Len(walks) + Len(H) + Len(g[k])
          BY <1>4, <1>8, <1>9, <2>2, <3>1
        <5> DEFINE v == Len(walks)
                   v2 == Len(walks')
                   h == Len(H)
                   h2 == Len(F)
                   l == Len(g[k])
        <5>4. /\ v2 = v + 1 /\ v \in Nat /\ h2 = h - 1 /\ h \in Nat /\ l \in Nat
              /\ TotalFileCount + k = v + h + l
          BY <5>1, <5>2, <5>3
        <5> HIDE DEF v, v2, h, h2, l
        <5>5. TotalFileCount + k = v2 + h2 + l
          BY <5>3, <5>4
        <5> QED
          BY <5>3, <5>5 DEF v2, h2, l
      <4> QED
        BY <1>5, <3>1, <4>1, <4>2 DEF StacksAre
    <3>2. CASE mode = "RECURSIVE"
      BY <1>3, <1>4, <1>5, <1>8, <2>3, <2>5, <3>2 DEF StacksAre
    <3> QED
      BY <1>1, <3>1, <3>2
  <2>9. WalkIsAt(k, F, E, g)'
    <3>1. WalkedOrLeft(W, k, FilesLeft(F, E))
      BY <1>10, <2>3, <2>4, <2>6
    <3> QED
      BY <1>1, <1>4, <1>10, <2>2, <2>6, <2>7, <2>8, <3>1, WalkGoesTo
  <2> QED
    BY <2>9
<1>13. CASE H = << >>
  <2>1. mode = "PRECISE" /\ CurrentFiles = g[k] /\ E = << >>
    <3>1. g[k] \o << >> = g[k]
      BY <1>7, ConcatEmptySeq
    <3> QED
      BY <1>1, <1>4, <1>8, <1>13, <3>1
  <2>2. k # 0
    BY <1>1, <1>4, <2>1 DEF IsStack
  <2>3. PICK e : e = EnumerateAllFiles[InitSources[k]]
    OBVIOUS
  <2>4. PICK j : j = k - 1
    OBVIOUS
  <2>5. /\ j \in 0 .. NumSources /\ j # NumSources /\ j + 1 = k /\ k \in Nat \ {0} /\ j \in Nat
        /\ k \in DOMAIN InitSources /\ InitSources[k] \in SearchDirs
    BY <1>1, <2>2, <2>4
  <2>6. /\ g[j] \in Seq(SearchPaths) /\ e \in Seq(FilePaths)
        /\ path = SourcePath(InitSources[k]) /\ below = g[j] \o e
        /\ Len(g[k]) = Len(g[j]) + Len(e) + 1
    BY <1>2, <1>3, <1>7, <2>1, <2>2, <2>3, <2>4
  <2>7. IsSource(path) /\ path[2] = InitSources[k]
    BY <2>5, <2>6, SourcePathsAre
  <2>8. HandIsApart(e, << >>) /\ FilesLeft(e, << >>) = OwedIn(k)
    BY <1>1, <2>3, <2>5, FilesOfSource
  <2>9. WalkedOrLeft(walks, j, FilesLeft(e, << >>))
    <3>1. WalkedOrLeft(walks, k, {})
      BY <1>1, <1>13, <2>1, NothingInHand
    <3> QED
      BY <2>4, <2>5, <2>8, <3>1, SourceIsOpened
  <2>10. ToldOf(j)'
    BY <1>4, <1>5, <2>5, <2>7 DEF ToldOf
  <2>11. TotalFileCount + j = Len(walks) + Len(e) + Len(g[j])
    <3>1. Len(walks) \in Nat /\ Len(e) \in Nat /\ Len(g[j]) \in Nat
      BY <1>1, <2>6
    <3>2. TotalFileCount + k = Len(walks) + Len(g[k])
      <4>1. Len(H) = 0 /\ Len(g[k]) \in Nat
        BY <1>7, <1>13
      <4>2. TotalFileCount + k = Len(walks) + Len(H) + Len(g[k])
        BY <1>8, <2>1
      <4> QED
        BY <3>1, <4>1, <4>2
    <3> DEFINE v == Len(walks)
               f == Len(e)
               l == Len(g[j])
    <3>3. /\ v \in Nat /\ f \in Nat /\ l \in Nat /\ TotalFileCount + k = v + (l + f + 1)
          /\ j + 1 = k /\ j \in Nat /\ TotalFileCount \in Nat
      <4>1. Len(g[k]) = Len(g[j]) + Len(e) + 1
        BY <2>6
      <4> QED
        BY <1>9, <2>5, <3>1, <3>2, <4>1
    <3> HIDE DEF v, f, l
    <3>4. TotalFileCount + j = v + f + l
      BY <3>3
    <3> QED
      BY <3>4 DEF v, f, l
  <2>12. CASE e # << >>
    <3>1. e \in Seq(SearchPaths)
      BY <2>6, KindsOfPaths
    <3>2. below # << >> /\ Last(below) = Last(e) /\ Front(below) = g[j] \o Front(e)
      BY <2>6, <2>12, <3>1, EndOfConcat
    <3>3. Last(e) \in FilePaths /\ Front(e) \in Seq(FilePaths) /\ Len(Front(e)) = Len(e) - 1 /\ Len(e) \in Nat
      BY <2>6, <2>12, FrontLast
    <3>4. PICK w : w = <<InitSources[k], Last(e)>>
      OBVIOUS
    <3>5. PICK F : F = Front(e)
      OBVIOUS
    <3>6. walks' = Append(walks, w) /\ CurrentFiles' = g[j] \o F
      BY <1>4, <2>7, <3>2, <3>4, <3>5
    <3>7. HandIsApart(F, << >>) /\ WalkedOrLeft(W, j, FilesLeft(F, << >>))
      <4>1. w \in (0 .. NumDirs) \X SearchPaths
        BY <1>11, <2>5, <3>3, <3>4
      <4>2. w = <<InitSources[j + 1], Last(e)>> /\ j + 1 \in DOMAIN InitSources
        BY <2>5, <3>4
      <4>3. HandIsApart(F, << >>) /\ WalkedOrLeft(Append(walks, w), j, FilesLeft(F, << >>))
        BY <1>1, <2>5, <2>8, <2>9, <2>12, <3>5, <4>1, <4>2, FileIsWalked
      <4> QED
        BY <1>10, <3>6, <4>3
    <3>8. StacksAre(j, F, << >>, g)'
      <4>1. Len(walks') = Len(walks) + 1 /\ Len(walks) \in Nat /\ Len(g[j]) \in Nat
        BY <1>1, <2>6, <3>6
      <4>2. TotalFileCount' + j = Len(walks') + Len(F) + Len(g[j])
        <5>1. Len(F) = Len(e) - 1 /\ Len(e) \in Nat /\ TotalFileCount' = TotalFileCount /\ j \in Nat
          BY <1>4, <2>5, <3>3, <3>5
        <5> DEFINE v == Len(walks)
                   v2 == Len(walks')
                   f == Len(e)
                   f2 == Len(F)
                   l == Len(g[j])
        <5>2. /\ v2 = v + 1 /\ v \in Nat /\ f2 = f - 1 /\ f \in Nat /\ l \in Nat
              /\ TotalFileCount + j = v + f + l
          BY <2>11, <4>1, <5>1
        <5> HIDE DEF v, v2, f, f2, l
        <5>3. TotalFileCount + j = v2 + f2 + l
          BY <1>9, <5>1, <5>2
        <5> QED
          BY <5>1, <5>3 DEF v2, f2, l
      <4>3. Directories' = << >>
        BY <1>4, <1>8, <2>1
      <4> QED
        BY <1>5, <2>1, <3>6, <4>2, <4>3 DEF StacksAre
    <3>9. WalkIsAt(j, F, << >>, g)'
      BY <1>1, <1>4, <1>10, <2>5, <2>10, <3>7, <3>8, WalkGoesTo
    <3> QED
      BY <3>9
  <2>13. CASE e = << >>
    <3>1. k = 1
      <4>1. \A i \in 2 .. NumSources : EnumerateAllFiles[InitSources[i]] # << >>
        BY <2>1 DEF NothingEmpty, NumSources
      <4>2. k \notin 2 .. NumSources
        BY <2>3, <2>13, <4>1
      <4> QED
        BY <1>1, <2>5, <4>2
    <3>2. below = << >>
      <4>1. g[j] = << >>
        BY <1>1, <2>4, <3>1 DEF IsStack
      <4> QED
        BY <2>6, <2>13, <4>1
    <3>3. walks' = walks /\ CurrentFiles' = << >>
      BY <1>4, <2>7, <3>2
    <3>4. StacksAre(j, << >>, << >>, g)'
      <4>1. g[j] \o << >> = CurrentFiles'
        BY <2>6, <2>13, <3>2, <3>3
      <4>2. Directories' = << >>
        BY <1>4, <1>8, <2>1
      <4>3. TotalFileCount' + j = Len(walks') + Len(<< >>) + Len(g[j])
        BY <1>4, <2>11, <2>13, <3>3
      <4> QED
        BY <1>5, <2>1, <4>1, <4>2, <4>3 DEF StacksAre
    <3>5. WalkIsAt(j, << >>, << >>, g)'
      BY <1>1, <1>4, <1>10, <2>5, <2>8, <2>9, <2>10, <2>13, <3>3, <3>4, WalkGoesTo
    <3> QED
      BY <3>5
  <2> QED
    BY <2>12, <2>13
<1> QED
  BY <1>12, <1>13

LEMMA WalkEndsKeepsWalk ==
    ASSUME SearchInv, mode # "none", WalkEnds, NEW k, NEW H, NEW E, NEW g, WalkIsAt(k, H, E, g)
    PROVE  \E k2, H2, E2, g2 : WalkIsAt(k2, H2, E2, g2)'
<1>1. /\ k \in 0 .. NumSources /\ (k = NumSources => H = << >> /\ E = << >>)
      /\ HandIsApart(H, E) /\ WalkedOrLeft(walks, k, FilesLeft(H, E)) /\ IsStack(g)
      /\ ToldOf(k) /\ StacksAre(k, H, E, g)
  BY DEF WalkIsAt
<1>2. /\ ~More /\ HasCalledBegin /\ HasCalledEnd' = TRUE /\ begun' = 0
      /\ UNCHANGED <<diskVars, Directories, CurrentFiles, TotalFileCount, HasCalledBegin, walks>>
  BY DEF WalkEnds
<1>3. UNCHANGED <<InitSources, mode>> /\ NumSources' = NumSources /\ \A i : SourcesUpTo(i)' = SourcesUpTo(i)
  BY <1>2, WalkStays
<1>4. k # NumSources
  BY <1>1, <1>2 DEF ToldOf
<1>5. ~More'
  BY <1>2 DEF More
<1>6. ToldOf(k)'
  BY <1>2, <1>3, <1>4, <1>5 DEF ToldOf
<1>7. StacksAre(k, H, E, g)'
  BY <1>1, <1>2, <1>3 DEF StacksAre
<1>8. PICK W : W = walks'
  OBVIOUS
<1>9. WalkIsAt(k, H, E, g)'
  BY <1>1, <1>2, <1>4, <1>6, <1>7, <1>8, WalkGoesTo
<1> QED
  BY <1>9

\* Before the walk all of the sources are left.
LEMMA AllIsLeft ==
    InitSources \in Seq(SearchDirs) =>
        /\ WalkedOrLeft(<< >>, NumSources, FilesLeft(<< >>, << >>)) /\ HandIsApart(<< >>, << >>)
        /\ SourcePaths = SourcesUpTo(NumSources)
<1> SUFFICES ASSUME InitSources \in Seq(SearchDirs)
             PROVE  /\ WalkedOrLeft(<< >>, NumSources, FilesLeft(<< >>, << >>)) /\ HandIsApart(<< >>, << >>)
                    /\ SourcePaths = SourcesUpTo(NumSources)
  OBVIOUS
<1>1. FilesLeft(<< >>, << >>) = {} /\ HandIsApart(<< >>, << >>)
  BY NothingInHand
<1>2. DOMAIN InitSources = 1 .. NumSources
  BY DEF NumSources
<1>3. \A w : IsLeft(NumSources, {}, w) <=> \E i \in 1 .. NumSources : \E f \in OwedIn(i) : w = WalkIn(i, f)
  BY DEF IsLeft
<1>4. \A w : w \in Owed <=> \E i \in 1 .. NumSources : \E f \in OwedIn(i) : w = WalkIn(i, f)
  BY <1>2 DEF Owed, OwedIn, WalkIn, FilesUnder, Accepted, FilePath
<1>5. Range(<< >>) = {} /\ IsInjective(<< >>)
  BY DEF Range, IsInjective
<1>6. WalkedOrLeft(<< >>, NumSources, {})
  BY <1>3, <1>4, <1>5 DEF WalkedOrLeft
<1>7. SourcePaths = SourcesUpTo(NumSources)
  BY <1>2 DEF SourcePaths, SourcesUpTo
<1> QED
  BY <1>1, <1>6, <1>7

LEMMA AllIsLeftNext ==
    (InitSources \in Seq(SearchDirs) =>
        /\ WalkedOrLeft(<< >>, NumSources, FilesLeft(<< >>, << >>)) /\ HandIsApart(<< >>, << >>)
        /\ SourcePaths = SourcesUpTo(NumSources))'
  BY AllIsLeft, PTL

LEMMA InitWalkStartsWalk ==
    ASSUME SearchInv, InitWalk
    PROVE  \E k2, H2, E2, g2 : WalkIsAt(k2, H2, E2, g2)'
<1>1. /\ SearchTypeOK' /\ EnumerationFits'
      /\ mode' = "PRECISE" => CurrentFiles' = FlattenSeq(Segments') /\ TotalFileCount' = Len(FlattenSeq(Enumerated'))
                              /\ Directories' = Directories
      /\ mode' = "RECURSIVE" => Directories' = SourcePaths' /\ CurrentFiles' = CurrentFiles
  BY InitWalkTypes DEF SearchInv
<1>2. NotInitialized /\ mode' \in {"PRECISE", "RECURSIVE"} /\ UNCHANGED <<HasCalledBegin, HasCalledEnd, begun, walks>>
  BY DEF SearchInv, InitWalk
<1>3. PICK g : (/\ IsStack(g) /\ g[NumSources] = FlattenSeq(Segments)
                /\ Len(FlattenSeq(Enumerated)) + NumSources = Len(g[NumSources]))'
  BY <1>1 DEF EnumerationFits
<1>4. InitSources' \in Seq(SearchDirs)
  BY <1>1 DEF SearchTypeOK
<1>5. PICK k : k = NumSources'
  OBVIOUS
<1>6. k \in Nat /\ k \in 0 .. NumSources' /\ k = NumSources'
  BY <1>4, <1>5 DEF NumSources
<1>7. /\ WalkedOrLeft(<< >>, NumSources, FilesLeft(<< >>, << >>))' /\ HandIsApart(<< >>, << >>)'
      /\ SourcePaths' = SourcesUpTo(NumSources)'
  BY <1>4, AllIsLeftNext
<1>8. walks' = << >> /\ begun' = 0 /\ HasCalledBegin' = FALSE /\ HasCalledEnd' = FALSE
      /\ CurrentFiles = << >> /\ Directories = << >>
  BY <1>2 DEF NotInitialized
<1>9. WalkedOrLeft(walks, k, FilesLeft(<< >>, << >>))'
  BY <1>6, <1>7, <1>8 DEF WalkedOrLeft
<1>10. ToldOf(k)'
  BY <1>6, <1>8 DEF ToldOf
<1>11. g[k] \in Seq(SearchPaths) /\ IsStack(g)' /\ g[k] = FlattenSeq(Segments')
       /\ Len(FlattenSeq(Enumerated')) + k = Len(g[k])
  BY <1>3, <1>6 DEF IsStack
<1>12. StacksAre(k, << >>, << >>, g)'
  <2>1. CASE mode' = "PRECISE"
    <3>1. CurrentFiles' = g[k] \o << >> /\ Directories' = << >>
      BY <1>1, <1>8, <1>11, <2>1, ConcatEmptySeq
    <3>2. TotalFileCount' + k = Len(walks') + Len(<< >>) + Len(g[k])
      BY <1>1, <1>8, <1>11, <2>1
    <3> QED
      BY <2>1, <3>1, <3>2 DEF StacksAre
  <2>2. CASE mode' = "RECURSIVE"
    <3>1. Directories' = SourcesUpTo(k)' /\ CurrentFiles' = << >>
      BY <1>1, <1>6, <1>7, <1>8, <2>2
    <3>2. Directories' \in Seq(SearchPaths)
      BY <1>1 DEF SearchTypeOK
    <3>3. Directories' = SourcesUpTo(k)' \o << >>
      BY <3>1, <3>2, ConcatEmptySeq
    <3> QED
      BY <2>2, <3>1, <3>3 DEF StacksAre
  <2> QED
    BY <1>2, <2>1, <2>2
<1>13. WalkIsAt(k, << >>, << >>, g)'
  BY <1>6, <1>7, <1>9, <1>10, <1>11, <1>12 DEF WalkIsAt
<1> QED
  BY <1>13

LEMMA SearchInitInv ==
    ASSUME SearchInit
    PROVE  SearchInv
<1>1. NotInitialized /\ mode = "none"
  BY DEF SearchInit, NotInitialized
<1>2. SearchTypeOK
  <2>1. /\ parentDir \in [SearchDirs -> 0 .. NumDirs] /\ fileDir \in [DirFiles -> SearchDirs]
    BY DirectorySearchAssumption DEF SearchInit, SearchDirs
  <2>2. InitSources \in Seq(SearchDirs) /\ Len(InitSources) <= MaxSources /\ accepts \in [DOMAIN InitSources -> SUBSET DirFiles]
    BY DirectorySearchAssumption DEF SearchInit
  <2>3. /\ Directories \in Seq(SearchPaths) /\ CurrentFiles \in Seq(SearchPaths)
        /\ walks \in Seq((0 .. NumDirs) \X SearchPaths)
    BY <1>1, EmptySeq DEF NotInitialized
  <2>4. TotalFileCount \in Nat /\ begun \in 0 .. NumDirs
    BY <1>1, DirectorySearchAssumption DEF NotInitialized
  <2>5. HasCalledBegin \in BOOLEAN /\ HasCalledEnd \in BOOLEAN
    BY <1>1, Zenon DEF NotInitialized
  <2> QED
    BY <1>1, <2>1, <2>2, <2>3, <2>4, <2>5 DEF SearchTypeOK
<1> QED
  BY <1>1, <1>2 DEF SearchInv

LEMMA SearchStep ==
    ASSUME SearchInv, [SearchNext]_searchVars
    PROVE  SearchInv'
<1>1. CASE InitWalk
  <2>1. SearchTypeOK' /\ IsTree' /\ InitSources' # << >> /\ IsInjective(InitSources')
    BY <1>1, InitWalkTypes DEF SearchInv
  <2>2. (\E k2, H2, E2, g2 : WalkIsAt(k2, H2, E2, g2))'
    BY <1>1, InitWalkStartsWalk
  <2>3. mode' # "none"
    BY <1>1 DEF InitWalk
  <2> QED
    BY <2>1, <2>2, <2>3 DEF SearchInv
<1>2. CASE mode # "none" /\ UNCHANGED diskVars /\ SearchTypeOK'
           /\ (NothingEmpty => (\E k2, H2, E2, g2 : WalkIsAt(k2, H2, E2, g2))')
  <2>1. IsTree' /\ InitSources' # << >> /\ IsInjective(InitSources') /\ mode' # "none" /\ (NothingEmpty' <=> NothingEmpty)
    BY <1>2, WalkStays DEF SearchInv
  <2> QED
    BY <1>2, <2>1 DEF SearchInv
<1>3. ASSUME EnumerateNextDir \/ WalkNext \/ WalkEnds PROVE mode # "none" /\ UNCHANGED diskVars
  <2>1. UNCHANGED diskVars
    BY <1>3 DEF EnumerateNextDir, WalkNext, WalkEnds
  <2>2. mode # "none"
    BY <1>3 DEF EnumerateNextDir, WalkNext, WalkEnds, SearchInv, NotInitialized
  <2> QED
    BY <2>1, <2>2
<1>4. CASE EnumerateNextDir
  <2>1. SearchTypeOK'
    BY <1>4, EnumerateNextDirTypes DEF SearchInv
  <2>2. NothingEmpty => (\E k2, H2, E2, g2 : WalkIsAt(k2, H2, E2, g2))'
    BY <1>3, <1>4, EnumerateKeepsWalk DEF SearchInv
  <2> QED
    BY <1>2, <1>3, <1>4, <2>1, <2>2
<1>5. CASE WalkNext
  <2>1. SearchTypeOK'
    BY <1>5, WalkNextTypes DEF SearchInv
  <2>2. NothingEmpty => (\E k2, H2, E2, g2 : WalkIsAt(k2, H2, E2, g2))'
    BY <1>3, <1>5, WalkNextKeepsWalk DEF SearchInv
  <2> QED
    BY <1>2, <1>3, <1>5, <2>1, <2>2
<1>6. CASE WalkEnds
  <2>1. SearchTypeOK'
    BY <1>6, DirectorySearchAssumption DEF WalkEnds, diskVars, SearchInv, SearchTypeOK
  <2>2. NothingEmpty => (\E k2, H2, E2, g2 : WalkIsAt(k2, H2, E2, g2))'
    BY <1>3, <1>6, WalkEndsKeepsWalk DEF SearchInv
  <2> QED
    BY <1>2, <1>3, <1>6, <2>1, <2>2
<1>7. CASE UNCHANGED searchVars
  <2>1. UNCHANGED <<diskVars, Directories, CurrentFiles, TotalFileCount, HasCalledBegin, HasCalledEnd, begun, walks>>
    BY <1>7 DEF searchVars
  <2>2. /\ \A H, E : HandIsApart(H, E)' <=> HandIsApart(H, E)
        /\ \A k, H, E, w : IsLeft(k, FilesLeft(H, E), w)' <=> IsLeft(k, FilesLeft(H, E), w)
        /\ \A g : IsStack(g)' <=> IsStack(g)
        /\ NothingEmpty' <=> NothingEmpty
        /\ Owed' = Owed /\ (IsTree' <=> IsTree)
        /\ UNCHANGED <<parentDir, fileDir, accepts, InitSources, mode>>
        /\ NumSources' = NumSources /\ \A k : SourcesUpTo(k)' = SourcesUpTo(k)
    BY <2>1, WalkStays
  <2>3. SearchTypeOK' /\ (mode = "none" => NotInitialized')
    BY <2>1, <2>2 DEF SearchInv, SearchTypeOK, NotInitialized
  <2>4. ASSUME NEW k, NEW H, NEW E, NEW g, WalkIsAt(k, H, E, g) PROVE WalkIsAt(k, H, E, g)'
    <3>1. PICK W : W = walks'
      OBVIOUS
    <3>2. ToldOf(k)' /\ StacksAre(k, H, E, g)'
      BY <2>1, <2>2, <2>4 DEF WalkIsAt, ToldOf, StacksAre, More
    <3> QED
      BY <2>1, <2>4, <3>1, <3>2, WalkGoesTo DEF WalkIsAt
  <2>5. NothingEmpty /\ mode # "none" => (\E k2, H2, E2, g2 : WalkIsAt(k2, H2, E2, g2))'
    BY <2>4 DEF SearchInv
  <2> QED
    BY <2>1, <2>2, <2>3, <2>5 DEF SearchInv
<1> QED
  BY <1>1, <1>4, <1>5, <1>6, <1>7 DEF SearchNext

LEMMA WalkedAllWhenOver ==
    ASSUME SearchInv
    PROVE  EveryFileIsWalkedInItsSources
<1> SUFFICES ASSUME SearchIsOver, NothingEmpty PROVE WalksAreThoseOwed
  BY DEF EveryFileIsWalkedInItsSources, NothingEmpty
<1>1. mode # "none" /\ CurrentFiles = << >> /\ Directories = << >> /\ ~(HasCalledBegin /\ ~HasCalledEnd)
  BY DEF SearchIsOver, More
<1>2. PICK k, H, E, g : WalkIsAt(k, H, E, g)
  BY <1>1 DEF SearchInv
<1>3. /\ NumSources \in Nat \ {0} /\ InitSources \in Seq(SearchDirs)
      /\ k \in 0 .. NumSources /\ H \in Seq(FilePaths) /\ E \in Seq(DirPaths)
      /\ mode \in {"PRECISE", "RECURSIVE"} /\ walks \in Seq((0 .. NumDirs) \X SearchPaths)
      /\ WalkedOrLeft(walks, k, FilesLeft(H, E))
  BY <1>1, <1>2, WalkGoesOn
<1>4. g[k] \in Seq(SearchPaths) /\ (mode = "PRECISE" /\ k # 0 => g[k] # << >>)
  BY <1>1, <1>2, StackBelow
<1>5. StacksAre(k, H, E, g) /\ ToldOf(k)
  BY <1>2 DEF WalkIsAt
<1>6. /\ H \in Seq(SearchPaths) /\ E \in Seq(SearchPaths) /\ SourcesUpTo(k) \in Seq(SearchPaths)
      /\ k # 0 => SourcesUpTo(k) # << >>
  BY <1>3, KindsOfPaths, SourcesAre
<1>7. ASSUME NEW a \in Seq(SearchPaths), NEW b \in Seq(SearchPaths), a \o b = << >> PROVE a = << >> /\ b = << >>
  BY <1>7, EndOfConcat, ConcatEmptySeq
<1>8. k = 0 /\ H = << >> /\ E = << >>
  <2>1. CASE mode = "PRECISE"
    <3>1. g[k] \o H = << >> /\ E = << >>
      BY <1>1, <1>5, <2>1 DEF StacksAre
    <3> QED
      BY <1>4, <1>6, <1>7, <2>1, <3>1
  <2>2. CASE mode = "RECURSIVE"
    <3>1. SourcesUpTo(k) \o E = << >> /\ H = << >>
      BY <1>1, <1>5, <2>2 DEF StacksAre
    <3> QED
      BY <1>6, <1>7, <3>1
  <2> QED
    BY <1>3, <2>1, <2>2
<1>9. begun = 0
  BY <1>1, <1>3, <1>5, <1>8 DEF ToldOf
<1>10. WalkedOrLeft(walks, 0, {})
  BY <1>3, <1>8, NothingInHand
<1>11. \A w : ~IsLeft(0, {}, w)
  BY DEF IsLeft
<1>12. Range(walks) = Owed /\ IsInjective(walks)
  BY <1>10, <1>11 DEF WalkedOrLeft
<1>13. ToSet(walks) = Owed
  BY <1>12 DEF ToSet, Range
<1>14. mode = "PRECISE" => TotalFileCount = Len(walks)
  <2>1. ASSUME mode = "PRECISE" PROVE TotalFileCount = Len(walks)
    <3>1. g[k] = << >>
      BY <1>1, <1>4, <1>5, <1>6, <1>7, <2>1 DEF StacksAre
    <3>2. TotalFileCount + 0 = Len(walks) + 0 + 0 /\ Len(walks) \in Nat
      BY <1>3, <1>5, <1>8, <2>1, <3>1 DEF StacksAre
    <3>3. TotalFileCount \in Nat
      BY DEF SearchInv, SearchTypeOK
    <3> QED
      BY <3>2, <3>3
  <2> QED
    BY <2>1
<1> QED
  BY <1>9, <1>12, <1>13, <1>14 DEF WalksAreThoseOwed

LEMMA SearchInvHolds == SearchInit /\ [][SearchNext]_searchVars => []SearchInv
<1>1. SearchInit => SearchInv
  BY SearchInitInv
<1>2. SearchInv /\ [SearchNext]_searchVars => SearchInv'
  BY SearchStep
<1> QED
  BY <1>1, <1>2, PTL

\* The tree, the two stacks, the counts and what the walker is given keep their types,
\* for any tree of directories, files and sources (DirectorySearchClass).
THEOREM SearchTypeCorrect == SearchInit /\ [][SearchNext]_searchVars => []SearchTypeOK
<1>1. SearchInv => SearchTypeOK
  BY DEF SearchInv
<1> QED
  BY <1>1, SearchInvHolds, PTL

\* A walk that is over gave the walker every accepted file of each source once, in that
\* source, and nothing else, in both of its modes, as DirectorySearchClass.h promises,
\* unless in PRECISE mode a source after the first has no files.
THEOREM EveryFileIsWalked ==
    SearchInit /\ [][SearchNext]_searchVars => []EveryFileIsWalkedInItsSources
<1>1. SearchInv => EveryFileIsWalkedInItsSources
  BY WalkedAllWhenOver
<1> QED
  BY <1>1, SearchInvHolds, PTL
=============================================================================
