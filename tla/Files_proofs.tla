---------------------------- MODULE Files_proofs ----------------------------
(***************************************************************************)
(* Proofs about the parts that keep files and what is known of them: the   *)
(* pages of the editor (Notebooks), the lists in the config file           *)
(* (StoredSettings) and the watch of the files (FileWatcher); and about    *)
(* all parts of MCFiles next to each other.                                *)
(***************************************************************************)
EXTENDS MCFiles, Listings_proofs

-----------------------------------------------------------------------------
(***************************************************************************)
(* The editor: pages and their tabs.                                       *)
(***************************************************************************)

\* The pages of the notebooks p.
OpenIn(p) == UNION {Range(p[n]) : n \in Notebook}

\* Every page has one tab.
OneTabEach(p) ==
    /\ p \in [Notebook -> Seq(Control)]
    /\ \A n, m \in Notebook : \A i \in DOMAIN p[n], j \in DOMAIN p[m] :
           p[n][i] = p[m][j] => n = m /\ i = j

LEMMA TabsAreOpen ==
    ASSUME NEW p, OneTabEach(p)
    PROVE  /\ OpenIn(p) \subseteq Control
           /\ \A c : c \in OpenIn(p) <=> \E m \in Notebook : \E i \in DOMAIN p[m] : p[m][i] = c
           /\ \A m \in Notebook : \A i \in DOMAIN p[m] : p[m][i] \in Control
           /\ \A m \in Notebook : Range(p[m]) \subseteq OpenIn(p)
<1>1. \A m \in Notebook : \A i \in DOMAIN p[m] : p[m][i] \in Control
  BY LenProperties DEF OneTabEach
<1>2. \A c : c \in OpenIn(p) <=> \E m \in Notebook : \E i \in DOMAIN p[m] : p[m][i] = c
  BY DEF OpenIn, Range
<1> QED
  BY <1>1, <1>2 DEF OpenIn, Range

LEMMA TabAdded ==
    ASSUME NEW p, OneTabEach(p), NEW n \in Notebook, NEW c \in Control \ OpenIn(p)
    PROVE  LET q == [p EXCEPT ![n] = Append(@, c)]
           IN  OneTabEach(q) /\ OpenIn(q) = OpenIn(p) \cup {c}
<1> DEFINE q == [p EXCEPT ![n] = Append(@, c)]
<1>1. p \in [Notebook -> Seq(Control)] /\ p[n] \in Seq(Control)
  BY DEF OneTabEach
<1>2. Append(p[n], c) \in Seq(Control)
  BY <1>1, AppendProperties
<1>3. PICK k \in Nat : /\ k \in DOMAIN Append(p[n], c) /\ k \notin DOMAIN p[n] /\ Append(p[n], c)[k] = c
                       /\ \A i \in DOMAIN Append(p[n], c) : i \in DOMAIN p[n] \/ i = k
                       /\ \A i \in DOMAIN p[n] : /\ i \in DOMAIN Append(p[n], c)
                                                 /\ Append(p[n], c)[i] = p[n][i]
  <2> QED
    BY <1>1, AppendIndex
<1>4. q \in [Notebook -> Seq(Control)] /\ q[n] = Append(p[n], c) /\ \A m \in Notebook \ {n} : q[m] = p[m]
  BY <1>1, <1>2
<1> HIDE DEF q
<1>5. \A m \in Notebook : \A i \in DOMAIN p[m] : p[m][i] # c
  BY TabsAreOpen
<1>6. \A m \in Notebook : \A i \in DOMAIN q[m] :
          \/ m = n /\ i = k /\ q[m][i] = c
          \/ i \in DOMAIN p[m] /\ q[m][i] = p[m][i]
  BY <1>3, <1>4
<1>7. \A m \in Notebook : \A i \in DOMAIN p[m] : i \in DOMAIN q[m] /\ q[m][i] = p[m][i]
  BY <1>3, <1>4
<1>8. OneTabEach(q)
  BY SMTT(30), <1>4, <1>5, <1>6 DEF OneTabEach
<1>9. OpenIn(q) = OpenIn(p) \cup {c}
  <2>1. ASSUME NEW x \in OpenIn(q) PROVE x \in OpenIn(p) \cup {c}
    BY <1>6, <1>8, <2>1, TabsAreOpen
  <2>2. ASSUME NEW x \in OpenIn(p) PROVE x \in OpenIn(q)
    BY <1>7, <1>8, <2>2, TabsAreOpen
  <2>3. c \in OpenIn(q)
    BY <1>3, <1>4, <1>8, TabsAreOpen
  <2> QED
    BY <2>1, <2>2, <2>3
<1> QED
  BY <1>8, <1>9 DEF q

WithoutTab(p, n, i) == [p EXCEPT ![n] = RemoveAt(@, i)]

LEMMA TabRemoved ==
    ASSUME NEW p, OneTabEach(p), NEW n \in Notebook, NEW i \in DOMAIN p[n]
    PROVE  /\ OneTabEach(WithoutTab(p, n, i))
           /\ OpenIn(WithoutTab(p, n, i)) = OpenIn(p) \ {p[n][i]}
           /\ \A m \in Notebook : Range(WithoutTab(p, n, i)[m]) \subseteq Range(p[m])
<1> DEFINE q == WithoutTab(p, n, i)
           r == RemoveAt(p[n], i)
<1>1. p \in [Notebook -> Seq(Control)] /\ p[n] \in Seq(Control)
  BY DEF OneTabEach
<1>2. /\ r \in Seq(Control)
      /\ \A j \in DOMAIN r : \E k \in DOMAIN p[n] : k # i /\ k = (IF j < i THEN j ELSE j + 1) /\ r[j] = p[n][k]
      /\ \A k \in DOMAIN p[n] : k # i => \E j \in DOMAIN r : r[j] = p[n][k]
  BY <1>1, RemoveAtProperties
<1>3. q \in [Notebook -> Seq(Control)] /\ q[n] = r /\ \A m \in Notebook \ {n} : q[m] = p[m]
  BY <1>1, <1>2 DEF WithoutTab
<1>4. DOMAIN r \subseteq Nat /\ i \in Nat
  BY <1>1, <1>2, LenProperties
<1> DEFINE u == p[n]
<1>12. \A a, b \in DOMAIN u : u[a] = u[b] => a = b
  BY DEF OneTabEach
<1> HIDE DEF q, r
<1>5. \A j, l \in DOMAIN r : r[j] = r[l] => j = l
  <2> SUFFICES ASSUME NEW j \in DOMAIN r, NEW l \in DOMAIN r, r[j] = r[l] PROVE j = l
    OBVIOUS
  <2>1. PICK a \in DOMAIN p[n] : a = (IF j < i THEN j ELSE j + 1) /\ r[j] = p[n][a] /\ a # i
    BY <1>2
  <2>2. PICK b \in DOMAIN p[n] : b = (IF l < i THEN l ELSE l + 1) /\ r[l] = p[n][b] /\ b # i
    BY <1>2
  <2>3. a = b
    BY <1>12, <2>1, <2>2
  <2>4. j \in Nat /\ l \in Nat
    BY <1>4
  <2> QED
    BY <1>4, <2>1, <2>2, <2>3, <2>4
<1>6. \A m \in Notebook : \A j \in DOMAIN q[m] :
          \E k \in DOMAIN p[m] : q[m][j] = p[m][k] /\ ~(m = n /\ k = i)
  BY <1>2, <1>3
<1>7. OneTabEach(q)
  <2> SUFFICES ASSUME NEW m \in Notebook, NEW l \in Notebook, NEW a \in DOMAIN q[m], NEW b \in DOMAIN q[l],
                      q[m][a] = q[l][b]
               PROVE  m = l /\ a = b
    BY <1>3 DEF OneTabEach
  <2>1. PICK k \in DOMAIN p[m] : q[m][a] = p[m][k]
    BY <1>6
  <2>2. PICK h \in DOMAIN p[l] : q[l][b] = p[l][h]
    BY <1>6
  <2>3. m = l
    <3>1. p[m][k] = p[l][h]
      BY <2>1, <2>2
    <3> QED
      BY <3>1 DEF OneTabEach
  <2>4. CASE m = n
    BY <1>3, <1>5, <2>3, <2>4
  <2>5. CASE m # n
    BY <1>3, <2>3, <2>5 DEF OneTabEach
  <2> QED
    BY <2>3, <2>4, <2>5
<1>8. ASSUME NEW x \in OpenIn(q) PROVE x \in OpenIn(p) /\ x # p[n][i]
  <2>1. PICK m \in Notebook : \E j \in DOMAIN q[m] : q[m][j] = x
    BY <1>7, <1>8, TabsAreOpen
  <2>2. PICK k \in DOMAIN p[m] : x = p[m][k] /\ ~(m = n /\ k = i)
    BY <1>6, <2>1
  <2>3. x # p[n][i]
    BY <2>2 DEF OneTabEach
  <2> QED
    BY <2>2, <2>3, TabsAreOpen
<1>9. ASSUME NEW x \in OpenIn(p), x # p[n][i] PROVE x \in OpenIn(q)
  <2>1. PICK m \in Notebook : \E k \in DOMAIN p[m] : p[m][k] = x
    BY <1>9, TabsAreOpen
  <2>2. PICK k \in DOMAIN p[m] : p[m][k] = x
    BY <2>1
  <2>3. \E j \in DOMAIN q[m] : q[m][j] = x
    <3>1. CASE m = n
      BY <1>2, <1>3, <1>9, <2>2, <3>1
    <3>2. CASE m # n
      BY <1>3, <2>2, <3>2
    <3> QED
      BY <3>1, <3>2
  <2> QED
    BY <1>7, <2>3, TabsAreOpen
<1>10. OpenIn(q) = OpenIn(p) \ {p[n][i]}
  BY <1>8, <1>9
<1>11. \A m \in Notebook : Range(q[m]) \subseteq Range(p[m])
  BY <1>6 DEF Range
<1> QED
  BY <1>7, <1>10, <1>11 DEF q

MovedTab(p, n, m, i) == [p EXCEPT ![n] = RemoveAt(@, i), ![m] = Append(@, p[n][i])]

LEMMA TabMoved ==
    ASSUME NEW p, OneTabEach(p), NEW n \in Notebook, NEW m \in Notebook, n # m, NEW i \in DOMAIN p[n]
    PROVE  OneTabEach(MovedTab(p, n, m, i)) /\ OpenIn(MovedTab(p, n, m, i)) = OpenIn(p)
<1> DEFINE c == p[n][i]
           r == WithoutTab(p, n, i)
           q == MovedTab(p, n, m, i)
<1>1. OneTabEach(r) /\ OpenIn(r) = OpenIn(p) \ {c}
  BY TabRemoved
<1>2. c \in OpenIn(p) /\ c \in Control
  BY TabsAreOpen
<1>3. p \in [Notebook -> Seq(Control)]
  BY DEF OneTabEach
<1>4. q = [r EXCEPT ![m] = Append(@, c)]
  BY <1>3 DEF MovedTab, WithoutTab
<1> HIDE DEF c, r
<1>5. OneTabEach([r EXCEPT ![m] = Append(@, c)]) /\ OpenIn([r EXCEPT ![m] = Append(@, c)]) = OpenIn(r) \cup {c}
  BY <1>1, <1>2, TabAdded
<1> QED
  BY <1>1, <1>2, <1>4, <1>5

-----------------------------------------------------------------------------
(***************************************************************************)
(* The editor: texts and files, and what saving makes of them.             *)
(***************************************************************************)

PageControl == [file : PageFiles \cup {NoFile}, text : Text, modified : BOOLEAN]
DialogAnswer == [path : PageFiles \cup {NoFile}, fails : BOOLEAN]

DocsType ==
    [control : [Control -> PageControl], file : [PageFiles -> Text],
     elsewhere : SUBSET Control, named : SUBSET Control]

\* A page that shows a file has its text, or it is known why it has not.
ShowsItsFile(d, c) ==
    d.control[c].file # NoFile /\ ~d.control[c].modified /\ c \notin d.elsewhere
        => d.control[c].text = d.file[d.control[c].file]

\* What saving may make of the pages.
SavedDocs ==
    {d \in DocsType :
        /\ \A c \in Open : ShowsItsFile(d, c)
        /\ \A c \in Control : /\ d.control[c].text = control[c].text
                              /\ d.control[c].modified => control[c].modified}

LEMMA OpenPages ==
    ASSUME OneTabEach(pages)
    PROVE  Open = OpenIn(pages) /\ Open \subseteq Control
<1>1. Open = OpenIn(pages)
  BY DEF Open, OpenIn
<1> QED
  BY <1>1, TabsAreOpen

LEMMA WrittenKeeps ==
    ASSUME OneTabEach(pages), NEW d \in SavedDocs, NEW c \in Open, NEW f \in PageFiles
    PROVE  Written(d, c, f) \in SavedDocs /\ Written(d, c, f).file[f] = control[c].text
<1> DEFINE w == Written(d, c, f)
           r == [d.control[c] EXCEPT !.file = f, !.modified = FALSE]
<1>10. Open \subseteq Control /\ c \in Control
  BY OpenPages
<1>1. /\ d \in DocsType /\ d.control \in [Control -> PageControl] /\ d.file \in [PageFiles -> Text]
      /\ d.elsewhere \subseteq Control /\ d.named \subseteq Control
  BY DEF SavedDocs, DocsType
<1>2. d.control[c] \in PageControl
  BY <1>1, <1>10
<1>3. r \in PageControl /\ r.file = f /\ r.modified = FALSE /\ r.text = d.control[c].text
  BY <1>2 DEF PageControl
<1>4. [d.control EXCEPT ![c].file = f, ![c].modified = FALSE] = [d.control EXCEPT ![c] = r]
  BY <1>1
<1> HIDE DEF r
<1>5. /\ w.control = [d.control EXCEPT ![c] = r]
      /\ w.file = [d.file EXCEPT ![f] = d.control[c].text]
      /\ w.elsewhere = (d.elsewhere \ {c}) \cup Sharing(d, c, f)
      /\ w.named = IF d.control[c].file = f THEN d.named ELSE d.named \cup {c}
      /\ w = [control |-> w.control, file |-> w.file, elsewhere |-> w.elsewhere, named |-> w.named]
  BY <1>4 DEF Written, Titled
<1> HIDE DEF w
<1>6. w.control \in [Control -> PageControl] /\ w.control[c] = r
      /\ \A x \in Control \ {c} : w.control[x] = d.control[x]
  BY <1>1, <1>3, <1>5, <1>10
<1>7. d.control[c].text \in Text
  BY <1>2 DEF PageControl
<1>8. w.file \in [PageFiles -> Text] /\ w.file[f] = d.control[c].text
      /\ \A g \in PageFiles \ {f} : w.file[g] = d.file[g]
  BY <1>1, <1>5, <1>7
<1>9. w \in DocsType
  <2>1. w.elsewhere \subseteq Control
    BY <1>1, <1>5, <1>10 DEF Sharing
  <2>2. w.named \subseteq Control
    BY <1>1, <1>5, <1>10
  <2> QED
    BY <1>5, <1>6, <1>8, <2>1, <2>2 DEF DocsType
<1>11. \A x \in Control : /\ w.control[x].text = control[x].text
                          /\ w.control[x].modified => control[x].modified
  BY <1>3, <1>6 DEF SavedDocs
<1>12. ASSUME NEW x \in Open PROVE ShowsItsFile(w, x)
  <2>1. CASE x = c
    BY <1>3, <1>6, <1>8, <2>1 DEF ShowsItsFile
  <2>2. CASE x # c
    <3>1. w.control[x] = d.control[x]
      BY <1>6, <1>10, <2>2
    <3>2. CASE d.control[x].file = f
      BY <1>5, <2>2, <3>1, <3>2 DEF Sharing, ShowsItsFile
    <3>3. CASE d.control[x].file # f
      <4>1. x \notin w.elsewhere => x \notin d.elsewhere
        BY <1>5, <2>2
      <4>2. d.control[x].file # NoFile => d.control[x].file \in PageFiles
        BY <1>1, <1>10 DEF PageControl
      <4>3. d.control[x].file # NoFile => w.file[d.control[x].file] = d.file[d.control[x].file]
        BY <1>8, <3>3, <4>2
      <4>4. ShowsItsFile(d, x)
        BY DEF SavedDocs
      <4> QED
        BY <3>1, <4>1, <4>3, <4>4 DEF ShowsItsFile
    <3> QED
      BY <3>2, <3>3
  <2> QED
    BY <2>1, <2>2
<1>13. d.control[c].text = control[c].text
  BY <1>10 DEF SavedDocs
<1>14. w \in SavedDocs
  BY <1>9, <1>11, <1>12 DEF SavedDocs
<1> QED
  BY <1>8, <1>13, <1>14 DEF w

LEMMA NamedKeeps ==
    ASSUME OneTabEach(pages), NEW d \in SavedDocs, NEW c \in Open, NEW f \in PageFiles
    PROVE  Named(d, c, f) \in SavedDocs
<1> DEFINE w == Named(d, c, f)
           r == [d.control[c] EXCEPT !.file = f, !.modified = FALSE]
<1>1. Open \subseteq Control /\ c \in Control
  BY OpenPages
<1>2. /\ d \in DocsType /\ d.control \in [Control -> PageControl] /\ d.file \in [PageFiles -> Text]
      /\ d.elsewhere \subseteq Control /\ d.named \subseteq Control
      /\ d = [control |-> d.control, file |-> d.file, elsewhere |-> d.elsewhere, named |-> d.named]
  BY DEF SavedDocs, DocsType
<1>3. d.control[c] \in PageControl
  BY <1>1, <1>2
<1>4. r \in PageControl /\ r.file = f /\ r.modified = FALSE /\ r.text = d.control[c].text
  BY <1>3 DEF PageControl
<1>12. [d.control EXCEPT ![c].file = f, ![c].modified = FALSE] = [d.control EXCEPT ![c] = r]
  BY <1>2
<1>5. w = [d EXCEPT !.control = [d.control EXCEPT ![c] = r],
                    !.elsewhere = d.elsewhere \cup {c}, !.named = d.named \cup {c}]
  BY <1>2, <1>12 DEF Named, Titled
<1> HIDE DEF r, w
<1>6. w = [control |-> [d.control EXCEPT ![c] = r], file |-> d.file,
           elsewhere |-> d.elsewhere \cup {c}, named |-> d.named \cup {c}]
  BY <1>2, <1>5
<1>7. w.control \in [Control -> PageControl] /\ w.control[c] = r
      /\ \A x \in Control \ {c} : w.control[x] = d.control[x]
  BY <1>1, <1>2, <1>4, <1>6
<1>8. w \in DocsType
  BY <1>1, <1>2, <1>6, <1>7 DEF DocsType
<1>9. \A x \in Control : /\ w.control[x].text = control[x].text
                         /\ w.control[x].modified => control[x].modified
  BY <1>4, <1>7 DEF SavedDocs
<1>10. ASSUME NEW x \in Open PROVE ShowsItsFile(w, x)
  <2>1. CASE x = c
    BY <1>6, <2>1 DEF ShowsItsFile
  <2>2. CASE x # c
    <3>1. w.control[x] = d.control[x] /\ w.file = d.file
      BY <1>1, <1>6, <1>7, <2>2
    <3>2. x \notin w.elsewhere => x \notin d.elsewhere
      BY <1>6
    <3>3. ShowsItsFile(d, x)
      BY DEF SavedDocs
    <3> QED
      BY <3>1, <3>2, <3>3 DEF ShowsItsFile
  <2> QED
    BY <2>1, <2>2
<1>11. w \in SavedDocs
  BY <1>8, <1>9, <1>10 DEF SavedDocs
<1> QED
  BY <1>11 DEF w

\* Whatever becomes of saving a page, and what is written is its text.
LEMMA SavePageKeeps ==
    ASSUME OneTabEach(pages), NEW d \in SavedDocs, NEW c \in Open, NEW o \in DialogAnswer
    PROVE  /\ SavePage(d, c, o) \in SavedDocs
           /\ Saved(d, c, o) /\ ~o.fails =>
                 \E f \in PageFiles : SavePage(d, c, o).file[f] = control[c].text
<1> DEFINE f == d.control[c].file
<1>1. f \in PageFiles \cup {NoFile}
  BY OpenPages DEF SavedDocs, DocsType, PageControl
<1>2. o.path \in PageFiles \cup {NoFile} /\ o.fails \in BOOLEAN
  BY DEF DialogAnswer
<1>3. CASE f # NoFile /\ o.fails
  BY <1>3 DEF SavePage, SaveAndTrackFile
<1>4. CASE f # NoFile /\ ~o.fails
  <2>1. SavePage(d, c, o) = Written(d, c, f) /\ f \in PageFiles
    BY <1>1, <1>4 DEF SavePage, SaveAndTrackFile
  <2> QED
    BY <2>1, WrittenKeeps
<1>5. CASE f = NoFile /\ o.path = NoFile
  BY <1>5 DEF SavePage, SaveAndTrackFile, Saved
<1>6. CASE f = NoFile /\ o.path # NoFile /\ o.fails
  <2>1. SavePage(d, c, o) = Named(d, c, o.path) /\ o.path \in PageFiles
    BY <1>2, <1>6 DEF SavePage, SaveAndTrackFile
  <2> QED
    BY <1>6, <2>1, NamedKeeps
<1>7. CASE f = NoFile /\ o.path # NoFile /\ ~o.fails
  <2>1. SavePage(d, c, o) = Written(d, c, o.path) /\ o.path \in PageFiles
    BY <1>2, <1>7 DEF SavePage, SaveAndTrackFile
  <2> QED
    BY <2>1, WrittenKeeps
<1> QED
  BY <1>2, <1>3, <1>4, <1>5, <1>6, <1>7

LEMMA AnswersAreTyped ==
    ASSUME NotebooksAssumption, NEW c
    PROVE  Outcome(c) \subseteq DialogAnswer
<1>1. Fails \subseteq BOOLEAN
  BY DEF NotebooksAssumption, Fails
<1>2. AnyOutcome \in DialogAnswer
  BY DEF AnyOutcome, DialogAnswer
<1> DEFINE P == IF control[c].file = NoFile THEN PageFiles ELSE {NoFile}
<1>3. P \subseteq PageFiles \cup {NoFile}
  OBVIOUS
<1> HIDE DEF P
<1>4. [path : P, fails : Fails] \subseteq DialogAnswer
  BY <1>1, <1>3 DEF DialogAnswer
<1> QED
  BY <1>2, <1>4 DEF Outcome, P

LEMMA AnswersOfPages ==
    ASSUME NotebooksAssumption, NEW cs, NEW os \in OutcomesOf(cs)
    PROVE  \A c \in cs : os[c] \in DialogAnswer
<1>1. \A c \in cs : os[c] \in Outcome(c)
  BY DEF OutcomesOf
<1> QED
  BY <1>1, AnswersAreTyped

\* The pages of a notebook, one after the other.
LEMMA SaveTabsKeeps ==
    ASSUME OneTabEach(pages), NEW d \in SavedDocs, NEW n \in Notebook, NEW cs, NEW os,
           \A c \in cs : os[c] \in DialogAnswer
    PROVE  SaveTabs(d, n, cs, os) \in SavedDocs
<1> DEFINE L == Len(pages[n])
           E(a) == a = [i \in 0 .. L |->
                          IF i = 0 THEN d
                          ELSE IF pages[n][i] \in cs THEN SavePage(a[i - 1], pages[n][i], os[pages[n][i]])
                          ELSE a[i - 1]]
           after == CHOOSE a : E(a)
           G == [p \in (1 .. L) \X SavedDocs |->
                   IF pages[n][p[1]] \in cs THEN SavePage(p[2], pages[n][p[1]], os[pages[n][p[1]]]) ELSE p[2]]
<1>1. L \in Nat /\ DOMAIN pages[n] = 1 .. L
  BY LenProperties DEF OneTabEach
<1> HIDE DEF L
<1>2. \A i \in 1 .. L : pages[n][i] \in Open
  BY <1>1, OpenPages, TabsAreOpen
<1>3. \A i \in 1 .. L, x \in SavedDocs :
          (IF pages[n][i] \in cs THEN SavePage(x, pages[n][i], os[pages[n][i]]) ELSE x) \in SavedDocs
  BY <1>2, SavePageKeeps
<1>4. G \in [(1 .. L) \X SavedDocs -> SavedDocs]
  BY <1>3
<1>5. \A i \in 1 .. L, x \in SavedDocs :
          G[<<i, x>>] = IF pages[n][i] \in cs THEN SavePage(x, pages[n][i], os[pages[n][i]]) ELSE x
  OBVIOUS
<1> HIDE DEF G
<1>14. \E f : IsLoop(f, SavedDocs, L, d, G)
  BY <1>1, <1>4, LoopExists
<1>6. PICK f \in [0 .. L -> SavedDocs] : f[0] = d /\ \A i \in 1 .. L : f[i] = G[<<i, f[i - 1]>>]
  BY <1>14 DEF IsLoop
<1>7. E(f)
  <2> DEFINE g == [i \in 0 .. L |->
                     IF i = 0 THEN d
                     ELSE IF pages[n][i] \in cs THEN SavePage(f[i - 1], pages[n][i], os[pages[n][i]])
                     ELSE f[i - 1]]
  <2>1. \A i \in 0 .. L : i # 0 => i \in 1 .. L /\ i - 1 \in 0 .. L
    BY <1>1
  <2>2. ASSUME NEW i \in 0 .. L PROVE f[i] = g[i]
    <3>1. CASE i = 0
      BY <1>6, <3>1
    <3>2. CASE i # 0
      <4>1. i \in 1 .. L /\ f[i - 1] \in SavedDocs /\ f[i] = G[<<i, f[i - 1]>>]
        BY <1>6, <2>1, <3>2
      <4>2. G[<<i, f[i - 1]>>] = IF pages[n][i] \in cs THEN SavePage(f[i - 1], pages[n][i], os[pages[n][i]])
                                 ELSE f[i - 1]
        BY <1>5, <4>1
      <4> QED
        BY <3>2, <4>1, <4>2
    <3> QED
      BY <3>1, <3>2
  <2>3. f = g
    BY <2>2
  <2> QED
    BY <2>3
<1>8. E(after)
  <2> HIDE DEF E
  <2> QED
    BY <1>7
<1> HIDE DEF after
<1>9. after[0] = d /\ \A i \in 1 .. L :
          after[i] = IF pages[n][i] \in cs THEN SavePage(after[i - 1], pages[n][i], os[pages[n][i]])
                     ELSE after[i - 1]
  <2>1. 0 \in 0 .. L /\ \A i \in 1 .. L : i \in 0 .. L /\ i # 0
    BY <1>1
  <2> QED
    BY <1>8, <2>1
<1>10. \A i \in 1 .. L : after[i - 1] \in SavedDocs => after[i] \in SavedDocs
  BY <1>3, <1>9
<1>11. \A i \in 0 .. L : after[i] \in SavedDocs
  BY <1>1, <1>9, <1>10, LoopKeeps
<1>12. after[L] \in SavedDocs
  BY <1>1, <1>11
<1>13. SaveTabs(d, n, cs, os) = after[L]
  BY DEF SaveTabs, after, E, L
<1> QED
  BY <1>12, <1>13

\* The notebooks, one after the other.
LEMMA SavePagesKeeps ==
    ASSUME NotebooksAssumption, OneTabEach(pages), NEW d \in SavedDocs, NEW cs, NEW os,
           \A c \in cs : os[c] \in DialogAnswer
    PROVE  SavePages(d, cs, os) \in SavedDocs
<1> DEFINE E(a) == a = [n \in 0 .. MaxNotebooks |-> IF n = 0 THEN d ELSE SaveTabs(a[n - 1], n, cs, os)]
           after == CHOOSE a : E(a)
           G == [p \in (1 .. MaxNotebooks) \X SavedDocs |-> SaveTabs(p[2], p[1], cs, os)]
<1>1. MaxNotebooks \in Nat
  BY DEF NotebooksAssumption
<1>2. \A n \in 1 .. MaxNotebooks, x \in SavedDocs : SaveTabs(x, n, cs, os) \in SavedDocs
  BY SaveTabsKeeps DEF Notebook
<1>3. G \in [(1 .. MaxNotebooks) \X SavedDocs -> SavedDocs]
  BY <1>2
<1>4. \A n \in 1 .. MaxNotebooks, x \in SavedDocs : G[<<n, x>>] = SaveTabs(x, n, cs, os)
  OBVIOUS
<1> HIDE DEF G
<1>14. \E f : IsLoop(f, SavedDocs, MaxNotebooks, d, G)
  BY <1>1, <1>3, LoopExists
<1>5. PICK f \in [0 .. MaxNotebooks -> SavedDocs] :
           f[0] = d /\ \A n \in 1 .. MaxNotebooks : f[n] = G[<<n, f[n - 1]>>]
  BY <1>14 DEF IsLoop
<1>6. E(f)
  <2> DEFINE g == [n \in 0 .. MaxNotebooks |-> IF n = 0 THEN d ELSE SaveTabs(f[n - 1], n, cs, os)]
  <2>1. \A n \in 0 .. MaxNotebooks : n # 0 => n \in 1 .. MaxNotebooks /\ n - 1 \in 0 .. MaxNotebooks
    BY <1>1
  <2>2. \A n \in 0 .. MaxNotebooks : f[n] = g[n]
    BY <1>4, <1>5, <2>1
  <2>3. f = g
    BY <2>2
  <2> QED
    BY <2>3
<1>7. E(after)
  <2> HIDE DEF E
  <2> QED
    BY <1>6
<1> HIDE DEF after
<1>8. after[0] = d /\ \A n \in 1 .. MaxNotebooks : after[n] = SaveTabs(after[n - 1], n, cs, os)
  <2>1. 0 \in 0 .. MaxNotebooks /\ \A n \in 1 .. MaxNotebooks : n \in 0 .. MaxNotebooks /\ n # 0
    BY <1>1
  <2> QED
    BY <1>7, <2>1
<1>9. \A n \in 1 .. MaxNotebooks : after[n - 1] \in SavedDocs => after[n] \in SavedDocs
  BY <1>2, <1>8
<1>10. \A n \in 0 .. MaxNotebooks : after[n] \in SavedDocs
  BY <1>1, <1>8, <1>9, LoopKeeps
<1>11. after[MaxNotebooks] \in SavedDocs
  BY <1>1, <1>10
<1>12. SavePages(d, cs, os) = after[MaxNotebooks]
  BY DEF SavePages, after, E
<1> QED
  BY <1>11, <1>12

-----------------------------------------------------------------------------
(***************************************************************************)
(* The editor: the invariant.                                              *)
(***************************************************************************)

\* While all pages of a notebook are closed, the user has been asked about every
\* page of it that is still modified.
ClosingPagesWereOffered ==
    \A n \in closingAll :
        pages[n] # << >> /\ \A c \in Range(pages[n]) : IsPageModified(c) => c \in declined

NotebooksInv == NotebooksTypeOK /\ CleanPagesShowTheirFile /\ ClosingPagesWereOffered

\* What TextIsKept says of a step.
TextStaysOrIsSaved ==
    \A c \in Open : c \notin Open' /\ IsPageModified(c)
                        => c \in declined' \/ control[c].text \in Range(pageFile')

LEMMA InvUnfolded ==
    ASSUME NotebooksInv
    PROVE  /\ OneTabEach(pages) /\ Docs \in SavedDocs
           /\ control \in [Control -> PageControl] /\ pageFile \in [PageFiles -> Text]
           /\ elsewhere \subseteq Control /\ named \subseteq Control
           /\ declined \subseteq Control /\ chosen \subseteq Control
<1>1. OneTabEach(pages) /\ control \in [Control -> PageControl] /\ pageFile \in [PageFiles -> Text]
      /\ elsewhere \subseteq Control /\ named \subseteq Control
      /\ declined \subseteq Control /\ chosen \subseteq Control
  BY DEF NotebooksInv, NotebooksTypeOK, OneTabEach, PageControl
<1>2. /\ Docs.control = control /\ Docs.file = pageFile
      /\ Docs.elsewhere = elsewhere /\ Docs.named = named
  BY DEF Docs
<1>3. Docs \in DocsType
  BY <1>1 DEF Docs, DocsType
<1>4. \A c \in Open : ShowsItsFile(Docs, c)
  BY <1>2 DEF NotebooksInv, CleanPagesShowTheirFile, IsPageModified, ShowsItsFile
<1> QED
  BY <1>1, <1>2, <1>3, <1>4 DEF SavedDocs

LEMMA InvFolded ==
    ASSUME OneTabEach(pages'), control' \in [Control -> PageControl], pageFile' \in [PageFiles -> Text],
           edits' \in 0 .. MaxEdits, closingAll' \subseteq Notebook, exiting' \in BOOLEAN,
           elsewhere' \subseteq Control, named' \subseteq Control,
           declined' \subseteq Control, chosen' \subseteq Control,
           CleanPagesShowTheirFile', ClosingPagesWereOffered'
    PROVE  NotebooksInv'
  BY DEF NotebooksInv, NotebooksTypeOK, OneTabEach, PageControl

LEMMA BlankIsAControl ==
    ASSUME NotebooksAssumption
    PROVE  Blank \in PageControl /\ Blank.modified = FALSE /\ Blank.file = NoFile
  BY DEF NotebooksAssumption, Blank, PageControl, Text

\* What the steps that save, and those that close a page, make of the pages.
LEMMA BecomesKeeps ==
    ASSUME NotebooksAssumption, NotebooksInv, NEW d \in SavedDocs, NEW gone \in SUBSET Control,
           BecomesWithout(gone, d), OneTabEach(pages'), OpenIn(pages') = OpenIn(pages) \ gone
    PROVE  /\ control' \in [Control -> PageControl] /\ pageFile' \in [PageFiles -> Text]
           /\ elsewhere' \subseteq Control /\ named' \subseteq Control
           /\ CleanPagesShowTheirFile'
           /\ \A c \in Open' : control'[c].modified => control[c].modified
           /\ pageFile' = d.file
           /\ Open' = Open \ gone
<1>1. /\ d \in DocsType /\ d.control \in [Control -> PageControl] /\ d.file \in [PageFiles -> Text]
      /\ d.elsewhere \subseteq Control /\ d.named \subseteq Control
  BY DEF SavedDocs, DocsType
<1>2. /\ control' = [c \in Control |-> IF c \in gone THEN Blank ELSE d.control[c]]
      /\ pageFile' = d.file /\ elsewhere' = d.elsewhere \ gone /\ named' = d.named \ gone
  BY DEF BecomesWithout
<1>3. control' \in [Control -> PageControl]
  BY <1>1, <1>2, BlankIsAControl
<1>4. Open' = Open \ gone /\ Open' \subseteq Control
  <2>1. Open' = OpenIn(pages')
    BY DEF Open, OpenIn
  <2> QED
    BY <2>1, InvUnfolded, OpenPages
<1>5. \A c \in Open' : control'[c] = d.control[c]
  BY <1>2, <1>4
<1>6. \A c \in Open' : control'[c].modified => control[c].modified
  BY <1>4, <1>5 DEF SavedDocs
<1>7. CleanPagesShowTheirFile'
  <2>1. \A c \in Open' : ShowsItsFile(d, c)
    BY <1>4 DEF SavedDocs
  <2> QED
    BY <1>2, <1>4, <1>5, <2>1 DEF CleanPagesShowTheirFile, IsPageModified, ShowsItsFile
<1> QED
  BY <1>1, <1>2, <1>3, <1>4, <1>6, <1>7

-----------------------------------------------------------------------------
(***************************************************************************)
(* The editor: opening, editing and moving.                                *)
(***************************************************************************)

LEMMA PageIsAdded ==
    ASSUME NotebooksAssumption, NotebooksInv, NEW n \in Notebook, NEW c \in PageControl,
           ~c.modified, c.file # NoFile => c.text = pageFile[c.file], Command, AddPage(n, c)
    PROVE  NotebooksInv' /\ TextStaysOrIsSaved
<1>1. /\ OneTabEach(pages) /\ control \in [Control -> PageControl] /\ pageFile \in [PageFiles -> Text]
      /\ elsewhere \subseteq Control /\ named \subseteq Control /\ chosen \subseteq Control
      /\ Open = OpenIn(pages) /\ Open \subseteq Control
  BY InvUnfolded, OpenPages
<1> DEFINE new == NewControl
<1>2. new \in Control \ Open
  BY <1>1 DEF AddPage, NewControl
<1>3. /\ control' = [control EXCEPT ![new] = c]
      /\ pages' = [pages EXCEPT ![n] = Append(@, new)]
      /\ pageFile' = pageFile /\ edits' = edits /\ closingAll' = closingAll /\ exiting' = exiting
      /\ chosen' = chosen /\ elsewhere' = elsewhere /\ named' = named
      /\ closingAll = {} /\ declined' = {}
  BY DEF AddPage, Command, MayAct
<1> HIDE DEF new
<1>4. OneTabEach(pages') /\ OpenIn(pages') = Open \cup {new}
  <2>1. OneTabEach([pages EXCEPT ![n] = Append(@, new)])
        /\ OpenIn([pages EXCEPT ![n] = Append(@, new)]) = OpenIn(pages) \cup {new}
    BY <1>1, <1>2, TabAdded
  <2> QED
    BY <1>1, <1>3, <2>1
<1>5. Open' = Open \cup {new}
  BY <1>4 DEF Open, OpenIn
<1>6. control' \in [Control -> PageControl] /\ control'[new] = c
      /\ \A x \in Open : control'[x] = control[x]
  BY <1>1, <1>2, <1>3
<1>7. CleanPagesShowTheirFile'
  <2>1. \A x \in Open : control[x].file # NoFile /\ ~control[x].modified /\ x \notin elsewhere
                            => control[x].text = pageFile[control[x].file]
    BY DEF NotebooksInv, CleanPagesShowTheirFile, IsPageModified
  <2> QED
    BY <1>3, <1>5, <1>6, <2>1 DEF CleanPagesShowTheirFile, IsPageModified
<1>8. ClosingPagesWereOffered'
  BY <1>3 DEF ClosingPagesWereOffered
<1>9. edits \in 0 .. MaxEdits /\ closingAll \subseteq Notebook /\ exiting \in BOOLEAN
  BY DEF NotebooksInv, NotebooksTypeOK
<1>10. NotebooksInv'
  BY <1>1, <1>3, <1>4, <1>6, <1>7, <1>8, <1>9, InvFolded
<1>11. TextStaysOrIsSaved
  BY <1>5 DEF TextStaysOrIsSaved
<1> QED
  BY <1>10, <1>11

LEMMA OpeningKeepsInv ==
    ASSUME NotebooksAssumption, NotebooksInv, NEW n \in Notebook,
           AddTriumphPage(n) \/ \E f \in PageFiles : LoadPage(n, f) \/ LoadCodeControl(n, f)
    PROVE  NotebooksInv' /\ TextStaysOrIsSaved
<1>1. CASE AddTriumphPage(n)
  BY <1>1, BlankIsAControl, PageIsAdded DEF AddTriumphPage
<1>2. ASSUME NEW f \in PageFiles, LoadPage(n, f) \/ LoadCodeControl(n, f)
      PROVE  NotebooksInv' /\ TextStaysOrIsSaved
  <2> DEFINE c == [file |-> f, text |-> pageFile[f], modified |-> FALSE]
  <2>1. Command /\ AddPage(n, c)
    BY <1>2 DEF LoadPage, LoadCodeControl, Loads
  <2>2. pageFile[f] \in Text
    BY InvUnfolded
  <2>3. c \in PageControl /\ ~c.modified /\ c.text = pageFile[c.file]
    BY <2>2 DEF PageControl
  <2> HIDE DEF c
  <2> QED
    BY <2>1, <2>3, PageIsAdded
<1> QED
  BY <1>1, <1>2

\* The steps that leave the tabs as they are, or move a page: a step that changes
\* texts and files only has to keep the pages true.
LEMMA TabsStay ==
    ASSUME NotebooksInv, OneTabEach(pages'), OpenIn(pages') = OpenIn(pages),
           control' \in [Control -> PageControl], pageFile' \in [PageFiles -> Text],
           edits' \in 0 .. MaxEdits, elsewhere' \subseteq Control, named' \subseteq Control,
           UNCHANGED exiting, declined' \subseteq Control, chosen' \subseteq Control,
           closingAll' \subseteq Notebook,
           CleanPagesShowTheirFile', ClosingPagesWereOffered'
    PROVE  NotebooksInv' /\ TextStaysOrIsSaved
<1>1. Open' = Open
  BY DEF Open, OpenIn
<1>2. exiting' \in BOOLEAN
  BY DEF NotebooksInv, NotebooksTypeOK
<1>3. NotebooksInv'
  BY <1>2, InvFolded
<1> QED
  BY <1>1, <1>3 DEF TextStaysOrIsSaved

LEMMA ModifyKeepsInv ==
    ASSUME NotebooksAssumption, NotebooksInv, NEW c \in Open, Modify(c)
    PROVE  NotebooksInv' /\ TextStaysOrIsSaved
<1>1. /\ OneTabEach(pages) /\ control \in [Control -> PageControl] /\ pageFile \in [PageFiles -> Text]
      /\ elsewhere \subseteq Control /\ named \subseteq Control /\ chosen \subseteq Control
      /\ Open \subseteq Control /\ c \in Control
  BY InvUnfolded, OpenPages
<1> DEFINE r == [control[c] EXCEPT !.text = edits + 2, !.modified = TRUE]
<1>2. /\ control' = [control EXCEPT ![c] = r]
      /\ edits' = edits + 1 /\ edits < MaxEdits /\ declined' = {} /\ closingAll = {}
      /\ UNCHANGED <<pages, pageFile, closingAll, exiting, chosen, elsewhere, named>>
  BY <1>1 DEF Modify, Command, MayAct
<1>3. MaxEdits \in Nat /\ edits \in 0 .. MaxEdits /\ closingAll \subseteq Notebook
  BY DEF NotebooksAssumption, NotebooksInv, NotebooksTypeOK
<1>4. edits + 2 \in Text /\ edits' \in 0 .. MaxEdits
  BY <1>2, <1>3 DEF Text
<1>5. control[c] \in PageControl
  BY <1>1
<1>6. r \in PageControl /\ r.modified
  BY <1>4, <1>5 DEF PageControl
<1> HIDE DEF r
<1>7. control' \in [Control -> PageControl] /\ control'[c] = r
      /\ \A x \in Open \ {c} : control'[x] = control[x]
  BY <1>1, <1>2, <1>6
<1>8. CleanPagesShowTheirFile'
  <2>1. Open' = Open
    BY <1>2 DEF Open
  <2>2. \A x \in Open : control[x].file # NoFile /\ ~control[x].modified /\ x \notin elsewhere
                            => control[x].text = pageFile[control[x].file]
    BY DEF NotebooksInv, CleanPagesShowTheirFile, IsPageModified
  <2> QED
    BY <1>2, <1>6, <1>7, <2>1, <2>2 DEF CleanPagesShowTheirFile, IsPageModified
<1>9. ClosingPagesWereOffered'
  BY <1>2 DEF ClosingPagesWereOffered
<1> QED
  BY <1>1, <1>2, <1>3, <1>4, <1>7, <1>8, <1>9, TabsStay

LEMMA TreatAsNewKeepsInv ==
    ASSUME NotebooksAssumption, NotebooksInv, NEW c \in Open, TreatAsNew(c)
    PROVE  NotebooksInv' /\ TextStaysOrIsSaved
<1>1. /\ OneTabEach(pages) /\ control \in [Control -> PageControl] /\ pageFile \in [PageFiles -> Text]
      /\ elsewhere \subseteq Control /\ named \subseteq Control /\ chosen \subseteq Control
      /\ Open \subseteq Control /\ c \in Control
  BY InvUnfolded, OpenPages
<1> DEFINE r == [control[c] EXCEPT !.file = NoFile]
           f == control[c].file
<1>2. /\ control' = [control EXCEPT ![c] = r]
      /\ pageFile' = [pageFile EXCEPT ![f] = 0]
      /\ elsewhere' = elsewhere \cup {x \in Open : control[x].file = f}
      /\ f # NoFile /\ declined' = {} /\ closingAll = {}
      /\ UNCHANGED <<pages, edits, closingAll, exiting, chosen, named>>
  BY <1>1 DEF TreatAsNew, Command, MayAct
<1>3. edits \in 0 .. MaxEdits /\ closingAll \subseteq Notebook
  BY DEF NotebooksInv, NotebooksTypeOK
<1>4. control[c] \in PageControl /\ \A x \in Open : control[x].file \in PageFiles \cup {NoFile}
  BY <1>1 DEF PageControl
<1>5. r \in PageControl /\ r.file = NoFile /\ f \in PageFiles
  BY <1>2, <1>4 DEF PageControl
<1>6. 0 \in Text
  BY DEF Text, NotebooksAssumption
<1> HIDE DEF r, f
<1>7. control' \in [Control -> PageControl] /\ control'[c] = r
      /\ \A x \in Open \ {c} : control'[x] = control[x]
  BY <1>1, <1>2, <1>5
<1>8. pageFile' \in [PageFiles -> Text] /\ \A g \in PageFiles \ {f} : pageFile'[g] = pageFile[g]
  BY <1>1, <1>2, <1>5, <1>6
<1>9. elsewhere' \subseteq Control
  BY <1>1, <1>2
<1>10. CleanPagesShowTheirFile'
  <2>1. Open' = Open
    BY <1>2 DEF Open
  <2>2. \A x \in Open : control[x].file # NoFile /\ ~control[x].modified /\ x \notin elsewhere
                            => control[x].text = pageFile[control[x].file]
    BY DEF NotebooksInv, CleanPagesShowTheirFile, IsPageModified
  <2>3. \A x \in Open \ elsewhere' : x \notin elsewhere /\ control[x].file # f
    BY <1>2
  <2>4. \A x \in Open \ elsewhere' : control[x].file # NoFile => pageFile'[control[x].file] = pageFile[control[x].file]
    BY <1>4, <1>8, <2>3
  <2> QED
    BY <1>5, <1>7, <2>1, <2>2, <2>3, <2>4 DEF CleanPagesShowTheirFile, IsPageModified
<1>11. ClosingPagesWereOffered'
  BY <1>2 DEF ClosingPagesWereOffered
<1> QED
  BY <1>1, <1>2, <1>3, <1>7, <1>8, <1>9, <1>10, <1>11, TabsStay

LEMMA AdoptKeepsInv ==
    ASSUME NotebooksAssumption, NotebooksInv, NEW n \in Notebook, NEW m \in Notebook,
           NEW i \in DOMAIN pages[n], Adopt(n, m, i)
    PROVE  NotebooksInv' /\ TextStaysOrIsSaved
<1>1. /\ OneTabEach(pages) /\ control \in [Control -> PageControl] /\ pageFile \in [PageFiles -> Text]
      /\ elsewhere \subseteq Control /\ named \subseteq Control /\ chosen \subseteq Control
  BY InvUnfolded
<1>2. /\ pages' = [pages EXCEPT ![n] = RemoveAt(@, i), ![m] = Append(@, pages[n][i])]
      /\ n # m /\ declined' = {} /\ closingAll = {}
      /\ UNCHANGED <<control, pageFile, elsewhere, named, edits, closingAll, exiting, chosen>>
  BY DEF Adopt, Command, MayAct, docs
<1>3. OneTabEach(pages') /\ OpenIn(pages') = OpenIn(pages)
  <2>1. n # m /\ OneTabEach(pages)
    BY <1>1, <1>2
  <2>2. OneTabEach(MovedTab(pages, n, m, i)) /\ OpenIn(MovedTab(pages, n, m, i)) = OpenIn(pages)
    BY <2>1, TabMoved
  <2>3. pages' = MovedTab(pages, n, m, i)
    BY <1>2 DEF MovedTab
  <2> QED
    BY <2>2, <2>3
<1>4. Open' = Open
  BY <1>3 DEF Open, OpenIn
<1>5. CleanPagesShowTheirFile'
  BY <1>2, <1>4 DEF NotebooksInv, CleanPagesShowTheirFile, IsPageModified
<1>6. ClosingPagesWereOffered'
  BY <1>2 DEF ClosingPagesWereOffered
<1>7. edits \in 0 .. MaxEdits /\ closingAll \subseteq Notebook
  BY DEF NotebooksInv, NotebooksTypeOK
<1> QED
  BY <1>1, <1>2, <1>3, <1>5, <1>6, <1>7, TabsStay

LEMMA SaveCurrentPageAsNewKeepsInv ==
    ASSUME NotebooksAssumption, NotebooksInv, NEW c \in Open, SaveCurrentPageAsNew(c)
    PROVE  NotebooksInv' /\ TextStaysOrIsSaved
<1>1. /\ OneTabEach(pages) /\ control \in [Control -> PageControl] /\ pageFile \in [PageFiles -> Text]
      /\ elsewhere \subseteq Control /\ named \subseteq Control /\ chosen \subseteq Control
      /\ Open \subseteq Control /\ c \in Control
  BY InvUnfolded, OpenPages
<1>2. PICK f \in PageFiles : /\ pageFile' = [pageFile EXCEPT ![f] = control[c].text]
                             /\ elsewhere' = elsewhere \cup {o \in Open : control[o].file = f}
  BY DEF SaveCurrentPageAsNew
<1>3. /\ declined' = {} /\ closingAll = {}
      /\ UNCHANGED <<pages, control, edits, closingAll, exiting, chosen, named>>
  BY DEF SaveCurrentPageAsNew, Command, MayAct
<1>4. control[c].text \in Text /\ \A x \in Open : control[x].file \in PageFiles \cup {NoFile}
  BY <1>1 DEF PageControl
<1>5. pageFile' \in [PageFiles -> Text] /\ \A g \in PageFiles \ {f} : pageFile'[g] = pageFile[g]
  BY <1>1, <1>2, <1>4
<1>6. CleanPagesShowTheirFile'
  <2>1. Open' = Open
    BY <1>3 DEF Open
  <2>2. \A x \in Open : control[x].file # NoFile /\ ~control[x].modified /\ x \notin elsewhere
                            => control[x].text = pageFile[control[x].file]
    BY DEF NotebooksInv, CleanPagesShowTheirFile, IsPageModified
  <2>3. \A x \in Open \ elsewhere' : x \notin elsewhere /\ control[x].file # f
    BY <1>2
  <2>4. \A x \in Open \ elsewhere' : control[x].file # NoFile => pageFile'[control[x].file] = pageFile[control[x].file]
    BY <1>4, <1>5, <2>3
  <2> QED
    BY <1>3, <2>1, <2>2, <2>3, <2>4 DEF CleanPagesShowTheirFile, IsPageModified
<1>7. ClosingPagesWereOffered'
  BY <1>3 DEF ClosingPagesWereOffered
<1>8. edits \in 0 .. MaxEdits /\ closingAll \subseteq Notebook /\ elsewhere' \subseteq Control
  BY <1>1, <1>2 DEF NotebooksInv, NotebooksTypeOK
<1> QED
  BY <1>1, <1>3, <1>5, <1>6, <1>7, <1>8, TabsStay

-----------------------------------------------------------------------------
(***************************************************************************)
(* The editor: saving.                                                     *)
(***************************************************************************)

\* The pages are saved, and none is closed.
LEMMA SavingStays ==
    ASSUME NotebooksAssumption, NotebooksInv, NEW d \in SavedDocs, Becomes(d),
           UNCHANGED <<pages, edits>>, UNCHANGED exiting, chosen' \subseteq Control, declined' \subseteq Control,
           closingAll' \subseteq Notebook, ClosingPagesWereOffered'
    PROVE  NotebooksInv' /\ TextStaysOrIsSaved
<1>1. OneTabEach(pages') /\ OpenIn(pages') = OpenIn(pages)
  BY InvUnfolded
<1>2. BecomesWithout({}, d) /\ {} \in SUBSET Control /\ OpenIn(pages') = OpenIn(pages) \ {}
  BY <1>1 DEF Becomes
<1>3. /\ control' \in [Control -> PageControl] /\ pageFile' \in [PageFiles -> Text]
      /\ elsewhere' \subseteq Control /\ named' \subseteq Control /\ CleanPagesShowTheirFile'
  BY <1>1, <1>2, BecomesKeeps
<1>4. edits' \in 0 .. MaxEdits
  BY DEF NotebooksInv, NotebooksTypeOK
<1> QED
  BY <1>1, <1>3, <1>4, TabsStay

LEMMA SaveCurrentPageKeepsInv ==
    ASSUME NotebooksAssumption, NotebooksInv, NEW c \in Open, SaveCurrentPage(c)
    PROVE  NotebooksInv' /\ TextStaysOrIsSaved
<1>1. OneTabEach(pages) /\ Docs \in SavedDocs /\ chosen \subseteq Control
  BY InvUnfolded
<1>2. PICK o \in Outcome(c) : Becomes(SavePage(Docs, c, o))
  BY DEF SaveCurrentPage
<1>3. o \in DialogAnswer
  BY <1>2, AnswersAreTyped
<1>4. SavePage(Docs, c, o) \in SavedDocs
  BY <1>1, <1>3, SavePageKeeps
<1>5. declined' = {} /\ closingAll = {} /\ UNCHANGED <<pages, edits, closingAll, exiting, chosen>>
  BY DEF SaveCurrentPage, Command, MayAct
<1>6. ClosingPagesWereOffered' /\ closingAll' \subseteq Notebook
  BY <1>5 DEF ClosingPagesWereOffered
<1> QED
  BY <1>1, <1>2, <1>4, <1>5, <1>6, SavingStays

LEMMA SaveAllWithoutPromptingKeepsInv ==
    ASSUME NotebooksAssumption, NotebooksInv, NEW n \in Notebook, SaveAllModifiedPagesWithoutPrompting(n)
    PROVE  NotebooksInv' /\ TextStaysOrIsSaved
<1>1. OneTabEach(pages) /\ Docs \in SavedDocs /\ chosen \subseteq Control
  BY InvUnfolded
<1>2. PICK os \in OutcomesOf(ModifiedPages(n)) : Becomes(SavePages(Docs, ModifiedPages(n), os))
  BY DEF SaveAllModifiedPagesWithoutPrompting
<1>3. \A c \in ModifiedPages(n) : os[c] \in DialogAnswer
  BY <1>2, AnswersOfPages
<1>4. SavePages(Docs, ModifiedPages(n), os) \in SavedDocs
  BY <1>1, <1>3, SavePagesKeeps
<1>5. declined' = {} /\ closingAll = {} /\ UNCHANGED <<pages, edits, closingAll, exiting, chosen>>
  BY DEF SaveAllModifiedPagesWithoutPrompting, Command, MayAct
<1>6. ClosingPagesWereOffered' /\ closingAll' \subseteq Notebook
  BY <1>5 DEF ClosingPagesWereOffered
<1> QED
  BY <1>1, <1>2, <1>4, <1>5, <1>6, SavingStays

\* What becomes of the pages in the dialogs that offer to save them.
LEMMA OfferedPagesAreSaved ==
    ASSUME NotebooksAssumption, NotebooksInv, NEW offered, NEW saves, SaveAllModifiedPages(offered, saves)
    PROVE  declined' = offered /\ \E d \in SavedDocs : Becomes(d)
<1>1. OneTabEach(pages) /\ Docs \in SavedDocs
  BY InvUnfolded
<1>2. PICK os \in OutcomesOf(saves) : Becomes(SavePages(Docs, saves, os))
  BY DEF SaveAllModifiedPages
<1>3. \A c \in saves : os[c] \in DialogAnswer
  BY <1>2, AnswersOfPages
<1>4. SavePages(Docs, saves, os) \in SavedDocs
  BY <1>1, <1>3, SavePagesKeeps
<1> QED
  BY <1>2, <1>4 DEF SaveAllModifiedPages

LEMMA ModifiedPagesAreOpen ==
    ASSUME NotebooksInv
    PROVE  /\ \A n \in Notebook : ModifiedPages(n) \subseteq Open
           /\ AllModifiedPages \subseteq Open
           /\ Open \subseteq Control
<1>1. Open \subseteq Control
  BY InvUnfolded, OpenPages
<1> QED
  BY <1>1 DEF ModifiedPages, AllModifiedPages, Open

LEMMA OnAppFrameCloseKeepsInv ==
    ASSUME NotebooksAssumption, NotebooksInv, OnAppFrameClose
    PROVE  NotebooksInv' /\ TextStaysOrIsSaved
<1>1. PICK picked \in SUBSET AllModifiedPages :
           SaveAllModifiedPages(AllModifiedPages, SavedAtExit(picked)) /\ chosen' = picked
  BY DEF OnAppFrameClose
<1>2. PICK d \in SavedDocs : Becomes(d)
  BY <1>1, OfferedPagesAreSaved
<1>3. declined' = AllModifiedPages /\ AllModifiedPages \subseteq Control
  BY <1>1, OfferedPagesAreSaved, ModifiedPagesAreOpen
<1>4. closingAll = {} /\ exiting' = TRUE /\ UNCHANGED <<pages, edits, closingAll>>
  BY DEF OnAppFrameClose, MayAct
<1>5. OneTabEach(pages') /\ OpenIn(pages') = OpenIn(pages)
  BY <1>4, InvUnfolded
<1>6. BecomesWithout({}, d) /\ {} \in SUBSET Control /\ OpenIn(pages') = OpenIn(pages) \ {}
  BY <1>2, <1>5 DEF Becomes
<1>7. /\ control' \in [Control -> PageControl] /\ pageFile' \in [PageFiles -> Text]
      /\ elsewhere' \subseteq Control /\ named' \subseteq Control /\ CleanPagesShowTheirFile'
      /\ Open' = Open \ {}
  BY <1>5, <1>6, BecomesKeeps
<1>8. edits' \in 0 .. MaxEdits /\ exiting' \in BOOLEAN /\ closingAll' \subseteq Notebook
  BY <1>4 DEF NotebooksInv, NotebooksTypeOK
<1>9. ClosingPagesWereOffered'
  BY <1>4 DEF ClosingPagesWereOffered
<1>10. NotebooksInv'
  BY <1>1, <1>3, <1>5, <1>7, <1>8, <1>9, InvFolded
<1> QED
  BY <1>7, <1>10 DEF TextStaysOrIsSaved

LEMMA OnCloseAllPagesKeepsInv ==
    ASSUME NotebooksAssumption, NotebooksInv, NEW n \in Notebook, OnCloseAllPages(n)
    PROVE  NotebooksInv' /\ TextStaysOrIsSaved
<1>1. PICK picked \in SUBSET ModifiedPages(n) : SaveAllModifiedPages(ModifiedPages(n), picked)
  BY DEF OnCloseAllPages
<1>2. PICK d \in SavedDocs : Becomes(d)
  BY <1>1, OfferedPagesAreSaved
<1>3. declined' = ModifiedPages(n) /\ ModifiedPages(n) \subseteq Control
  BY <1>1, OfferedPagesAreSaved, ModifiedPagesAreOpen
<1>4. /\ closingAll' = {n} /\ pages[n] # << >>
      /\ UNCHANGED <<pages, edits>> /\ UNCHANGED exiting /\ UNCHANGED chosen
  BY DEF OnCloseAllPages
<1>5. OneTabEach(pages') /\ OpenIn(pages') = OpenIn(pages)
  BY <1>4, InvUnfolded
<1>6. BecomesWithout({}, d) /\ {} \in SUBSET Control /\ OpenIn(pages') = OpenIn(pages) \ {}
  BY <1>2, <1>5 DEF Becomes
<1>7. /\ \A c \in Open' : control'[c].modified => control[c].modified
      /\ Open' = Open \ {}
  BY <1>5, <1>6, BecomesKeeps
<1>8. ClosingPagesWereOffered'
  <2>1. Range(pages[n]) \subseteq Open
    BY DEF Open
  <2>2. \A c \in Range(pages[n]) : control'[c].modified => c \in ModifiedPages(n)
    BY <1>7, <2>1 DEF ModifiedPages, IsPageModified
  <2> QED
    BY <1>3, <1>4, <2>2 DEF ClosingPagesWereOffered, IsPageModified
<1>9. chosen' \subseteq Control /\ closingAll' \subseteq Notebook
  BY <1>4, InvUnfolded
<1> QED
  BY <1>2, <1>3, <1>4, <1>8, <1>9, SavingStays

-----------------------------------------------------------------------------
(***************************************************************************)
(* The editor: closing.                                                    *)
(***************************************************************************)

\* What becomes of a page about which the user was asked.
LEMMA AnsweredKeeps ==
    ASSUME NotebooksAssumption, NotebooksInv, NEW c \in Open, NEW answer \in Answers(c),
           NEW o \in Outcome(c), Asked(c, answer, o)
    PROVE  /\ Answered(c, answer, o) \in SavedDocs
           /\ declined \subseteq declined' /\ declined' \subseteq Control
           /\ IsPageModified(c) /\ answer # "cancel" =>
                 \/ c \in declined'
                 \/ control[c].text \in Range(Answered(c, answer, o).file)
<1>1. OneTabEach(pages) /\ Docs \in SavedDocs /\ declined \subseteq Control /\ Open \subseteq Control
  BY InvUnfolded, OpenPages
<1>2. o \in DialogAnswer
  BY AnswersAreTyped
<1>3. Answered(c, answer, o) \in SavedDocs
  BY <1>1, <1>2, SavePageKeeps DEF Answered
<1>4. declined \subseteq declined' /\ declined' \subseteq Control
  BY <1>1 DEF Asked
<1>5. ASSUME IsPageModified(c), answer # "cancel", c \notin declined'
      PROVE  control[c].text \in Range(Answered(c, answer, o).file)
  <2>1. answer \in {"no", "yes"}
    BY <1>5 DEF Answers
  <2>2. ~GivenUp(c, answer, o)
    BY <1>5 DEF Asked
  <2>3. answer = "yes" /\ Saved(Docs, c, o) /\ ~o.fails
    BY <2>1, <2>2 DEF GivenUp, Failed
  <2>4. Answered(c, answer, o) = SavePage(Docs, c, o)
    BY <2>3 DEF Answered
  <2>5. PICK f \in PageFiles : SavePage(Docs, c, o).file[f] = control[c].text
    BY <1>1, <1>2, <2>3, SavePageKeeps
  <2>6. DOMAIN SavePage(Docs, c, o).file = PageFiles
    BY <1>3, <2>4 DEF SavedDocs, DocsType
  <2> QED
    BY <2>4, <2>5, <2>6 DEF Range
<1> QED
  BY <1>3, <1>4, <1>5

\* The i-th page of a notebook is closed; `asked` is the page that was asked about
\* before, which is another one in CloseAllPages.
LEMMA PageIsClosed ==
    ASSUME NotebooksAssumption, NotebooksInv, NEW n \in Notebook, NEW i \in DOMAIN pages[n],
           NEW d \in SavedDocs, DeletePage(n, i, d), declined' \subseteq Control,
           UNCHANGED <<edits, exiting, chosen>>, closingAll' \subseteq closingAll,
           \A m \in closingAll' : pages'[m] # << >>,
           closingAll' = {} \/ declined \subseteq declined',
           IsPageModified(pages[n][i]) =>
               pages[n][i] \in declined' \/ control[pages[n][i]].text \in Range(d.file)
    PROVE  NotebooksInv' /\ TextStaysOrIsSaved
<1> DEFINE c == pages[n][i]
<1>1. OneTabEach(pages) /\ chosen \subseteq Control /\ c \in Control /\ Open = OpenIn(pages)
  BY InvUnfolded, OpenPages, TabsAreOpen
<1>2. pages' = WithoutTab(pages, n, i) /\ BecomesWithout({c}, d)
  BY DEF DeletePage, WithoutTab
<1>3. /\ OneTabEach(pages') /\ OpenIn(pages') = OpenIn(pages) \ {c}
      /\ \A m \in Notebook : Range(pages'[m]) \subseteq Range(pages[m])
  BY <1>1, <1>2, TabRemoved
<1>4. {c} \in SUBSET Control
  BY <1>1
<1> HIDE DEF c
<1>5. /\ control' \in [Control -> PageControl] /\ pageFile' \in [PageFiles -> Text]
      /\ elsewhere' \subseteq Control /\ named' \subseteq Control /\ CleanPagesShowTheirFile'
      /\ \A x \in Open' : control'[x].modified => control[x].modified
      /\ pageFile' = d.file /\ Open' = Open \ {c}
  BY <1>2, <1>3, <1>4, BecomesKeeps
<1>6. edits' \in 0 .. MaxEdits /\ exiting' \in BOOLEAN /\ chosen' \subseteq Control
      /\ closingAll \subseteq Notebook
  BY <1>1 DEF NotebooksInv, NotebooksTypeOK
<1>7. ClosingPagesWereOffered'
  <2> SUFFICES ASSUME NEW m \in closingAll', NEW x \in Range(pages'[m]), control'[x].modified
               PROVE  x \in declined'
    BY DEF ClosingPagesWereOffered, IsPageModified
  <2>1. m \in closingAll /\ m \in Notebook /\ declined \subseteq declined'
    BY <1>6
  <2>2. x \in Range(pages[m])
    BY <1>3, <2>1
  <2>3. x \in Open'
    BY <2>1 DEF Open
  <2>4. control[x].modified
    BY <1>5, <2>3
  <2> QED
    BY <2>1, <2>2, <2>4 DEF NotebooksInv, ClosingPagesWereOffered, IsPageModified
<1>8. NotebooksInv'
  BY <1>3, <1>5, <1>6, <1>7, InvFolded
<1>9. TextStaysOrIsSaved
  <2>1. IsPageModified(c) => c \in declined' \/ control[c].text \in Range(d.file)
    BY DEF c
  <2> QED
    BY <1>5, <2>1 DEF TextStaysOrIsSaved
<1> QED
  BY <1>8, <1>9

LEMMA ClosePageKeepsInv ==
    ASSUME NotebooksAssumption, NotebooksInv, NEW n \in Notebook, NEW i \in DOMAIN pages[n],
           CloseTab(n, i) \/ ClosePage(n, i)
    PROVE  NotebooksInv' /\ TextStaysOrIsSaved
<1> DEFINE c == pages[n][i]
<1>1. OneTabEach(pages) /\ chosen \subseteq Control /\ c \in Open
  BY InvUnfolded, OpenPages, TabsAreOpen
<1>2. closingAll = {} /\ UNCHANGED <<edits, closingAll, exiting, chosen>>
  BY DEF CloseTab, ClosePage, MayAct
<1>3. PICK answer \in Answers(c), o \in Outcome(c) :
          /\ Asked(c, answer, o)
          /\ \/ Stays(Answered(c, answer, o))
             \/ answer # "cancel" /\ DeletePage(n, i, Answered(c, answer, o))
  BY DEF CloseTab, ClosePage
<1> DEFINE d == Answered(c, answer, o)
<1>4. /\ d \in SavedDocs /\ declined' \subseteq Control
      /\ IsPageModified(c) /\ answer # "cancel" => c \in declined' \/ control[c].text \in Range(d.file)
  BY <1>1, <1>3, AnsweredKeeps
<1>5. CASE Stays(d)
  <2>1. Becomes(d) /\ UNCHANGED <<pages, edits>> /\ UNCHANGED exiting
    BY <1>2, <1>5 DEF Stays
  <2>2. chosen' \subseteq Control /\ closingAll' \subseteq Notebook /\ ClosingPagesWereOffered'
    BY <1>1, <1>2 DEF ClosingPagesWereOffered
  <2> HIDE DEF d
  <2> QED
    BY <1>4, <2>1, <2>2, SavingStays
<1>6. CASE answer # "cancel" /\ DeletePage(n, i, d)
  <2>1. /\ UNCHANGED <<edits, exiting, chosen>> /\ closingAll' = {} /\ closingAll' \subseteq closingAll
        /\ \A m \in closingAll' : pages'[m] # << >>
    BY <1>2
  <2> HIDE DEF d
  <2> QED
    BY <1>4, <1>6, <2>1, PageIsClosed
<1> QED
  BY <1>3, <1>5, <1>6

LEMMA CloseAllPagesKeepsInv ==
    ASSUME NotebooksAssumption, NotebooksInv, NEW n \in Notebook, CloseAllPages(n)
    PROVE  NotebooksInv' /\ TextStaysOrIsSaved
<1>1. OneTabEach(pages) /\ Docs \in SavedDocs /\ declined \subseteq Control
  BY InvUnfolded
<1>2. n \in closingAll /\ UNCHANGED <<edits, exiting, chosen>>
  BY DEF CloseAllPages
<1>3. pages[n] # << >> /\ \A c \in Range(pages[n]) : IsPageModified(c) => c \in declined
  BY <1>2 DEF NotebooksInv, ClosingPagesWereOffered
<1>4. pages[n] \in Seq(Control) /\ Len(pages[n]) \in Nat \ {0} /\ DOMAIN pages[n] = 1 .. Len(pages[n])
  BY <1>1, <1>3, EmptySeq, LenProperties DEF OneTabEach
<1>5. 1 \in DOMAIN pages[n]
  BY <1>4
<1>6. IsPageModified(pages[n][1]) => pages[n][1] \in declined
  BY <1>3, <1>5 DEF Range
<1>7. CASE Len(pages[n]) = 1
  <2>1. DeletePage(n, 1, Docs) /\ closingAll' = {} /\ declined' = declined
    BY <1>7 DEF CloseAllPages
  <2>2. closingAll' \subseteq closingAll /\ \A m \in closingAll' : pages'[m] # << >>
    BY <2>1
  <2>3. IsPageModified(pages[n][1]) => pages[n][1] \in declined'
    BY <1>6, <2>1
  <2> QED
    BY <1>1, <1>2, <1>5, <2>1, <2>2, <2>3, PageIsClosed
<1>8. CASE Len(pages[n]) # 1
  <2> DEFINE c == pages[n][2]
  <2>1. PICK answer \in Answers(c), o \in Outcome(c) :
             Asked(c, answer, o) /\ DeletePage(n, 1, Answered(c, answer, o))
    BY <1>8 DEF CloseAllPages
  <2>2. closingAll' = closingAll
    BY <1>8 DEF CloseAllPages
  <2>3. 2 \in DOMAIN pages[n]
    <3> DEFINE k == Len(pages[n])
    <3>2. k \in Nat /\ k # 0 /\ k # 1
      BY <1>4, <1>8
    <3> HIDE DEF k
    <3>3. 2 \in 1 .. k
      BY <3>2
    <3>1. 2 \in 1 .. Len(pages[n])
      BY <3>3 DEF k
    <3> QED
      BY <1>4, <3>1
  <2>4. c \in Open
    BY <1>1, <2>3, OpenPages, TabsAreOpen
  <2> DEFINE d == Answered(c, answer, o)
  <2>5. d \in SavedDocs /\ declined \subseteq declined' /\ declined' \subseteq Control
    BY <2>1, <2>4, AnsweredKeeps
  <2>6. IsPageModified(pages[n][1]) => pages[n][1] \in declined'
    BY <1>6, <2>5
  <2>7. pages' = [pages EXCEPT ![n] = RemoveAt(@, 1)]
    BY <2>1 DEF DeletePage
  <2>8. \A m \in closingAll' : pages'[m] # << >>
    <3> SUFFICES ASSUME NEW m \in closingAll PROVE pages'[m] # << >>
      BY <2>2
    <3>1. m \in Notebook /\ pages[m] # << >>
      BY DEF NotebooksInv, NotebooksTypeOK, ClosingPagesWereOffered
    <3>2. CASE m # n
      BY <1>1, <2>7, <3>1, <3>2 DEF OneTabEach
    <3>3. CASE m = n
      <4> DEFINE s == pages[n]
      <4>1. s \in Seq(Control) /\ 1 \in DOMAIN s /\ 2 \in DOMAIN s
        BY <1>4, <1>5, <2>3
      <4> HIDE DEF s
      <4>2. /\ RemoveAt(s, 1) \in Seq(Control)
            /\ \A k \in DOMAIN s : k # 1 => \E j \in DOMAIN RemoveAt(s, 1) : RemoveAt(s, 1)[j] = s[k]
        BY <4>1, RemoveAtProperties
      <4>3. DOMAIN RemoveAt(s, 1) # {}
        BY <4>1, <4>2
      <4>4. RemoveAt(s, 1) # << >>
        BY <4>3
      <4>5. pages'[n] = RemoveAt(s, 1)
        BY <1>1, <2>7 DEF OneTabEach, s
      <4> QED
        BY <3>3, <4>4, <4>5
    <3> QED
      BY <3>2, <3>3
  <2>9. DeletePage(n, 1, d)
    BY <2>1
  <2> HIDE DEF d
  <2> QED
    BY <1>2, <1>5, <2>2, <2>5, <2>6, <2>8, <2>9, PageIsClosed
<1> QED
  BY <1>7, <1>8

-----------------------------------------------------------------------------
(***************************************************************************)
(* The editor: the theorems.                                               *)
(***************************************************************************)

-----------------------------------------------------------------------------
(***************************************************************************)
(* The editor: the theorems.                                               *)
(***************************************************************************)

LEMMA NotebooksInitInv ==
    ASSUME NotebooksAssumption, NotebooksInit
    PROVE  NotebooksInv
<1>1. /\ pages = [n \in Notebook |-> << >>] /\ control = [c \in Control |-> Blank]
      /\ pageFile \in [PageFiles -> {0, 1}]
      /\ edits = 0 /\ closingAll = {} /\ exiting = FALSE
      /\ chosen = {} /\ declined = {} /\ elsewhere = {} /\ named = {}
  BY DEF NotebooksInit
<1>2. MaxEdits \in Nat /\ {0, 1} \subseteq Text
  BY DEF NotebooksAssumption, Text
<1>3. control \in [Control -> PageControl]
  BY <1>1, BlankIsAControl
<1>4. pageFile \in [PageFiles -> Text]
  BY <1>1, <1>2
<1>5. \A n \in Notebook : pages[n] = << >> /\ DOMAIN pages[n] = {}
  BY <1>1
<1>6. pages \in [Notebook -> Seq(Control)]
  BY <1>1
<1>7. Open = {}
  BY <1>5 DEF Open, Range
<1>8. NotebooksTypeOK
  <2>1. \A n, m \in Notebook : \A i \in DOMAIN pages[n], j \in DOMAIN pages[m] :
            pages[n][i] = pages[m][j] => n = m /\ i = j
    BY <1>5
  <2>2. edits \in 0 .. MaxEdits
    BY <1>1, <1>2
  <2>3. exiting \in BOOLEAN
    BY <1>1, Zenon
  <2>4. closingAll \subseteq Notebook /\ chosen \cup declined \cup elsewhere \cup named \subseteq Control
    BY <1>1
  <2> QED
    BY <1>3, <1>4, <1>6, <2>1, <2>2, <2>3, <2>4 DEF NotebooksTypeOK, PageControl
<1> QED
  BY <1>1, <1>7, <1>8 DEF NotebooksInv, CleanPagesShowTheirFile, ClosingPagesWereOffered

LEMMA NotebooksStep ==
    ASSUME NotebooksAssumption, NotebooksInv, [NotebooksNext]_notebookVars
    PROVE  NotebooksInv' /\ (TextStaysOrIsSaved \/ UNCHANGED notebookVars)
<1>1. CASE UNCHANGED notebookVars
  <2>1. /\ pages' = pages /\ control' = control /\ pageFile' = pageFile /\ edits' = edits
        /\ closingAll' = closingAll /\ exiting' = exiting /\ chosen' = chosen
        /\ declined' = declined /\ elsewhere' = elsewhere /\ named' = named
    BY <1>1 DEF notebookVars
  <2>2. Open' = Open
    BY <2>1 DEF Open
  <2>3. NotebooksTypeOK'
    BY <2>1 DEF NotebooksInv, NotebooksTypeOK
  <2>4. CleanPagesShowTheirFile'
    BY <2>1, <2>2 DEF NotebooksInv, CleanPagesShowTheirFile, IsPageModified
  <2>5. ClosingPagesWereOffered'
    BY <2>1 DEF NotebooksInv, ClosingPagesWereOffered, IsPageModified
  <2> QED
    BY <1>1, <2>3, <2>4, <2>5 DEF NotebooksInv
<1>2. ASSUME NEW n \in Notebook, AddTriumphPage(n)
      PROVE  NotebooksInv' /\ TextStaysOrIsSaved
  BY <1>2, OpeningKeepsInv
<1>3. ASSUME NEW n \in Notebook, NEW f \in PageFiles, LoadPage(n, f) \/ LoadCodeControl(n, f)
      PROVE  NotebooksInv' /\ TextStaysOrIsSaved
  BY <1>3, OpeningKeepsInv
<1>4. ASSUME NEW n \in Notebook, OnCloseAllPages(n)
      PROVE  NotebooksInv' /\ TextStaysOrIsSaved
  BY <1>4, OnCloseAllPagesKeepsInv
<1>5. ASSUME NEW n \in Notebook, CloseAllPages(n)
      PROVE  NotebooksInv' /\ TextStaysOrIsSaved
  BY <1>5, CloseAllPagesKeepsInv
<1>6. ASSUME NEW n \in Notebook, SaveAllModifiedPagesWithoutPrompting(n)
      PROVE  NotebooksInv' /\ TextStaysOrIsSaved
  BY <1>6, SaveAllWithoutPromptingKeepsInv
<1>7. ASSUME NEW n \in Notebook, NEW m \in Notebook, NEW i \in DOMAIN pages[n], Adopt(n, m, i)
      PROVE  NotebooksInv' /\ TextStaysOrIsSaved
  BY <1>7, AdoptKeepsInv
<1>8. ASSUME NEW n \in Notebook, NEW i \in DOMAIN pages[n], CloseTab(n, i) \/ ClosePage(n, i)
      PROVE  NotebooksInv' /\ TextStaysOrIsSaved
  BY <1>8, ClosePageKeepsInv
<1>9. ASSUME NEW c \in Open,
             Modify(c) \/ TreatAsNew(c) \/ SaveCurrentPage(c) \/ SaveCurrentPageAsNew(c)
      PROVE  NotebooksInv' /\ TextStaysOrIsSaved
  BY <1>9, ModifyKeepsInv, TreatAsNewKeepsInv, SaveCurrentPageKeepsInv, SaveCurrentPageAsNewKeepsInv
<1>10. CASE OnAppFrameClose
  BY <1>10, OnAppFrameCloseKeepsInv
<1> QED
  BY <1>1, <1>2, <1>3, <1>4, <1>5, <1>6, <1>7, <1>8, <1>9, <1>10 DEF NotebooksNext

LEMMA NotebooksInvHolds ==
    NotebooksSpec => []NotebooksInv
<1>1. NotebooksInit => NotebooksInv
  BY NotebooksAssumption, NotebooksInitInv
<1>2. NotebooksInv /\ [NotebooksNext]_notebookVars => NotebooksInv'
  BY NotebooksAssumption, NotebooksStep
<1> QED
  BY <1>1, <1>2, PTL DEF NotebooksSpec

\* Every page has one tab in one notebook, whatever is opened, moved and closed,
\* for any number of files, notebooks, pages and edits (NotebookClass).
THEOREM NotebooksTypeCorrect ==
    NotebooksSpec => []NotebooksTypeOK
<1>1. NotebooksInv => NotebooksTypeOK
  BY DEF NotebooksInv
<1> QED
  BY <1>1, NotebooksInvHolds, PTL

\* A page that does not count as modified shows the text of its file, or the file
\* was written behind its back (CodeControlClass::SaveAndTrackFile).
THEOREM CleanPagesAreTrue ==
    NotebooksSpec => []CleanPagesShowTheirFile
<1>1. NotebooksInv => CleanPagesShowTheirFile
  BY DEF NotebooksInv
<1> QED
  BY <1>1, NotebooksInvHolds, PTL

\* Unsaved text leaves with its page only when the user gave it up or it could not
\* be written (NotebookClass::CloseAllPages, SavePageIfModified).
THEOREM NoTextIsLost ==
    NotebooksSpec => TextIsKept
<1>1. NotebooksInv /\ [NotebooksNext]_notebookVars
          => [TextStaysOrIsSaved]_notebookVars
  BY NotebooksAssumption, NotebooksStep
<1>2. NotebooksSpec => [][TextStaysOrIsSaved]_notebookVars
  BY <1>1, NotebooksInvHolds, PTL DEF NotebooksSpec
<1> QED
  BY <1>2 DEF TextIsKept, TextStaysOrIsSaved

-----------------------------------------------------------------------------
(***************************************************************************)
(* The lists in the config file.                                           *)
(***************************************************************************)

\* The groups with the numbers of the entries that were stored last hold these; the
\* lists whose groups are all removed first have no other groups.  What is stored is
\* in the file.
StoredGroups(gs, es) ==
    /\ \A k \in 0 .. Len(es) - 1 : k \in DOMAIN gs /\ gs[k] = es[k + 1]
    /\ list \notin {"commands", "browsers"} => DOMAIN gs = 0 .. Len(es) - 1

SettingsInv == SettingsTypeOK /\ iniFile = groups /\ StoredGroups(groups, stored)

LEMMA MaxEntriesType == MaxEntries \in Nat
BY StoredSettingsAssumption

LEMMA GroupsAreFunctions ==
    /\ \A gs \in Groups : /\ DOMAIN gs \subseteq GroupNumbers
                          /\ \A k \in DOMAIN gs : gs[k] \in Entries
                          /\ IsFiniteSet(DOMAIN gs) /\ DOMAIN gs \in SUBSET Nat
    /\ \A D \in SUBSET GroupNumbers : [D -> Entries] \subseteq Groups
<1>1. ASSUME NEW gs \in Groups
      PROVE  /\ DOMAIN gs \subseteq GroupNumbers
             /\ \A k \in DOMAIN gs : gs[k] \in Entries
             /\ IsFiniteSet(DOMAIN gs) /\ DOMAIN gs \in SUBSET Nat
  <2>1. PICK D \in SUBSET GroupNumbers : gs \in [D -> Entries]
    BY DEF Groups, GroupsOf
  <2>2. IsFiniteSet(GroupNumbers) /\ GroupNumbers \in SUBSET Nat
    BY MaxEntriesType, FS_Interval DEF GroupNumbers
  <2>3. IsFiniteSet(D)
    BY <2>2, FS_Subset
  <2> QED
    BY <2>1, <2>2, <2>3
<1>2. ASSUME NEW D \in SUBSET GroupNumbers, NEW gs \in [D -> Entries]
      PROVE  gs \in Groups
  BY DEF Groups, GroupsOf
<1> QED
  BY <1>1, <1>2

LEMMA NumbersAreFinite ==
    /\ IsFiniteSet(GroupNumbers) /\ Cardinality(GroupNumbers) = MaxEntries
    /\ \A D \in SUBSET GroupNumbers :
           IsFiniteSet(D) /\ Cardinality(D) \in Nat /\ Cardinality(D) <= MaxEntries
<1>1. MaxEntries - 1 \in Int /\ 0 \in Int /\ (0 > MaxEntries - 1 => MaxEntries = 0)
  BY MaxEntriesType
<1>2. IsFiniteSet(GroupNumbers) /\ Cardinality(GroupNumbers) = MaxEntries
  BY <1>1, MaxEntriesType, FS_Interval DEF GroupNumbers
<1>3. ASSUME NEW D \in SUBSET GroupNumbers
      PROVE  IsFiniteSet(D) /\ Cardinality(D) \in Nat /\ Cardinality(D) <= MaxEntries
  BY <1>2, FS_Subset, FS_CardinalityType
<1> QED
  BY <1>2, <1>3

\* The names of groups have as many ranks as there are groups, and each rank is that
\* of one group.
LEMMA RanksAreApart ==
    ASSUME NEW D \in SUBSET GroupNumbers
    PROVE  /\ IsFiniteSet(D) /\ {NameRank[k] : k \in D} \in SUBSET Nat
           /\ IsFiniteSet({NameRank[k] : k \in D})
           /\ Cardinality({NameRank[k] : k \in D}) = Cardinality(D)
           /\ \A k \in D : NumberWithRank(NameRank[k]) = k
<1> DEFINE R == {NameRank[k] : k \in D}
           rank == [k \in D |-> NameRank[k]]
<1>1. IsFiniteSet(D)
  BY NumbersAreFinite
<1>2. \A k \in GroupNumbers : NameRank[k] \in Nat
  BY StoredSettingsAssumption
<1>3. \A j, k \in GroupNumbers : NameRank[j] = NameRank[k] => j = k
  BY StoredSettingsAssumption
<1>4. rank \in Bijection(D, R)
  BY <1>3 DEF Bijection, Injection, Surjection, IsInjective
<1>5. IsFiniteSet(R) /\ Cardinality(R) = Cardinality(D)
  BY <1>1, <1>4, FS_Bijection DEF ExistsBijection
<1>6. \A k \in D : NumberWithRank(NameRank[k]) = k
  BY <1>3 DEF NumberWithRank
<1> QED
  BY <1>1, <1>2, <1>5, <1>6

\* Where a group comes when the groups are read.
LEMMA GroupIsRead ==
    ASSUME NEW gs \in Groups, NEW k \in DOMAIN gs
    PROVE  LET i == Cardinality(Below(Ranks(gs), NameRank[k])) + 1
           IN  /\ i \in DOMAIN LoadPreferences(gs) /\ LoadPreferences(gs)[i] = gs[k]
               /\ Ascending(Ranks(gs))[i] = NameRank[k]
<1> DEFINE i == Cardinality(Below(Ranks(gs), NameRank[k])) + 1
<1>1. DOMAIN gs \in SUBSET GroupNumbers
  BY GroupsAreFunctions
<1>2. Ranks(gs) \in SUBSET Nat /\ IsFiniteSet(Ranks(gs)) /\ NumberWithRank(NameRank[k]) = k
  BY <1>1, RanksAreApart DEF Ranks
<1>3. NameRank[k] \in Ranks(gs)
  BY DEF Ranks
<1>4. i \in DOMAIN Ascending(Ranks(gs)) /\ Ascending(Ranks(gs))[i] = NameRank[k]
  BY <1>2, <1>3, AscendingProperties
<1> HIDE DEF i
<1>5. i \in DOMAIN LoadPreferences(gs) /\ LoadPreferences(gs)[i] = gs[k]
  BY <1>2, <1>4 DEF LoadPreferences
<1> QED
  BY <1>4, <1>5 DEF i

LEMMA GroupsAfterKeeps ==
    ASSUME NEW gs \in Groups, NEW removed, NEW es \in Seq(Entries), Len(es) <= MaxEntries
    PROVE  /\ GroupsAfter(gs, removed, es) \in Groups
           /\ \A k \in 0 .. Len(es) - 1 : /\ k \in DOMAIN GroupsAfter(gs, removed, es)
                                          /\ GroupsAfter(gs, removed, es)[k] = es[k + 1]
           /\ removed = DOMAIN gs => DOMAIN GroupsAfter(gs, removed, es) = 0 .. Len(es) - 1
<1> DEFINE written == 0 .. Len(es) - 1
           D == (DOMAIN gs \ removed) \cup written
<1>1. Len(es) \in Nat /\ \A k \in written : es[k + 1] \in Entries
  <2>1. Len(es) \in Nat /\ \A i \in 1 .. Len(es) : es[i] \in Entries
    BY LenProperties, ElementOfSeq
  <2>2. \A k \in written : k + 1 \in 1 .. Len(es)
    BY <2>1
  <2> QED
    BY <2>1, <2>2
<1>2. D \in SUBSET GroupNumbers
  BY <1>1, GroupsAreFunctions, MaxEntriesType DEF GroupNumbers
<1>3. GroupsAfter(gs, removed, es) = [k \in D |-> IF k \in written THEN es[k + 1] ELSE gs[k]]
  BY DEF GroupsAfter
<1>4. GroupsAfter(gs, removed, es) \in [D -> Entries]
  BY <1>1, <1>3, GroupsAreFunctions
<1> QED
  BY <1>2, <1>3, <1>4, GroupsAreFunctions

LEMMA StoringKeeps ==
    ASSUME SettingsTypeOK, NEW es \in Seq(Entries), Len(es) <= MaxEntries
    PROVE  Store(groups, es) \in Groups /\ StoredGroups(Store(groups, es), es)
<1>1. groups \in Groups /\ list \in Lists
  BY DEF SettingsTypeOK
<1>2. PICK removed : /\ Store(groups, es) = GroupsAfter(groups, removed, es)
                     /\ list \notin {"commands", "browsers"} => removed = DOMAIN groups
  BY <1>1 DEF Lists, Store, PersistCommands, SavePreferences, ConfigStore, OnPreferencesSaved, SaveToConfig
<1> QED
  BY <1>1, <1>2, GroupsAfterKeeps DEF StoredGroups

\* What a list begins with is in it.
LEMMA StartsAreIn ==
    ASSUME NEW s \in Seq(Entries), NEW t \in Seq(Entries), Len(s) <= Len(t),
           \A i \in 1 .. Len(s) : t[i] = s[i]
    PROVE  AreAllIn(s, t) /\ IsPrefix(s, t)
<1> DEFINE m == Len(s)
           place == [i \in DOMAIN s |-> i]
<1>1. m \in Nat /\ Len(t) \in Nat /\ DOMAIN s = 1 .. m /\ DOMAIN t = 1 .. Len(t)
  BY LenProperties
<1>2. place \in Injection(DOMAIN s, DOMAIN t)
  BY <1>1 DEF Injection, IsInjective
<1>3. \A i \in DOMAIN s : t[place[i]] = s[i]
  BY <1>1
<1> HIDE DEF place
<1>4. AreAllIn(s, t)
  BY <1>2, <1>3 DEF AreAllIn
<1>5. SubSeq(s, 1, m) = [i \in 1 .. m |-> s[i]] /\ SubSeq(t, 1, m) = [i \in 1 .. m |-> t[i]]
  BY <1>1
<1>6. SubSeq(s, 1, m) = SubSeq(t, 1, m)
  BY <1>1, <1>5
<1>7. IsPrefix(s, t)
  BY <1>1, <1>6 DEF IsPrefix
<1> QED
  BY <1>4, <1>7

\* What is read of the groups: every entry that was stored last; they are the first
\* if no name ends in two digits.
LEMMA PreferencesComeBack ==
    ASSUME NEW gs \in Groups, NEW es \in Seq(Entries), StoredGroups(gs, es)
    PROVE  /\ LoadPreferences(gs) \in Seq(Entries) /\ Len(LoadPreferences(gs)) <= MaxEntries
           /\ AreAllIn(es, LoadPreferences(gs))
           /\ list \notin {"commands", "browsers"} => Len(LoadPreferences(gs)) = Len(es)
           /\ (\A k \in DOMAIN gs : k < SingleDigits) => IsPrefix(es, LoadPreferences(gs))
<1> DEFINE D == DOMAIN gs
           R == Ranks(gs)
           read == LoadPreferences(gs)
           m == Len(es)
           c == Cardinality(D)
           place == [i \in DOMAIN es |-> Cardinality(Below(R, NameRank[i - 1])) + 1]
<1>1. D \in SUBSET GroupNumbers /\ \A k \in D : gs[k] \in Entries
  BY GroupsAreFunctions
<1>2. /\ R \in SUBSET Nat /\ IsFiniteSet(R) /\ Cardinality(R) = c /\ IsFiniteSet(D)
      /\ \A k \in D : NumberWithRank(NameRank[k]) = k
  BY <1>1, RanksAreApart DEF Ranks
<1>3. c \in Nat /\ c <= MaxEntries
  BY <1>1, NumbersAreFinite
<1>4. DOMAIN Ascending(R) = 1 .. c /\ \A i \in 1 .. c : Ascending(R)[i] \in R
  BY <1>2, AscendingProperties, ElementOfSeq
<1>5. \A i \in 1 .. c : NumberWithRank(Ascending(R)[i]) \in D
  <2> TAKE i \in 1 .. c
  <2>1. PICK k \in D : Ascending(R)[i] = NameRank[k]
    BY <1>4 DEF Ranks
  <2> QED
    BY <1>2, <2>1
<1>6. read \in [1 .. c -> Entries]
  BY <1>1, <1>4, <1>5 DEF LoadPreferences
<1>7. read \in Seq(Entries) /\ Len(read) = c /\ DOMAIN read = 1 .. c
  BY <1>3, <1>6
<1>8. /\ m \in Nat /\ DOMAIN es = 1 .. m
      /\ \A i \in 1 .. m : i - 1 \in D /\ gs[i - 1] = es[i]
  <2>1. m \in Nat /\ DOMAIN es = 1 .. m
    BY LenProperties
  <2>2. \A i \in 1 .. m : i - 1 \in 0 .. m - 1 /\ (i - 1) + 1 = i
    BY <2>1
  <2> QED
    BY <2>1, <2>2 DEF StoredGroups
<1> HIDE DEF read, m, c, R, D
<1>9. \A i \in 1 .. m : /\ place[i] \in DOMAIN read /\ read[place[i]] = es[i]
                        /\ Ascending(R)[place[i]] = NameRank[i - 1]
  BY <1>8, GroupIsRead DEF read, R, D
<1> HIDE DEF place
<1>10. \A i, j \in 1 .. m : place[i] = place[j] => i = j
  <2> SUFFICES ASSUME NEW i \in 1 .. m, NEW j \in 1 .. m, place[i] = place[j] PROVE i = j
    OBVIOUS
  <2>1. NameRank[i - 1] = NameRank[j - 1]
    BY <1>9
  <2>2. i - 1 = j - 1
    BY <1>2, <1>8, <2>1
  <2> QED
    BY <1>8, <2>2
<1>11. place \in Injection(DOMAIN es, DOMAIN read)
  <2>1. place \in [1 .. m -> DOMAIN read]
    BY <1>8, <1>9 DEF place
  <2> QED
    BY <1>8, <1>10, <2>1 DEF Injection, IsInjective
<1>12. AreAllIn(es, read)
  BY <1>8, <1>9, <1>11 DEF AreAllIn
<1>13. ASSUME list \notin {"commands", "browsers"}
       PROVE  Len(read) = m
  <2>1. D = 0 .. m - 1
    BY <1>13 DEF StoredGroups, D, m
  <2>2. Cardinality(0 .. m - 1) = m
    BY <1>8, FS_Interval
  <2>3. c = m
    BY <2>1, <2>2 DEF c
  <2> QED
    BY <1>7, <2>3
<1>14. ASSUME \A k \in D : k < SingleDigits
       PROVE  IsPrefix(es, read)
  <2>1. ASSUME NEW i \in 1 .. m
        PROVE  place[i] = i
    <3> DEFINE k == i - 1
               lower == {NameRank[j] : j \in 0 .. k - 1}
    <3>1. k \in D /\ k \in Nat /\ \A j \in 0 .. k - 1 : j \in D
      <4>1. ASSUME NEW j \in 0 .. k - 1
            PROVE  j \in D
        <5> DEFINE h == j + 1
        <5>1. h \in 1 .. m /\ h - 1 = j
          BY <1>8
        <5> HIDE DEF h
        <5> QED
          BY <1>8, <5>1
      <4> QED
        BY <1>8, <4>1
    <3>2. \A j \in 0 .. k - 1 : NameRank[j] < NameRank[k]
      BY <1>1, <1>14, <3>1, StoredSettingsAssumption
    <3>3. \A j \in D : NameRank[j] < NameRank[k] => j \in 0 .. k - 1
      <4> SUFFICES ASSUME NEW j \in D, NameRank[j] < NameRank[k] PROVE j \in 0 .. k - 1
        OBVIOUS
      <4>1. j \in Nat /\ j \in GroupNumbers /\ k \in GroupNumbers
        BY <1>1, <3>1, MaxEntriesType DEF GroupNumbers
      <4>2. NameRank[j] \in Nat /\ NameRank[k] \in Nat
        BY <4>1, StoredSettingsAssumption
      <4>3. ~(k < j) /\ j # k
        BY <1>14, <4>1, <4>2, StoredSettingsAssumption
      <4> QED
        BY <3>1, <4>1, <4>3
    <3>4. Below(R, NameRank[k]) = lower
      <4> HIDE DEF k
      <4> QED
        BY <3>1, <3>2, <3>3 DEF Below, Ranks, R, D
    <3>5. Cardinality(lower) = Cardinality(0 .. k - 1)
      BY <1>1, <3>1, RanksAreApart
    <3>6. Cardinality(0 .. k - 1) = k
      BY <3>1, FS_Interval
    <3>7. place[i] = Cardinality(Below(R, NameRank[k])) + 1
      BY <1>8 DEF place
    <3> HIDE DEF lower
    <3>8. Cardinality(Below(R, NameRank[k])) = k
      BY <3>4, <3>5, <3>6
    <3> QED
      BY <3>1, <3>7, <3>8
  <2>2. \A i \in 1 .. m : i \in 1 .. c /\ read[i] = es[i]
    BY <1>7, <1>9, <2>1
  <2>3. m <= c
    BY <1>3, <1>8, <2>2
  <2> QED
    BY <1>7, <2>2, <2>3, StartsAreIn DEF m
<1> QED
  BY <1>3, <1>7, <1>12, <1>13, <1>14 DEF read, m, D

LEMMA ProjectsComeBack ==
    ASSUME NEW gs \in Groups, NEW es \in Seq(Entries), Len(es) <= MaxEntries, DOMAIN gs = 0 .. Len(es) - 1,
           StoredGroups(gs, es)
    PROVE  /\ LoadProjects(gs) \in Seq(Entries) /\ Len(LoadProjects(gs)) = Len(es)
           /\ \A i \in 1 .. Len(es) : LoadProjects(gs)[i] = es[i]
<1> DEFINE m == Len(es)
           missing == {k \in 0 .. Cardinality(DOMAIN gs) : k \notin DOMAIN gs}
<1>1. m \in Nat /\ \A i \in 1 .. m : es[i] \in Entries
  BY LenProperties, ElementOfSeq
<1>2. Cardinality(DOMAIN gs) = m
  BY <1>1, FS_Interval
<1>3. missing = {m}
  <2>1. missing = {k \in 0 .. m : k \notin 0 .. m - 1}
    BY <1>2
  <2> HIDE DEF m, missing
  <2>2. {k \in 0 .. m : k \notin 0 .. m - 1} = {m}
    BY <1>1
  <2> QED
    BY <2>1, <2>2
<1>4. Min(missing) = m
  BY <1>1, <1>3 DEF Min
<1>5. LoadProjects(gs) = [i \in 1 .. m |-> gs[i - 1]]
  BY <1>4 DEF LoadProjects
<1>6. \A i \in 1 .. m : gs[i - 1] = es[i]
  <2> TAKE i \in 1 .. m
  <2>1. i - 1 \in 0 .. m - 1 /\ (i - 1) + 1 = i
    BY <1>1
  <2> QED
    BY <2>1 DEF StoredGroups
<1>7. LoadProjects(gs) \in [1 .. m -> Entries]
  BY <1>1, <1>5, <1>6
<1> QED
  BY <1>1, <1>5, <1>6, <1>7

LEMMA EntriesComeBack ==
    ASSUME SettingsInv, NEW read \in EntriesOf(iniFile)
    PROVE  /\ read \in Seq(Entries) /\ Len(read) <= MaxEntries
           /\ AreAllIn(stored, read)
           /\ list \notin {"commands", "browsers"} => Len(read) = Len(stored)
           /\ list = "projects" \/ (\A k \in DOMAIN iniFile : k < SingleDigits)
                  => IsPrefix(stored, read)
<1>1. /\ iniFile \in Groups /\ stored \in Seq(Entries) /\ Len(stored) <= MaxEntries
      /\ Len(stored) \in Nat /\ StoredGroups(iniFile, stored)
  BY LenProperties DEF SettingsInv, SettingsTypeOK
<1>2. CASE list = "projects"
  <2>1. DOMAIN iniFile = 0 .. Len(stored) - 1
    BY <1>1, <1>2 DEF StoredGroups
  <2>2. read = LoadProjects(iniFile)
    BY <1>2 DEF EntriesOf
  <2>3. /\ read \in Seq(Entries) /\ Len(read) = Len(stored)
        /\ \A i \in 1 .. Len(stored) : read[i] = stored[i]
    BY <1>1, <2>1, <2>2, ProjectsComeBack
  <2>4. AreAllIn(stored, read) /\ IsPrefix(stored, read)
    BY <1>1, <2>3, StartsAreIn
  <2> QED
    BY <1>1, <2>3, <2>4
<1>3. CASE list = "browsers" /\ DOMAIN iniFile = {}
  <2>1. read \in {DefaultBrowsers, << >>}
    BY <1>3 DEF EntriesOf
  <2>2. read \in Seq(Entries) /\ Len(read) <= MaxEntries /\ Len(read) \in Nat
    <3>1. DefaultBrowsers \in Seq(Entries) /\ Len(DefaultBrowsers) <= MaxEntries
      BY StoredSettingsAssumption
    <3>2. << >> \in Seq(Entries) /\ Len(<< >>) = 0
      BY EmptySeq
    <3>3. Len(DefaultBrowsers) \in Nat
      BY <3>1, LenProperties
    <3>4. CASE read = DefaultBrowsers
      BY <3>1, <3>3, <3>4
    <3>5. CASE read = << >>
      BY <3>2, <3>5, MaxEntriesType
    <3> QED
      BY <2>1, <3>4, <3>5
  <2>3. Len(stored) = 0
    <3>1. ~(0 \in 0 .. Len(stored) - 1)
      BY <1>1, <1>3 DEF StoredGroups
    <3> QED
      BY <1>1, <3>1
  <2>4. Len(stored) <= Len(read) /\ \A i \in 1 .. Len(stored) : read[i] = stored[i]
    BY <2>2, <2>3
  <2>5. AreAllIn(stored, read) /\ IsPrefix(stored, read)
    BY <1>1, <2>2, <2>4, StartsAreIn
  <2> QED
    BY <1>3, <2>2, <2>5
<1>4. CASE list # "projects" /\ ~(list = "browsers" /\ DOMAIN iniFile = {})
  <2>1. read = LoadPreferences(iniFile)
    BY <1>4 DEF EntriesOf
  <2> QED
    BY <1>1, <1>4, <2>1, PreferencesComeBack
<1> QED
  BY <1>2, <1>3, <1>4

LEMMA SettingsInvInit == SettingsInit => SettingsInv
<1> SUFFICES ASSUME SettingsInit PROVE SettingsInv
  OBVIOUS
<1>1. << >> \in Seq(Entries) /\ Len(<< >>) = 0 /\ MaxEntries \in Nat
  BY EmptySeq, MaxEntriesType
<1>2. << >> \in [{} -> Entries] /\ {} \in SUBSET GroupNumbers
  OBVIOUS
<1>3. << >> \in Groups
  BY <1>2, GroupsAreFunctions
<1>4. SettingsTypeOK
  BY <1>1, <1>3, StoredSettingsAssumption DEF SettingsInit, SettingsTypeOK
<1>5. DOMAIN groups = {} /\ Len(stored) = 0 /\ 0 .. 0 - 1 = {}
  BY <1>1, <1>2 DEF SettingsInit
<1> QED
  BY <1>4, <1>5 DEF SettingsInit, SettingsInv, StoredGroups

LEMMA StoreEntriesKeeps ==
    ASSUME SettingsInv, NEW es \in Seq(Entries), Len(es) <= MaxEntries, StoreEntries(es)
    PROVE  SettingsInv'
<1>1. Store(groups, es) \in Groups /\ StoredGroups(Store(groups, es), es)
  BY StoringKeeps DEF SettingsInv
<1>2. /\ entries' = es /\ stored' = es /\ groups' = Store(groups, es) /\ iniFile' = groups'
      /\ list' = list /\ running' = running
  BY DEF StoreEntries
<1>3. SettingsTypeOK'
  BY <1>1, <1>2 DEF SettingsInv, SettingsTypeOK
<1> QED
  BY <1>1, <1>2, <1>3 DEF SettingsInv, StoredGroups

LEMMA SettingsInvStep == SettingsInv /\ [SettingsNext]_settingsVars => SettingsInv'
<1> SUFFICES ASSUME SettingsInv, [SettingsNext]_settingsVars PROVE SettingsInv'
  OBVIOUS
<1>1. ASSUME NEW es \in SomeEntries, StoreEntries(es)
      PROVE  SettingsInv'
  <2>1. PICK n \in 0 .. MaxEntries : es \in [1 .. n -> Entries]
    BY DEF SomeEntries
  <2>2. es \in Seq(Entries) /\ Len(es) = n
    BY <2>1, MaxEntriesType
  <2>3. Len(es) <= MaxEntries
    BY <2>2, MaxEntriesType
  <2> QED
    BY <1>1, <2>2, <2>3, StoreEntriesKeeps
<1>2. CASE StoreAgain
  <2>1. entries \in Seq(Entries) /\ Len(entries) <= MaxEntries
    BY DEF SettingsInv, SettingsTypeOK
  <2> QED
    BY <1>2, <2>1, StoreEntriesKeeps DEF StoreAgain
<1>3. CASE ForgetBreakpoint
  <2>1. PICK i \in DOMAIN entries : entries' = RemoveAt(entries, i)
    BY <1>3 DEF ForgetBreakpoint
  <2>2. entries \in Seq(Entries) /\ Len(entries) <= MaxEntries /\ Len(entries) \in Nat
    BY LenProperties DEF SettingsInv, SettingsTypeOK
  <2>3. entries' \in Seq(Entries) /\ Len(entries') = Len(entries) - 1
    BY <2>1, <2>2, RemoveAtProperties
  <2>4. Len(entries') <= MaxEntries
    BY <2>2, <2>3, MaxEntriesType
  <2>5. UNCHANGED <<list, groups, iniFile, stored, running>>
    BY <1>3 DEF ForgetBreakpoint
  <2> QED
    BY <2>3, <2>4, <2>5 DEF SettingsInv, SettingsTypeOK, StoredGroups
<1>4. CASE ProgramEnds
  <2>1. UNCHANGED <<list, entries, groups, stored, iniFile>> /\ running' \in BOOLEAN
    BY <1>4 DEF ProgramEnds, SettingsInv
  <2> QED
    BY <2>1 DEF SettingsInv, SettingsTypeOK, StoredGroups
<1>5. CASE ProgramStarts
  <2>1. UNCHANGED <<list, groups, stored, iniFile>> /\ running' \in BOOLEAN /\ entries' \in EntriesOf(iniFile)
    BY <1>5 DEF ProgramStarts, SettingsInv
  <2>2. entries' \in Seq(Entries) /\ Len(entries') <= MaxEntries
    BY <2>1, EntriesComeBack
  <2> QED
    BY <2>1, <2>2 DEF SettingsInv, SettingsTypeOK, StoredGroups
<1>6. CASE UNCHANGED settingsVars
  BY <1>6 DEF settingsVars, SettingsInv, SettingsTypeOK, StoredGroups
<1> QED
  BY <1>1, <1>2, <1>3, <1>4, <1>5, <1>6 DEF SettingsNext

\* The lists in memory, last stored and in the groups of the config file are of
\* their types: no list grows longer than what was stored.
THEOREM SettingsTypeCorrect == SettingsSpec => []SettingsTypeOK
<1>1. SettingsInv => SettingsTypeOK
  BY DEF SettingsInv
<1> QED
  BY <1>1, SettingsInvInit, SettingsInvStep, PTL DEF SettingsSpec

\* What a list is made of when the program starts.
LEMMA StoredEntriesComeBackStep ==
    ASSUME SettingsInv, [SettingsNext]_settingsVars, ~running, running'
    PROVE  /\ AreAllIn(stored, entries')
           /\ list \notin {"commands", "browsers"} => Len(entries') = Len(stored)
           /\ list = "projects" \/ (\A k \in DOMAIN iniFile : k < SingleDigits)
                  => IsPrefix(stored, entries')
<1>1. ~(running' = running)
  OBVIOUS
<1>2. ProgramStarts
  BY <1>1 DEF SettingsNext, StoreEntries, StoreAgain, ForgetBreakpoint, ProgramEnds, settingsVars
<1>3. entries' \in EntriesOf(iniFile)
  BY <1>2 DEF ProgramStarts
<1> QED
  BY <1>3, EntriesComeBack

\* However lists are stored, forgotten and stored again, and however long they are:
\* every entry stored last is there when the program starts again, and for the
\* connections, the breakpoints and the projects nothing else is.  The projects keep
\* their order, the other lists if no group has a number of two digits.
THEOREM StoredListsComeBack == SettingsSpec => StoredEntriesComeBack
<1>1. SettingsInv /\ [SettingsNext]_settingsVars =>
          [~running /\ running' =>
               /\ AreAllIn(stored, entries')
               /\ list \notin {"commands", "browsers"} => Len(entries') = Len(stored)
               /\ list = "projects" \/ (\A k \in DOMAIN iniFile : k < SingleDigits)
                      => IsPrefix(stored, entries')]_settingsVars
  BY StoredEntriesComeBackStep
<1> QED
  BY <1>1, SettingsInvInit, SettingsInvStep, PTL DEF SettingsSpec, StoredEntriesComeBack

-----------------------------------------------------------------------------
(***************************************************************************)
(* The watch of the files.                                                 *)
(***************************************************************************)

Collected == pathsCreated \cup pathsModified \cup pathsDeleted
CollectedRenames == {Event("rename", p, pathsRenamed[p]) : p \in DOMAIN pathsRenamed}

\* The events, the renames collected and the actions.
Items == Unhandled \cup CollectedRenames

Mentions(e, f) == f \in WithContents({e.path, e.to})

Tags(a, f) == (a.kind = "tag" /\ a.path = f) \/ (a.kind = "tagDir" /\ f \in InDir)
Untags(a, f) == (a.kind = "delete" /\ a.path = f) \/ (a.kind = "deleteDir" /\ f \in InDir)

TagQueued(f) ==
    \E i \in DOMAIN tagActions : /\ Tags(tagActions[i], f)
                                 /\ \A j \in DOMAIN tagActions : j > i => ~Untags(tagActions[j], f)

WillBeTagged(f) ==
    \/ \E e \in Range(fsEvents) : e.kind \in {"create", "modify"} /\ e.path = f
    \/ f \in pathsCreated \cup pathsModified
    \/ TagQueued(f)

TagIsCurrent(f) == tagged[f] = onDisk[f] /\ \A a \in Range(tagActions) : ~Untags(a, f)

WillBeUntagged(f) ==
    \/ \E e \in Range(fsEvents) : e.kind = "delete" /\ Mentions(e, f)
    \/ f \in WithContents(pathsDeleted)
    \/ \E a \in Range(tagActions) : Untags(a, f)

\* A file that no rename is under way for: its row is that of the file, or something
\* is under way that makes it so.
FileInv(f) ==
    /\ onDisk[f] # 0 => /\ tagged[f] <= onDisk[f]
                        /\ f \in openedFiles \/ WillBeTagged(f) \/ TagIsCurrent(f)
    /\ onDisk[f] = 0 => WillBeUntagged(f) \/ tagged[f] = 0

\* A rename that is told in full: nothing else is under way for its files, and the
\* row has the old name, or the new one already.
RenameInv(e) ==
    /\ e.path # e.to
    /\ onDisk[e.path] = 0 /\ onDisk[e.to] # 0
    /\ \/ tagged[e.path] = onDisk[e.to] /\ tagged[e.to] = 0
       \/ tagged[e.path] = 0 /\ tagged[e.to] = onDisk[e.to]
    /\ e.path \notin openedFiles
    /\ {e.path, e.to} \cap WithContents(Collected) = {}
    /\ {e.path, e.to} \cap InDir # {} => dirOnDisk
    /\ \A d \in Items : Mentions(d, e.path) \/ Mentions(d, e.to) => d = e

DirDeletionPending ==
    \/ \E e \in Range(fsEvents) : e.kind = "delete" /\ e.path = Dir
    \/ Dir \in pathsDeleted
    \/ \E a \in Range(tagActions) : a.kind = "deleteDir"

StampsInv == \A f \in Files : onDisk[f] <= writes + 1 /\ tagged[f] <= writes + 1
DirInv ==
    /\ \A f \in InDir : onDisk[f] # 0 => dirOnDisk
    /\ dirOnDisk /\ DirDeletionPending => InDir \subseteq untold
FilesInv == \A f \in Files \ (untold \cup PendingRenames) : FileInv(f)
RenamesInv == \A e \in Items : e.kind = "rename" => {e.path, e.to} \subseteq untold \/ RenameInv(e)

WatcherInv == WatcherTypeOK /\ StampsInv /\ DirInv /\ FilesInv /\ RenamesInv

-----------------------------------------------------------------------------
\* What events, actions and sets of files are.
LEMMA FilesAreNumbers ==
    /\ NumFiles \in Nat /\ MaxWrites \in Nat /\ MaxOpens \in Nat
    /\ InDir \subseteq Files /\ Dir \notin Files /\ Files \subseteq Nat /\ Dir = 0
    /\ Files \subseteq Paths /\ Dir \in Paths
    /\ \A fs : fs \subseteq Files => IsFiniteSet(fs) /\ fs \in SUBSET Nat
    /\ \A ps : ps \subseteq {Dir} => IsFiniteSet(ps) /\ ps \in SUBSET Nat
<1>1. NumFiles \in Nat /\ MaxWrites \in Nat /\ MaxOpens \in Nat /\ InDir \subseteq Files
  BY WatcherAssumption DEF Files
<1>2. Dir \notin Files /\ Files \subseteq Nat /\ Dir = 0
  BY <1>1 DEF Files, Dir
<1>6. IsFiniteSet({Dir})
  BY FS_Singleton, Zenon
<1>3. IsFiniteSet(Files) /\ IsFiniteSet({Dir})
  BY <1>1, <1>6, FS_Interval DEF Files
<1>4. \A fs : fs \subseteq Files => IsFiniteSet(fs) /\ fs \in SUBSET Nat
  BY <1>2, <1>3, FS_Subset
<1>5. \A ps : ps \subseteq {Dir} => IsFiniteSet(ps) /\ ps \in SUBSET Nat
  <2>1. {Dir} \subseteq Nat
    BY <1>2
  <2> QED
    BY <2>1, <1>3, FS_Subset
<1> QED
  BY <1>1, <1>2, <1>4, <1>5 DEF Paths

LEMMA WatchEventFields ==
    ASSUME NEW e \in Events
    PROVE  /\ e = Event(e.kind, e.path, e.to)
           /\ e.kind \in {"create", "modify", "delete", "rename"}
           /\ e.path \in Paths /\ e.to \in Paths
           /\ e.kind # "rename" => e.to = e.path
           /\ e.kind = "modify" => e.path \in Files
           /\ e.kind = "rename" => e.path \in Files /\ e.to \in Files
<1>1. \A k, p, q : LET r == Event(k, p, q) IN r.kind = k /\ r.path = p /\ r.to = q
  BY DEF Event
<1>2. CASE \E k \in {"create", "delete"}, p \in Paths : e = Event(k, p, p)
  BY <1>1, <1>2
<1>3. CASE \E p \in Files : e = Event("modify", p, p)
  BY <1>1, <1>3, FilesAreNumbers
<1>4. CASE \E p \in Files, q \in Files : e = Event("rename", p, q)
  BY <1>1, <1>4, FilesAreNumbers
<1> QED
  BY <1>2, <1>3, <1>4 DEF Events

LEMMA WatchActionFields ==
    ASSUME NEW a \in Actions
    PROVE  /\ a = Event(a.kind, a.path, a.to)
           /\ a.kind \in {"tag", "delete", "rename", "tagDir", "deleteDir"}
           /\ a.path \in Paths /\ a.to \in Paths
           /\ a.kind # "rename" => a.to = a.path
           /\ a.kind \in {"tag", "delete", "rename"} => a.path \in Files /\ a.to \in Files
           /\ a.kind \in {"tagDir", "deleteDir"} => a.path = Dir
<1>1. \A k, p, q : LET r == Event(k, p, q) IN r.kind = k /\ r.path = p /\ r.to = q
  BY DEF Event
<1>2. CASE \E k \in {"tag", "delete"}, p \in Files : a = Event(k, p, p)
  BY <1>1, <1>2, FilesAreNumbers
<1>3. CASE \E p \in Files, q \in Files : a = Event("rename", p, q)
  BY <1>1, <1>3, FilesAreNumbers
<1>4. CASE \E k \in {"tagDir", "deleteDir"} : a = Event(k, Dir, Dir)
  BY <1>1, <1>4, FilesAreNumbers
<1> QED
  BY <1>2, <1>3, <1>4 DEF Actions

LEMMA EventParts ==
    \A k, p, q : Event(k, p, q).kind = k /\ Event(k, p, q).path = p /\ Event(k, p, q).to = q
BY DEF Event

LEMMA EventsAndActions ==
    /\ \A p \in Paths : Event("create", p, p) \in Events /\ Event("delete", p, p) \in Events
    /\ \A p \in Files : Event("modify", p, p) \in Events
    /\ \A p, q \in Files : Event("rename", p, q) \in Events /\ Event("rename", p, q) \in Actions
    /\ \A p \in Files : Event("tag", p, p) \in Actions /\ Event("delete", p, p) \in Actions
    /\ Event("tagDir", Dir, Dir) \in Actions /\ Event("deleteDir", Dir, Dir) \in Actions
BY DEF Events, Actions

\* What an event or an action mentions.
LEMMA MentionedFiles ==
    /\ \A e, f : Mentions(e, f) <=> f \in {e.path, e.to} \/ (Dir \in {e.path, e.to} /\ f \in InDir)
    /\ \A ps, f : f \in WithContents(ps) <=> f \in ps \/ (Dir \in ps /\ f \in InDir)
BY DEF Mentions, WithContents

LEMMA RenamedFiles ==
    \A f : f \in PendingRenames <=> \E e \in Items : e.kind = "rename" /\ f \in {e.path, e.to}
<1>1. \A f : f \in RenamePaths <=> \E e \in CollectedRenames : f \in {e.path, e.to}
  <2>1. \A p \in DOMAIN pathsRenamed :
            LET e == Event("rename", p, pathsRenamed[p]) IN e.path = p /\ e.to = pathsRenamed[p]
    BY EventParts
  <2> QED
    BY <2>1 DEF RenamePaths, CollectedRenames, Range
<1>2. \A e \in CollectedRenames : e.kind = "rename"
  BY EventParts DEF CollectedRenames
<1>3. \A f : f \in NamedIn({e \in Unhandled : e.kind = "rename"}) <=>
                 \E e \in Unhandled : e.kind = "rename" /\ f \in {e.path, e.to}
  BY DEF NamedIn
<1> QED
  BY <1>1, <1>2, <1>3 DEF PendingRenames, Items

LEMMA RenamedFilesNext ==
    \A f : f \in PendingRenames' <=> \E e \in Items' : e.kind = "rename" /\ f \in {e.path, e.to}
<1>1. (\A f : f \in PendingRenames <=> \E e \in Items : e.kind = "rename" /\ f \in {e.path, e.to})'
  BY RenamedFiles, PTL
<1> QED
  BY <1>1

-----------------------------------------------------------------------------
(***************************************************************************)
(* What the timer queues.                                                  *)
(***************************************************************************)

Queued(kind, ps) == {Event(kind, p, p) : p \in ps}

NewActions ==
    Queued("tag", NotOpened(FilesModified)) \cup Queued("tag", CollapsedFiles(pathsCreated))
        \cup Queued("delete", NotOpened(FilesDeleted))
        \cup Queued("tagDir", CollapsedDirs(pathsCreated))
        \cup Queued("deleteDir", CollapsedDirs(pathsDeleted))
        \cup {Event("rename", p, pathsRenamed[p]) : p \in {f \in Renames : pathsRenamed[f] # f}}

LEMMA PublishedPaths ==
    ASSUME WatcherTypeOK
    PROVE  /\ CollapsedFiles(pathsCreated) \subseteq Files /\ CollapsedFiles(pathsModified) \subseteq Files
           /\ FilesModified \subseteq Files /\ FilesDeleted \subseteq Files
           /\ CollapsedDirs(pathsCreated) \subseteq {Dir} /\ CollapsedDirs(pathsDeleted) \subseteq {Dir}
           /\ Renames \subseteq Files /\ \A f \in Renames : pathsRenamed[f] \in Files
<1>1. pathsCreated \subseteq Paths /\ pathsModified \subseteq Files /\ pathsDeleted \subseteq Paths
      /\ DOMAIN pathsRenamed \subseteq Files /\ \A p \in DOMAIN pathsRenamed : pathsRenamed[p] \in Files
  BY DEF WatcherTypeOK
<1>2. Paths \ {Dir} = Files /\ Files \subseteq Paths
  BY FilesAreNumbers DEF Paths
<1>3. \A ps : ps \subseteq Paths => CollapsedFiles(ps) \subseteq Files
  BY <1>2 DEF CollapsedFiles
<1>4. CollapsedFiles(pathsCreated) \subseteq Files /\ CollapsedFiles(pathsModified) \subseteq Files
      /\ CollapsedFiles(pathsDeleted) \subseteq Files
  BY <1>1, <1>2, <1>3
<1>5. FilesModified \subseteq Files /\ FilesDeleted \subseteq Files
  BY <1>4 DEF FilesModified, FilesDeleted
<1>6. CollapsedDirs(pathsCreated) \subseteq {Dir} /\ CollapsedDirs(pathsDeleted) \subseteq {Dir}
  BY DEF CollapsedDirs
<1>7. Renames \subseteq Files /\ \A f \in Renames : pathsRenamed[f] \in Files
  BY <1>1 DEF Renames
<1> QED
  BY <1>4, <1>5, <1>6, <1>7

LEMMA QueuedInOrder ==
    ASSUME NEW kind, NEW ps \in SUBSET Nat, IsFiniteSet(ps), Queued(kind, ps) \subseteq Actions
    PROVE  LET q == [i \in DOMAIN InNameOrder(ps) |->
                        Event(kind, InNameOrder(ps)[i], InNameOrder(ps)[i])]
           IN  q \in Seq(Actions) /\ Range(q) = Queued(kind, ps)
<1> DEFINE s == InNameOrder(ps)
           q == [i \in DOMAIN s |-> Event(kind, s[i], s[i])]
<1>1. s \in Seq(ps) /\ Range(s) = ps
  BY AscendingRange DEF InNameOrder
<1> HIDE DEF s
<1>2. Len(s) \in Nat /\ DOMAIN s = 1 .. Len(s)
  BY <1>1, LenProperties
<1>3. \A i \in DOMAIN s : s[i] \in ps
  BY <1>1 DEF Range
<1>4. \A p \in ps : Event(kind, p, p) \in Actions
  BY DEF Queued
<1>5. q \in [1 .. Len(s) -> Actions]
  BY <1>2, <1>3, <1>4
<1>6. q \in Seq(Actions)
  BY <1>2, <1>5, SeqDef
<1>7. \A p \in ps : \E i \in DOMAIN s : s[i] = p
  BY <1>1 DEF Range
<1>8. \A x : x \in Range(q) <=> \E i \in DOMAIN s : x = Event(kind, s[i], s[i])
  BY DEF Range
<1>9. \A x : x \in Queued(kind, ps) <=> \E p \in ps : x = Event(kind, p, p)
  BY DEF Queued
<1>10. Range(q) = Queued(kind, ps)
  <2> HIDE DEF q
  <2>1. \A x : x \in Range(q) <=> x \in Queued(kind, ps)
    BY <1>3, <1>7, <1>8, <1>9
  <2> QED
    BY <2>1
<1> QED
  BY <1>6, <1>10 DEF s

LEMMA RenamesInOrder ==
    ASSUME NEW ps \in SUBSET Nat, IsFiniteSet(ps),
           {Event("rename", p, pathsRenamed[p]) : p \in ps} \subseteq Actions
    PROVE  LET q == [i \in DOMAIN InNameOrder(ps) |->
                        Event("rename", InNameOrder(ps)[i], pathsRenamed[InNameOrder(ps)[i]])]
           IN  q \in Seq(Actions) /\ Range(q) = {Event("rename", p, pathsRenamed[p]) : p \in ps}
<1> DEFINE s == InNameOrder(ps)
           q == [i \in DOMAIN s |-> Event("rename", s[i], pathsRenamed[s[i]])]
           Q == {Event("rename", p, pathsRenamed[p]) : p \in ps}
<1>1. s \in Seq(ps) /\ Range(s) = ps
  BY AscendingRange DEF InNameOrder
<1> HIDE DEF s
<1>2. Len(s) \in Nat /\ DOMAIN s = 1 .. Len(s)
  BY <1>1, LenProperties
<1>3. \A i \in DOMAIN s : s[i] \in ps
  BY <1>1 DEF Range
<1>4. \A p \in ps : Event("rename", p, pathsRenamed[p]) \in Actions
  OBVIOUS
<1>5. q \in [1 .. Len(s) -> Actions]
  BY <1>2, <1>3, <1>4
<1>6. q \in Seq(Actions)
  BY <1>2, <1>5, SeqDef
<1>7. \A p \in ps : \E i \in DOMAIN s : s[i] = p
  BY <1>1 DEF Range
<1>8. \A x : x \in Range(q) <=> \E i \in DOMAIN s : x = Event("rename", s[i], pathsRenamed[s[i]])
  BY DEF Range
<1>9. \A x : x \in Q <=> \E p \in ps : x = Event("rename", p, pathsRenamed[p])
  OBVIOUS
<1>10. Range(q) = Q
  <2> HIDE DEF q, Q
  <2>1. \A x : x \in Range(q) <=> x \in Q
    BY <1>3, <1>7, <1>8, <1>9
  <2> QED
    BY <2>1
<1> QED
  BY <1>6, <1>10 DEF s

LEMMA ActionsFollow ==
    ASSUME NEW r \in Seq(Actions), NEW s \in Seq(Actions), NEW t \in Seq(Actions)
    PROVE  r \o (s \o t) = (r \o s) \o t
BY ConcatAssociative, SMTT(30)

LEMMA PublishedActions ==
    ASSUME WatcherTypeOK, OnTimer
    PROVE  \E new \in Seq(Actions) : tagActions' = tagActions \o new /\ Range(new) = NewActions
<1> DEFINE queue(kind, ps) == [i \in DOMAIN InNameOrder(ps) |->
                                  Event(kind, InNameOrder(ps)[i], InNameOrder(ps)[i])]
           rs == {f \in Renames : pathsRenamed[f] # f}
           a1 == queue("tag", NotOpened(FilesModified))
           a2 == queue("tag", CollapsedFiles(pathsCreated))
           a3 == queue("delete", NotOpened(FilesDeleted))
           a4 == queue("tagDir", CollapsedDirs(pathsCreated))
           a5 == queue("deleteDir", CollapsedDirs(pathsDeleted))
           a6 == [i \in DOMAIN InNameOrder(rs) |->
                     Event("rename", InNameOrder(rs)[i], pathsRenamed[InNameOrder(rs)[i]])]
<1>1. tagActions' = tagActions \o a1 \o a2 \o a3 \o a4 \o a5 \o a6
  BY DEF OnTimer, Publish
<1>2. /\ NotOpened(FilesModified) \subseteq Files /\ CollapsedFiles(pathsCreated) \subseteq Files
      /\ NotOpened(FilesDeleted) \subseteq Files
      /\ CollapsedDirs(pathsCreated) \subseteq {Dir} /\ CollapsedDirs(pathsDeleted) \subseteq {Dir}
      /\ rs \subseteq Files /\ \A p \in rs : pathsRenamed[p] \in Files
  BY PublishedPaths DEF NotOpened
<1>3. \A ps : ps \subseteq Files => /\ Queued("tag", ps) \subseteq Actions
                                    /\ Queued("delete", ps) \subseteq Actions
  BY EventsAndActions DEF Queued
<1>4. \A ps : ps \subseteq {Dir} => /\ Queued("tagDir", ps) \subseteq Actions
                                    /\ Queued("deleteDir", ps) \subseteq Actions
  BY EventsAndActions DEF Queued
<1>5. {Event("rename", p, pathsRenamed[p]) : p \in rs} \subseteq Actions
  BY <1>2, EventsAndActions
<1>6. a1 \in Seq(Actions) /\ Range(a1) = Queued("tag", NotOpened(FilesModified))
  BY <1>2, <1>3, FilesAreNumbers, QueuedInOrder
<1>7. a2 \in Seq(Actions) /\ Range(a2) = Queued("tag", CollapsedFiles(pathsCreated))
  BY <1>2, <1>3, FilesAreNumbers, QueuedInOrder
<1>8. a3 \in Seq(Actions) /\ Range(a3) = Queued("delete", NotOpened(FilesDeleted))
  BY <1>2, <1>3, FilesAreNumbers, QueuedInOrder
<1>9. a4 \in Seq(Actions) /\ Range(a4) = Queued("tagDir", CollapsedDirs(pathsCreated))
  BY <1>2, <1>4, FilesAreNumbers, QueuedInOrder
<1>10. a5 \in Seq(Actions) /\ Range(a5) = Queued("deleteDir", CollapsedDirs(pathsDeleted))
  BY <1>2, <1>4, FilesAreNumbers, QueuedInOrder
<1>11. a6 \in Seq(Actions) /\ Range(a6) = {Event("rename", p, pathsRenamed[p]) : p \in rs}
  BY <1>2, <1>5, FilesAreNumbers, RenamesInOrder
<1>12. tagActions \in Seq(Actions)
  BY DEF WatcherTypeOK
<1> HIDE DEF a1, a2, a3, a4, a5, a6
<1> DEFINE b2 == a1 \o a2
           b3 == b2 \o a3
           b4 == b3 \o a4
           b5 == b4 \o a5
           new == b5 \o a6
<1>13. b2 \in Seq(Actions) /\ Range(b2) = Range(a1) \cup Range(a2)
  BY <1>6, <1>7, RangeOfConcat
<1>14. tagActions \o b2 = tagActions \o a1 \o a2
  BY <1>6, <1>7, <1>12, ActionsFollow
<1> HIDE DEF b2
<1>15. b3 \in Seq(Actions) /\ Range(b3) = Range(b2) \cup Range(a3)
  BY <1>8, <1>13, RangeOfConcat
<1>16. tagActions \o b3 = (tagActions \o b2) \o a3
  BY <1>8, <1>12, <1>13, ActionsFollow
<1> HIDE DEF b3
<1>17. b4 \in Seq(Actions) /\ Range(b4) = Range(b3) \cup Range(a4)
  BY <1>9, <1>15, RangeOfConcat
<1>18. tagActions \o b4 = (tagActions \o b3) \o a4
  BY <1>9, <1>12, <1>15, ActionsFollow
<1> HIDE DEF b4
<1>19. b5 \in Seq(Actions) /\ Range(b5) = Range(b4) \cup Range(a5)
  BY <1>10, <1>17, RangeOfConcat
<1>20. tagActions \o b5 = (tagActions \o b4) \o a5
  BY <1>10, <1>12, <1>17, ActionsFollow
<1> HIDE DEF b5
<1>21. new \in Seq(Actions) /\ Range(new) = Range(b5) \cup Range(a6)
  BY <1>11, <1>19, RangeOfConcat
<1>22. tagActions \o new = (tagActions \o b5) \o a6
  BY <1>11, <1>12, <1>19, ActionsFollow
<1> HIDE DEF new
<1>23. Range(new) = NewActions
  BY <1>6, <1>7, <1>8, <1>9, <1>10, <1>11, <1>13, <1>15, <1>17, <1>19, <1>21 DEF NewActions
<1>24. tagActions' = tagActions \o new
  BY <1>1, <1>14, <1>16, <1>18, <1>20, <1>22
<1> QED
  BY <1>21, <1>23, <1>24

-----------------------------------------------------------------------------
(***************************************************************************)
(* What queueing and running actions does to what is queued for a file.    *)
(***************************************************************************)

LEMMA TagsStayQueued ==
    ASSUME tagActions \in Seq(Actions), NEW new \in Seq(Actions), tagActions' = tagActions \o new,
           NEW f, \A a \in Range(new) : ~Untags(a, f)
    PROVE  /\ TagQueued(f) => TagQueued(f)'
           /\ (\E a \in Range(new) : Tags(a, f)) => TagQueued(f)'
<1> DEFINE s == tagActions
           t == tagActions'
<1>1. /\ \A i \in DOMAIN s : i \in DOMAIN t /\ t[i] = s[i]
      /\ \A j \in DOMAIN t : j \notin DOMAIN s => t[j] \in Range(new) /\ \A i \in DOMAIN s : i < j
      /\ \A x \in Range(new) : \E j \in DOMAIN t : t[j] = x /\ j \notin DOMAIN s
  BY RangeOfConcat
<1>2. DOMAIN s \subseteq Nat
  <2>1. DOMAIN s = 1 .. Len(s) /\ Len(s) \in Nat
    BY LenProperties
  <2> QED
    BY <2>1
<1>3. DOMAIN t \subseteq Nat
  <2>1. t \in Seq(Actions)
    BY RangeOfConcat
  <2>2. DOMAIN t = 1 .. Len(t) /\ Len(t) \in Nat
    BY <2>1, LenProperties
  <2> QED
    BY <2>2
<1>4. ASSUME TagQueued(f)
      PROVE  TagQueued(f)'
  <2>1. PICK i \in DOMAIN s : Tags(s[i], f) /\ \A j \in DOMAIN s : j > i => ~Untags(s[j], f)
    BY <1>4 DEF TagQueued
  <2>2. i \in DOMAIN t /\ Tags(t[i], f)
    BY <1>1, <2>1
  <2>3. \A j \in DOMAIN t : j > i => ~Untags(t[j], f)
    BY <1>1, <2>1
  <2> HIDE DEF t
  <2>4. \E k \in DOMAIN t : Tags(t[k], f) /\ \A j \in DOMAIN t : j > k => ~Untags(t[j], f)
    BY <2>2, <2>3
  <2> QED
    BY <2>4 DEF TagQueued, Tags, Untags, t
<1>5. ASSUME NEW a \in Range(new), Tags(a, f)
      PROVE  TagQueued(f)'
  <2>1. PICK i \in DOMAIN t : t[i] = a /\ i \notin DOMAIN s
    BY <1>1
  <2>2. Tags(t[i], f)
    BY <1>5, <2>1
  <2>3. ASSUME NEW j \in DOMAIN t, j > i
        PROVE  ~Untags(t[j], f)
    <3>1. j \notin DOMAIN s
      <4>1. j \in DOMAIN s => j < i
        BY <1>1, <2>1
      <4> QED
        BY <1>3, <2>1, <2>3, <4>1
    <3> QED
      BY <1>1, <3>1
  <2> HIDE DEF t
  <2>4. \E k \in DOMAIN t : Tags(t[k], f) /\ \A j \in DOMAIN t : j > k => ~Untags(t[j], f)
    BY <2>1, <2>2, <2>3
  <2> QED
    BY <2>4 DEF TagQueued, Tags, Untags, t
<1> QED
  BY <1>4, <1>5

LEMMA TagsAreRun ==
    ASSUME tagActions \in Seq(Actions), tagActions # << >>, tagActions' = Tail(tagActions),
           NEW f, TagQueued(f)
    PROVE  \/ TagQueued(f)'
           \/ Tags(Head(tagActions), f) /\ \A a \in Range(Tail(tagActions)) : ~Untags(a, f)
<1> DEFINE s == tagActions
           t == tagActions'
<1>1. /\ DOMAIN s \subseteq Nat /\ DOMAIN t \subseteq Nat
      /\ 1 \in DOMAIN s /\ s[1] = Head(s)
      /\ \A i \in DOMAIN t : i + 1 \in DOMAIN s /\ i + 1 # 1 /\ t[i] = s[i + 1]
      /\ \A i \in DOMAIN s : i = 1 \/ (i - 1 \in DOMAIN t /\ t[i - 1] = s[i] /\ 1 < i)
  BY TailIndex
<1>2. PICK i \in DOMAIN s : Tags(s[i], f) /\ \A j \in DOMAIN s : j > i => ~Untags(s[j], f)
  BY DEF TagQueued
<1>3. CASE i = 1
  <2>1. \A j \in DOMAIN t : ~Untags(t[j], f)
    <3>1. ASSUME NEW j \in DOMAIN t PROVE ~Untags(t[j], f)
      <4>1. j + 1 \in DOMAIN s /\ j + 1 # 1 /\ t[j] = s[j + 1] /\ j \in Nat
        BY <1>1
      <4>2. j + 1 > i
        BY <1>3, <4>1
      <4> QED
        BY <1>2, <4>1, <4>2
    <3> QED
      BY <3>1
  <2>2. \A a \in Range(Tail(tagActions)) : ~Untags(a, f)
    BY <2>1 DEF Range
  <2> QED
    BY <1>1, <1>2, <1>3, <2>2
<1>4. CASE i # 1
  <2>1. i - 1 \in DOMAIN t /\ t[i - 1] = s[i] /\ i \in Nat
    BY <1>1, <1>4
  <2>2. ASSUME NEW j \in DOMAIN t, j > i - 1
        PROVE  ~Untags(t[j], f)
    <3>1. j + 1 \in DOMAIN s /\ t[j] = s[j + 1] /\ j \in Nat
      BY <1>1
    <3>2. j + 1 > i
      BY <2>1, <2>2, <3>1
    <3> QED
      BY <1>2, <3>1, <3>2
  <2>3. Tags(t[i - 1], f)
    BY <1>2, <2>1
  <2> HIDE DEF t
  <2>4. \E k \in DOMAIN t : Tags(t[k], f) /\ \A j \in DOMAIN t : j > k => ~Untags(t[j], f)
    BY <2>1, <2>2, <2>3
  <2>5. TagQueued(f)'
    BY <2>4 DEF TagQueued, Tags, Untags, t
  <2> QED
    BY <2>5
<1> QED
  BY <1>3, <1>4

-----------------------------------------------------------------------------
(***************************************************************************)
(* What a rename that is told in full needs to stay so.                    *)
(***************************************************************************)

LEMMA RenameStays ==
    ASSUME NEW e, RenameInv(e),
           onDisk'[e.path] = onDisk[e.path], onDisk'[e.to] = onDisk[e.to],
           tagged'[e.path] = tagged[e.path], tagged'[e.to] = tagged[e.to],
           e.path \notin openedFiles',
           {e.path, e.to} \cap WithContents(Collected)' = {},
           dirOnDisk' = dirOnDisk \/ {e.path, e.to} \cap InDir = {},
           \A d \in Items' : d \in Items \/ ~(Mentions(d, e.path) \/ Mentions(d, e.to))
    PROVE  RenameInv(e)'
<1>1. \A d \in Items' : Mentions(d, e.path) \/ Mentions(d, e.to) => d = e
  BY DEF RenameInv
<1>2. (\A d \in Items : Mentions(d, e.path) \/ Mentions(d, e.to) => d = e)'
  BY <1>1
<1>3. \/ tagged'[e.path] = onDisk'[e.to] /\ tagged'[e.to] = 0
      \/ tagged'[e.path] = 0 /\ tagged'[e.to] = onDisk'[e.to]
  BY DEF RenameInv
<1> QED
  BY <1>2, <1>3 DEF RenameInv

-----------------------------------------------------------------------------
\* What is under way for a file is pending.
LEMMA ItemsArePending ==
    ASSUME WatcherTypeOK
    PROVE  /\ \A d \in Items, f \in Files : Mentions(d, f) => f \in Pending
           /\ PendingRenames \subseteq Pending
           /\ WithContents(Collected) \subseteq Pending
           /\ \A f \in Files : WillBeTagged(f) \/ WillBeUntagged(f) => f \in Pending
<1> DEFINE N == NamedIn(Unhandled) \cup pathsCreated \cup pathsModified \cup pathsDeleted \cup RenamePaths
<1>1. \A f : f \in Pending <=> f \in N \/ (Dir \in N /\ f \in InDir)
  BY MentionedFiles DEF Pending
<1>2. \A d \in Unhandled : d.path \in N /\ d.to \in N
  BY DEF NamedIn
<1>3. \A d \in CollectedRenames : d.path \in N /\ d.to \in N
  <2>1. \A d \in CollectedRenames : d.path \in RenamePaths /\ d.to \in RenamePaths
    BY EventParts DEF CollectedRenames, RenamePaths, Range
  <2> QED
    BY <2>1
<1>4. Collected \subseteq N
  BY DEF Collected
<1>5. RenamePaths \subseteq N
  OBVIOUS
<1>6. Range(fsEvents) \subseteq Unhandled /\ Range(tagActions) \subseteq Unhandled
  BY DEF Unhandled
<1>7. \A a \in Range(tagActions) : a.kind \in {"tagDir", "deleteDir"} => a.path = Dir
  BY RangeInSet, WatchActionFields DEF WatcherTypeOK
<1> HIDE DEF N
<1>8. \A d \in Items : d.path \in N /\ d.to \in N
  BY <1>2, <1>3 DEF Items
<1>9. \A d \in Items, f \in Files : Mentions(d, f) => f \in Pending
  BY <1>1, <1>8, MentionedFiles
<1>10. \A f \in PendingRenames : f \in N
  BY <1>8, RenamedFiles
<1>11. \A f \in WithContents(Collected) : f \in Pending
  BY <1>1, <1>4, MentionedFiles
<1>12. \A a \in Range(tagActions), f \in Files : Tags(a, f) \/ Untags(a, f) => f \in Pending
  BY <1>1, <1>2, <1>6, <1>7 DEF Tags, Untags
<1>13. \A f \in Files : WillBeTagged(f) => f \in Pending
  <2>1. ASSUME NEW f \in Files, TagQueued(f) PROVE f \in Pending
    <3>1. \E a \in Range(tagActions) : Tags(a, f)
      BY <2>1 DEF TagQueued, Range
    <3> QED
      BY <1>12, <3>1
  <2>2. ASSUME NEW f \in Files, NEW d \in Range(fsEvents), d.path = f PROVE f \in Pending
    BY <1>1, <1>2, <1>6, <2>2
  <2>3. ASSUME NEW f \in Files, f \in pathsCreated \cup pathsModified PROVE f \in Pending
    BY <1>1, <1>4, <2>3 DEF Collected
  <2> QED
    BY <2>1, <2>2, <2>3 DEF WillBeTagged
<1>14. \A f \in Files : WillBeUntagged(f) => f \in Pending
  <2>1. ASSUME NEW f \in Files, NEW d \in Range(fsEvents), Mentions(d, f) PROVE f \in Pending
    BY <1>6, <1>9, <2>1 DEF Items
  <2>2. ASSUME NEW f \in Files, f \in WithContents(pathsDeleted) PROVE f \in Pending
    BY <1>1, <1>4, <2>2, MentionedFiles DEF Collected
  <2> QED
    BY <1>12, <2>1, <2>2 DEF WillBeUntagged
<1> QED
  BY <1>1, <1>9, <1>10, <1>11, <1>13, <1>14

-----------------------------------------------------------------------------
(***************************************************************************)
(* What other programs do: the events es are told, of the files in touched *)
(* and no others.                                                          *)
(***************************************************************************)

LEMMA OtherFilesStay ==
    ASSUME WatcherInv, Happens, NEW es \in Seq(Events), Reports(es), untold \subseteq untold',
           NEW touched \in SUBSET Files,
           \A f \in Files \ touched : onDisk'[f] = onDisk[f]
    PROVE  /\ fsEvents' \in Seq(Events) /\ Range(fsEvents') = Range(fsEvents) \cup Range(es)
           /\ Items' = Items \cup Range(es)
           /\ PendingRenames \subseteq PendingRenames'
           /\ \A f : WillBeUntagged(f) => WillBeUntagged(f)'
           /\ \A f \in Files \ (untold' \cup PendingRenames') : FileInv(f)
           /\ \A f \in Files \ (untold' \cup PendingRenames' \cup touched) : FileInv(f)'
<1>1. fsEvents \in Seq(Events) /\ fsEvents' = fsEvents \o es
  BY DEF WatcherInv, WatcherTypeOK, Reports
<1>2. fsEvents' \in Seq(Events) /\ Range(fsEvents') = Range(fsEvents) \cup Range(es)
  BY <1>1, RangeOfConcat
<1>3. UNCHANGED <<pathsCreated, pathsModified, pathsDeleted, pathsRenamed, openedFiles, opens, tagged, tagActions>>
  BY DEF Happens, collected
<1>4. Items' = Items \cup Range(es)
  BY <1>2, <1>3 DEF Items, Unhandled, CollectedRenames
<1>6. PendingRenames \subseteq PendingRenames'
  BY <1>4, RenamedFiles, RenamedFilesNext
<1>7. \A f \in Files \ (untold' \cup PendingRenames') : FileInv(f)
  BY <1>6 DEF WatcherInv, FilesInv
<1>8. \A f : WillBeUntagged(f) => WillBeUntagged(f)'
  BY <1>2, <1>3 DEF WillBeUntagged, Untags, Mentions, WithContents
<1>9. \A f : WillBeTagged(f) => WillBeTagged(f)'
  BY <1>2, <1>3 DEF WillBeTagged, TagQueued, Tags, Untags
<1>10. ASSUME NEW f \in Files \ (untold' \cup PendingRenames' \cup touched)
       PROVE  FileInv(f)'
  <2>1. onDisk'[f] = onDisk[f] /\ FileInv(f)
    BY <1>7
  <2>2. TagIsCurrent(f) => TagIsCurrent(f)'
    BY <1>3, <2>1 DEF TagIsCurrent, Untags
  <2> QED
    BY <1>3, <1>8, <1>9, <2>1, <2>2 DEF FileInv
<1> QED
  BY <1>2, <1>4, <1>6, <1>7, <1>8, <1>10

LEMMA ItemFields ==
    ASSUME WatcherTypeOK, NEW e \in Items
    PROVE  /\ e \in Events \/ e \in Actions
           /\ e.kind = "rename" => e = Event("rename", e.path, e.to) /\ e.path \in Files /\ e.to \in Files
           /\ e.path \in Paths /\ e.to \in Paths
<1>1. Range(fsEvents) \subseteq Events /\ Range(tagActions) \subseteq Actions
  BY RangeInSet DEF WatcherTypeOK
<1>2. CollectedRenames \subseteq Events
  BY EventsAndActions DEF CollectedRenames, WatcherTypeOK
<1>3. e \in Events \/ e \in Actions
  BY <1>1, <1>2 DEF Items, Unhandled
<1> QED
  BY <1>3, WatchEventFields, WatchActionFields

\* Other programs change the files touched and no others; the events es are told of
\* the files told, of which none has a rename that is told in full, or it is so no
\* longer.
Told(es, touched, told) ==
    /\ es \in Seq(Events) /\ Reports(es)
    /\ untold \subseteq untold' /\ untold' \subseteq Files
    /\ touched \subseteq told /\ told \subseteq Files
    /\ onDisk' \in [Files -> Stamp] /\ \A f \in Files : onDisk'[f] <= writes + 2
    /\ \A f \in Files : f \notin touched => onDisk'[f] = onDisk[f]
    /\ \A d \in Range(es), f \in Files : Mentions(d, f) => f \in told
    /\ dirOnDisk' \in BOOLEAN
    /\ dirOnDisk' = dirOnDisk \/ InDir \subseteq told
    /\ \A f \in touched : f \in untold' \cup PendingRenames' \/ FileInv(f)'
    /\ \A d \in Range(es) : d.kind = "rename" => {d.path, d.to} \subseteq untold' \/ RenameInv(d)'
    /\ \A e \in Items : e.kind = "rename" =>
           {e.path, e.to} \subseteq untold' \/ {e.path, e.to} \cap told = {}

LEMMA OtherProgramsKeepInv ==
    ASSUME WatcherInv, Happens, NEW es, NEW touched, NEW told, Told(es, touched, told), DirInv'
    PROVE  WatcherInv'
<1>0. /\ es \in Seq(Events) /\ Reports(es)
      /\ untold \subseteq untold' /\ untold' \subseteq Files
      /\ touched \in SUBSET Files /\ told \in SUBSET Files /\ touched \subseteq told
      /\ onDisk' \in [Files -> Stamp] /\ \A f \in Files : onDisk'[f] <= writes + 2
      /\ \A f \in Files \ touched : onDisk'[f] = onDisk[f]
      /\ \A d \in Range(es), f \in Files : Mentions(d, f) => f \in told
      /\ dirOnDisk' \in BOOLEAN
      /\ dirOnDisk' = dirOnDisk \/ InDir \subseteq told
      /\ \A f \in touched : f \in untold' \cup PendingRenames' \/ FileInv(f)'
      /\ \A d \in Range(es) : d.kind = "rename" => {d.path, d.to} \subseteq untold' \/ RenameInv(d)'
      /\ \A e \in Items : e.kind = "rename" =>
           {e.path, e.to} \subseteq untold' \/ {e.path, e.to} \cap told = {}
  BY DEF Told
<1>1. /\ fsEvents' \in Seq(Events)
      /\ Items' = Items \cup Range(es)
      /\ \A f \in Files \ (untold' \cup PendingRenames' \cup touched) : FileInv(f)'
  BY <1>0, OtherFilesStay
<1>2. UNCHANGED <<pathsCreated, pathsModified, pathsDeleted, pathsRenamed, openedFiles, opens, tagged, tagActions>>
      /\ writes < MaxWrites /\ writes' = writes + 1
  BY DEF Happens, collected
<1>3. writes \in Nat /\ writes' \in 0 .. MaxWrites
  BY <1>2, FilesAreNumbers DEF WatcherInv, WatcherTypeOK
<1>4. WatcherTypeOK'
  BY <1>0, <1>1, <1>2, <1>3 DEF WatcherInv, WatcherTypeOK
<1>5. StampsInv'
  <2>1. \A f \in Files : tagged[f] <= writes + 1 /\ tagged[f] \in Nat
    BY FilesAreNumbers DEF WatcherInv, StampsInv, WatcherTypeOK, Stamp
  <2>2. \A f \in Files : tagged'[f] <= writes' + 1
    BY <1>2, <1>3, <2>1
  <2>3. \A f \in Files : onDisk'[f] <= writes' + 1
    BY <1>0, <1>2, <1>3
  <2> QED
    BY <2>2, <2>3 DEF StampsInv
<1>6. FilesInv'
  BY <1>0, <1>1 DEF FilesInv
<1>7. ASSUME NEW e \in Items, e.kind = "rename", ~({e.path, e.to} \subseteq untold')
      PROVE  RenameInv(e)'
  <2>1. e.path \in Files /\ e.to \in Files
    BY <1>7, ItemFields DEF WatcherInv
  <2>2. {e.path, e.to} \cap told = {} /\ RenameInv(e)
    BY <1>0, <1>7 DEF WatcherInv, RenamesInv
  <2>3. e.path \notin touched /\ e.to \notin touched
    BY <1>0, <2>2
  <2>4. /\ onDisk'[e.path] = onDisk[e.path] /\ onDisk'[e.to] = onDisk[e.to]
        /\ tagged'[e.path] = tagged[e.path] /\ tagged'[e.to] = tagged[e.to]
    BY <1>0, <1>2, <2>1, <2>3
  <2>5. e.path \notin openedFiles' /\ {e.path, e.to} \cap WithContents(Collected)' = {}
    BY <1>2, <2>2 DEF RenameInv, Collected, WithContents
  <2>6. dirOnDisk' = dirOnDisk \/ {e.path, e.to} \cap InDir = {}
    BY <1>0, <2>2
  <2>7. \A d \in Items' : d \in Items \/ ~(Mentions(d, e.path) \/ Mentions(d, e.to))
    BY <1>0, <1>1, <2>1, <2>2
  <2> QED
    BY <2>2, <2>4, <2>5, <2>6, <2>7, RenameStays
<1>8. RenamesInv'
  BY <1>0, <1>1, <1>7 DEF RenamesInv
<1> QED
  BY <1>4, <1>5, <1>6, <1>8 DEF WatcherInv

LEMMA NoNewDirDeletion ==
    ASSUME WatcherTypeOK, Happens, NEW es \in Seq(Events), Reports(es),
           \A d \in Range(es) : ~(d.kind = "delete" /\ d.path = Dir)
    PROVE  DirDeletionPending' => DirDeletionPending
<1>1. fsEvents \in Seq(Events) /\ fsEvents' = fsEvents \o es
  BY DEF WatcherTypeOK, Reports
<1>2. Range(fsEvents') = Range(fsEvents) \cup Range(es)
  BY <1>1, RangeOfConcat
<1> QED
  BY <1>2 DEF DirDeletionPending, Happens, collected

\* Changes that meet a rename take away that it is told in full.
LEMMA MetRenames ==
    ASSUME WatcherTypeOK, NEW fs \in SUBSET Files, Cross(fs, MeetsRename(fs))
    PROVE  /\ untold \subseteq untold' /\ untold' \subseteq Files
           /\ fs \cap PendingRenames \subseteq untold'
           /\ \A e \in Items : e.kind = "rename" =>
                 {e.path, e.to} \subseteq untold' \/ {e.path, e.to} \cap fs = {}
<1>1. untold \subseteq untold' /\ untold' \subseteq Files
  BY DEF Cross, WatcherTypeOK
<1>2. fs \cap PendingRenames \subseteq untold'
  BY DEF Cross, MeetsRename
<1>3. ASSUME NEW e \in Items, e.kind = "rename", {e.path, e.to} \cap fs # {}
      PROVE  {e.path, e.to} \subseteq untold'
  <2>1. e.path \in PendingRenames /\ e.to \in PendingRenames
    BY <1>3, RenamedFiles
  <2>2. e.path \in Files /\ e.to \in Files
    BY <1>3, ItemFields
  <2> QED
    BY <1>3, <2>1, <2>2 DEF Cross, MeetsRename
<1> QED
  BY <1>1, <1>2, <1>3

LEMMA StampsAreSmall ==
    ASSUME WatcherInv, Happens
    PROVE  /\ writes \in Nat /\ writes' = writes + 1 /\ 0 \in Stamp /\ Now \in Stamp /\ Now # 0 /\ Now <= writes + 2
           /\ Now \in Nat /\ \A f \in Files : /\ onDisk[f] \in Nat /\ onDisk[f] \in Stamp /\ onDisk[f] <= writes + 1
                                              /\ tagged[f] \in Nat /\ tagged[f] <= writes + 1
                                              /\ onDisk[f] <= writes + 2 /\ tagged[f] <= Now
BY FilesAreNumbers DEF WatcherInv, WatcherTypeOK, StampsInv, Happens, Stamp, Now

LEMMA WriteFileKeepsInv ==
    ASSUME WatcherInv, NEW f \in Files, WriteFile(f)
    PROVE  WatcherInv'
<1> DEFINE k == IF onDisk[f] = 0 THEN "create" ELSE "modify"
           d == Event(k, f, f)
           es == <<d>>
<1>1. d \in Events /\ d.kind \in {"create", "modify"} /\ d.path = f /\ d.to = f
  <2>1. f \in Paths
    BY FilesAreNumbers
  <2> QED
    BY <2>1, EventsAndActions, EventParts
<1>2. Happens /\ Reports(es) /\ Cross({f}, MeetsRename({f})) /\ dirOnDisk' = dirOnDisk
      /\ onDisk' = [onDisk EXCEPT ![f] = Now] /\ (f \in InDir => dirOnDisk)
  BY DEF WriteFile
<1>3. WatcherTypeOK /\ DirInv
  BY DEF WatcherInv
<1> HIDE DEF d
<1>4. es \in Seq(Events) /\ Range(es) = {d}
  BY <1>1, SingleRange
<1> HIDE DEF es
<1>5. \A g \in Files : Mentions(d, g) => g = f
  BY <1>1, FilesAreNumbers, MentionedFiles
<1>6. /\ untold \subseteq untold' /\ untold' \subseteq Files
      /\ \A e \in Items : e.kind = "rename" => {e.path, e.to} \subseteq untold' \/ {e.path, e.to} \cap {f} = {}
  BY <1>2, <1>3, MetRenames
<1>7. onDisk' \in [Files -> Stamp] /\ onDisk'[f] = Now /\ \A g \in Files \ {f} : onDisk'[g] = onDisk[g]
  BY <1>2, <1>3, StampsAreSmall DEF WatcherTypeOK
<1>8. \A g \in Files : onDisk'[g] <= writes + 2
  BY <1>2, <1>7, StampsAreSmall
<1>9. DirInv'
  <2>1. DirDeletionPending' => DirDeletionPending
    BY <1>1, <1>2, <1>3, <1>4, NoNewDirDeletion
  <2>2. \A g \in InDir : onDisk'[g] # 0 => dirOnDisk'
    BY <1>2, <1>3, <1>7, FilesAreNumbers DEF DirInv
  <2> QED
    BY <1>2, <1>3, <1>6, <2>1, <2>2 DEF DirInv
<1>10. FileInv(f)'
  <2>1. Range(fsEvents') = Range(fsEvents) \cup Range(es)
    BY <1>2, <1>4, <1>6, <1>7, OtherFilesStay
  <2>2. WillBeTagged(f)'
    BY <1>1, <1>4, <2>1 DEF WillBeTagged
  <2>3. tagged'[f] <= onDisk'[f] /\ onDisk'[f] # 0
    BY <1>2, <1>7, StampsAreSmall DEF Happens
  <2> QED
    BY <2>2, <2>3 DEF FileInv
<1>11. \A g \in Range(es) : g.kind # "rename"
  BY <1>1, <1>4
<1>12. dirOnDisk' \in BOOLEAN
  BY <1>2, <1>3 DEF WatcherTypeOK
<1> DEFINE told == {f}
<1>13. /\ told \subseteq Files
       /\ \A g \in Files : g \notin told => onDisk'[g] = onDisk[g]
       /\ \A g \in told : g \in untold' \cup PendingRenames' \/ FileInv(g)'
       /\ \A e \in Range(es), g \in Files : Mentions(e, g) => g \in told
       /\ \A e \in Items : e.kind = "rename" => {e.path, e.to} \subseteq untold' \/ {e.path, e.to} \cap told = {}
  BY <1>4, <1>5, <1>6, <1>7, <1>10
<1> HIDE DEF told
<1>14. Told(es, told, told)
  BY <1>2, <1>4, <1>6, <1>7, <1>8, <1>11, <1>12, <1>13 DEF Told
<1> QED
  BY <1>2, <1>9, <1>14, OtherProgramsKeepInv

LEMMA DeleteFileKeepsInv ==
    ASSUME WatcherInv, NEW f \in Files, DeleteFile(f)
    PROVE  WatcherInv'
<1> DEFINE d == Event("delete", f, f)
           es == <<d>>
<1>1. d \in Events /\ d.kind = "delete" /\ d.path = f /\ d.to = f
  <2>1. f \in Paths
    BY FilesAreNumbers
  <2> QED
    BY <2>1, EventsAndActions, EventParts
<1>2. Happens /\ Reports(es) /\ Cross({f}, MeetsRename({f})) /\ dirOnDisk' = dirOnDisk
      /\ onDisk' = [onDisk EXCEPT ![f] = 0]
  BY DEF DeleteFile
<1>3. WatcherTypeOK /\ DirInv
  BY DEF WatcherInv
<1> HIDE DEF d
<1>4. es \in Seq(Events) /\ Range(es) = {d}
  BY <1>1, SingleRange
<1> HIDE DEF es
<1>5. Mentions(d, f) /\ \A g \in Files : Mentions(d, g) => g = f
  BY <1>1, FilesAreNumbers, MentionedFiles
<1>6. /\ untold \subseteq untold' /\ untold' \subseteq Files
      /\ \A e \in Items : e.kind = "rename" => {e.path, e.to} \subseteq untold' \/ {e.path, e.to} \cap {f} = {}
  BY <1>2, <1>3, MetRenames
<1>7. onDisk' \in [Files -> Stamp] /\ onDisk'[f] = 0 /\ \A g \in Files \ {f} : onDisk'[g] = onDisk[g]
  BY <1>2, <1>3, StampsAreSmall DEF WatcherTypeOK
<1>8. \A g \in Files : onDisk'[g] <= writes + 2
  BY <1>2, <1>7, StampsAreSmall
<1>9. DirInv'
  <2>1. DirDeletionPending' => DirDeletionPending
    BY <1>1, <1>2, <1>3, <1>4, NoNewDirDeletion, FilesAreNumbers
  <2>2. \A g \in InDir : onDisk'[g] # 0 => dirOnDisk'
    BY <1>2, <1>3, <1>7, FilesAreNumbers DEF DirInv
  <2> QED
    BY <1>2, <1>3, <1>6, <2>1, <2>2 DEF DirInv
<1>10. FileInv(f)'
  <2>1. Range(fsEvents') = Range(fsEvents) \cup Range(es)
    BY <1>2, <1>4, <1>6, <1>7, OtherFilesStay
  <2>2. d \in Range(fsEvents')
    BY <1>4, <2>1
  <2>3. WillBeUntagged(f)'
    BY <1>1, <1>5, <2>2 DEF WillBeUntagged, Mentions, WithContents
  <2> QED
    BY <1>7, <2>3 DEF FileInv
<1>11. \A g \in Range(es) : g.kind # "rename"
  BY <1>1, <1>4
<1>12. dirOnDisk' \in BOOLEAN
  BY <1>2, <1>3 DEF WatcherTypeOK
<1> DEFINE told == {f}
<1>13. /\ told \subseteq Files
       /\ \A g \in Files : g \notin told => onDisk'[g] = onDisk[g]
       /\ \A g \in told : g \in untold' \cup PendingRenames' \/ FileInv(g)'
       /\ \A e \in Range(es), g \in Files : Mentions(e, g) => g \in told
       /\ \A e \in Items : e.kind = "rename" => {e.path, e.to} \subseteq untold' \/ {e.path, e.to} \cap told = {}
  BY <1>4, <1>5, <1>6, <1>7, <1>10
<1> HIDE DEF told
<1>14. Told(es, told, told)
  BY <1>2, <1>4, <1>6, <1>7, <1>8, <1>11, <1>12, <1>13 DEF Told
<1> QED
  BY <1>2, <1>9, <1>14, OtherProgramsKeepInv

LEMMA EventsAreReported ==
    ASSUME WatcherTypeOK, NEW es \in Seq(Events), Reports(es)
    PROVE  Range(fsEvents') = Range(fsEvents) \cup Range(es)
<1>1. fsEvents \in Seq(Events) /\ fsEvents' = fsEvents \o es
  BY DEF WatcherTypeOK, Reports
<1> QED
  BY <1>1, RangeOfConcat

LEMMA RenameFileKeepsInv ==
    ASSUME WatcherInv, NEW f \in Files, NEW g \in Files, RenameFile(f, g)
    PROVE  WatcherInv'
<1> DEFINE d == Event("rename", f, g)
           es == <<d>>
           told == {f, g}
           meets == f = g \/ onDisk[g] # 0 \/ {f, g} \cap (Pending \cup untold \cup openedFiles) # {}
<1>1. d \in Events /\ d.kind = "rename" /\ d.path = f /\ d.to = g
  BY EventsAndActions, EventParts
<1>2. Happens /\ Reports(es) /\ dirOnDisk' = dirOnDisk /\ onDisk[f] # 0
      /\ ({f, g} \cap InDir # {} => dirOnDisk)
      /\ onDisk' = IF f = g THEN [onDisk EXCEPT ![f] = Now] ELSE [onDisk EXCEPT ![g] = onDisk[f], ![f] = 0]
  BY DEF RenameFile
<1>3. WatcherTypeOK /\ DirInv
  BY DEF WatcherInv
<1>4. /\ untold \subseteq untold' /\ untold' \subseteq Files
      /\ meets => Files \cap (told \cup PendingRenames) \subseteq untold'
  BY <1>3 DEF RenameFile, Cross, WatcherTypeOK
<1> HIDE DEF d
<1>5. es \in Seq(Events) /\ Range(es) = {d}
  BY <1>1, SingleRange
<1> HIDE DEF es
<1>6. \A h \in Files : Mentions(d, h) => h \in told
  BY <1>1, FilesAreNumbers, MentionedFiles
<1>7. onDisk' \in [Files -> Stamp] /\ (\A h \in Files : h \notin told => onDisk'[h] = onDisk[h])
      /\ \A h \in Files : onDisk'[h] <= writes + 2
  <2>1. onDisk' \in [Files -> Stamp] /\ \A h \in Files : h \notin told => onDisk'[h] = onDisk[h]
    BY <1>2, <1>3, StampsAreSmall DEF WatcherTypeOK
  <2>2. \A h \in Files : onDisk'[h] \in {Now, 0, onDisk[f], onDisk[h]}
    BY <1>2, <1>3 DEF WatcherTypeOK
  <2>3. 0 <= writes + 2
    BY <1>2, StampsAreSmall
  <2> QED
    BY <1>2, <2>1, <2>2, <2>3, StampsAreSmall
<1>8. DirInv'
  <2>1. DirDeletionPending' => DirDeletionPending
    BY <1>1, <1>2, <1>3, <1>5, NoNewDirDeletion
  <2>2. \A h \in InDir : onDisk'[h] # 0 => dirOnDisk'
    BY <1>2, <1>3, <1>7, FilesAreNumbers DEF DirInv
  <2> QED
    BY <1>2, <1>3, <1>4, <2>1, <2>2 DEF DirInv
<1>9. d \in Items' /\ f \in PendingRenames' /\ g \in PendingRenames'
  <2>1. Range(fsEvents') = Range(fsEvents) \cup Range(es)
    BY <1>2, <1>3, <1>5, EventsAreReported
  <2>2. d \in Items'
    BY <1>5, <2>1 DEF Items, Unhandled
  <2> QED
    BY <1>1, <2>2, RenamedFilesNext
<1>10. ASSUME NEW e \in Items, e.kind = "rename"
       PROVE  {e.path, e.to} \subseteq untold' \/ {e.path, e.to} \cap told = {}
  <2>1. e.path \in PendingRenames /\ e.to \in PendingRenames
    BY <1>10, RenamedFiles
  <2>2. e.path \in Files /\ e.to \in Files
    BY <1>3, <1>10, ItemFields
  <2>3. CASE meets
    BY <1>4, <2>1, <2>2, <2>3
  <2>4. CASE ~meets
    BY <1>3, <2>1, <2>4, ItemsArePending
  <2> QED
    BY <2>3, <2>4
<1>11. {f, g} \subseteq untold' \/ RenameInv(d)'
  <2>1. CASE meets
    BY <1>4, <2>1
  <2>2. CASE ~meets
    <3>1. f # g /\ onDisk[g] = 0 /\ f \notin Pending /\ g \notin Pending /\ f \notin untold /\ g \notin untold
          /\ f \notin openedFiles
      BY <2>2
    <3> HIDE DEF meets
    <3>2. FileInv(f) /\ FileInv(g)
      BY <1>3, <3>1, ItemsArePending DEF WatcherInv, FilesInv
    <3>3. tagged[f] = onDisk[f] /\ tagged[g] = 0
      BY <1>2, <1>3, <3>1, <3>2, ItemsArePending DEF FileInv, TagIsCurrent
    <3>4. onDisk'[f] = 0 /\ onDisk'[g] = onDisk[f]
      BY <1>2, <1>3, <3>1 DEF WatcherTypeOK
    <3>5. UNCHANGED <<pathsCreated, pathsModified, pathsDeleted, pathsRenamed, openedFiles, tagged, tagActions>>
      BY <1>2 DEF Happens, collected
    <3>6. {f, g} \cap WithContents(Collected)' = {}
      <4>1. WithContents(Collected)' = WithContents(Collected)
        BY <3>5 DEF Collected, WithContents
      <4> QED
        BY <1>3, <3>1, <4>1, ItemsArePending
    <3>7. \A e \in Items' : Mentions(e, f) \/ Mentions(e, g) => e = d
      <4>1. Range(fsEvents') = Range(fsEvents) \cup Range(es)
        BY <1>2, <1>3, <1>5, EventsAreReported
      <4>2. \A e \in Items' : e \in Items \/ e = d
        BY <1>5, <3>5, <4>1 DEF Items, Unhandled, CollectedRenames
      <4> QED
        BY <1>3, <3>1, <4>2, ItemsArePending
    <3>8. (\A e \in Items : Mentions(e, f) \/ Mentions(e, g) => e = d)'
      BY <3>7
    <3> QED
      BY <1>1, <1>2, <3>1, <3>3, <3>4, <3>5, <3>6, <3>8 DEF RenameInv
  <2> QED
    BY <2>1, <2>2
<1>12. \A h \in told : h \in untold' \cup PendingRenames' \/ FileInv(h)'
  BY <1>9
<1>13. \A e \in Range(es) : e.kind = "rename" => {e.path, e.to} \subseteq untold' \/ RenameInv(e)'
  BY <1>1, <1>5, <1>11
<1>14. told \subseteq Files /\ dirOnDisk' \in BOOLEAN
  BY <1>2, <1>3 DEF WatcherTypeOK
<1>15. \A e \in Range(es), h \in Files : Mentions(e, h) => h \in told
  BY <1>5, <1>6
<1> HIDE DEF told, meets
<1>16. Told(es, told, told)
  BY <1>2, <1>4, <1>5, <1>7, <1>10, <1>12, <1>13, <1>14, <1>15 DEF Told
<1> QED
  BY <1>2, <1>8, <1>16, OtherProgramsKeepInv

LEMMA EventsOfFiles ==
    ASSUME NEW k, NEW fs, IsFiniteSet(fs)
    PROVE  LET D == {Event(k, f, f) : f \in fs}
           IN  /\ IsFiniteSet(D)
               /\ \A e \in D : e.kind = k /\ e.path \in fs /\ e.to = e.path /\ e = Event(k, e.path, e.path)
               /\ \A f \in fs : \E e \in D : e.path = f
<1> DEFINE D == {Event(k, f, f) : f \in fs}
           F == [f \in fs |-> Event(k, f, f)]
<1>1. F \in [fs -> D]
  OBVIOUS
<1>2. \A e \in D : \E f \in fs : F[f] = e
  OBVIOUS
<1>3. F \in Surjection(fs, D)
  <2> HIDE DEF F, D
  <2> QED
    BY <1>1, <1>2 DEF Surjection
<1>4. IsFiniteSet(D)
  <2> HIDE DEF F, D
  <2> QED
    BY <1>3, FS_Surjection
<1> QED
  BY <1>4, EventParts

LEMMA MakeDirKeepsInv ==
    ASSUME WatcherInv, NEW fs \in SUBSET InDir, MakeDir(fs)
    PROVE  WatcherInv'
<1> DEFINE D == {Event("create", f, f) : f \in fs}
           q == SetToSeq(D)
           d == Event("create", Dir, Dir)
           es == <<d>> \o q
           told == InDir
<1>1. fs \subseteq Files /\ told \subseteq Files /\ fs \subseteq told /\ IsFiniteSet(fs)
  BY FilesAreNumbers
<1>2. /\ Happens /\ Reports(es) /\ ~dirOnDisk /\ dirOnDisk' = TRUE
      /\ onDisk' = [f \in Files |-> IF f \in fs THEN Now ELSE onDisk[f]]
      /\ Cross(InDir, Dir \in Pending)
  BY DEF MakeDir
<1>3. WatcherTypeOK /\ DirInv /\ \A f \in InDir : onDisk[f] = 0
  BY <1>2 DEF WatcherInv, DirInv
<1>4. untold \subseteq untold' /\ untold' \subseteq Files /\ (Dir \in Pending => InDir \subseteq untold')
  BY <1>1, <1>2, <1>3 DEF Cross, WatcherTypeOK
<1>5. IsFiniteSet(D) /\ D \subseteq Events /\ (\A e \in D : e.kind = "create" /\ e.path \in fs /\ e.to \in fs)
      /\ \A f \in fs : \E e \in D : e.path = f
  <2>4. \A f \in fs : Event("create", f, f) \in D /\ Event("create", f, f).path = f
    BY EventParts
  <2>1. /\ IsFiniteSet(D)
        /\ \A e \in D : e.kind = "create" /\ e.path \in fs /\ e.to = e.path /\ e = Event("create", e.path, e.path)
    BY <1>1, EventsOfFiles
  <2> HIDE DEF D
  <2>2. \A e \in D : e \in Events
    BY <1>1, <2>1, EventsAndActions, FilesAreNumbers
  <2> QED
    BY <2>1, <2>2, <2>4
<1>6. \A f \in fs : \E e \in D : e.kind = "create" /\ e.path = f
  <2> HIDE DEF D
  <2> QED
    BY <1>5
<1>7. d \in Events /\ d.kind = "create" /\ d.path = Dir /\ d.to = Dir
  BY EventsAndActions, EventParts, FilesAreNumbers
<1> HIDE DEF D, d
<1>8. q \in Seq(Events) /\ Range(q) = D
  <2>1. q \in Seq(D) /\ Range(q) = D
    BY <1>5, SetToSeqProperties
  <2> QED
    BY <1>5, <2>1
<1> HIDE DEF q
<1>9. es \in Seq(Events) /\ Range(es) = {d} \cup D
  <2> DEFINE h == <<d>>
  <2>1. h \in Seq(Events) /\ Range(h) = {d}
    BY <1>7, SingleRange
  <2> HIDE DEF h
  <2>2. h \o q \in Seq(Events) /\ Range(h \o q) = {d} \cup D
    BY <1>8, <2>1, RangeOfConcat
  <2> QED
    BY <2>2 DEF h
<1> HIDE DEF es
<1>10. \A e \in Range(es), h \in Files : Mentions(e, h) => h \in told
  BY <1>1, <1>5, <1>7, <1>9, FilesAreNumbers, MentionedFiles
<1>11. onDisk' \in [Files -> Stamp] /\ (\A h \in Files : h \notin fs => onDisk'[h] = onDisk[h])
       /\ \A h \in Files : onDisk'[h] <= writes + 2
  BY <1>2, <1>3, StampsAreSmall DEF WatcherTypeOK
<1>12. DirInv'
  <2>1. DirDeletionPending' => DirDeletionPending
    BY <1>2, <1>3, <1>5, <1>7, <1>9, NoNewDirDeletion
  <2>2. DirDeletionPending => Dir \in Pending
    <3>1. \A e \in Unhandled : e.path \in NamedIn(Unhandled)
      BY DEF NamedIn
    <3>2. \A a \in Range(tagActions) : a.kind = "deleteDir" => a.path = Dir
      BY <1>3, RangeInSet, WatchActionFields DEF WatcherTypeOK
    <3>3. DirDeletionPending => Dir \in NamedIn(Unhandled) \cup pathsDeleted
      BY <3>1, <3>2 DEF DirDeletionPending, Unhandled
    <3> QED
      BY <3>3, MentionedFiles DEF Pending
  <2> QED
    BY <1>2, <1>4, <2>1, <2>2 DEF DirInv
<1>13. ASSUME NEW f \in fs
       PROVE  FileInv(f)'
  <2>1. Range(fsEvents') = Range(fsEvents) \cup Range(es)
    BY <1>2, <1>3, <1>9, EventsAreReported
  <2>2. WillBeTagged(f)'
    BY <1>6, <1>9, <2>1 DEF WillBeTagged
  <2>3. tagged'[f] <= onDisk'[f] /\ onDisk'[f] # 0
    BY <1>1, <1>2, StampsAreSmall DEF Happens
  <2> QED
    BY <2>2, <2>3 DEF FileInv
<1>14. \A e \in Range(es) : e.kind # "rename"
  BY <1>5, <1>7, <1>9
<1>15. \A e \in Items : e.kind = "rename" => {e.path, e.to} \subseteq untold' \/ {e.path, e.to} \cap told = {}
  BY <1>2, <1>4 DEF WatcherInv, RenamesInv, RenameInv
<1> HIDE DEF told
<1>16. dirOnDisk' \in BOOLEAN /\ InDir \subseteq told
  BY <1>2 DEF told
<1>17. Told(es, fs, told)
  BY <1>1, <1>2, <1>4, <1>9, <1>10, <1>11, <1>13, <1>14, <1>15, <1>16 DEF Told
<1> QED
  BY <1>2, <1>12, <1>17, OtherProgramsKeepInv

LEMMA DeleteDirKeepsInv ==
    ASSUME WatcherInv, DeleteDir
    PROVE  WatcherInv'
<1> DEFINE gone == {g \in InDir : onDisk[g] # 0}
           D == {Event("delete", f, f) : f \in gone}
           q == SetToSeq(D)
           d == Event("delete", Dir, Dir)
           es == q \o <<d>>
           told == InDir
<1>1. gone \subseteq Files /\ told \subseteq Files /\ IsFiniteSet(gone)
  BY FilesAreNumbers
<1>2. /\ Happens /\ Reports(es) /\ dirOnDisk' = FALSE
      /\ onDisk' = [f \in Files |-> IF f \in InDir THEN 0 ELSE onDisk[f]]
      /\ Cross(InDir, MeetsRename(InDir))
  BY DEF DeleteDir
<1>3. WatcherTypeOK
  BY DEF WatcherInv
<1>4. /\ untold \subseteq untold' /\ untold' \subseteq Files
      /\ \A e \in Items : e.kind = "rename" => {e.path, e.to} \subseteq untold' \/ {e.path, e.to} \cap told = {}
  BY <1>1, <1>2, <1>3, MetRenames
<1>5. IsFiniteSet(D) /\ D \subseteq Events /\ \A e \in D : e.kind = "delete" /\ e.path \in InDir /\ e.to \in InDir
  <2>1. /\ IsFiniteSet(D)
        /\ \A e \in D : e.kind = "delete" /\ e.path \in gone /\ e.to = e.path /\ e = Event("delete", e.path, e.path)
    <3> HIDE DEF gone
    <3> QED
      BY <1>1, EventsOfFiles
  <2> HIDE DEF D
  <2>2. \A e \in D : e \in Events
    BY <1>1, <2>1, EventsAndActions, FilesAreNumbers
  <2> QED
    BY <2>1, <2>2
<1>6. d \in Events /\ d.kind = "delete" /\ d.path = Dir /\ d.to = Dir
  BY EventsAndActions, EventParts, FilesAreNumbers
<1> HIDE DEF D, d
<1>7. q \in Seq(Events) /\ Range(q) = D
  <2>1. q \in Seq(D) /\ Range(q) = D
    BY <1>5, SetToSeqProperties
  <2> QED
    BY <1>5, <2>1
<1> HIDE DEF q
<1>8. es \in Seq(Events) /\ Range(es) = D \cup {d}
  <2> DEFINE h == <<d>>
  <2>1. h \in Seq(Events) /\ Range(h) = {d}
    BY <1>6, SingleRange
  <2> HIDE DEF h
  <2>2. q \o h \in Seq(Events) /\ Range(q \o h) = D \cup {d}
    BY <1>7, <2>1, RangeOfConcat
  <2> QED
    BY <2>2 DEF h
<1> HIDE DEF es
<1>9. \A e \in Range(es), h \in Files : Mentions(e, h) => h \in told
  BY <1>1, <1>5, <1>6, <1>8, FilesAreNumbers, MentionedFiles
<1>10. onDisk' \in [Files -> Stamp] /\ (\A h \in Files : h \notin told => onDisk'[h] = onDisk[h])
       /\ \A h \in Files : onDisk'[h] <= writes + 2
  <2>1. 0 <= writes + 2
    BY <1>2, StampsAreSmall
  <2> QED
    BY <1>2, <1>3, <2>1, StampsAreSmall DEF WatcherTypeOK
<1>11. \A f \in InDir : onDisk'[f] = 0
  BY <1>1, <1>2
<1>12. DirInv'
  BY <1>2, <1>11 DEF DirInv
<1>13. ASSUME NEW f \in told
       PROVE  FileInv(f)'
  <2>1. Range(fsEvents') = Range(fsEvents) \cup Range(es)
    BY <1>2, <1>3, <1>8, EventsAreReported
  <2>2. d \in Range(fsEvents') /\ Mentions(d, f)
    BY <1>6, <1>8, <2>1, MentionedFiles
  <2>3. WillBeUntagged(f)'
    BY <1>6, <2>2 DEF WillBeUntagged, Mentions, WithContents
  <2> QED
    BY <1>11, <2>3 DEF FileInv
<1>14. \A e \in Range(es) : e.kind # "rename"
  BY <1>5, <1>6, <1>8
<1> HIDE DEF told
<1>15. dirOnDisk' \in BOOLEAN /\ InDir \subseteq told
  BY <1>2 DEF told
<1>16. Told(es, told, told)
  BY <1>1, <1>2, <1>4, <1>8, <1>9, <1>10, <1>13, <1>14, <1>15 DEF Told
<1> QED
  BY <1>2, <1>12, <1>16, OtherProgramsKeepInv

-----------------------------------------------------------------------------
(***************************************************************************)
(* What the feature does: the disk and the rows stay as they are.          *)
(***************************************************************************)

\* Renames only go that are not told in full.
RenamesAreLeft ==
    \A d \in Items : d.kind = "rename" => d \in Items' \/ {d.path, d.to} \subseteq untold'

LEMMA FilesLeftBehind ==
    ASSUME WatcherInv, RenamesAreLeft, untold \subseteq untold'
    PROVE  \A f \in Files \ (untold' \cup PendingRenames') : f \notin PendingRenames /\ FileInv(f)
<1>1. ASSUME NEW f \in Files \ (untold' \cup PendingRenames'), f \in PendingRenames
      PROVE  FALSE
  <2>1. PICK e \in Items : e.kind = "rename" /\ f \in {e.path, e.to}
    BY <1>1, RenamedFiles
  <2> QED
    BY <1>1, <2>1, RenamedFilesNext DEF RenamesAreLeft
<1> QED
  BY <1>1 DEF WatcherInv, FilesInv

LEMMA OnFsWatcherKeepsInv ==
    ASSUME WatcherInv, OnFsWatcher
    PROVE  WatcherInv'
<1> DEFINE e == Head(fsEvents)
<1>1. WatcherTypeOK /\ fsEvents \in Seq(Events) /\ fsEvents # << >> /\ fsEvents' = Tail(fsEvents)
  BY DEF WatcherInv, WatcherTypeOK, OnFsWatcher
<1>2. e \in Events /\ fsEvents' \in Seq(Events) /\ Range(fsEvents) = {e} \cup Range(fsEvents')
  BY <1>1, RangeOfTail
<1>3. /\ UNCHANGED <<onDisk, dirOnDisk, writes, openedFiles, opens, tagged, tagActions, untold>>
      /\ pathsCreated' = pathsCreated \cup {p \in {e.path} : e.kind = "create"}
      /\ pathsModified' = pathsModified \cup {p \in {e.path} : e.kind = "modify"}
      /\ pathsDeleted' = pathsDeleted \cup {p \in {e.path} : e.kind = "delete"}
      /\ pathsRenamed' = [p \in DOMAIN pathsRenamed \cup {q \in {e.path} : e.kind = "rename"} |->
                             IF p = e.path /\ e.kind = "rename" THEN e.to ELSE pathsRenamed[p]]
  BY DEF OnFsWatcher
<1>4. e \in Items
  BY <1>2 DEF Items, Unhandled
<1> HIDE DEF e
<1>5. /\ e.kind \in {"create", "modify", "delete", "rename"} /\ e.path \in Paths /\ e.to \in Paths
      /\ e = Event(e.kind, e.path, e.to)
      /\ e.kind # "rename" => e.to = e.path
      /\ e.kind = "modify" => e.path \in Files
      /\ e.kind = "rename" => e.path \in Files /\ e.to \in Files
  BY <1>2, WatchEventFields
<1>6. /\ \A p : p \in pathsCreated' <=> p \in pathsCreated \/ (e.kind = "create" /\ p = e.path)
      /\ \A p : p \in pathsModified' <=> p \in pathsModified \/ (e.kind = "modify" /\ p = e.path)
      /\ \A p : p \in pathsDeleted' <=> p \in pathsDeleted \/ (e.kind = "delete" /\ p = e.path)
      /\ \A p : p \in DOMAIN pathsRenamed' <=> p \in DOMAIN pathsRenamed \/ (e.kind = "rename" /\ p = e.path)
      /\ \A p \in DOMAIN pathsRenamed' :
            pathsRenamed'[p] = IF p = e.path /\ e.kind = "rename" THEN e.to ELSE pathsRenamed[p]
  BY <1>3
<1>7. WatcherTypeOK'
  BY <1>1, <1>2, <1>3, <1>5, <1>6 DEF WatcherTypeOK
<1>8. /\ \A d : d \in CollectedRenames <=>
               \E p \in DOMAIN pathsRenamed : d = Event("rename", p, pathsRenamed[p])
      /\ \A d : d \in CollectedRenames' <=>
               \E p \in DOMAIN pathsRenamed' : d = Event("rename", p, pathsRenamed'[p])
  BY DEF CollectedRenames
<1>9. /\ \A d \in CollectedRenames' : d \in CollectedRenames \/ d = e
      /\ e.kind = "rename" => e \in CollectedRenames'
      /\ \A d \in CollectedRenames : d \in CollectedRenames' \/ (e.kind = "rename" /\ d.path = e.path)
  BY <1>5, <1>6, <1>8, EventParts
<1>10. \A d : d \in Items <=> d \in Range(fsEvents) \/ d \in Range(tagActions) \/ d \in CollectedRenames
  BY DEF Items, Unhandled
<1>11. \A d : d \in Items' <=> d \in Range(fsEvents') \/ d \in Range(tagActions) \/ d \in CollectedRenames'
  BY <1>3 DEF Items, Unhandled
<1>12. Items' \subseteq Items
  BY <1>2, <1>4, <1>9, <1>10, <1>11
<1>13. RenamesAreLeft
  <2>1. ASSUME NEW d \in Items, d.kind = "rename", d \notin Items'
        PROVE  {d.path, d.to} \subseteq untold'
    <3>1. d # e /\ e.kind = "rename" /\ d.path = e.path
      BY <1>2, <1>9, <1>10, <1>11, <2>1
    <3>2. Mentions(e, d.path)
      BY <3>1, MentionedFiles
    <3>3. ~RenameInv(d)
      BY <1>4, <3>1, <3>2 DEF RenameInv
    <3> QED
      BY <1>3, <2>1, <3>3 DEF WatcherInv, RenamesInv
  <2> QED
    BY <2>1 DEF RenamesAreLeft
<1>14. \A f : WillBeTagged(f) => WillBeTagged(f)'
  <2>1. \A d \in Range(fsEvents) : d \in Range(fsEvents') \/ d = e
    BY <1>2
  <2>2. \A f : TagQueued(f)' = TagQueued(f)
    BY <1>3 DEF TagQueued, Tags, Untags
  <2> QED
    BY <1>6, <2>1, <2>2 DEF WillBeTagged
<1>15. \A f : WillBeUntagged(f) => WillBeUntagged(f)'
  <2>1. \A d \in Range(fsEvents) : d \in Range(fsEvents') \/ d = e
    BY <1>2
  <2>2. \A f : f \in WithContents(pathsDeleted)' <=> f \in pathsDeleted' \/ (Dir \in pathsDeleted' /\ f \in InDir)
    BY DEF WithContents
  <2>3. \A f : f \in WithContents(pathsDeleted) => f \in WithContents(pathsDeleted)'
    BY <1>6, <2>2, MentionedFiles
  <2>4. \A f : e.kind = "delete" /\ Mentions(e, f) => f \in WithContents(pathsDeleted)'
    BY <1>5, <1>6, <2>2, MentionedFiles
  <2>5. \A d, f : Mentions(d, f)' = Mentions(d, f) /\ Untags(d, f)' = Untags(d, f)
    BY DEF Mentions, Untags, WithContents
  <2> QED
    BY <1>3, <2>1, <2>3, <2>4, <2>5 DEF WillBeUntagged
<1>16. FilesInv'
  <2>1. \A f : TagIsCurrent(f) => TagIsCurrent(f)'
    BY <1>3 DEF TagIsCurrent, Untags
  <2>2. ASSUME NEW f \in Files \ (untold' \cup PendingRenames') PROVE FileInv(f)'
    <3>1. FileInv(f)
      BY <1>3, <1>13, FilesLeftBehind
    <3> QED
      BY <1>3, <1>14, <1>15, <2>1, <3>1 DEF FileInv
  <2> QED
    BY <2>2 DEF FilesInv
<1>17. ASSUME NEW d \in Items', d.kind = "rename", ~({d.path, d.to} \subseteq untold')
       PROVE  RenameInv(d)'
  <2>1. d \in Items /\ RenameInv(d)
    BY <1>3, <1>12, <1>17 DEF WatcherInv, RenamesInv
  <2>2. \A p \in Collected' : p \in Collected \/ (e.kind # "rename" /\ p = e.path)
    BY <1>6 DEF Collected
  <2>3. \A f : f \in WithContents(Collected)' <=> f \in Collected' \/ (Dir \in Collected' /\ f \in InDir)
    BY DEF WithContents
  <2>4. \A f \in {d.path, d.to} : ~(e.kind # "rename" /\ Mentions(e, f))
    BY <1>4, <1>17, <2>1 DEF RenameInv
  <2>5. {d.path, d.to} \cap WithContents(Collected) = {}
    BY <2>1 DEF RenameInv
  <2>6. \A f \in {d.path, d.to} : f \notin WithContents(Collected)'
    BY <2>2, <2>3, <2>4, <2>5, MentionedFiles
  <2>7. {d.path, d.to} \cap WithContents(Collected)' = {}
    BY <2>6
  <2>8. d.path \notin openedFiles'
    BY <1>3, <2>1 DEF RenameInv
  <2> QED
    BY <1>3, <1>12, <2>1, <2>7, <2>8, RenameStays
<1>18. RenamesInv'
  BY <1>17 DEF RenamesInv
<1>19. DirInv' /\ StampsInv'
  <2>1. DirDeletionPending' => DirDeletionPending
    BY <1>2, <1>3, <1>6 DEF DirDeletionPending
  <2> QED
    BY <1>3, <2>1 DEF WatcherInv, DirInv, StampsInv
<1> QED
  BY <1>7, <1>16, <1>18, <1>19 DEF WatcherInv

LEMMA StartWatchKeepsInv ==
    ASSUME WatcherInv, StartWatch
    PROVE  WatcherInv'
<1>1. WatcherTypeOK
  BY DEF WatcherInv
<1>2. /\ fsEvents' = << >>
      /\ untold' = untold \cup (Files \cap ((Files \cap WithContents(NamedIn(Range(fsEvents)))) \cup PendingRenames))
      /\ UNCHANGED <<onDisk, dirOnDisk, writes, pathsCreated, pathsModified, pathsDeleted, pathsRenamed,
                     openedFiles, opens, tagged, tagActions>>
  BY DEF StartWatch, Cross, collected
<1>3. Range(fsEvents') = {} /\ fsEvents' \in Seq(Events)
  BY <1>2 DEF Range
<1>4. WatcherTypeOK'
  BY <1>1, <1>2, <1>3 DEF WatcherTypeOK
<1>5. Items' \subseteq Items
  BY <1>2, <1>3 DEF Items, Unhandled, CollectedRenames
<1>6. RenamesInv'
  <2>1. ASSUME NEW d \in Items', d.kind = "rename"
        PROVE  {d.path, d.to} \subseteq untold'
    <3>1. d.path \in PendingRenames /\ d.to \in PendingRenames
      BY <1>5, <2>1, RenamedFiles
    <3>2. d.path \in Files /\ d.to \in Files
      BY <1>1, <1>5, <2>1, ItemFields
    <3> QED
      BY <1>2, <3>1, <3>2
  <2> QED
    BY <2>1 DEF RenamesInv
<1>7. ASSUME NEW f \in Files \ untold'
      PROVE  FileInv(f)'
  <2>1. FileInv(f) /\ f \notin WithContents(NamedIn(Range(fsEvents)))
    BY <1>2, <1>7 DEF WatcherInv, FilesInv
  <2>2. \A d \in Range(fsEvents) : ~Mentions(d, f) /\ d.path # f
    BY <2>1, MentionedFiles DEF NamedIn
  <2>3. WillBeTagged(f) => WillBeTagged(f)'
    BY <1>2, <2>2 DEF WillBeTagged, TagQueued, Tags, Untags
  <2>4. WillBeUntagged(f) => WillBeUntagged(f)'
    BY <1>2, <2>2 DEF WillBeUntagged, Untags, WithContents
  <2>5. TagIsCurrent(f) => TagIsCurrent(f)'
    BY <1>2 DEF TagIsCurrent, Untags
  <2> QED
    BY <1>2, <2>1, <2>3, <2>4, <2>5 DEF FileInv
<1>8. FilesInv'
  BY <1>7 DEF FilesInv
<1>9. DirInv' /\ StampsInv'
  <2>1. DirDeletionPending' => DirDeletionPending
    BY <1>2, <1>3 DEF DirDeletionPending
  <2> QED
    BY <1>2, <2>1 DEF WatcherInv, DirInv, StampsInv
<1> QED
  BY <1>4, <1>6, <1>8, <1>9 DEF WatcherInv

LEMMA TrackOpenedFileKeepsInv ==
    ASSUME WatcherInv, NEW f \in Files, TrackOpenedFile(f)
    PROVE  WatcherInv'
<1>1. /\ openedFiles' = openedFiles \cup {f} /\ onDisk[f] # 0 /\ opens < MaxOpens /\ opens' = opens + 1
      /\ UNCHANGED <<onDisk, dirOnDisk, writes, fsEvents, pathsCreated, pathsModified, pathsDeleted,
                     pathsRenamed, tagged, tagActions, untold>>
  BY DEF TrackOpenedFile, collected
<1>2. WatcherTypeOK'
  BY <1>1, FilesAreNumbers DEF WatcherInv, WatcherTypeOK
<1>3. Items' = Items
  BY <1>1 DEF Items, Unhandled, CollectedRenames
<1>4. FilesInv'
  <2>1. RenamesAreLeft
    BY <1>3 DEF RenamesAreLeft
  <2>2. ASSUME NEW g \in Files \ (untold' \cup PendingRenames') PROVE FileInv(g)'
    <3>1. FileInv(g)
      BY <1>1, <2>1, FilesLeftBehind
    <3>2. WillBeTagged(g)' = WillBeTagged(g) /\ WillBeUntagged(g)' = WillBeUntagged(g)
          /\ TagIsCurrent(g)' = TagIsCurrent(g)
      BY <1>1 DEF WillBeTagged, TagQueued, Tags, Untags, WillBeUntagged, WithContents, Mentions, TagIsCurrent
    <3> QED
      BY <1>1, <3>1, <3>2 DEF FileInv
  <2> QED
    BY <2>2 DEF FilesInv
<1>5. RenamesInv'
  <2>1. ASSUME NEW d \in Items', d.kind = "rename", ~({d.path, d.to} \subseteq untold')
        PROVE  RenameInv(d)'
    <3>1. RenameInv(d)
      BY <1>1, <1>3, <2>1 DEF WatcherInv, RenamesInv
    <3>2. d.path \notin openedFiles'
      BY <1>1, <3>1 DEF RenameInv
    <3>3. {d.path, d.to} \cap WithContents(Collected)' = {}
      BY <1>1, <3>1 DEF RenameInv, Collected, WithContents
    <3> QED
      BY <1>1, <1>3, <3>1, <3>2, <3>3, RenameStays
  <2> QED
    BY <2>1 DEF RenamesInv
<1>6. DirInv' /\ StampsInv'
  BY <1>1 DEF WatcherInv, DirInv, StampsInv, DirDeletionPending
<1> QED
  BY <1>2, <1>4, <1>5, <1>6 DEF WatcherInv

LEMMA UntrackOpenedFileKeepsInv ==
    ASSUME WatcherInv, NEW f \in Files, UntrackOpenedFile(f)
    PROVE  WatcherInv'
<1> DEFINE a == Event("tag", f, f)
           new == <<a>>
<1>1. /\ openedFiles' = openedFiles \ {f} /\ tagActions' = Append(tagActions, a)
      /\ Cross({f}, MeetsRename({f}))
      /\ UNCHANGED <<onDisk, dirOnDisk, writes, fsEvents, pathsCreated, pathsModified, pathsDeleted,
                     pathsRenamed, opens, tagged>>
  BY DEF UntrackOpenedFile, collected
<1>2. WatcherTypeOK /\ tagActions \in Seq(Actions)
  BY DEF WatcherInv, WatcherTypeOK
<1>3. a \in Actions /\ a.kind = "tag" /\ a.path = f /\ a.to = f
  BY EventsAndActions, EventParts
<1> HIDE DEF a
<1>4. new \in Seq(Actions) /\ Range(new) = {a}
  BY <1>3, SingleRange
<1>5. tagActions' = tagActions \o new
  BY <1>1, <1>2, <1>3, AppendIsConcat
<1> HIDE DEF new
<1>6. tagActions' \in Seq(Actions) /\ Range(tagActions') = Range(tagActions) \cup {a}
  BY <1>2, <1>4, <1>5, RangeOfConcat
<1>7. /\ untold \subseteq untold' /\ untold' \subseteq Files
      /\ \A e \in Items : e.kind = "rename" => {e.path, e.to} \subseteq untold' \/ {e.path, e.to} \cap {f} = {}
  BY <1>1, <1>2, MetRenames
<1>8. WatcherTypeOK'
  BY <1>1, <1>2, <1>6, <1>7 DEF WatcherTypeOK
<1>9. Items' = Items \cup {a}
  BY <1>1, <1>6 DEF Items, Unhandled, CollectedRenames
<1>10. FilesInv'
  <2>1. RenamesAreLeft
    BY <1>9 DEF RenamesAreLeft
  <2>2. ASSUME NEW g \in Files \ (untold' \cup PendingRenames') PROVE FileInv(g)'
    <3>1. FileInv(g)
      BY <1>7, <2>1, <2>2, FilesLeftBehind
    <3>2. \A b \in Range(new) : ~Untags(b, g)
      BY <1>3, <1>4 DEF Untags
    <3>3. TagQueued(g) => TagQueued(g)'
      BY <1>2, <1>4, <1>5, <3>2, TagsStayQueued
    <3>4. g = f => TagQueued(g)'
      <4>1. g = f => \E b \in Range(new) : Tags(b, g)
        BY <1>3, <1>4 DEF Tags
      <4> QED
        BY <1>2, <1>4, <1>5, <3>2, <4>1, TagsStayQueued
    <3>5. WillBeTagged(g) => WillBeTagged(g)'
      BY <1>1, <3>3 DEF WillBeTagged
    <3>6. WillBeUntagged(g) => WillBeUntagged(g)'
      BY <1>1, <1>6 DEF WillBeUntagged, WithContents, Mentions, Untags
    <3>7. TagIsCurrent(g) => TagIsCurrent(g)'
      BY <1>1, <1>3, <1>6 DEF TagIsCurrent, Untags
    <3>8. g \in openedFiles => g \in openedFiles' \/ WillBeTagged(g)'
      BY <1>1, <3>4 DEF WillBeTagged
    <3> QED
      BY <1>1, <3>1, <3>5, <3>6, <3>7, <3>8 DEF FileInv
  <2> QED
    BY <2>2 DEF FilesInv
<1>11. RenamesInv'
  <2>1. ASSUME NEW d \in Items', d.kind = "rename", ~({d.path, d.to} \subseteq untold')
        PROVE  RenameInv(d)'
    <3>1. d \in Items /\ RenameInv(d) /\ f \notin {d.path, d.to}
      BY <1>3, <1>7, <1>9, <2>1 DEF WatcherInv, RenamesInv
    <3>2. d.path \notin openedFiles'
      BY <1>1, <3>1 DEF RenameInv
    <3>3. {d.path, d.to} \cap WithContents(Collected)' = {}
      BY <1>1, <3>1 DEF RenameInv, Collected, WithContents
    <3>4. ~Mentions(a, d.path) /\ ~Mentions(a, d.to)
      BY <1>3, <3>1, FilesAreNumbers, MentionedFiles
    <3> QED
      BY <1>1, <1>9, <3>1, <3>2, <3>3, <3>4, RenameStays
  <2> QED
    BY <2>1 DEF RenamesInv
<1>12. DirInv' /\ StampsInv'
  <2>1. DirDeletionPending' => DirDeletionPending
    BY <1>1, <1>3, <1>6 DEF DirDeletionPending
  <2> QED
    BY <1>1, <1>7, <2>1 DEF WatcherInv, DirInv, StampsInv
<1> QED
  BY <1>8, <1>10, <1>11, <1>12 DEF WatcherInv

\* What the timer queues for a file.
LEMMA QueuedByTimer ==
    ASSUME WatcherTypeOK, NEW a \in NewActions
    PROVE  \/ a.kind = "tag" /\ a.to = a.path /\ a.path \in Files /\ a.path \in pathsCreated \cup pathsModified
           \/ a.kind = "delete" /\ a.to = a.path /\ a.path \in Files /\ a.path \in pathsDeleted /\ onDisk[a.path] = 0
           \/ a.kind = "tagDir" /\ a.path = Dir /\ a.to = Dir /\ Dir \in pathsCreated
           \/ a.kind = "deleteDir" /\ a.path = Dir /\ a.to = Dir /\ Dir \in pathsDeleted
           \/ a.kind = "rename" /\ a \in CollectedRenames
<1>1. /\ CollapsedFiles(pathsCreated) \subseteq pathsCreated /\ FilesModified \subseteq pathsModified
      /\ FilesDeleted \subseteq pathsDeleted /\ \A f \in FilesDeleted : onDisk[f] = 0
      /\ CollapsedDirs(pathsCreated) \subseteq pathsCreated \cap {Dir}
      /\ CollapsedDirs(pathsDeleted) \subseteq pathsDeleted \cap {Dir}
      /\ Renames \subseteq DOMAIN pathsRenamed
  BY DEF CollapsedFiles, CollapsedDirs, FilesModified, FilesDeleted, Renames
<1>2. CASE \E p \in NotOpened(FilesModified) \cup CollapsedFiles(pathsCreated) : a = Event("tag", p, p)
  BY <1>1, <1>2, EventParts, PublishedPaths DEF NotOpened
<1>3. CASE \E p \in NotOpened(FilesDeleted) : a = Event("delete", p, p)
  BY <1>1, <1>3, EventParts, PublishedPaths DEF NotOpened
<1>4. CASE \E p \in CollapsedDirs(pathsCreated) : a = Event("tagDir", p, p)
  BY <1>1, <1>4, EventParts
<1>5. CASE \E p \in CollapsedDirs(pathsDeleted) : a = Event("deleteDir", p, p)
  BY <1>1, <1>5, EventParts
<1>6. CASE \E p \in Renames : a = Event("rename", p, pathsRenamed[p])
  BY <1>1, <1>6, EventParts DEF CollectedRenames
<1> QED
  BY <1>2, <1>3, <1>4, <1>5, <1>6 DEF NewActions, Queued

LEMMA TimerTags ==
    ASSUME WatcherTypeOK, NEW f \in Files, onDisk[f] # 0, f \notin PendingRenames,
           f \in pathsCreated \cup pathsModified
    PROVE  f \in openedFiles \/ \E a \in NewActions : Tags(a, f)
<1>0. Dir \notin pathsModified /\ f # Dir
  BY FilesAreNumbers DEF WatcherTypeOK
<1>1. \A p \in NotOpened(FilesModified) \cup CollapsedFiles(pathsCreated) : Event("tag", p, p) \in NewActions
  BY DEF NewActions, Queued
<1>2. \A p \in CollapsedDirs(pathsCreated) : Event("tagDir", p, p) \in NewActions
  BY DEF NewActions, Queued
<1>3. CASE f \in pathsCreated
  <2>1. CASE f \in InDir /\ CollapsedDirs(pathsCreated) # {}
    <3>1. PICK p \in CollapsedDirs(pathsCreated) : TRUE
      BY <2>1
    <3> QED
      BY <1>2, <2>1, <3>1, EventParts DEF Tags
  <2>2. CASE ~(f \in InDir /\ CollapsedDirs(pathsCreated) # {})
    <3>1. f \in CollapsedFiles(pathsCreated)
      BY <1>0, <1>3, <2>2 DEF CollapsedFiles
    <3> QED
      BY <1>1, <3>1, EventParts DEF Tags
  <2> QED
    BY <2>1, <2>2
<1>4. CASE f \in pathsModified
  <2>1. CollapsedDirs(pathsModified) = {}
    BY <1>0 DEF CollapsedDirs
  <2>2. f \in CollapsedFiles(pathsModified)
    BY <1>0, <1>4, <2>1 DEF CollapsedFiles
  <2>3. f \notin Renames \cup {pathsRenamed[p] : p \in Renames}
    BY DEF PendingRenames, RenamePaths, Renames, Range
  <2>4. f \in FilesModified
    BY <2>2, <2>3 DEF FilesModified
  <2> QED
    BY <1>1, <2>4, EventParts DEF Tags, NotOpened
<1> QED
  BY <1>3, <1>4

LEMMA TimerUntags ==
    ASSUME WatcherTypeOK, NEW f \in Files, onDisk[f] = 0, tagged[f] # 0, f \in WithContents(pathsDeleted)
    PROVE  f \in FilesDeleted \cap openedFiles \/ \E a \in NewActions : Untags(a, f)
<1>0. f # Dir
  BY FilesAreNumbers
<1>1. \A p \in NotOpened(FilesDeleted) : Event("delete", p, p) \in NewActions
  BY DEF NewActions, Queued
<1>2. \A p \in CollapsedDirs(pathsDeleted) : Event("deleteDir", p, p) \in NewActions
  BY DEF NewActions, Queued
<1>3. CASE f \in InDir /\ CollapsedDirs(pathsDeleted) # {}
  <2>1. PICK p \in CollapsedDirs(pathsDeleted) : TRUE
    BY <1>3
  <2> QED
    BY <1>2, <1>3, <2>1, EventParts DEF Untags
<1>4. CASE f \in pathsDeleted /\ ~(f \in InDir /\ CollapsedDirs(pathsDeleted) # {})
  <2>1. f \in FilesDeleted
    BY <1>0, <1>4 DEF FilesDeleted, CollapsedFiles
  <2> QED
    BY <1>1, <2>1, EventParts DEF Untags, NotOpened
<1>5. CASE Dir \in pathsDeleted /\ f \in InDir
  <2>1. HasDir
    BY <1>5 DEF HasDir
  <2>2. Dir \in CollapsedDirs(pathsDeleted)
    BY <1>5, <2>1 DEF CollapsedDirs
  <2> QED
    BY <1>3, <1>5, <2>2
<1> QED
  BY <1>3, <1>4, <1>5, MentionedFiles

LEMMA OnTimerKeepsInv ==
    ASSUME WatcherInv, OnTimer
    PROVE  WatcherInv'
<1>1. WatcherTypeOK /\ tagActions \in Seq(Actions)
  BY DEF WatcherInv, WatcherTypeOK
<1>2. /\ pathsModified' = {f \in Renames : pathsRenamed[f] = f}
      /\ pathsCreated' = {} /\ pathsDeleted' = {} /\ pathsRenamed' = << >>
      /\ untold' = untold \cup (FilesDeleted \cap openedFiles)
      /\ UNCHANGED <<onDisk, dirOnDisk, writes, fsEvents, openedFiles, opens, tagged>>
  BY DEF OnTimer
<1>3. PICK new \in Seq(Actions) : tagActions' = tagActions \o new /\ Range(new) = NewActions
  BY <1>1, PublishedActions
<1>4. tagActions' \in Seq(Actions) /\ Range(tagActions') = Range(tagActions) \cup NewActions
  BY <1>1, <1>3, RangeOfConcat
<1>5. DOMAIN pathsRenamed' = {} /\ CollectedRenames' = {}
  BY <1>2 DEF CollectedRenames
<1>6. untold' \subseteq Files /\ pathsModified' \subseteq Files
  BY <1>1, <1>2, PublishedPaths DEF WatcherTypeOK
<1>7. WatcherTypeOK'
  BY <1>1, <1>2, <1>4, <1>5, <1>6 DEF WatcherTypeOK
<1>8. /\ \A d : d \in Items <=> d \in Range(fsEvents) \/ d \in Range(tagActions) \/ d \in CollectedRenames
      /\ \A d : d \in Items' <=> d \in Range(fsEvents) \/ d \in Range(tagActions) \/ d \in NewActions
  BY <1>2, <1>4, <1>5 DEF Items, Unhandled
<1>9. RenamesAreLeft
  <2>1. ASSUME NEW d \in Items, d.kind = "rename", ~({d.path, d.to} \subseteq untold')
        PROVE  d \in Items'
    <3>1. RenameInv(d)
      BY <1>2, <2>1 DEF WatcherInv, RenamesInv
    <3>2. CASE d \in CollectedRenames
      <4>1. PICK p \in DOMAIN pathsRenamed : d = Event("rename", p, pathsRenamed[p])
        BY <3>2 DEF CollectedRenames
      <4>2. d.path = p /\ d.to = pathsRenamed[p]
        BY <4>1, EventParts
      <4>3. p \in Renames /\ pathsRenamed[p] # p
        BY <3>1, <4>2 DEF Renames, RenameInv
      <4>4. d \in NewActions
        BY <4>1, <4>3 DEF NewActions
      <4> QED
        BY <1>8, <4>4
    <3> QED
      BY <1>8, <2>1, <3>2
  <2> QED
    BY <2>1 DEF RenamesAreLeft
<1>10. ASSUME NEW f \in Files \ (untold' \cup PendingRenames')
       PROVE  FileInv(f)'
  <2>1. FileInv(f) /\ f \notin PendingRenames /\ f \notin untold
    BY <1>2, <1>9, FilesLeftBehind
  <2>2. CASE onDisk[f] # 0
    <3>1. \A a \in Range(new) : ~Untags(a, f)
      <4>1. ASSUME NEW a \in NewActions, Untags(a, f) PROVE FALSE
        <5>1. Dir \in pathsDeleted /\ f \in InDir
          BY <1>1, <2>2, <4>1, QueuedByTimer DEF Untags
        <5>2. dirOnDisk /\ DirDeletionPending
          BY <2>2, <5>1 DEF WatcherInv, DirInv, DirDeletionPending
        <5> QED
          BY <2>1, <5>1, <5>2 DEF WatcherInv, DirInv
      <4> QED
        BY <1>3, <4>1
    <3>2. /\ TagQueued(f) => TagQueued(f)'
          /\ (\E a \in Range(new) : Tags(a, f)) => TagQueued(f)'
      BY <1>1, <1>3, <3>1, TagsStayQueued
    <3>3. f \in pathsCreated \cup pathsModified => f \in openedFiles \/ TagQueued(f)'
      BY <1>1, <1>3, <2>1, <2>2, <3>2, TimerTags
    <3>4. WillBeTagged(f) => f \in openedFiles \/ WillBeTagged(f)'
      BY <1>2, <3>2, <3>3 DEF WillBeTagged
    <3>5. TagIsCurrent(f) => TagIsCurrent(f)'
      <4>1. \A a \in NewActions : ~Untags(a, f)
        BY <1>3, <3>1
      <4> QED
        BY <1>2, <1>4, <4>1 DEF TagIsCurrent, Untags
    <3> QED
      BY <1>2, <2>1, <2>2, <3>4, <3>5 DEF FileInv
  <2>3. CASE onDisk[f] = 0
    <3>1. f \in WithContents(pathsDeleted) /\ tagged[f] # 0 => \E a \in NewActions : Untags(a, f)
      BY <1>1, <1>2, <2>3, TimerUntags
    <3>2. WillBeUntagged(f) => WillBeUntagged(f)' \/ tagged[f] = 0
      BY <1>2, <1>4, <3>1 DEF WillBeUntagged, Untags, Mentions, WithContents
    <3> QED
      BY <1>2, <2>1, <2>3, <3>2 DEF FileInv
  <2> QED
    BY <2>2, <2>3
<1>11. FilesInv'
  BY <1>10 DEF FilesInv
<1>12. ASSUME NEW d \in Items', d.kind = "rename", ~({d.path, d.to} \subseteq untold')
       PROVE  RenameInv(d)'
  <2>1. d \in Items
    BY <1>1, <1>8, <1>12, QueuedByTimer
  <2>2. RenameInv(d)
    BY <1>2, <1>12, <2>1 DEF WatcherInv, RenamesInv
  <2>3. d.path \notin openedFiles' /\ d.path # d.to
    BY <1>2, <2>2 DEF RenameInv
  <2>4. \A f \in {d.path, d.to} : f \notin WithContents(Collected)'
    <3>1. \A f : f \in WithContents(Collected)' <=> f \in Collected' \/ (Dir \in Collected' /\ f \in InDir)
      BY DEF WithContents
    <3>2. \A f : f \in Collected' <=> f \in Renames /\ pathsRenamed[f] = f
      BY <1>2 DEF Collected
    <3>3. Dir \notin Collected'
      BY <1>1, <3>2, PublishedPaths, FilesAreNumbers
    <3>4. ASSUME NEW f \in {d.path, d.to}, f \in Renames, pathsRenamed[f] = f PROVE FALSE
      <4>1. Event("rename", f, f) \in CollectedRenames
        BY <3>4 DEF CollectedRenames, Renames
      <4>2. Event("rename", f, f) \in Items /\ Mentions(Event("rename", f, f), f)
        BY <1>8, <4>1, EventParts, MentionedFiles
      <4>3. Event("rename", f, f) = d
        BY <2>2, <3>4, <4>2 DEF RenameInv
      <4> QED
        BY <2>3, <4>3, EventParts
    <3> QED
      BY <3>1, <3>2, <3>3, <3>4
  <2>5. {d.path, d.to} \cap WithContents(Collected)' = {}
    BY <2>4
  <2>6. \A a \in NewActions : a \in Items \/ ~(Mentions(a, d.path) \/ Mentions(a, d.to))
    <3>1. {d.path, d.to} \cap WithContents(Collected) = {}
      BY <2>2 DEF RenameInv
    <3>2. ASSUME NEW a \in NewActions, NEW f \in {d.path, d.to}, Mentions(a, f), a \notin Items PROVE FALSE
      <4>1. f \notin Collected /\ ~(Dir \in Collected /\ f \in InDir)
        BY <3>1, MentionedFiles
      <4>2. a.kind # "rename"
        BY <1>1, <1>8, <3>2, QueuedByTimer
      <4>3. a.path \in Collected /\ a.to = a.path
        BY <1>1, <4>2, QueuedByTimer DEF Collected
      <4> QED
        BY <3>2, <4>1, <4>3, MentionedFiles
    <3> QED
      BY <3>2
  <2>7. \A a \in Items' : a \in Items \/ ~(Mentions(a, d.path) \/ Mentions(a, d.to))
    BY <1>8, <2>6
  <2> QED
    BY <1>2, <2>2, <2>3, <2>5, <2>7, RenameStays
<1>13. RenamesInv'
  BY <1>12 DEF RenamesInv
<1>14. DirInv' /\ StampsInv'
  <2>1. \A a \in NewActions : a.kind = "deleteDir" => Dir \in pathsDeleted
    BY <1>1, QueuedByTimer
  <2>2. DirDeletionPending' => DirDeletionPending
    BY <1>2, <1>4, <2>1 DEF DirDeletionPending
  <2> QED
    BY <1>2, <2>2 DEF WatcherInv, DirInv, StampsInv
<1> QED
  BY <1>7, <1>11, <1>13, <1>14 DEF WatcherInv

-----------------------------------------------------------------------------
(***************************************************************************)
(* What the actions do to the rows.                                        *)
(***************************************************************************)

LEMMA WalkedRows ==
    ASSUME WatcherInv, NEW f \in Files
    PROVE  /\ Walked(f) \in Stamp /\ Walked(f) <= writes + 1
           /\ onDisk[f] # 0 /\ tagged[f] <= onDisk[f] => Walked(f) = onDisk[f]
           /\ 0 \in Stamp /\ tagged[f] \in Stamp /\ tagged[f] <= writes + 1 /\ 0 <= writes + 1
<1>1. /\ onDisk[f] \in Nat /\ onDisk[f] <= writes + 1 /\ tagged[f] \in Nat /\ tagged[f] <= writes + 1
      /\ writes \in Nat /\ writes <= MaxWrites /\ MaxWrites \in Nat
  BY FilesAreNumbers DEF WatcherInv, WatcherTypeOK, StampsInv, Stamp
<1>2. Walked(f) \in {writes + 1, onDisk[f], tagged[f]}
  BY DEF Walked
<1>3. \A n \in Nat : n <= writes + 1 => n \in Stamp
  BY <1>1 DEF Stamp
<1>4. Walked(f) \in Stamp /\ Walked(f) <= writes + 1
  BY <1>1, <1>2, <1>3
<1>5. onDisk[f] # 0 /\ tagged[f] <= onDisk[f] => Walked(f) = onDisk[f]
  BY <1>1 DEF Walked
<1>6. 0 \in Stamp /\ tagged[f] \in Stamp /\ 0 <= writes + 1
  BY <1>1, <1>3
<1> QED
  BY <1>1, <1>4, <1>5, <1>6

LEMMA TaggedRows ==
    ASSUME WatcherInv, NEW a \in Actions
    PROVE  /\ TagAction(a) \in [Files -> Stamp]
           /\ \A f \in Files : TagAction(a)[f] <= writes + 1
           /\ \A f \in Files : ~Tags(a, f) /\ ~Untags(a, f) /\ ~(a.kind = "rename" /\ f \in {a.path, a.to})
                                   => TagAction(a)[f] = tagged[f]
           /\ \A f \in Files : Untags(a, f) => TagAction(a)[f] = 0
           /\ \A f \in Files : Tags(a, f) => TagAction(a)[f] = tagged[f] \/ TagAction(a)[f] = Walked(f)
           /\ \A f \in Files : Tags(a, f) /\ onDisk[f] # 0 => TagAction(a)[f] = Walked(f)
           /\ \A f \in Files : Tags(a, f) /\ onDisk[f] = 0 => TagAction(a)[f] = tagged[f]
<1>1. /\ a.kind \in {"tag", "delete", "rename", "tagDir", "deleteDir"}
      /\ a.kind \in {"tag", "delete", "rename"} => a.path \in Files /\ a.to \in Files
  BY WatchActionFields
<1>2. tagged \in [Files -> Stamp] /\ \A f \in InDir : onDisk[f] # 0 => dirOnDisk
  BY DEF WatcherInv, WatcherTypeOK, DirInv
<1>3. \A f \in Files : /\ Walked(f) \in Stamp /\ Walked(f) <= writes + 1
                       /\ 0 \in Stamp /\ tagged[f] \in Stamp /\ tagged[f] <= writes + 1 /\ 0 <= writes + 1
  BY WalkedRows
<1>4. CASE a.kind = "tag"
  <2>1. TagAction(a) = IF onDisk[a.path] = 0 THEN tagged ELSE [tagged EXCEPT ![a.path] = Walked(a.path)]
    BY <1>4 DEF TagAction, TagFile
  <2> QED
    BY <1>1, <1>2, <1>3, <1>4, <2>1 DEF Tags, Untags
<1>5. CASE a.kind = "delete"
  <2>1. TagAction(a) = [tagged EXCEPT ![a.path] = 0]
    BY <1>5 DEF TagAction, DeleteFileTags
  <2> QED
    BY <1>1, <1>2, <1>3, <1>5, <2>1 DEF Tags, Untags
<1>6. CASE a.kind = "rename"
  <2>1. TagAction(a) = RenameTags(a.path, a.to)
    BY <1>6 DEF TagAction
  <2>2. \/ RenameTags(a.path, a.to) = tagged
        \/ RenameTags(a.path, a.to) = [tagged EXCEPT ![a.to] = Walked(a.to)]
        \/ RenameTags(a.path, a.to) = [tagged EXCEPT ![a.to] = tagged[a.path], ![a.path] = 0]
    BY DEF RenameTags
  <2> HIDE DEF Walked
  <2>3. TagAction(a) \in [Files -> Stamp]
    BY <1>1, <1>2, <1>3, <1>6, <2>1, <2>2
  <2>4. \A f \in Files : TagAction(a)[f] <= writes + 1
    BY <1>1, <1>2, <1>3, <1>6, <2>1, <2>2
  <2>5. \A f \in Files : f \notin {a.path, a.to} => TagAction(a)[f] = tagged[f]
    BY <1>1, <1>2, <1>6, <2>1, <2>2
  <2> QED
    BY <1>6, <2>3, <2>4, <2>5 DEF Tags, Untags
<1>7. CASE a.kind = "tagDir"
  <2>1. TagAction(a) = IF dirOnDisk
                       THEN [f \in Files |-> IF f \in InDir /\ onDisk[f] # 0 THEN Walked(f) ELSE tagged[f]]
                       ELSE tagged
    BY <1>7 DEF TagAction, TagDir
  <2> QED
    BY <1>2, <1>3, <1>7, <2>1 DEF Tags, Untags
<1>8. CASE a.kind = "deleteDir"
  <2>1. TagAction(a) = [f \in Files |-> IF f \in InDir THEN 0 ELSE tagged[f]]
    BY <1>8 DEF TagAction, DeleteDirTags
  <2> QED
    BY <1>2, <1>3, <1>8, <2>1 DEF Tags, Untags
<1> QED
  BY <1>1, <1>4, <1>5, <1>6, <1>7, <1>8

\* A rename that is told in full moves the row, or finds it moved.
LEMMA RenamedRows ==
    ASSUME WatcherInv, NEW a \in Actions, a.kind = "rename", RenameInv(a)
    PROVE  TagAction(a)[a.path] = 0 /\ TagAction(a)[a.to] = onDisk[a.to]
<1>0. a.path \in Files /\ a.to \in Files
  BY WatchActionFields
<1>1. a.path \in Files /\ a.to \in Files /\ a.path # a.to /\ onDisk[a.path] = 0 /\ onDisk[a.to] # 0
  BY <1>0 DEF RenameInv
<1>2. tagged \in [Files -> Stamp] /\ onDisk[a.to] \in Nat
  <2>1. tagged \in [Files -> Stamp] /\ onDisk \in [Files -> Stamp]
    BY DEF WatcherInv, WatcherTypeOK
  <2>2. Stamp \subseteq Nat
    BY FilesAreNumbers DEF Stamp
  <2> QED
    BY <1>1, <2>1, <2>2
<1>3. TagAction(a) = RenameTags(a.path, a.to)
  BY DEF TagAction
<1>4. CASE tagged[a.path] = onDisk[a.to] /\ tagged[a.to] = 0
  <2>1. TagAction(a) = [tagged EXCEPT ![a.to] = tagged[a.path], ![a.path] = 0]
    BY <1>1, <1>3, <1>4 DEF RenameTags
  <2> QED
    BY <1>1, <1>2, <1>4, <2>1
<1>5. CASE tagged[a.path] = 0 /\ tagged[a.to] = onDisk[a.to]
  <2>1. TagAction(a) = [tagged EXCEPT ![a.to] = Walked(a.to)]
    BY <1>1, <1>3, <1>5 DEF RenameTags
  <2>2. Walked(a.to) = onDisk[a.to]
    BY <1>1, <1>2, <1>5, WalkedRows
  <2> QED
    BY <1>1, <1>2, <1>5, <2>1, <2>2
<1> QED
  BY <1>4, <1>5 DEF RenameInv

LEMMA RunTagActionKeepsInv ==
    ASSUME WatcherInv, RunTagAction
    PROVE  WatcherInv'
<1> DEFINE a == Head(tagActions)
<1>1. /\ WatcherTypeOK /\ tagActions \in Seq(Actions) /\ tagActions # << >>
      /\ tagActions' = Tail(tagActions) /\ tagged' = TagAction(a)
      /\ UNCHANGED <<onDisk, dirOnDisk, writes, fsEvents, pathsCreated, pathsModified, pathsDeleted,
                     pathsRenamed, openedFiles, opens, untold>>
  BY DEF RunTagAction, WatcherInv, WatcherTypeOK, collected
<1>2. a \in Actions /\ tagActions' \in Seq(Actions) /\ Range(tagActions) = {a} \cup Range(tagActions')
  BY <1>1, RangeOfTail
<1>3. \A f \in Files : TagQueued(f) => \/ TagQueued(f)'
                                       \/ Tags(a, f) /\ \A b \in Range(tagActions') : ~Untags(b, f)
  <2>1. \A f : TagQueued(f) => \/ TagQueued(f)'
                               \/ Tags(a, f) /\ \A b \in Range(Tail(tagActions)) : ~Untags(b, f)
    BY <1>1, TagsAreRun
  <2> QED
    BY <1>1, <2>1
<1>4. a \in Items
  BY <1>2 DEF Items, Unhandled
<1> HIDE DEF a
<1>5. /\ a.kind \in {"tag", "delete", "rename", "tagDir", "deleteDir"} /\ a.path \in Paths /\ a.to \in Paths
      /\ a.kind # "rename" => a.to = a.path
      /\ a.kind \in {"tag", "delete", "rename"} => a.path \in Files /\ a.to \in Files
      /\ a.kind \in {"tagDir", "deleteDir"} => a.path = Dir
  BY <1>2, WatchActionFields
<1>6. tagged' \in [Files -> Stamp] /\ \A f \in Files : tagged'[f] <= writes + 1
  BY <1>1, <1>2, TaggedRows
<1>7. WatcherTypeOK'
  BY <1>1, <1>2, <1>6 DEF WatcherTypeOK
<1>8. DirInv' /\ StampsInv'
  <2>1. DirDeletionPending' => DirDeletionPending
    BY <1>1, <1>2 DEF DirDeletionPending
  <2> QED
    BY <1>1, <1>6, <2>1 DEF WatcherInv, DirInv, StampsInv
<1>9. Items' \subseteq Items /\ \A d \in Items : d \in Items' \/ d = a
  BY <1>1, <1>2 DEF Items, Unhandled, CollectedRenames
<1>10. \A f \in Files : ~Tags(a, f) /\ ~Untags(a, f) /\ ~(a.kind = "rename" /\ f \in {a.path, a.to})
                            => tagged'[f] = tagged[f]
  BY <1>1, <1>2, TaggedRows
<1>11. ASSUME NEW f \in Files \ (untold' \cup PendingRenames'), f \notin PendingRenames
       PROVE  FileInv(f)'
  <2>1. FileInv(f) /\ ~(a.kind = "rename" /\ f \in {a.path, a.to})
    BY <1>1, <1>4, <1>11, RenamedFiles DEF WatcherInv, FilesInv
  <2>2. CASE Tags(a, f)
    <3>1. ~Untags(a, f)
      BY <2>2 DEF Tags, Untags
    <3>2. CASE onDisk[f] # 0
      <4>1. tagged'[f] = onDisk[f]
        BY <1>1, <1>2, <2>1, <2>2, <3>2, TaggedRows, WalkedRows DEF FileInv
      <4>2. onDisk[f] \in Nat
        BY <1>1, FilesAreNumbers DEF WatcherTypeOK, Stamp
      <4>3. TagQueued(f) => TagQueued(f)' \/ TagIsCurrent(f)'
        <5>1. (\A b \in Range(tagActions') : ~Untags(b, f)) => TagIsCurrent(f)'
          BY <1>1, <4>1 DEF TagIsCurrent, Untags
        <5> QED
          BY <1>3, <5>1
      <4>4. WillBeTagged(f) => WillBeTagged(f)' \/ TagIsCurrent(f)'
        BY <1>1, <4>3 DEF WillBeTagged
      <4>5. TagIsCurrent(f) => TagIsCurrent(f)'
        BY <1>1, <1>2, <4>1 DEF TagIsCurrent, Untags
      <4> QED
        BY <1>1, <2>1, <3>2, <4>1, <4>2, <4>4, <4>5 DEF FileInv
    <3>3. CASE onDisk[f] = 0
      <4>1. tagged'[f] = tagged[f]
        BY <1>1, <1>2, <2>2, <3>3, TaggedRows
      <4>2. WillBeUntagged(f) => WillBeUntagged(f)'
        BY <1>1, <1>2, <3>1 DEF WillBeUntagged, Untags, Mentions, WithContents
      <4> QED
        BY <1>1, <2>1, <3>3, <4>1, <4>2 DEF FileInv
    <3> QED
      BY <3>2, <3>3
  <2>3. CASE Untags(a, f)
    <3>1. tagged'[f] = 0 /\ onDisk[f] \in Nat
      BY <1>1, <1>2, <2>3, TaggedRows, FilesAreNumbers DEF WatcherTypeOK, Stamp
    <3>2. ~TagIsCurrent(f) /\ ~Tags(a, f)
      BY <1>2, <2>3 DEF TagIsCurrent, Tags, Untags
    <3>3. TagQueued(f) => TagQueued(f)'
      BY <1>3, <3>2
    <3>4. WillBeTagged(f) => WillBeTagged(f)'
      BY <1>1, <3>3 DEF WillBeTagged
    <3>5. 0 <= onDisk[f]
      BY <3>1
    <3> QED
      BY <1>1, <2>1, <3>1, <3>2, <3>4, <3>5 DEF FileInv
  <2>4. CASE ~Tags(a, f) /\ ~Untags(a, f)
    <3>1. tagged'[f] = tagged[f]
      BY <1>10, <2>1, <2>4
    <3>2. WillBeTagged(f) => WillBeTagged(f)'
      BY <1>1, <1>3, <2>4 DEF WillBeTagged
    <3>3. TagIsCurrent(f) => TagIsCurrent(f)'
      BY <1>1, <1>2, <3>1 DEF TagIsCurrent, Untags
    <3>4. WillBeUntagged(f) => WillBeUntagged(f)'
      BY <1>1, <1>2, <2>4 DEF WillBeUntagged, Untags, Mentions, WithContents
    <3> QED
      BY <1>1, <2>1, <3>1, <3>2, <3>3, <3>4 DEF FileInv
  <2> QED
    BY <2>2, <2>3, <2>4
<1>12. ASSUME NEW f \in Files \ (untold' \cup PendingRenames'), f \in PendingRenames
       PROVE  FileInv(f)'
  <2>1. a.kind = "rename" /\ f \in {a.path, a.to}
    BY <1>9, <1>12, RenamedFiles, RenamedFilesNext
  <2>2. RenameInv(a)
    BY <1>1, <1>4, <1>12, <2>1 DEF WatcherInv, RenamesInv
  <2>3. tagged'[a.path] = 0 /\ tagged'[a.to] = onDisk[a.to]
    BY <1>1, <1>2, <2>1, <2>2, RenamedRows
  <2>4. onDisk[f] \in Nat /\ onDisk[a.path] = 0 /\ onDisk[a.to] # 0
    BY <1>1, <2>2, FilesAreNumbers DEF WatcherTypeOK, Stamp, RenameInv
  <2>5. CASE f = a.path
    BY <1>1, <2>3, <2>4, <2>5 DEF FileInv
  <2>6. CASE f = a.to
    <3>1. \A b \in Range(tagActions') : ~Untags(b, f)
      <4>1. ASSUME NEW b \in Range(tagActions'), Untags(b, f) PROVE FALSE
        <5>1. b \in Items /\ b \in Actions
          BY <1>1, <1>2, <4>1, RangeInSet DEF Items, Unhandled
        <5>2. Mentions(b, f)
          BY <4>1, <5>1, WatchActionFields, MentionedFiles DEF Untags
        <5>3. b = a
          BY <2>2, <2>6, <5>1, <5>2 DEF RenameInv
        <5> QED
          BY <2>1, <4>1, <5>3 DEF Untags
      <4> QED
        BY <4>1
    <3>2. TagIsCurrent(f)'
      BY <1>1, <2>3, <2>6, <3>1 DEF TagIsCurrent, Untags
    <3> QED
      BY <1>1, <2>3, <2>4, <2>6, <3>2 DEF FileInv
  <2> QED
    BY <2>1, <2>5, <2>6
<1>13. FilesInv'
  BY <1>11, <1>12 DEF FilesInv
<1>14. ASSUME NEW d \in Items', d.kind = "rename", ~({d.path, d.to} \subseteq untold')
       PROVE  RenameInv(d)'
  <2>1. d \in Items /\ RenameInv(d) /\ d.path \in Files /\ d.to \in Files
    BY <1>1, <1>9, <1>14, ItemFields DEF WatcherInv, RenamesInv
  <2>2. d.path \notin openedFiles' /\ {d.path, d.to} \cap WithContents(Collected)' = {}
    BY <1>1, <2>1 DEF RenameInv, Collected, WithContents
  <2>3. CASE d # a
    <3>1. ~Mentions(a, d.path) /\ ~Mentions(a, d.to)
      BY <1>4, <2>1, <2>3 DEF RenameInv
    <3>2. \A f \in {d.path, d.to} : ~Tags(a, f) /\ ~Untags(a, f) /\ f \notin {a.path, a.to}
      BY <1>5, <3>1, MentionedFiles DEF Tags, Untags
    <3>3. tagged'[d.path] = tagged[d.path] /\ tagged'[d.to] = tagged[d.to]
      BY <1>10, <2>1, <3>2
    <3> QED
      BY <1>1, <1>9, <2>1, <2>2, <3>3, RenameStays
  <2>4. CASE d = a
    <3>1. tagged'[d.path] = 0 /\ tagged'[d.to] = onDisk[d.to]
      BY <1>1, <1>2, <1>14, <2>1, <2>4, RenamedRows
    <3>2. (\A b \in Items : Mentions(b, d.path) \/ Mentions(b, d.to) => b = d)'
      <4>1. \A b \in Items' : Mentions(b, d.path) \/ Mentions(b, d.to) => b = d
        BY <1>9, <2>1 DEF RenameInv
      <4> QED
        BY <4>1
    <3> QED
      BY <1>1, <2>1, <2>2, <3>1, <3>2 DEF RenameInv
  <2> QED
    BY <2>3, <2>4
<1>15. RenamesInv'
  BY <1>14 DEF RenamesInv
<1> QED
  BY <1>7, <1>8, <1>13, <1>15 DEF WatcherInv

-----------------------------------------------------------------------------
LEMMA WatcherInitInv ==
    ASSUME WatcherInit
    PROVE  WatcherInv
<1>1. /\ onDisk \in [Files -> {0, 1}] /\ dirOnDisk = (\E f \in InDir : onDisk[f] # 0)
      /\ writes = 0 /\ fsEvents = << >>
      /\ pathsCreated = {} /\ pathsModified = {} /\ pathsDeleted = {} /\ pathsRenamed = << >>
      /\ openedFiles = {} /\ opens = 0 /\ tagged = onDisk /\ tagActions = << >> /\ untold = {}
  BY DEF WatcherInit
<1>2. Range(fsEvents) = {} /\ Range(tagActions) = {} /\ DOMAIN pathsRenamed = {}
  BY <1>1 DEF Range
<1>3. {0, 1} \subseteq Stamp
  BY FilesAreNumbers DEF Stamp
<1>4. onDisk \in [Files -> Stamp] /\ tagged \in [Files -> Stamp]
  BY <1>1, <1>3
<1>5. WatcherTypeOK
  BY <1>1, <1>2, <1>4, FilesAreNumbers DEF WatcherTypeOK
<1>6. Items = {}
  BY <1>2 DEF Items, Unhandled, CollectedRenames
<1>7. RenamesInv
  BY <1>6 DEF RenamesInv
<1>8. \A f \in Files : onDisk[f] \in {0, 1} /\ tagged[f] = onDisk[f]
  BY <1>1
<1>9. StampsInv
  BY <1>1, <1>8 DEF StampsInv
<1>10. DirInv
  BY <1>1, <1>2 DEF DirInv, DirDeletionPending
<1>11. FilesInv
  BY <1>2, <1>8 DEF FilesInv, FileInv, TagIsCurrent
<1> QED
  BY <1>5, <1>7, <1>9, <1>10, <1>11 DEF WatcherInv

LEMMA WatcherStutters ==
    ASSUME WatcherInv, UNCHANGED watcherVars
    PROVE  WatcherInv'
BY DEF watcherVars, collected, WatcherInv, WatcherTypeOK, StampsInv, DirInv, DirDeletionPending, FilesInv, RenamesInv,
       FileInv, RenameInv, WillBeTagged, TagQueued, Tags, Untags, TagIsCurrent, WillBeUntagged, WithContents,
       Mentions, Items, Unhandled, CollectedRenames, Collected, PendingRenames, RenamePaths, NamedIn

LEMMA WatcherStep ==
    ASSUME WatcherInv, [WatcherNext]_watcherVars
    PROVE  WatcherInv'
<1>1. CASE OtherPrograms
  BY <1>1, WriteFileKeepsInv, DeleteFileKeepsInv, RenameFileKeepsInv, MakeDirKeepsInv, DeleteDirKeepsInv
     DEF OtherPrograms
<1>2. CASE OnFsWatcher
  BY <1>2, OnFsWatcherKeepsInv
<1>3. CASE StartWatch
  BY <1>3, StartWatchKeepsInv
<1>4. CASE OnTimer
  BY <1>4, OnTimerKeepsInv
<1>5. CASE \E f \in Files : TrackOpenedFile(f)
  BY <1>5, TrackOpenedFileKeepsInv
<1>6. CASE \E f \in Files : UntrackOpenedFile(f)
  BY <1>6, UntrackOpenedFileKeepsInv
<1>7. CASE RunTagAction
  BY <1>7, RunTagActionKeepsInv
<1>8. CASE UNCHANGED watcherVars
  BY <1>8, WatcherStutters
<1> QED
  BY <1>1, <1>2, <1>3, <1>4, <1>5, <1>6, <1>7, <1>8 DEF WatcherNext

LEMMA WatcherInvHolds == WatcherSpec => []WatcherInv
<1>1. WatcherInit => WatcherInv
  BY WatcherAssumption, WatcherInitInv
<1>2. WatcherInv /\ [WatcherNext]_watcherVars => WatcherInv'
  BY WatcherAssumption, WatcherStep
<1> QED
  BY <1>1, <1>2, PTL DEF WatcherSpec

\* The disk, the events, what is collected of them, the rows and the actions on them
\* keep their types, for any number of files, writes and opened files.
THEOREM WatcherTypeCorrect == WatcherSpec => []WatcherTypeOK
<1>1. WatcherInv => WatcherTypeOK
  BY DEF WatcherInv
<1> QED
  BY <1>1, WatcherInvHolds, PTL

LEMMA TagsFollowWhenSettled == WatcherInv => TagsFollowDisk
<1>1. ASSUME WatcherInv, Settled, NEW f \in Files \ (openedFiles \cup untold)
      PROVE  tagged[f] = onDisk[f]
  <2>1. ~WillBeTagged(f) /\ ~WillBeUntagged(f) /\ f \notin PendingRenames
    BY <1>1, ItemsArePending DEF Settled, WatcherInv
  <2>2. FileInv(f)
    BY <1>1, <2>1 DEF WatcherInv, FilesInv
  <2> QED
    BY <1>1, <2>1, <2>2 DEF FileInv, TagIsCurrent
<1> QED
  BY <1>1 DEF TagsFollowDisk

\* Once everything is handled, the database has every file that exists as it was last
\* written, and no other, but for files that are open or whose changes were not told
\* in full (FileWatcherFeatureClass, TagFeatureClass).
THEOREM TagsStayTrue == WatcherSpec => []TagsFollowDisk
BY TagsFollowWhenSettled, WatcherInvHolds, PTL

-----------------------------------------------------------------------------
(***************************************************************************)
(* The composition: the parts take no steps of each other's.               *)
(***************************************************************************)

PartsInv ==
    part \in Parts /\ WatcherInv /\ NotebooksInv /\ SettingsInv /\ SearchInv /\ FindInv /\ RowsInv

LEMMA PartsInvInit == Init => PartsInv
<1> SUFFICES ASSUME Init PROVE PartsInv
  OBVIOUS
<1>1. /\ part \in Parts /\ WatcherInit /\ NotebooksInit /\ SettingsInit /\ SearchInit /\ FindInit
      /\ ExplorerInit
  BY DEF Init
<1>2. WatcherInv /\ NotebooksInv /\ SearchInv
  BY <1>1, WatcherInitInv, NotebooksAssumption, NotebooksInitInv, SearchInitInv
<1>3. SettingsInv /\ FindInv /\ RowsInv
  BY <1>1, SettingsInvInit, FindInitInv, ExplorerInitRows
<1> QED
  BY <1>1, <1>2, <1>3 DEF PartsInv

LEMMA PartsInvStep == PartsInv /\ [Next]_vars => PartsInv'
<1> SUFFICES ASSUME PartsInv, [Next]_vars PROVE PartsInv'
  OBVIOUS
<1>1. /\ part' = part
      /\ [WatcherNext]_watcherVars /\ [NotebooksNext]_notebookVars /\ [SettingsNext]_settingsVars
      /\ [SearchNext]_searchVars /\ [FindNext]_findVars /\ [ExplorerNext]_explorerVars
  BY DEF Next, vars
<1>2. WatcherInv'
  BY <1>1, WatcherStep DEF PartsInv
<1>3. NotebooksInv'
  BY <1>1, NotebooksAssumption, NotebooksStep DEF PartsInv
<1>4. SettingsInv'
  BY <1>1, SettingsInvStep DEF PartsInv
<1>5. SearchInv'
  BY <1>1, SearchStep DEF PartsInv
<1>6. FindInv'
  BY <1>1, FindStepInv DEF PartsInv
<1>7. RowsInv'
  BY <1>1, ExplorerStepRows DEF PartsInv
<1> QED
  BY <1>1, <1>2, <1>3, <1>4, <1>5, <1>6, <1>7 DEF PartsInv

LEMMA PartsInvHolds == Spec => []PartsInv
BY PartsInvInit, PartsInvStep, PTL DEF Spec

\* Next to each other, as they are checked, all of the parts keep their types.
THEOREM FilesTypeCorrect == Spec => []FilesTypeOK
<1>1. PartsInv => FilesTypeOK
  BY DEF PartsInv, Parts, WatcherInv, NotebooksInv, SettingsInv, SearchInv, FindInv, RowsInv, FollowInv,
         ExplorerTyped, FilesTypeOK
<1> QED
  BY <1>1, PartsInvHolds, PTL

\* And what each of them shows stays true to the files: the rows of the tag database,
\* the pages, what a walk gave, the hits of a search and the rows of the explorer.
THEOREM AllFollowTheFiles ==
    Spec => [](/\ TagsFollowDisk /\ CleanPagesShowTheirFile /\ EveryFileIsWalkedInItsSources
               /\ SearchReachesAll /\ RowsFollowDisk)
<1>1. PartsInv => /\ TagsFollowDisk /\ CleanPagesShowTheirFile /\ EveryFileIsWalkedInItsSources
                  /\ SearchReachesAll /\ RowsFollowDisk
  BY TagsFollowWhenSettled, WalkedAllWhenOver, FindInvReachesAll, QuietRowsFollow DEF PartsInv, NotebooksInv
<1> QED
  BY <1>1, PartsInvHolds, PTL
=============================================================================
