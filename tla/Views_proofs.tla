---------------------------- MODULE Views_proofs ----------------------------
(***************************************************************************)
(* Proofs about what follows a program that answers in events: the panels  *)
(* of the SQL browser (SqlQueries), for any number of panels, queries and  *)
(* statements, and the list of breakpoints (Breakpoints), for any number   *)
(* of breakpoints, lines, commands and scripts.                            *)
(***************************************************************************)
EXTENDS SqlQueries, Breakpoints, ListLemmas, FiniteSetTheorems

-----------------------------------------------------------------------------
(***************************************************************************)
(* The SQL browser: a result and its event.                                *)
(***************************************************************************)

ResultEvent(r) == [kind |-> "result", result |-> r]
Completion == [kind |-> "complete"]

\* An event is the one of a result, or the completion.
LEMMA QueryEventsAreRecords ==
    /\ \A r \in QueryResults : ResultEvent(r) \in QueryEvents
    /\ Completion \in QueryEvents
    /\ \A e \in QueryEvents : \/ e.kind = "result" /\ e.result \in QueryResults /\ e = ResultEvent(e.result)
                              \/ e.kind = "complete" /\ e = Completion
<1>1. \A r \in QueryResults : ResultEvent(r) \in [kind : {"result"}, result : QueryResults]
  BY DEF ResultEvent
<1>2. Completion \in [kind : {"complete"}]
  BY DEF Completion
<1>3. \A e \in [kind : {"result"}, result : QueryResults] :
         e.kind = "result" /\ e.result \in QueryResults /\ e = ResultEvent(e.result)
  BY DEF ResultEvent
<1>4. \A e \in [kind : {"complete"}] : e.kind = "complete" /\ e = Completion
  BY DEF Completion
<1> QED
  BY <1>1, <1>2, <1>3, <1>4 DEF QueryEvents

LEMMA EventKindsDiffer ==
    /\ \A r : ResultEvent(r).kind = "result" /\ ResultEvent(r).result = r
    /\ Completion.kind = "complete"
  BY DEF ResultEvent, Completion

\* The events of results: one for each, in their order.
LEMMA AsEventsProperties ==
    ASSUME NEW r \in Seq(QueryResults)
    PROVE  /\ AsEvents(r) \in Seq(QueryEvents)
           /\ Len(AsEvents(r)) = Len(r)
           /\ \A k \in 1 .. Len(r) : AsEvents(r)[k] = ResultEvent(r[k])
<1>1. Len(r) \in Nat /\ DOMAIN r = 1 .. Len(r) /\ \A k \in 1 .. Len(r) : r[k] \in QueryResults
  BY LenProperties
<1>2. AsEvents(r) = [k \in 1 .. Len(r) |-> ResultEvent(r[k])]
  BY <1>1 DEF AsEvents, ResultEvent
<1>3. \A k \in 1 .. Len(r) : ResultEvent(r[k]) \in QueryEvents
  BY <1>1, QueryEventsAreRecords
<1>4. [k \in 1 .. Len(r) |-> ResultEvent(r[k])] \in [1 .. Len(r) -> QueryEvents]
  BY <1>3
<1>5. AsEvents(r) \in Seq(QueryEvents)
  BY <1>1, <1>2, <1>4, SeqDef
<1>6. 1 .. Len(r) = 1 .. Len(AsEvents(r)) /\ Len(AsEvents(r)) \in Nat
  BY <1>2, <1>5, LenProperties
<1> QED
  BY <1>1, <1>2, <1>5, <1>6

\* An event that is posted comes behind the others.
LEMMA EventBehind ==
    ASSUME NEW a \in Seq(QueryEvents), NEW b \in Seq(QueryEvents), NEW e \in QueryEvents
    PROVE  a \o Append(b, e) = Append(a \o b, e)
<1>1. <<e>> \in Seq(QueryEvents) /\ Append(b, e) = b \o <<e>> /\ a \o b \in Seq(QueryEvents)
  BY AppendIsConcat, ConcatProperties
<1>2. Append(a \o b, e) = (a \o b) \o <<e>>
  BY <1>1, AppendIsConcat
<1> QED
  BY <1>1, <1>2, ConcatAssociative

\* One result more is one event more, behind the others.
LEMMA OneMoreEvent ==
    ASSUME NEW r \in Seq(QueryResults), NEW x \in QueryResults
    PROVE  AsEvents(Append(r, x)) = Append(AsEvents(r), ResultEvent(x))
<1> DEFINE a == Append(r, x)
<1>1. /\ Len(r) \in Nat /\ a \in Seq(QueryResults) /\ Len(a) = Len(r) + 1
      /\ \A i \in 1 .. Len(r) : a[i] = r[i]
      /\ a[Len(r) + 1] = x
  BY LenProperties, AppendProperties
<1>2. /\ AsEvents(a) \in Seq(QueryEvents) /\ Len(AsEvents(a)) = Len(a)
      /\ \A k \in 1 .. Len(a) : AsEvents(a)[k] = ResultEvent(a[k])
  BY <1>1, AsEventsProperties
<1>3. /\ AsEvents(r) \in Seq(QueryEvents) /\ Len(AsEvents(r)) = Len(r)
      /\ \A k \in 1 .. Len(r) : AsEvents(r)[k] = ResultEvent(r[k])
  BY AsEventsProperties
<1>4. ResultEvent(x) \in QueryEvents
  BY QueryEventsAreRecords
<1> DEFINE c == Append(AsEvents(r), ResultEvent(x))
<1>5. /\ c \in Seq(QueryEvents) /\ Len(c) = Len(r) + 1
      /\ \A i \in 1 .. Len(r) : c[i] = AsEvents(r)[i]
      /\ c[Len(r) + 1] = ResultEvent(x)
  <2>1. /\ c \in Seq(QueryEvents) /\ Len(c) = Len(AsEvents(r)) + 1
        /\ \A i \in 1 .. Len(AsEvents(r)) : c[i] = AsEvents(r)[i]
        /\ c[Len(AsEvents(r)) + 1] = ResultEvent(x)
    BY <1>3, <1>4, AppendProperties
  <2> HIDE DEF c
  <2> QED
    BY <1>3, <2>1
<1> HIDE DEF a, c
<1>6. \A k \in 1 .. Len(r) + 1 : AsEvents(a)[k] = c[k]
  <2> TAKE k \in 1 .. Len(r) + 1
  <2>1. CASE k = Len(r) + 1
    BY <1>1, <1>2, <1>5, <2>1
  <2>2. CASE k # Len(r) + 1
    <3>1. k \in 1 .. Len(r) /\ k \in 1 .. Len(a)
      BY <1>1, <2>2
    <3> QED
      BY <1>1, <1>2, <1>3, <1>5, <3>1
  <2> QED
    BY <2>1, <2>2
<1>7. AsEvents(a) = c
  BY <1>1, <1>2, <1>5, <1>6, SeqEqual
<1> QED
  BY <1>7 DEF a, c

\* A result that is taken from the events was on its way before.
LEMMA TakenResult ==
    ASSUME NEW r \in Seq(QueryResults), NEW b \in Seq(QueryEvents), NEW x \in QueryResults,
           b # << >>, Head(b) = ResultEvent(x)
    PROVE  AsEvents(Append(r, x)) \o Tail(b) = AsEvents(r) \o b
<1>1. AsEvents(r) \in Seq(QueryEvents) /\ ResultEvent(x) \in QueryEvents
  BY AsEventsProperties, QueryEventsAreRecords
<1>2. /\ Append(AsEvents(r), ResultEvent(x)) = AsEvents(r) \o <<ResultEvent(x)>>
      /\ <<ResultEvent(x)>> \in Seq(QueryEvents)
  BY <1>1, AppendIsConcat
<1>3. Tail(b) \in Seq(QueryEvents) /\ b = <<ResultEvent(x)>> \o Tail(b)
  BY HeadInFront
<1>4. (AsEvents(r) \o <<ResultEvent(x)>>) \o Tail(b) = AsEvents(r) \o (<<ResultEvent(x)>> \o Tail(b))
  BY <1>1, <1>2, <1>3, ConcatAssociative
<1>5. AsEvents(Append(r, x)) = Append(AsEvents(r), ResultEvent(x))
  BY OneMoreEvent
<1> QED
  BY <1>2, <1>3, <1>4, <1>5, Zenon

\* The results that a panel has, with its events behind them.
LEMMA ResultsThenEvents ==
    ASSUME NEW r \in Seq(QueryResults), NEW b \in Seq(QueryEvents)
    PROVE  /\ Len(r) \in Nat /\ Len(b) \in Nat
           /\ AsEvents(r) \o b \in Seq(QueryEvents)
           /\ Len(AsEvents(r) \o b) = Len(r) + Len(b)
           /\ \A i \in 1 .. Len(r) : (AsEvents(r) \o b)[i] = ResultEvent(r[i])
           /\ \A j \in 1 .. Len(b) : (AsEvents(r) \o b)[Len(r) + j] = b[j]
<1> DEFINE a == AsEvents(r)
           x == a \o b
<1>1. Len(r) \in Nat /\ Len(b) \in Nat
  BY LenProperties
<1>2. a \in Seq(QueryEvents) /\ Len(a) = Len(r) /\ \A k \in 1 .. Len(r) : a[k] = ResultEvent(r[k])
  BY AsEventsProperties
<1> HIDE DEF a
<1>3. /\ x \in Seq(QueryEvents) /\ Len(x) = Len(a) + Len(b)
      /\ \A i \in 1 .. Len(a) + Len(b) : x[i] = IF i <= Len(a) THEN a[i] ELSE b[i - Len(a)]
  BY <1>2, ConcatProperties
<1> HIDE DEF x
<1>4. \A i \in 1 .. Len(r) : x[i] = ResultEvent(r[i])
  BY <1>1, <1>2, <1>3
<1>5. \A j \in 1 .. Len(b) : x[Len(r) + j] = b[j]
  <2> TAKE j \in 1 .. Len(b)
  <2>1. Len(r) + j \in 1 .. Len(a) + Len(b) /\ ~(Len(r) + j <= Len(a)) /\ (Len(r) + j) - Len(a) = j
    BY <1>1, <1>2
  <2> QED
    BY <1>3, <2>1
<1> QED
  BY <1>1, <1>2, <1>3, <1>4, <1>5 DEF x, a

\* Where the completion is taken, nothing else is left.
LEMMA TakenCompletion ==
    ASSUME NEW r \in Seq(QueryResults), NEW s \in Seq(QueryResults), NEW b \in Seq(QueryEvents),
           NEW c \in {<< >>, <<Completion>>},
           b # << >>, Head(b).kind = "complete", AsEvents(r) \o b = AsEvents(s) \o c
    PROVE  c = <<Completion>> /\ r = s /\ Tail(b) = << >>
<1> DEFINE x == AsEvents(r) \o b
           y == AsEvents(s) \o c
<1>1. c \in Seq(QueryEvents) /\ Len(c) \in {0, 1} /\ (Len(c) = 1 => c = <<Completion>>)
  <2>1. Completion \in QueryEvents
    BY QueryEventsAreRecords
  <2>2. CASE c = << >>
    BY <2>2, EmptySeq
  <2>3. CASE c = <<Completion>>
    <3>1. <<Completion>> \in Seq(QueryEvents) /\ Len(<<Completion>>) = 1
      BY <2>1
    <3> QED
      BY <2>3, <3>1
  <2> QED
    BY <2>2, <2>3
<1>2. Len(b) \in Nat \ {0} /\ b[1] = Head(b)
  BY EmptySeq
<1>3. /\ Len(r) \in Nat /\ Len(x) = Len(r) + Len(b)
      /\ \A i \in 1 .. Len(r) : x[i] = ResultEvent(r[i])
      /\ \A j \in 1 .. Len(b) : x[Len(r) + j] = b[j]
  BY ResultsThenEvents
<1>4. /\ Len(s) \in Nat /\ Len(y) = Len(s) + Len(c)
      /\ \A i \in 1 .. Len(s) : y[i] = ResultEvent(s[i])
  BY <1>1, ResultsThenEvents
<1>5. x = y
  OBVIOUS
<1> HIDE DEF x, y
<1>6. ~(Len(r) + 1 <= Len(s))
  <2> SUFFICES ASSUME Len(r) + 1 <= Len(s) PROVE FALSE
    OBVIOUS
  <2>1. Len(r) + 1 \in 1 .. Len(s) /\ 1 \in 1 .. Len(b)
    BY <1>2, <1>3, <1>4
  <2>2. x[Len(r) + 1] = b[1] /\ x[Len(r) + 1] = ResultEvent(s[Len(r) + 1])
    BY <1>3, <1>4, <1>5, <2>1
  <2> QED
    BY <1>2, <2>2, EventKindsDiffer
<1>7. Len(c) = 1 /\ Len(r) = Len(s) /\ Len(b) = 1
  <2>1. Len(r) + Len(b) = Len(s) + Len(c)
    BY <1>3, <1>4, <1>5
  <2>2. Len(s) <= Len(r)
    BY <1>3, <1>4, <1>6
  <2> QED
    BY <1>1, <1>2, <1>3, <1>4, <2>1, <2>2
<1>8. \A i \in 1 .. Len(r) : r[i] = s[i]
  <2> TAKE i \in 1 .. Len(r)
  <2>1. x[i] = ResultEvent(r[i]) /\ y[i] = ResultEvent(s[i])
    BY <1>3, <1>4, <1>7
  <2> QED
    BY <1>5, <2>1, EventKindsDiffer
<1>9. r = s
  BY <1>7, <1>8, SeqEqual
<1>10. Len(Tail(b)) = 0 /\ Tail(b) \in Seq(QueryEvents)
  BY <1>7, HeadTailProperties
<1> QED
  BY <1>1, <1>7, <1>9, <1>10, EmptySeq

\* As long as a query has not ended, the last of its events is a result.
LEMMA LastIsResult ==
    ASSUME NEW r \in Seq(QueryResults), NEW s \in Seq(QueryResults), NEW b \in Seq(QueryEvents),
           b # << >>, AsEvents(r) \o b = AsEvents(s) \o << >>
    PROVE  b[Len(b)].kind = "result"
<1> DEFINE x == AsEvents(r) \o b
           y == AsEvents(s) \o << >>
<1>1. << >> \in Seq(QueryEvents) /\ Len(<< >>) = 0 /\ Len(b) \in Nat \ {0}
  BY EmptySeq
<1>2. /\ Len(r) \in Nat /\ Len(x) = Len(r) + Len(b)
      /\ \A j \in 1 .. Len(b) : x[Len(r) + j] = b[j]
  BY ResultsThenEvents
<1>3. /\ Len(s) \in Nat /\ Len(y) = Len(s) + 0
      /\ \A i \in 1 .. Len(s) : y[i] = ResultEvent(s[i])
  BY <1>1, ResultsThenEvents
<1>4. x = y
  OBVIOUS
<1> HIDE DEF x, y
<1>5. Len(b) \in 1 .. Len(b) /\ Len(r) + Len(b) \in 1 .. Len(s)
  BY <1>1, <1>2, <1>3, <1>4
<1>6. x[Len(r) + Len(b)] = b[Len(b)] /\ x[Len(r) + Len(b)] = ResultEvent(s[Len(r) + Len(b)])
  BY <1>2, <1>3, <1>4, <1>5
<1> QED
  BY <1>6, EventKindsDiffer

-----------------------------------------------------------------------------
(***************************************************************************)
(* The SQL browser: types.                                                 *)
(***************************************************************************)

\* The elements of a sequence over a set are of the set.
LEMMA ElementsOfSeq ==
    ASSUME NEW S, NEW s \in Seq(S)
    PROVE  ToSet(s) \subseteq S
<1>1. \A i \in DOMAIN s : s[i] \in S
  BY LenProperties
<1> QED
  BY <1>1 DEF ToSet

\* Panels and queries are numbers that have been given.
LEMMA PanelsAreNumbers ==
    ASSUME SqlTypeOK
    PROVE  /\ panelsMade \in Nat /\ MaxSqlPanels \in Nat /\ panelsMade <= MaxSqlPanels
           /\ Len(queries) \in Nat /\ DOMAIN queries = 1 .. Len(queries)
           /\ \A q \in DOMAIN queries : queries[q] \in Queries
           /\ ToSet(sqlPanels) \subseteq 1 .. panelsMade /\ ToSet(sqlPanels) \subseteq SqlPanels
<1>1. panelsMade \in Nat /\ MaxSqlPanels \in Nat /\ panelsMade <= MaxSqlPanels
  BY SqlAssumption DEF SqlTypeOK
<1>2. Len(queries) \in Nat /\ DOMAIN queries = 1 .. Len(queries) /\ \A q \in DOMAIN queries : queries[q] \in Queries
  <2>1. queries \in Seq(Queries)
    BY DEF SqlTypeOK
  <2> QED
    BY <2>1, LenProperties
<1>3. ToSet(sqlPanels) \subseteq 1 .. panelsMade
  <2>1. sqlPanels \in Seq(1 .. panelsMade)
    BY DEF SqlTypeOK
  <2> QED
    BY <2>1, ElementsOfSeq
<1>4. 1 .. panelsMade \subseteq SqlPanels
  BY <1>1 DEF SqlPanels
<1> QED
  BY <1>1, <1>2, <1>3, <1>4

\* The fields of a query, and what becomes of it, keep their types.
LEMMA QueriesAreRecords ==
    /\ \A p \in SqlPanels, connects \in BOOLEAN, n \in 0 .. MaxStatements :
          /\ Query(p, connects, n) \in Queries
          /\ Query(p, connects, n).panel = p /\ Query(p, connects, n).state = "queued"
          /\ Query(p, connects, n).posted = 0
    /\ \A q \in Queries :
          /\ q.panel \in SqlPanels /\ q.statements \in 0 .. MaxStatements /\ q.connects \in BOOLEAN
          /\ q.posted \in 0 .. MaxStatements + 1
          /\ q.state \in {"queued", "running", "cancelled", "ended", "dropped", "unheard"}
    /\ \A q \in Queries, s \in {"queued", "running", "cancelled", "ended", "dropped", "unheard"} :
          [q EXCEPT !.state = s] \in Queries
    /\ \A q \in Queries, n \in 0 .. MaxStatements + 1 : [q EXCEPT !.posted = n] \in Queries
<1>1. MaxStatements \in Nat
  BY SqlAssumption
<1>2. 0 \in 0 .. MaxStatements + 1
  BY <1>1
<1>3. \A p \in SqlPanels, connects \in BOOLEAN, n \in 0 .. MaxStatements :
          /\ Query(p, connects, n) \in Queries
          /\ Query(p, connects, n).panel = p /\ Query(p, connects, n).state = "queued"
          /\ Query(p, connects, n).posted = 0
  BY <1>2 DEF Query, Queries
<1> QED
  BY <1>3 DEF Queries

\* The panels that are created come behind the others.
LEMMA PanelsCreated ==
    ASSUME SqlTypeOK, NEW n \in Nat, CreateResultsPanels(n)
    PROVE  /\ panelsMade' = panelsMade + n /\ panelsMade' \in 0 .. MaxSqlPanels
           /\ sqlPanels' \in Seq(1 .. panelsMade') /\ IsInjective(sqlPanels')
           /\ ToSet(NewPanels(n)) = panelsMade + 1 .. panelsMade + n
           /\ ToSet(sqlPanels') = ToSet(sqlPanels) \cup (panelsMade + 1 .. panelsMade + n)
<1>1. panelsMade' = panelsMade + n /\ sqlPanels' = sqlPanels \o NewPanels(n) /\ panelsMade + n <= MaxSqlPanels
  BY DEF CreateResultsPanels
<1>2. panelsMade \in Nat /\ MaxSqlPanels \in Nat
  BY PanelsAreNumbers
<1> DEFINE m == panelsMade + n
           s == sqlPanels
           t == NewPanels(n)
<1>3. s \in Seq(1 .. panelsMade) /\ IsInjective(s)
  BY DEF SqlTypeOK
<1>4. 1 .. panelsMade \subseteq 1 .. m
  BY <1>2
<1>5. s \in Seq(1 .. m)
  BY <1>3, <1>4, SeqMonotonic
<1>6. t = [k \in 1 .. n |-> panelsMade + k]
  BY DEF NewPanels
<1>7. t \in [1 .. n -> 1 .. m]
  BY <1>2, <1>6
<1>8. t \in Seq(1 .. m)
  BY <1>7, SeqDef
<1>9. Len(t) = n
  BY <1>7, <1>8, LenProperties
<1>10. Len(s) \in Nat /\ DOMAIN s = 1 .. Len(s) /\ \A i \in DOMAIN s : s[i] \in 1 .. panelsMade
  BY <1>3, LenProperties
<1> DEFINE u == s \o t
<1>11. /\ u \in Seq(1 .. m) /\ Len(u) = Len(s) + Len(t)
       /\ \A i \in 1 .. Len(s) + Len(t) : u[i] = IF i <= Len(s) THEN s[i] ELSE t[i - Len(s)]
  BY <1>5, <1>8, ConcatProperties
<1> HIDE DEF s, t, u
<1>12. DOMAIN u = 1 .. Len(s) + n
  BY <1>9, <1>11, LenProperties
<1>13. \A i \in 1 .. Len(s) : i \in DOMAIN u /\ u[i] = s[i]
  BY <1>9, <1>10, <1>11, <1>12
<1>14. \A k \in 1 .. n : Len(s) + k \in DOMAIN u /\ u[Len(s) + k] = panelsMade + k
  <2> TAKE k \in 1 .. n
  <2>1. Len(s) + k \in 1 .. Len(s) + Len(t) /\ ~(Len(s) + k <= Len(s)) /\ (Len(s) + k) - Len(s) = k
    BY <1>9, <1>10
  <2> QED
    BY <1>6, <1>9, <1>11, <1>12, <2>1
<1>15. \A i \in DOMAIN u : i \in 1 .. Len(s) \/ \E k \in 1 .. n : i = Len(s) + k
  <2> TAKE i \in DOMAIN u
  <2>1. CASE i <= Len(s)
    BY <1>10, <1>12, <2>1
  <2>2. CASE ~(i <= Len(s))
    <3>1. i - Len(s) \in 1 .. n /\ i = Len(s) + (i - Len(s))
      BY <1>10, <1>12, <2>2
    <3> QED
      BY <3>1
  <2> QED
    BY <2>1, <2>2
<1>16. IsInjective(u)
  <2> SUFFICES ASSUME NEW i \in DOMAIN u, NEW j \in DOMAIN u, u[i] = u[j] PROVE i = j
    BY DEF IsInjective
  <2>1. CASE i \in 1 .. Len(s) /\ j \in 1 .. Len(s)
    BY <1>3, <1>10, <1>13, <2>1 DEF IsInjective
  <2>2. ASSUME NEW a \in 1 .. Len(s), NEW k \in 1 .. n PROVE u[a] # u[Len(s) + k]
    <3>1. u[a] \in 1 .. panelsMade
      BY <1>10, <1>13
    <3>2. u[Len(s) + k] = panelsMade + k
      BY <1>14
    <3> QED
      BY <1>2, <3>1, <3>2
  <2>3. ASSUME NEW k \in 1 .. n, NEW l \in 1 .. n, u[Len(s) + k] = u[Len(s) + l] PROVE k = l
    <3>1. panelsMade + k = panelsMade + l
      BY <1>14, <2>3
    <3> QED
      BY <1>2, <3>1
  <2> QED
    BY <1>15, <2>1, <2>2, <2>3
<1>17. ToSet(t) = panelsMade + 1 .. m
  <2>1. ToSet(t) = {panelsMade + k : k \in 1 .. n}
    BY <1>6 DEF ToSet
  <2>2. \A x \in panelsMade + 1 .. m : x - panelsMade \in 1 .. n /\ x = panelsMade + (x - panelsMade)
    BY <1>2
  <2>3. \A k \in 1 .. n : panelsMade + k \in panelsMade + 1 .. m
    BY <1>2
  <2> QED
    BY <2>1, <2>2, <2>3
<1>18. ToSet(u) = ToSet(s) \cup ToSet(t)
  <2>1. ASSUME NEW i \in DOMAIN u PROVE u[i] \in ToSet(s) \cup ToSet(t)
    <3>1. CASE i \in 1 .. Len(s)
      BY <1>10, <1>13, <3>1 DEF ToSet
    <3>2. ASSUME NEW k \in 1 .. n, i = Len(s) + k PROVE u[i] \in ToSet(t)
      BY <1>6, <1>14, <3>2 DEF ToSet
    <3> QED
      BY <1>15, <3>1, <3>2
  <2>2. ASSUME NEW i \in DOMAIN s PROVE s[i] \in ToSet(u)
    BY <1>10, <1>13 DEF ToSet
  <2>3. ASSUME NEW k \in 1 .. n PROVE t[k] \in ToSet(u)
    BY <1>6, <1>14 DEF ToSet
  <2>4. DOMAIN t = 1 .. n
    BY <1>6
  <2> QED
    BY <2>1, <2>2, <2>3, <2>4 DEF ToSet
<1> QED
  BY <1>1, <1>2, <1>11, <1>16, <1>17, <1>18 DEF s, t, u

\* The other panels stay.
LEMMA PanelClosed ==
    ASSUME SqlTypeOK, NEW p \in ToSet(sqlPanels), OnSqlPanelClosed(p)
    PROVE  /\ sqlPanels' \in Seq(1 .. panelsMade) /\ IsInjective(sqlPanels')
           /\ ToSet(sqlPanels') = ToSet(sqlPanels) \ {p}
<1>1. PICK i \in DOMAIN sqlPanels : sqlPanels[i] = p /\ sqlPanels' = RemoveAt(sqlPanels, i)
  BY DEF OnSqlPanelClosed
<1>2. sqlPanels \in Seq(1 .. panelsMade) /\ IsInjective(sqlPanels) /\ panelsMade \in Nat
  BY PanelsAreNumbers DEF SqlTypeOK
<1>3. /\ sqlPanels' \in Seq(1 .. panelsMade)
      /\ \A j \in DOMAIN sqlPanels' :
            \E k \in DOMAIN sqlPanels : k # i /\ k = (IF j < i THEN j ELSE j + 1) /\ sqlPanels'[j] = sqlPanels[k]
      /\ \A k \in DOMAIN sqlPanels : k # i => \E j \in DOMAIN sqlPanels' : sqlPanels'[j] = sqlPanels[k]
  BY <1>1, <1>2, RemoveAtProperties
<1>4. DOMAIN sqlPanels \subseteq Nat /\ DOMAIN sqlPanels' \subseteq Nat
  BY SMTT(30), <1>2, <1>3, LenProperties
<1>5. IsInjective(sqlPanels')
  <2> SUFFICES ASSUME NEW j \in DOMAIN sqlPanels', NEW l \in DOMAIN sqlPanels', sqlPanels'[j] = sqlPanels'[l]
               PROVE  j = l
    BY DEF IsInjective
  <2>1. (IF j < i THEN j ELSE j + 1) = (IF l < i THEN l ELSE l + 1)
    BY <1>2, <1>3 DEF IsInjective
  <2> QED
    BY <1>4, <2>1
<1>6. \A x \in ToSet(sqlPanels') : x \in ToSet(sqlPanels) \ {p}
  BY <1>1, <1>2, <1>3 DEF ToSet, IsInjective
<1>7. \A x \in ToSet(sqlPanels) \ {p} : x \in ToSet(sqlPanels')
  BY <1>1, <1>3 DEF ToSet
<1> QED
  BY <1>3, <1>5, <1>6, <1>7

\* A query is put behind the others, for one panel.
LEMMA QueryQueued ==
    ASSUME SqlTypeOK, NEW p \in SqlPanels, QueueQuery(p)
    PROVE  /\ queries' \in Seq(Queries) /\ Len(queries') = Len(queries) + 1 /\ Len(queries') <= MaxQueries
           /\ \A q \in DOMAIN queries : q \in DOMAIN queries' /\ queries'[q] = queries[q]
           /\ \A q \in DOMAIN queries' : q \in DOMAIN queries \/ q = Len(queries')
           /\ Len(queries') \in DOMAIN queries' /\ Len(queries') \notin DOMAIN queries
           /\ queries'[Len(queries')].panel = p /\ queries'[Len(queries')].state = "queued"
           /\ queries'[Len(queries')].posted = 0
           /\ queryActionId' \in [SqlPanels -> 0 .. Len(queries')]
           /\ lastAsked' \in [SqlPanels -> 0 .. Len(queries')]
           /\ lastAsked' = [lastAsked EXCEPT ![p] = Len(queries')]
           /\ mixedPanels' \subseteq SqlPanels
<1>1. PICK connects \in BOOLEAN, n \in 0 .. MaxStatements : queries' = Append(queries, Query(p, connects, n))
  BY DEF QueueQuery
<1> DEFINE x == Query(p, connects, n)
<1>2. x \in Queries /\ x.panel = p /\ x.state = "queued" /\ x.posted = 0
  BY QueriesAreRecords
<1>3. queries \in Seq(Queries) /\ Len(queries) \in Nat /\ DOMAIN queries = 1 .. Len(queries)
  BY PanelsAreNumbers DEF SqlTypeOK
<1> HIDE DEF x
<1>4. /\ queries' \in Seq(Queries) /\ Len(queries') = Len(queries) + 1
      /\ \A q \in 1 .. Len(queries) : queries'[q] = queries[q]
      /\ queries'[Len(queries) + 1] = x
  BY <1>1, <1>2, <1>3, AppendProperties DEF x
<1>5. DOMAIN queries' = 1 .. Len(queries) + 1
  BY <1>4, LenProperties
<1>6. Len(queries) < MaxQueries /\ MaxQueries \in Nat
  BY SqlAssumption DEF QueueQuery
<1>7. Len(queries') \in 0 .. Len(queries') /\ 0 .. Len(queries) \subseteq 0 .. Len(queries')
  BY <1>3, <1>4
<1>8. queryActionId' \in [SqlPanels -> 0 .. Len(queries')] /\ lastAsked' \in [SqlPanels -> 0 .. Len(queries')]
  BY <1>7 DEF SqlTypeOK, QueueQuery
<1>9. mixedPanels' \subseteq SqlPanels
  BY DEF SqlTypeOK, QueueQuery
<1>10. lastAsked' = [lastAsked EXCEPT ![p] = Len(queries')]
  BY DEF QueueQuery
<1> QED
  BY <1>2, <1>3, <1>4, <1>5, <1>6, <1>8, <1>9, <1>10

PanelTypes ==
    /\ codeCtrlIsOpen \in BOOLEAN
    /\ panelsMade \in 0 .. MaxSqlPanels
    /\ sqlPanels \in Seq(1 .. panelsMade) /\ IsInjective(sqlPanels)
    /\ linkedPanels \subseteq ToSet(sqlPanels)
    /\ linkedPanels # {} => codeCtrlIsOpen

\* The panel of the first page that is linked.
LEMMA FirstLinked ==
    ASSUME SqlTypeOK, linkedPanels # {}
    PROVE  sqlPanels[SelectInSeq(sqlPanels, LAMBDA q : q \in linkedPanels)] \in linkedPanels
<1> DEFINE I == {i \in 1 .. Len(sqlPanels) : sqlPanels[i] \in linkedPanels}
<1>1. sqlPanels \in Seq(1 .. panelsMade) /\ linkedPanels \subseteq ToSet(sqlPanels)
  BY DEF SqlTypeOK
<1>2. DOMAIN sqlPanels = 1 .. Len(sqlPanels) /\ Len(sqlPanels) \in Nat
  BY <1>1, LenProperties
<1>3. I # {} /\ I \in SUBSET Nat
  BY <1>1, <1>2 DEF ToSet
<1>4. PICK i \in I : \A j \in I : i <= j
  BY <1>3, LeastNumber
<1>5. Min(I) \in I
  BY <1>4 DEF Min
<1>6. SelectInSeq(sqlPanels, LAMBDA q : q \in linkedPanels) = Min(I)
  BY <1>3 DEF SelectInSeq
<1> QED
  BY <1>5, <1>6

\* One panel asks, which is open or has just been made.
Asks(p) ==
    /\ QueueQuery(p)
    /\ UNCHANGED <<queryEvents, Results, ResultsGrid>>
    /\ ToSet(sqlPanels') = ToSet(sqlPanels) \cup {p}
    /\ \/ p \in ToSet(sqlPanels) /\ panelsMade' = panelsMade
       \/ p = panelsMade + 1 /\ panelsMade' = panelsMade + 1

\* A panel that has just been made is the one that asks.
LEMMA NewPanelAsks ==
    ASSUME SqlTypeOK, CreateResultsPanels(1), QueueQuery(panelsMade'),
           UNCHANGED <<queryEvents, Results, ResultsGrid>>
    PROVE  /\ \E p \in SqlPanels : p = panelsMade' /\ Asks(p)
           /\ panelsMade' \in 0 .. MaxSqlPanels
           /\ sqlPanels' \in Seq(1 .. panelsMade') /\ IsInjective(sqlPanels')
           /\ ToSet(sqlPanels') = ToSet(sqlPanels) \cup {panelsMade'}
<1>1. /\ panelsMade' = panelsMade + 1 /\ panelsMade' \in 0 .. MaxSqlPanels
      /\ sqlPanels' \in Seq(1 .. panelsMade') /\ IsInjective(sqlPanels')
      /\ ToSet(sqlPanels') = ToSet(sqlPanels) \cup (panelsMade + 1 .. panelsMade + 1)
  BY PanelsCreated
<1>2. panelsMade \in Nat /\ MaxSqlPanels \in Nat
  BY PanelsAreNumbers
<1>3. panelsMade' \in SqlPanels /\ panelsMade + 1 .. panelsMade + 1 = {panelsMade'}
  BY <1>1, <1>2 DEF SqlPanels
<1>4. PICK p \in SqlPanels : p = panelsMade'
  BY <1>3
<1>5. QueueQuery(p)
  BY <1>4 DEF QueueQuery, Unfinished
<1>6. ToSet(sqlPanels') = ToSet(sqlPanels) \cup {p} /\ p = panelsMade + 1
  BY <1>1, <1>3, <1>4
<1>7. Asks(p)
  BY <1>1, <1>5, <1>6 DEF Asks
<1> QED
  BY <1>1, <1>3, <1>4, <1>7

\* In each action that queues a query one panel asks.
LEMMA QueueingActions ==
    ASSUME SqlTypeOK,
           \/ OnRun \/ OnCmdTableDataOpen
           \/ \E p \in ToSet(sqlPanels) : OnRefreshButton(p)
    PROVE  PanelTypes' /\ \E p \in SqlPanels : Asks(p)
<1>1. /\ panelsMade \in Nat /\ MaxSqlPanels \in Nat /\ panelsMade <= MaxSqlPanels
      /\ ToSet(sqlPanels) \subseteq 1 .. panelsMade /\ ToSet(sqlPanels) \subseteq SqlPanels
  BY PanelsAreNumbers
<1>2. PanelTypes
  BY DEF SqlTypeOK, PanelTypes
<1>3. ASSUME NEW p \in ToSet(sqlPanels), QueueQuery(p),
             UNCHANGED <<codeCtrlIsOpen, panelVars, queryEvents, Results, ResultsGrid>>
      PROVE  PanelTypes' /\ \E r \in SqlPanels : Asks(r)
  <2>1. PanelTypes'
    BY <1>2, <1>3 DEF PanelTypes, panelVars
  <2>2. Asks(p)
    BY <1>3 DEF Asks, panelVars
  <2> QED
    BY <1>1, <2>1, <2>2
<1>4. CASE \E p \in ToSet(sqlPanels) : OnRefreshButton(p)
  BY <1>3, <1>4 DEF OnRefreshButton
<1>5. CASE OnRun
  <2>1. CASE linkedPanels # {}
    <3> DEFINE p == sqlPanels[SelectInSeq(sqlPanels, LAMBDA q : q \in linkedPanels)]
    <3>1. p \in ToSet(sqlPanels)
      BY <2>1, FirstLinked DEF SqlTypeOK
    <3>2. QueueQuery(p) /\ UNCHANGED <<codeCtrlIsOpen, panelVars, queryEvents, Results, ResultsGrid>>
      BY <1>5, <2>1 DEF OnRun
    <3> HIDE DEF p
    <3> QED
      BY <1>3, <3>1, <3>2
  <2>2. CASE linkedPanels = {}
    <3>1. /\ codeCtrlIsOpen /\ CreateResultsPanels(1) /\ linkedPanels' = {panelsMade'} /\ QueueQuery(panelsMade')
          /\ UNCHANGED <<codeCtrlIsOpen, queryEvents, Results, ResultsGrid>>
      BY <1>5, <2>2 DEF OnRun
    <3>2. UNCHANGED <<queryEvents, Results, ResultsGrid>>
      BY <3>1
    <3>3. /\ \E p \in SqlPanels : p = panelsMade' /\ Asks(p)
          /\ panelsMade' \in 0 .. MaxSqlPanels
          /\ sqlPanels' \in Seq(1 .. panelsMade') /\ IsInjective(sqlPanels')
          /\ ToSet(sqlPanels') = ToSet(sqlPanels) \cup {panelsMade'}
      BY <3>1, <3>2, NewPanelAsks
    <3> QED
      BY <1>2, <3>1, <3>3 DEF PanelTypes
  <2> QED
    BY <2>1, <2>2
<1>6. CASE OnCmdTableDataOpen
  <2>1. /\ CreateResultsPanels(1) /\ QueueQuery(panelsMade')
        /\ UNCHANGED <<codeCtrlIsOpen, linkedPanels, queryEvents, Results, ResultsGrid>>
    BY <1>6 DEF OnCmdTableDataOpen
  <2>2. UNCHANGED <<queryEvents, Results, ResultsGrid>>
    BY <2>1
  <2>3. /\ \E p \in SqlPanels : p = panelsMade' /\ Asks(p)
        /\ panelsMade' \in 0 .. MaxSqlPanels
        /\ sqlPanels' \in Seq(1 .. panelsMade') /\ IsInjective(sqlPanels')
        /\ ToSet(sqlPanels') = ToSet(sqlPanels) \cup {panelsMade'}
    BY <2>1, <2>2, NewPanelAsks
  <2> QED
    BY <1>2, <2>1, <2>3 DEF PanelTypes
<1> QED
  BY <1>4, <1>5, <1>6

QueryTypes ==
    /\ queryActionId \in [SqlPanels -> 0 .. Len(queries)]
    /\ queries \in Seq(Queries) /\ Len(queries) <= MaxQueries
    /\ queryEvents \in [SqlPanels -> Seq(QueryEvents)]
    /\ Results \in [SqlPanels -> Seq(QueryResults)]
    /\ ResultsGrid \in [SqlPanels -> Seq(QueryResults)]
    /\ lastAsked \in [SqlPanels -> 0 .. Len(queries)]
    /\ mixedPanels \subseteq SqlPanels

\* The types of the panels, and those of their queries and results.
LEMMA SqlTypesAreTwo == SqlTypeOK <=> PanelTypes /\ QueryTypes
  BY DEF SqlTypeOK, PanelTypes, QueryTypes

LEMMA SqlTypesAreTwoNext == SqlTypeOK' <=> PanelTypes' /\ QueryTypes'
  BY DEF SqlTypeOK, PanelTypes, QueryTypes

\* A function on the numbers of the queries is a sequence of as many.
LEMMA QueriesChanged ==
    ASSUME SqlTypeOK, NEW Q \in [DOMAIN queries -> Queries]
    PROVE  Q \in Seq(Queries) /\ Len(Q) = Len(queries) /\ DOMAIN Q = DOMAIN queries
<1>1. Len(queries) \in Nat /\ DOMAIN queries = 1 .. Len(queries)
  BY PanelsAreNumbers
<1>2. Q \in Seq(Queries)
  BY <1>1, SeqDef
<1>3. Len(Q) \in Nat /\ DOMAIN Q = 1 .. Len(Q)
  BY <1>2, LenProperties
<1>4. 1 .. Len(Q) = 1 .. Len(queries)
  BY <1>1, <1>3
<1>5. Len(Q) = Len(queries)
  BY <1>1, <1>3, <1>4
<1> QED
  BY <1>1, <1>2, <1>3, <1>5

\* An event reaches the panel of its query only.
LEMMA EventPosted ==
    ASSUME SqlTypeOK, NEW q \in DOMAIN queries, NEW e \in QueryEvents, PostToPanel(q, e)
    PROVE  /\ queries[q].panel \in SqlPanels
           /\ queryEvents' = [queryEvents EXCEPT ![queries[q].panel] = Append(queryEvents[queries[q].panel], e)]
           /\ queryEvents' \in [SqlPanels -> Seq(QueryEvents)]
<1>1. queries[q] \in Queries
  BY PanelsAreNumbers
<1>2. queries[q].panel \in SqlPanels
  BY <1>1, QueriesAreRecords
<1>3. queryEvents' = [queryEvents EXCEPT ![queries[q].panel] = Append(queryEvents[queries[q].panel], e)]
  BY <1>2 DEF SqlTypeOK, PostToPanel
<1>4. queryEvents[queries[q].panel] \in Seq(QueryEvents)
  BY <1>2 DEF SqlTypeOK
<1>5. Append(queryEvents[queries[q].panel], e) \in Seq(QueryEvents)
  BY <1>4, AppendProperties
<1> QED
  BY <1>2, <1>3, <1>5 DEF SqlTypeOK

\* What a thread does to a query: it keeps its panel, its statements and whether it connects.
QueryGets(q, x) ==
    /\ x \in Queries
    /\ queries' = [queries EXCEPT ![q] = x]
    /\ x.panel = queries[q].panel

\* What each step of a thread does to its query, and what it posts.
LEMMA QueryBegun ==
    ASSUME SqlTypeOK, NEW q \in DOMAIN queries, BeginQuery(q)
    PROVE  \E x : /\ QueryGets(q, x) /\ x.state = "running" /\ x.posted = queries[q].posted
                  /\ queries[q].state = "queued" /\ UNCHANGED queryEvents
<1> DEFINE x == [queries[q] EXCEPT !.state = "running"]
<1>1. queries[q] \in Queries
  BY PanelsAreNumbers
<1>2. x \in Queries
  BY <1>1, QueriesAreRecords
<1>3. x.panel = queries[q].panel /\ x.state = "running" /\ x.posted = queries[q].posted
  BY <1>1 DEF Queries
<1>4. queries' = [queries EXCEPT ![q] = x] /\ queries[q].state = "queued" /\ UNCHANGED queryEvents
  BY DEF BeginQuery
<1> HIDE DEF x
<1> QED
  BY <1>2, <1>3, <1>4 DEF QueryGets

LEMMA StatementExecuted ==
    ASSUME SqlTypeOK, NEW q \in DOMAIN queries, ExecuteStatement(q)
    PROVE  \E x : /\ QueryGets(q, x) /\ x.state = queries[q].state /\ x.posted = queries[q].posted + 1
                  /\ queries[q].state \in {"running", "cancelled"}
                  /\ <<q, x.posted>> \in QueryResults
                  /\ PostToPanel(q, ResultEvent(<<q, x.posted>>))
<1> DEFINE x == [queries[q] EXCEPT !.posted = queries[q].posted + 1]
<1>1. queries[q] \in Queries /\ q \in Nat /\ q >= 1 /\ q <= Len(queries) /\ Len(queries) <= MaxQueries
  BY PanelsAreNumbers DEF SqlTypeOK
<1>2. queries[q].state \in {"running", "cancelled"} /\ queries[q].posted + 1 \in 1 .. MaxStatements + 1
  <2>1. /\ queries[q].posted \in 0 .. MaxStatements + 1 /\ queries[q].statements \in 0 .. MaxStatements
        /\ queries[q].connects \in BOOLEAN
    BY <1>1, QueriesAreRecords
  <2>2. MaxStatements \in Nat
    BY SqlAssumption
  <2>3. CASE queries[q].connects
    <3>1. queries[q].state = "running" /\ queries[q].posted < queries[q].statements
      BY <2>3 DEF ExecuteStatement
    <3> QED
      BY <2>1, <2>2, <3>1
  <2>4. CASE ~queries[q].connects
    <3>1. queries[q].state \in {"running", "cancelled"} /\ queries[q].posted = 0
      BY <2>4 DEF ExecuteStatement
    <3> QED
      BY <2>2, <3>1
  <2> QED
    BY <2>3, <2>4
<1>3. x \in Queries
  <2>1. MaxStatements \in Nat
    BY SqlAssumption
  <2>2. queries[q].posted + 1 \in 0 .. MaxStatements + 1
    BY <1>2, <2>1
  <2> QED
    BY <1>1, <2>2, QueriesAreRecords
<1>4. x.panel = queries[q].panel /\ x.state = queries[q].state /\ x.posted = queries[q].posted + 1
  BY <1>1 DEF Queries
<1>5. queries' = [queries EXCEPT ![q] = x]
  BY DEF ExecuteStatement
<1>6. queries'[q] = x
  BY <1>5
<1>7. PostToPanel(q, ResultEvent(<<q, x.posted>>))
  BY <1>6 DEF ExecuteStatement, ResultEvent
<1>8. q \in 1 .. MaxQueries
  <2>1. MaxQueries \in Nat
    BY SqlAssumption
  <2> QED
    BY <1>1, <2>1, PanelsAreNumbers
<1>9. <<q, x.posted>> \in QueryResults
  BY <1>2, <1>4, <1>8 DEF QueryResults
<1> HIDE DEF x
<1> QED
  BY <1>2, <1>3, <1>4, <1>5, <1>7, <1>9 DEF QueryGets

LEMMA QueryEnded ==
    ASSUME SqlTypeOK, NEW q \in DOMAIN queries, EndQuery(q)
    PROVE  \E x : /\ QueryGets(q, x) /\ x.state = "ended" /\ x.posted = queries[q].posted
                  /\ queries[q].state \in {"running", "cancelled"}
                  /\ PostToPanel(q, Completion)
<1> DEFINE x == [queries[q] EXCEPT !.state = "ended"]
<1>1. queries[q] \in Queries
  BY PanelsAreNumbers
<1>2. x \in Queries
  BY <1>1, QueriesAreRecords
<1>3. x.panel = queries[q].panel /\ x.state = "ended" /\ x.posted = queries[q].posted
  BY <1>1 DEF Queries
<1>4. /\ queries' = [queries EXCEPT ![q] = x] /\ queries[q].state \in {"running", "cancelled"}
      /\ PostToPanel(q, Completion)
  BY DEF EndQuery, Completion
<1> HIDE DEF x
<1> QED
  BY <1>2, <1>3, <1>4 DEF QueryGets

\* The other queries stay as they are.
LEMMA QueryGetsTypes ==
    ASSUME SqlTypeOK, NEW q \in DOMAIN queries, NEW x, QueryGets(q, x)
    PROVE  /\ queries' \in Seq(Queries) /\ Len(queries') = Len(queries) /\ DOMAIN queries' = DOMAIN queries
           /\ queries'[q] = x
           /\ \A r \in DOMAIN queries : r # q => queries'[r] = queries[r]
           /\ \A r \in DOMAIN queries : queries'[r].panel = queries[r].panel
<1>1. \A r \in DOMAIN queries : queries[r] \in Queries
  BY PanelsAreNumbers
<1>2. queries \in Seq(Queries)
  BY DEF SqlTypeOK
<1>3. queries = [r \in DOMAIN queries |-> queries[r]]
  BY <1>2
<1>4. queries' \in [DOMAIN queries -> Queries]
  BY <1>1, <1>3 DEF QueryGets
<1>5. queries' \in Seq(Queries) /\ Len(queries') = Len(queries) /\ DOMAIN queries' = DOMAIN queries
  BY <1>4, QueriesChanged
<1>6. queries'[q] = x /\ \A r \in DOMAIN queries : r # q => queries'[r] = queries[r]
  BY <1>3 DEF QueryGets
<1> QED
  BY <1>5, <1>6 DEF QueryGets

\* One lemma for each action: it keeps the types.
LEMMA WorkKeepsTypes ==
    ASSUME SqlTypeOK, QueryWorks
    PROVE  SqlTypeOK'
<1>1. PICK q \in DOMAIN queries : BeginQuery(q) \/ ExecuteStatement(q) \/ EndQuery(q)
  BY DEF QueryWorks
<1>2. PICK x : QueryGets(q, x) /\ queryEvents' \in [SqlPanels -> Seq(QueryEvents)]
  <2>1. CASE BeginQuery(q)
    BY <2>1, QueryBegun DEF SqlTypeOK
  <2>2. CASE ExecuteStatement(q)
    BY <2>2, StatementExecuted, EventPosted, QueryEventsAreRecords
  <2>3. CASE EndQuery(q)
    BY <2>3, QueryEnded, EventPosted, QueryEventsAreRecords
  <2> QED
    BY <1>1, <2>1, <2>2, <2>3
<1>3. queries' \in Seq(Queries) /\ Len(queries') = Len(queries)
  BY <1>2, QueryGetsTypes
<1>4. UNCHANGED <<codeCtrlIsOpen, sqlPanels, panelsMade, linkedPanels, queryActionId, Results, ResultsGrid, lastAsked, mixedPanels>>
  BY DEF QueryWorks, panelVars, resultVars, askedVars
<1>5. PanelTypes'
  BY <1>4 DEF SqlTypeOK, PanelTypes
<1>6. QueryTypes'
  BY <1>2, <1>3, <1>4 DEF SqlTypeOK, QueryTypes
<1> QED
  BY <1>5, <1>6, SqlTypesAreTwoNext

\* The results that are rendered are the panel's, and so are those of the panels for them.
LEMMA ResultsRendered ==
    ASSUME SqlTypeOK, NEW p \in ToSet(sqlPanels), RenderAllResults(p)
    PROVE  /\ ResultsGrid' \in [SqlPanels -> Seq(QueryResults)]
           /\ ResultsGrid'[p] = Results[p]
           /\ panelsMade' >= panelsMade /\ panelsMade' \in 0 .. MaxSqlPanels
           /\ sqlPanels' \in Seq(1 .. panelsMade') /\ IsInjective(sqlPanels')
           /\ ToSet(sqlPanels') = ToSet(sqlPanels) \cup (panelsMade + 1 .. panelsMade')
           /\ linkedPanels' \subseteq ToSet(sqlPanels')
           /\ linkedPanels' # {} => linkedPanels # {}
           /\ \A r \in 1 .. panelsMade : r # p => ResultsGrid'[r] = ResultsGrid[r]
<1> DEFINE Renders(n, shown) ==
        /\ CreateResultsPanels(n)
        /\ linkedPanels' = linkedPanels \cup IF p \in linkedPanels THEN ToSet(NewPanels(n)) ELSE {}
        /\ ResultsGrid' = [q \in SqlPanels |->
               CASE q = p -> Results[p]
                 [] q \in panelsMade + 1 .. panelsMade + n -> <<Results[p][shown[q - panelsMade]]>>
                 [] OTHER -> ResultsGrid[q]]
<1>0. PICK n \in 0 .. Len(Results[p]) : \E shown \in InOrder(n, Len(Results[p])) : Renders(n, shown)
  BY DEF RenderAllResults
<1>1. PICK shown \in InOrder(n, Len(Results[p])) : Renders(n, shown)
  BY <1>0
<1>2. /\ panelsMade \in Nat /\ MaxSqlPanels \in Nat /\ panelsMade <= MaxSqlPanels
      /\ p \in 1 .. panelsMade /\ p \in SqlPanels /\ 1 .. panelsMade \subseteq SqlPanels
  BY PanelsAreNumbers DEF SqlPanels
<1>3. Results[p] \in Seq(QueryResults) /\ ResultsGrid \in [SqlPanels -> Seq(QueryResults)]
  BY <1>2 DEF SqlTypeOK
<1>4. n \in Nat
  <2>1. Len(Results[p]) \in Nat
    BY <1>3, LenProperties
  <2> QED
    BY <2>1
<1>5. /\ panelsMade' = panelsMade + n /\ panelsMade' \in 0 .. MaxSqlPanels
      /\ sqlPanels' \in Seq(1 .. panelsMade') /\ IsInjective(sqlPanels')
      /\ ToSet(NewPanels(n)) = panelsMade + 1 .. panelsMade + n
      /\ ToSet(sqlPanels') = ToSet(sqlPanels) \cup (panelsMade + 1 .. panelsMade + n)
  BY <1>1, <1>4, PanelsCreated
<1>6. ASSUME NEW q \in panelsMade + 1 .. panelsMade + n
      PROVE  <<Results[p][shown[q - panelsMade]]>> \in Seq(QueryResults)
  <2>1. q - panelsMade \in 1 .. n
    BY <1>2, <1>4
  <2>2. shown[q - panelsMade] \in 1 .. Len(Results[p])
    BY <2>1 DEF InOrder
  <2>3. Results[p][shown[q - panelsMade]] \in QueryResults
    BY <1>3, <2>2, LenProperties
  <2> QED
    BY <2>3
<1> DEFINE Own(q) == <<Results[p][shown[q - panelsMade]]>>
<1>13. ResultsGrid' = [q \in SqlPanels |-> CASE q = p -> Results[p]
                                              [] q \in panelsMade + 1 .. panelsMade + n -> Own(q)
                                              [] OTHER -> ResultsGrid[q]]
  BY <1>1
<1>14. \A q \in panelsMade + 1 .. panelsMade + n : Own(q) \in Seq(QueryResults)
  BY <1>6
<1> HIDE DEF Own, Renders
<1>15. ASSUME NEW q \in SqlPanels
       PROVE  /\ q = p => ResultsGrid'[q] = Results[p]
              /\ q # p /\ q \in panelsMade + 1 .. panelsMade + n => ResultsGrid'[q] = Own(q)
              /\ q # p /\ q \notin panelsMade + 1 .. panelsMade + n => ResultsGrid'[q] = ResultsGrid[q]
  <2> HIDE DEF InOrder
  <2>1. ResultsGrid'[q] = CASE q = p -> Results[p]
                            [] q \in panelsMade + 1 .. panelsMade + n -> Own(q)
                            [] OTHER -> ResultsGrid[q]
    BY <1>13
  <2> QED
    BY <1>2, <2>1
<1>7. ASSUME NEW q \in SqlPanels PROVE ResultsGrid'[q] \in Seq(QueryResults)
  BY <1>3, <1>14, <1>15
<1>8. ResultsGrid' \in [SqlPanels -> Seq(QueryResults)]
  <2>1. ResultsGrid' = [q \in SqlPanels |-> ResultsGrid'[q]]
    BY <1>13
  <2> QED
    BY <1>7, <2>1
<1>9. ResultsGrid'[p] = Results[p]
  BY <1>2, <1>15
<1>10. \A r \in 1 .. panelsMade : r # p => ResultsGrid'[r] = ResultsGrid[r]
  <2> SUFFICES ASSUME NEW r \in 1 .. panelsMade, r # p PROVE ResultsGrid'[r] = ResultsGrid[r]
    OBVIOUS
  <2>1. r \notin panelsMade + 1 .. panelsMade + n /\ r \in SqlPanels
    BY <1>2, <1>4
  <2> QED
    BY <1>15, <2>1
<1>11. linkedPanels' \subseteq ToSet(sqlPanels') /\ (linkedPanels' # {} => linkedPanels # {})
  BY <1>1, <1>5 DEF SqlTypeOK, Renders
<1>12. panelsMade' >= panelsMade
  BY <1>2, <1>4, <1>5
<1> QED
  BY <1>5, <1>8, <1>9, <1>10, <1>11, <1>12

LEMMA HandlingKeepsTypes ==
    ASSUME SqlTypeOK, NEW p \in ToSet(sqlPanels), PanelHandlesQueryEvent(p)
    PROVE  SqlTypeOK'
<1>1. p \in SqlPanels
  BY PanelsAreNumbers
<1> DEFINE e == Head(queryEvents[p])
<1>2. /\ queryEvents[p] \in Seq(QueryEvents) /\ queryEvents[p] # << >>
      /\ queryEvents' = [queryEvents EXCEPT ![p] = Tail(queryEvents[p])]
  BY <1>1 DEF SqlTypeOK, PanelHandlesQueryEvent
<1>3. e \in QueryEvents /\ Tail(queryEvents[p]) \in Seq(QueryEvents)
  BY <1>2, HeadInFront
<1>4. queryEvents' \in [SqlPanels -> Seq(QueryEvents)]
  BY <1>2, <1>3 DEF SqlTypeOK
<1>5. UNCHANGED <<codeCtrlIsOpen, queries, lastAsked, mixedPanels>>
  BY DEF PanelHandlesQueryEvent, askedVars
<1>6. Results[p] \in Seq(QueryResults)
  BY <1>1 DEF SqlTypeOK
<1>7. PanelTypes /\ QueryTypes
  BY SqlTypesAreTwo
<1>8. CASE e.kind = "result" /\ OnQueryComplete(p, e.result)
  <2>1. e.result \in QueryResults
    BY <1>3, <1>8, QueryEventsAreRecords
  <2>2. /\ Results' = [Results EXCEPT ![p] = Append(Results[p], e.result)]
        /\ UNCHANGED <<sqlPanels, panelsMade, linkedPanels, queryActionId, ResultsGrid>>
    BY <1>1, <1>7, <1>8 DEF OnQueryComplete, panelVars, QueryTypes
  <2>3. Append(Results[p], e.result) \in Seq(QueryResults)
    BY <1>6, <2>1, AppendProperties
  <2>4. PanelTypes'
    BY <1>5, <1>7, <2>2 DEF PanelTypes
  <2>5. QueryTypes'
    BY <1>4, <1>5, <1>7, <2>2, <2>3 DEF QueryTypes
  <2> QED
    BY <2>4, <2>5, SqlTypesAreTwoNext
<1>9. CASE e.kind = "complete" /\ OnSqlActionComplete(p)
  <2>1. /\ RenderAllResults(p) /\ Results' = [Results EXCEPT ![p] = << >>]
        /\ queryActionId' = [queryActionId EXCEPT ![p] = 0]
    BY <1>9 DEF OnSqlActionComplete
  <2>2. /\ ResultsGrid' \in [SqlPanels -> Seq(QueryResults)]
        /\ panelsMade' >= panelsMade /\ panelsMade' \in 0 .. MaxSqlPanels
        /\ sqlPanels' \in Seq(1 .. panelsMade') /\ IsInjective(sqlPanels')
        /\ linkedPanels' \subseteq ToSet(sqlPanels')
        /\ linkedPanels' # {} => linkedPanels # {}
    BY <2>1, ResultsRendered
  <2>3. PanelTypes'
    BY <1>5, <1>7, <2>2 DEF PanelTypes
  <2>4. 0 \in 0 .. Len(queries)
    BY PanelsAreNumbers
  <2>5. << >> \in Seq(QueryResults)
    OBVIOUS
  <2>6. QueryTypes'
    BY <1>4, <1>5, <1>7, <2>1, <2>2, <2>4, <2>5 DEF QueryTypes
  <2> QED
    BY <2>3, <2>6, SqlTypesAreTwoNext
<1> QED
  BY <1>8, <1>9 DEF PanelHandlesQueryEvent

LEMMA ClosingKeepsTypes ==
    ASSUME SqlTypeOK, NEW p \in ToSet(sqlPanels), OnSqlPanelClosed(p)
    PROVE  /\ SqlTypeOK'
           /\ DOMAIN queries' = DOMAIN queries
           /\ \A q \in DOMAIN queries : /\ queries'[q].panel = queries[q].panel
                                        /\ queries'[q].posted = queries[q].posted
                                        /\ queries[q].panel # p => queries'[q] = queries[q]
                                        /\ queries[q].panel = p => queries'[q].state = "unheard"
<1>1. p \in SqlPanels /\ Len(queries) \in Nat /\ \A q \in DOMAIN queries : queries[q] \in Queries
  BY PanelsAreNumbers
<1>2. PanelTypes /\ QueryTypes
  BY SqlTypesAreTwo
<1>3. queries' = [q \in DOMAIN queries |->
                     IF queries[q].panel = p THEN [queries[q] EXCEPT !.state = "unheard"] ELSE queries[q]]
  BY DEF OnSqlPanelClosed
<1>4. queries' \in [DOMAIN queries -> Queries]
  BY <1>1, <1>3, QueriesAreRecords
<1>5. queries' \in Seq(Queries) /\ Len(queries') = Len(queries) /\ DOMAIN queries' = DOMAIN queries
  BY <1>4, QueriesChanged
<1>6. ASSUME NEW q \in DOMAIN queries
      PROVE  /\ queries'[q].panel = queries[q].panel
             /\ queries'[q].posted = queries[q].posted
             /\ queries[q].panel # p => queries'[q] = queries[q]
             /\ queries[q].panel = p => queries'[q].state = "unheard"
  <2>1. queries[q] \in Queries
    BY <1>1
  <2> QED
    BY <1>3, <2>1 DEF Queries
<1>7. /\ sqlPanels' \in Seq(1 .. panelsMade) /\ IsInjective(sqlPanels')
      /\ ToSet(sqlPanels') = ToSet(sqlPanels) \ {p}
  BY PanelClosed
<1>8. /\ linkedPanels' = linkedPanels \ {p}
      /\ queryEvents' = [queryEvents EXCEPT ![p] = << >>]
      /\ queryActionId' = [queryActionId EXCEPT ![p] = 0]
      /\ Results' = [Results EXCEPT ![p] = << >>]
      /\ ResultsGrid' = [ResultsGrid EXCEPT ![p] = << >>]
      /\ UNCHANGED <<codeCtrlIsOpen, panelsMade, lastAsked, mixedPanels>>
  BY DEF OnSqlPanelClosed, askedVars
<1>9. PanelTypes'
  BY <1>2, <1>7, <1>8 DEF PanelTypes
<1>10. 0 \in 0 .. Len(queries) /\ << >> \in Seq(QueryResults) /\ << >> \in Seq(QueryEvents)
  BY <1>1
<1>11. QueryTypes'
  BY <1>2, <1>5, <1>8, <1>10 DEF QueryTypes
<1> QED
  BY <1>5, <1>6, <1>9, <1>11, SqlTypesAreTwoNext

\* The pool's queue is dropped, and what runs is told to stop.
LEMMA StoppingKeepsTypes ==
    ASSUME SqlTypeOK, StopQueries
    PROVE  /\ SqlTypeOK'
           /\ DOMAIN queries' = DOMAIN queries
           /\ \A q \in DOMAIN queries : /\ queries'[q].panel = queries[q].panel
                                        /\ queries'[q].posted = queries[q].posted
                                        /\ queries'[q].state = CASE queries[q].state = "queued" -> "dropped"
                                                                 [] queries[q].state = "running" -> "cancelled"
                                                                 [] OTHER -> queries[q].state
<1>1. \A q \in DOMAIN queries : queries[q] \in Queries
  BY PanelsAreNumbers
<1>2. PanelTypes /\ QueryTypes
  BY SqlTypesAreTwo
<1> DEFINE Stopped(s) == CASE s = "queued" -> "dropped" [] s = "running" -> "cancelled" [] OTHER -> s
<1>3. \A q \in DOMAIN queries : queries[q].state \in {"queued", "running", "cancelled", "ended", "dropped", "unheard"}
  BY <1>1, QueriesAreRecords
<1>4. \A q \in DOMAIN queries :
         Stopped(queries[q].state) \in {"queued", "running", "cancelled", "ended", "dropped", "unheard"}
  BY <1>3
<1>5. queries' = [q \in DOMAIN queries |-> [queries[q] EXCEPT !.state = Stopped(queries[q].state)]]
  BY <1>1 DEF StopQueries, Queries
<1> HIDE DEF Stopped
<1>6. queries' \in [DOMAIN queries -> Queries]
  BY <1>1, <1>4, <1>5, QueriesAreRecords
<1>7. queries' \in Seq(Queries) /\ Len(queries') = Len(queries) /\ DOMAIN queries' = DOMAIN queries
  BY <1>6, QueriesChanged
<1>8. ASSUME NEW q \in DOMAIN queries
      PROVE  /\ queries'[q].panel = queries[q].panel
             /\ queries'[q].posted = queries[q].posted
             /\ queries'[q].state = Stopped(queries[q].state)
  <2>1. queries[q] \in Queries
    BY <1>1
  <2> QED
    BY <1>5, <2>1 DEF Queries
<1>9. UNCHANGED <<codeCtrlIsOpen, sqlPanels, panelsMade, linkedPanels, queryEvents, queryActionId,
                  Results, ResultsGrid, lastAsked, mixedPanels>>
  BY DEF StopQueries, panelVars, resultVars, askedVars
<1>10. PanelTypes'
  BY <1>2, <1>9 DEF PanelTypes
<1>11. QueryTypes'
  BY <1>2, <1>7, <1>9 DEF QueryTypes
<1> QED
  BY <1>7, <1>8, <1>10, <1>11, SqlTypesAreTwoNext DEF Stopped

LEMMA SqlTypesAtFirst == SqlInit => SqlTypeOK
<1> SUFFICES ASSUME SqlInit PROVE SqlTypeOK
  OBVIOUS
<1>1. /\ codeCtrlIsOpen = FALSE
      /\ sqlPanels = << >> /\ panelsMade = 0 /\ linkedPanels = {}
      /\ queries = << >> /\ mixedPanels = {}
  BY DEF SqlInit
<1>2. << >> \in Seq(1 .. 0) /\ << >> \in Seq(Queries) /\ Len(<< >>) = 0 /\ DOMAIN << >> = {}
  OBVIOUS
<1>3. MaxSqlPanels \in Nat /\ MaxQueries \in Nat
  BY SqlAssumption
<1>4. PanelTypes
  <2>1. IsInjective(sqlPanels)
    BY <1>1, <1>2, Zenon DEF IsInjective
  <2>2. sqlPanels \in Seq(1 .. panelsMade)
    BY <1>1, <1>2, Zenon
  <2>3. panelsMade \in 0 .. MaxSqlPanels
    BY <1>1, <1>3
  <2>4. codeCtrlIsOpen \in BOOLEAN /\ linkedPanels \subseteq ToSet(sqlPanels) /\ ~(linkedPanels # {})
    BY <1>1
  <2> QED
    BY <2>1, <2>2, <2>3, <2>4 DEF PanelTypes
<1>5. /\ queryActionId \in [SqlPanels -> 0 .. 0] /\ lastAsked \in [SqlPanels -> 0 .. 0]
      /\ queryEvents \in [SqlPanels -> Seq(QueryEvents)]
      /\ Results \in [SqlPanels -> Seq(QueryResults)] /\ ResultsGrid \in [SqlPanels -> Seq(QueryResults)]
  BY DEF SqlInit
<1>6. QueryTypes
  BY <1>1, <1>2, <1>3, <1>5 DEF QueryTypes
<1> QED
  BY <1>4, <1>6, SqlTypesAreTwo

LEMMA AskingKeepsTypes ==
    ASSUME SqlTypeOK, PanelTypes', NEW p \in SqlPanels, Asks(p)
    PROVE  SqlTypeOK'
<1>1. UNCHANGED <<queryEvents, Results, ResultsGrid>> /\ QueueQuery(p)
  BY DEF Asks
<1>2. /\ queries' \in Seq(Queries) /\ Len(queries') <= MaxQueries
      /\ queryActionId' \in [SqlPanels -> 0 .. Len(queries')]
      /\ lastAsked' \in [SqlPanels -> 0 .. Len(queries')]
      /\ mixedPanels' \subseteq SqlPanels
  BY <1>1, QueryQueued
<1>3. QueryTypes'
  BY <1>1, <1>2 DEF SqlTypeOK, QueryTypes
<1> QED
  BY <1>3, SqlTypesAreTwoNext

LEMMA MenuKeepsTypes ==
    ASSUME SqlTypeOK, OnSqlBrowserToolsMenu
    PROVE  /\ SqlTypeOK' /\ panelsMade' = panelsMade + 1
           /\ ToSet(sqlPanels') = ToSet(sqlPanels) \cup {panelsMade + 1}
<1>1. CreateResultsPanels(1) /\ codeCtrlIsOpen' = TRUE /\ linkedPanels' = {panelsMade'}
  BY DEF OnSqlBrowserToolsMenu
<1>2. /\ panelsMade' = panelsMade + 1 /\ panelsMade' \in 0 .. MaxSqlPanels
      /\ sqlPanels' \in Seq(1 .. panelsMade') /\ IsInjective(sqlPanels')
      /\ ToSet(sqlPanels') = ToSet(sqlPanels) \cup (panelsMade + 1 .. panelsMade + 1)
  BY <1>1, PanelsCreated
<1>3. panelsMade + 1 .. panelsMade + 1 = {panelsMade + 1}
  BY PanelsAreNumbers
<1>4. PanelTypes'
  BY <1>1, <1>2, <1>3 DEF PanelTypes
<1>5. QueryTypes'
  BY DEF SqlTypeOK, QueryTypes, OnSqlBrowserToolsMenu, resultVars, askedVars
<1> QED
  BY <1>2, <1>3, <1>4, <1>5, SqlTypesAreTwoNext

LEMMA FileClosedKeepsTypes ==
    ASSUME SqlTypeOK, OnAppFileClosed
    PROVE  SqlTypeOK' /\ UNCHANGED <<sqlPanels, panelsMade, queries, queryEvents, resultVars, askedVars>>
<1>1. PanelTypes'
  BY DEF SqlTypeOK, PanelTypes, OnAppFileClosed
<1>2. QueryTypes'
  BY DEF SqlTypeOK, QueryTypes, OnAppFileClosed, resultVars, askedVars
<1> QED
  BY <1>1, <1>2, SqlTypesAreTwoNext DEF OnAppFileClosed

LEMMA SqlTypesStay == SqlTypeOK /\ [SqlNext]_sqlVars => SqlTypeOK'
<1> SUFFICES ASSUME SqlTypeOK, [SqlNext]_sqlVars PROVE SqlTypeOK'
  OBVIOUS
<1>1. CASE OnSqlBrowserToolsMenu
  BY <1>1, MenuKeepsTypes
<1>2. CASE \/ OnRun \/ OnCmdTableDataOpen
           \/ \E p \in ToSet(sqlPanels) : OnRefreshButton(p)
  <2>1. PanelTypes' /\ \E p \in SqlPanels : Asks(p)
    BY <1>2, QueueingActions
  <2> QED
    BY <2>1, AskingKeepsTypes
<1>3. CASE OnAppFileClosed
  BY <1>3, FileClosedKeepsTypes
<1>4. CASE StopQueries
  BY <1>4, StoppingKeepsTypes
<1>5. CASE QueryWorks
  BY <1>5, WorkKeepsTypes
<1>6. ASSUME NEW p \in ToSet(sqlPanels), OnSqlPanelClosed(p) PROVE SqlTypeOK'
  BY <1>6, ClosingKeepsTypes
<1>7. ASSUME NEW p \in ToSet(sqlPanels), PanelHandlesQueryEvent(p) PROVE SqlTypeOK'
  BY <1>7, HandlingKeepsTypes
<1>8. CASE UNCHANGED sqlVars
  BY <1>8 DEF SqlTypeOK, sqlVars, panelVars, resultVars, askedVars
<1> QED
  BY <1>1, <1>2, <1>3, <1>4, <1>5, <1>6, <1>7, <1>8 DEF SqlNext

\* The SQL browser keeps its types.
THEOREM SqlTypeCorrect == SqlSpec => []SqlTypeOK
  BY SqlTypesAtFirst, SqlTypesStay, PTL DEF SqlSpec

-----------------------------------------------------------------------------
(***************************************************************************)
(* The SQL browser: panels show the results of their query.                *)
(***************************************************************************)

Untouched(p) ==
    /\ lastAsked[p] = 0 /\ p \notin mixedPanels
    /\ \A q \in DOMAIN queries : queries[q].panel # p
    /\ Results[p] = << >> /\ queryEvents[p] = << >>

\* What a panel was last asked is a query of its own.
LastAskedFits(p) ==
    \/ Untouched(p)
    \/ lastAsked[p] \in DOMAIN queries /\ queries[lastAsked[p]].panel = p /\ p <= panelsMade

OnlyLastIsUnderWay(p) ==
    \A q \in DOMAIN queries : queries[q].panel = p =>
        /\ queries[q].state # "unheard"
        /\ p \notin mixedPanels /\ q # lastAsked[p] => queries[q].state \in {"ended", "dropped"}

\* What a panel has got is followed by a completion.
CompletionIsOwed(p) ==
    Results[p] # << >> \/ queryEvents[p] # << >> =>
        \/ \E q \in DOMAIN queries : queries[q].panel = p /\ queries[q].state \in {"running", "cancelled"}
        \/ queryEvents[p] # << >> /\ queryEvents[p][Len(queryEvents[p])].kind = "complete"

DroppedIsSilent(p) ==
    lastAsked[p] # 0 /\ p \notin mixedPanels /\ queries[lastAsked[p]].state = "dropped" => queryEvents[p] = << >>

ShowsItsQuery(p) ==
    \A l \in DOMAIN queries : lastAsked[p] = l /\ p \notin mixedPanels =>
        /\ Unfinished(p) => Arriving(p) = PostedBy(l)
        /\ ~Unfinished(p) => /\ Results[p] = << >>
                             /\ queries[l].state = "ended" => ResultsGrid[p] = ResultsOf(l)

PanelInv(p) == OnlyLastIsUnderWay(p) /\ CompletionIsOwed(p) /\ DroppedIsSilent(p) /\ ShowsItsQuery(p)

NothingPosted ==
    \A q \in DOMAIN queries : queries[q].state \in {"queued", "dropped"} => queries[q].posted = 0

SqlInv ==
    /\ SqlTypeOK
    /\ NothingPosted
    /\ \A p \in SqlPanels : LastAskedFits(p)
    /\ \A p \in ToSet(sqlPanels) : PanelInv(p)

\* The invariant says what the property says.
LEMMA SqlInvShows == SqlInv => PanelsShowTheirQuery
<1> SUFFICES ASSUME SqlInv, NEW p \in ToSet(sqlPanels), lastAsked[p] # 0, p \notin mixedPanels
             PROVE  /\ Unfinished(p) => Arriving(p) = PostedBy(lastAsked[p])
                    /\ ~Unfinished(p) =>
                          /\ Results[p] = << >>
                          /\ queries[lastAsked[p]].state = "ended" => ResultsGrid[p] = ResultsOf(lastAsked[p])
  BY DEF PanelsShowTheirQuery
<1>1. p \in SqlPanels
  BY PanelsAreNumbers DEF SqlInv
<1>2. PICK l \in DOMAIN queries : lastAsked[p] = l
  BY <1>1 DEF SqlInv, LastAskedFits, Untouched
<1>3. ShowsItsQuery(p)
  BY DEF SqlInv, PanelInv
<1> QED
  BY <1>2, <1>3 DEF ShowsItsQuery

LEMMA SqlInvAtFirst == SqlInit => SqlInv
<1> SUFFICES ASSUME SqlInit PROVE SqlInv
  OBVIOUS
<1>1. SqlTypeOK
  BY SqlTypesAtFirst
<1>2. sqlPanels = << >> /\ queries = << >> /\ mixedPanels = {} /\ DOMAIN << >> = {}
  BY DEF SqlInit
<1>3. \A p \in SqlPanels : Untouched(p)
  BY <1>2 DEF SqlInit, Untouched
<1>4. NothingPosted
  BY <1>2 DEF NothingPosted
<1>5. ToSet(sqlPanels) = {}
  BY <1>2 DEF ToSet
<1> QED
  BY <1>1, <1>3, <1>4, <1>5 DEF SqlInv, LastAskedFits

\* A panel that was never asked anything has nothing to show.
LEMMA UntouchedPanels ==
    ASSUME SqlTypeOK, NEW p, Untouched(p)
    PROVE  PanelInv(p)
<1>1. 0 \notin DOMAIN queries
  BY PanelsAreNumbers
<1> QED
  BY <1>1 DEF Untouched, PanelInv, OnlyLastIsUnderWay, CompletionIsOwed, DroppedIsSilent, ShowsItsQuery

LEMMA UntouchedPanelsNext ==
    ASSUME SqlTypeOK', NEW p, Untouched(p)'
    PROVE  PanelInv(p)'
<1>1. 0 \notin DOMAIN queries'
  <2>1. queries' \in Seq(Queries)
    BY DEF SqlTypeOK
  <2>2. DOMAIN queries' = 1 .. Len(queries')
    BY <2>1, LenProperties
  <2> QED
    BY <2>2
<1> QED
  BY <1>1 DEF Untouched, PanelInv, OnlyLastIsUnderWay, CompletionIsOwed, DroppedIsSilent, ShowsItsQuery

\* A panel that is not open, or that nothing happens to.
SameForPanel(p) ==
    /\ DOMAIN queries \subseteq DOMAIN queries'
    /\ \A q \in DOMAIN queries' : queries'[q].panel = p <=> q \in DOMAIN queries /\ queries[q].panel = p
    /\ \A q \in DOMAIN queries : queries[q].panel = p => queries'[q] = queries[q]
    /\ lastAsked'[p] = lastAsked[p] /\ (p \in mixedPanels' <=> p \in mixedPanels)
    /\ Results'[p] = Results[p] /\ queryEvents'[p] = queryEvents[p] /\ ResultsGrid'[p] = ResultsGrid[p]

\* What holds for a panel that nothing happens to goes on to hold.
LEMMA SamePanelKeepsFitting ==
    ASSUME NEW p, LastAskedFits(p), SameForPanel(p), p <= panelsMade => p <= panelsMade'
    PROVE  LastAskedFits(p)'
<1>1. CASE Untouched(p)
  <2>1. Untouched(p)'
    BY <1>1 DEF Untouched, SameForPanel
  <2> QED
    BY <2>1 DEF LastAskedFits
<1>2. CASE lastAsked[p] \in DOMAIN queries /\ queries[lastAsked[p]].panel = p /\ p <= panelsMade
  BY <1>2 DEF LastAskedFits, SameForPanel
<1> QED
  BY <1>1, <1>2 DEF LastAskedFits

LEMMA SamePanelKeepsInv ==
    ASSUME SqlTypeOK', NEW p, LastAskedFits(p), PanelInv(p), SameForPanel(p)
    PROVE  PanelInv(p)'
<1>1. CASE Untouched(p)
  <2>1. Untouched(p)'
    BY <1>1 DEF Untouched, SameForPanel
  <2> QED
    BY <2>1, UntouchedPanelsNext
<1>2. CASE lastAsked[p] \in DOMAIN queries /\ queries[lastAsked[p]].panel = p
  <2> DEFINE l == lastAsked[p]
  <2>1. l \in DOMAIN queries /\ l \in DOMAIN queries' /\ lastAsked'[p] = l /\ queries'[l] = queries[l]
    BY <1>2 DEF SameForPanel
  <2>2. OnlyLastIsUnderWay(p)'
    BY DEF SameForPanel, PanelInv, OnlyLastIsUnderWay
  <2>3. CompletionIsOwed(p)'
    BY DEF SameForPanel, PanelInv, CompletionIsOwed
  <2>4. DroppedIsSilent(p)'
    BY <2>1 DEF SameForPanel, PanelInv, DroppedIsSilent
  <2>5. Unfinished(p)' <=> Unfinished(p)
    BY DEF SameForPanel, Unfinished
  <2>6. Arriving(p)' = Arriving(p) /\ \A k \in {l} : PostedBy(k)' = PostedBy(k) /\ ResultsOf(k)' = ResultsOf(k)
    BY <2>1 DEF SameForPanel, Arriving, PostedBy, ResultsOf, AsEvents
  <2>7. ShowsItsQuery(p)'
    <3> SUFFICES ASSUME NEW k \in DOMAIN queries', lastAsked'[p] = k, p \notin mixedPanels'
                 PROVE  /\ Unfinished(p)' => Arriving(p)' = PostedBy(k)'
                        /\ ~Unfinished(p)' => /\ Results'[p] = << >>
                                              /\ queries'[k].state = "ended" => ResultsGrid'[p] = ResultsOf(k)'
      BY DEF ShowsItsQuery
    <3>1. k = l /\ k \in DOMAIN queries /\ lastAsked[p] = k /\ p \notin mixedPanels /\ queries'[k] = queries[k]
      BY <2>1 DEF SameForPanel
    <3>2. /\ Unfinished(p) => Arriving(p) = PostedBy(k)
          /\ ~Unfinished(p) => /\ Results[p] = << >>
                               /\ queries[k].state = "ended" => ResultsGrid[p] = ResultsOf(k)
      BY <3>1 DEF PanelInv, ShowsItsQuery
    <3> QED
      BY <2>5, <2>6, <3>1, <3>2 DEF SameForPanel
  <2> QED
    BY <2>2, <2>3, <2>4, <2>7 DEF PanelInv
<1> QED
  BY <1>1, <1>2 DEF LastAskedFits

\* The results of a query are numbered from 1 as far as it has posted.
LEMMA ResultsOfAQuery ==
    ASSUME SqlTypeOK, NEW q \in DOMAIN queries
    PROVE  /\ ResultsOf(q) \in Seq(QueryResults) /\ Len(ResultsOf(q)) = queries[q].posted
           /\ \A k \in 1 .. queries[q].posted : ResultsOf(q)[k] = <<q, k>>
           /\ queries[q].posted \in 0 .. MaxStatements + 1
<1>1. queries[q].posted \in 0 .. MaxStatements + 1 /\ MaxStatements \in Nat
  BY PanelsAreNumbers, QueriesAreRecords, SqlAssumption
<1>2. q \in 1 .. MaxQueries
  <2>1. Len(queries) \in Nat /\ q \in 1 .. Len(queries) /\ Len(queries) <= MaxQueries /\ MaxQueries \in Nat
    BY PanelsAreNumbers, SqlAssumption DEF SqlTypeOK
  <2> QED
    BY <2>1
<1> DEFINE n == queries[q].posted
<1>3. \A k \in 1 .. n : <<q, k>> \in QueryResults
  BY <1>1, <1>2 DEF QueryResults
<1>4. ResultsOf(q) \in [1 .. n -> QueryResults]
  BY <1>3 DEF ResultsOf
<1>5. n \in Nat
  BY <1>1
<1>6. ResultsOf(q) \in Seq(QueryResults)
  BY <1>4, <1>5, SeqDef
<1>7. Len(ResultsOf(q)) \in Nat /\ 1 .. Len(ResultsOf(q)) = 1 .. n
  BY <1>4, <1>6, LenProperties
<1>8. Len(ResultsOf(q)) = n
  BY <1>5, <1>7
<1> QED
  BY <1>1, <1>6, <1>8 DEF ResultsOf

\* A panel that is asked while nothing is under way for it has nothing left.
LEMMA IdlePanelIsEmpty ==
    ASSUME SqlTypeOK, NEW p \in SqlPanels, LastAskedFits(p), Untouched(p) \/ CompletionIsOwed(p), ~Unfinished(p)
    PROVE  Results[p] = << >> /\ queryEvents[p] = << >>
<1>1. queryEvents[p] = << >>
  BY DEF Unfinished
<1>2. CASE Untouched(p)
  BY <1>2 DEF Untouched
<1>3. CASE CompletionIsOwed(p)
  BY <1>1, <1>3 DEF CompletionIsOwed, Unfinished
<1> QED
  BY <1>1, <1>2, <1>3

\* One lemma for each action: it keeps the invariant.
LEMMA AskingKeepsInv ==
    ASSUME SqlInv, NEW p \in SqlPanels, Asks(p), SqlTypeOK'
    PROVE  SqlInv'
<1>1. SqlTypeOK /\ QueueQuery(p) /\ UNCHANGED <<queryEvents, Results, ResultsGrid>>
  BY DEF SqlInv, Asks
<1>13. PICK n \in Nat : n = Len(queries')
  BY DEF SqlTypeOK
<1>2. /\ n = Len(queries) + 1
      /\ \A q \in DOMAIN queries : q \in DOMAIN queries' /\ queries'[q] = queries[q]
      /\ \A q \in DOMAIN queries' : q \in DOMAIN queries \/ q = n
      /\ n \in DOMAIN queries' /\ n \notin DOMAIN queries
      /\ queries'[n].panel = p /\ queries'[n].state = "queued" /\ queries'[n].posted = 0
      /\ lastAsked' = [lastAsked EXCEPT ![p] = n]
  BY <1>1, <1>13, QueryQueued
<1>3. /\ panelsMade \in Nat /\ p \in Nat /\ Len(queries) \in Nat
      /\ ToSet(sqlPanels) \subseteq 1 .. panelsMade /\ ToSet(sqlPanels) \subseteq SqlPanels
      /\ \A q \in DOMAIN queries : queries[q] \in Queries
  BY <1>1, PanelsAreNumbers DEF SqlPanels
<1>4. lastAsked'[p] = n /\ n # 0 /\ \A r \in SqlPanels : r # p => lastAsked'[r] = lastAsked[r]
  BY <1>1, <1>2, <1>3 DEF SqlTypeOK
<1>5. /\ \A r \in SqlPanels : r # p => (r \in mixedPanels' <=> r \in mixedPanels)
      /\ p \notin mixedPanels' => ~Unfinished(p)
  BY <1>1 DEF QueueQuery
<1>6. p <= panelsMade' /\ panelsMade <= panelsMade' /\ panelsMade' \in Nat
  BY <1>3 DEF Asks
<1>7. \A r \in SqlPanels : r # p => SameForPanel(r)
  BY <1>1, <1>2, <1>4, <1>5 DEF SameForPanel
<1>8. ASSUME NEW r \in SqlPanels PROVE LastAskedFits(r)'
  <2>1. CASE r = p
    BY <1>2, <1>4, <1>6, <2>1 DEF LastAskedFits
  <2>2. CASE r # p
    <3>1. r \in Nat
      BY DEF SqlPanels
    <3> QED
      BY <1>3, <1>6, <1>7, <2>2, <3>1, SamePanelKeepsFitting DEF SqlInv
  <2> QED
    BY <2>1, <2>2
<1>9. NothingPosted'
  BY <1>2 DEF SqlInv, NothingPosted
<1>10. LastAskedFits(p) /\ (Untouched(p) \/ PanelInv(p))
  <2>1. CASE p \in ToSet(sqlPanels)
    BY <2>1 DEF SqlInv
  <2>2. CASE p = panelsMade + 1
    <3>1. ~(p <= panelsMade)
      BY <1>3, <2>2
    <3> QED
      BY <3>1 DEF SqlInv, LastAskedFits
  <2> QED
    BY <2>1, <2>2 DEF Asks, SqlInv
<1>11. PanelInv(p)'
  <2>1. OnlyLastIsUnderWay(p)'
    <3> SUFFICES ASSUME NEW q \in DOMAIN queries', queries'[q].panel = p
                 PROVE  /\ queries'[q].state # "unheard"
                        /\ p \notin mixedPanels' /\ q # lastAsked'[p] => queries'[q].state \in {"ended", "dropped"}
      BY DEF OnlyLastIsUnderWay
    <3>1. CASE q = n
      BY <1>2, <1>4, <3>1
    <3>2. CASE q \in DOMAIN queries
      <4>1. queries'[q] = queries[q] /\ queries[q].panel = p
        BY <1>2, <3>2
      <4>2. ~Untouched(p)
        BY <3>2, <4>1 DEF Untouched
      <4>3. queries[q].state # "unheard"
        BY <1>10, <3>2, <4>1, <4>2 DEF PanelInv, OnlyLastIsUnderWay
      <4>4. p \notin mixedPanels' => queries[q].state \notin {"queued", "running", "cancelled"}
        BY <1>5, <3>2, <4>1 DEF Unfinished
      <4>5. queries[q].state \in {"queued", "running", "cancelled", "ended", "dropped", "unheard"}
        BY <1>3, <3>2, QueriesAreRecords
      <4> QED
        BY <4>1, <4>3, <4>4, <4>5
    <3> QED
      BY <1>2, <3>1, <3>2
  <2>2. CompletionIsOwed(p)'
    <3>1. CompletionIsOwed(p)
      BY <1>1, <1>10, UntouchedPanels DEF PanelInv
    <3>2. \A q \in DOMAIN queries : queries'[q] = queries[q] /\ q \in DOMAIN queries'
      BY <1>2
    <3> QED
      BY <1>1, <3>1, <3>2 DEF CompletionIsOwed
  <2>3. DroppedIsSilent(p)'
    BY <1>2, <1>4 DEF DroppedIsSilent
  <2>4. ShowsItsQuery(p)'
    <3> SUFFICES ASSUME p \notin mixedPanels' PROVE Unfinished(p)' /\ Arriving(p)' = PostedBy(n)'
      BY <1>4 DEF ShowsItsQuery
    <3>1. Results[p] = << >> /\ queryEvents[p] = << >>
      BY <1>1, <1>5, <1>10, IdlePanelIsEmpty DEF PanelInv
    <3>2. Unfinished(p)'
      BY <1>2 DEF Unfinished
    <3>3. ResultsOf(n)' = << >>
      <4>1. 1 .. 0 = {}
        OBVIOUS
      <4> QED
        BY <1>2, <4>1 DEF ResultsOf
    <3>4. AsEvents(<< >>) = << >>
      BY DEF AsEvents
    <3>5. Arriving(p)' = << >> \o << >>
      BY <1>1, <3>1, <3>4 DEF Arriving
    <3>6. PostedBy(n)' = << >> \o << >>
      BY <1>2, <3>3, <3>4 DEF PostedBy
    <3> QED
      BY <3>2, <3>5, <3>6
  <2> QED
    BY <2>1, <2>2, <2>3, <2>4 DEF PanelInv
<1>12. ASSUME NEW r \in ToSet(sqlPanels') PROVE PanelInv(r)'
  <2>1. CASE r = p
    BY <1>11, <2>1
  <2>2. CASE r # p
    <3>1. r \in ToSet(sqlPanels)
      BY <2>2 DEF Asks
    <3> QED
      BY <1>3, <1>7, <2>2, <3>1, SamePanelKeepsInv DEF SqlInv
  <2> QED
    BY <2>1, <2>2
<1> QED
  BY <1>8, <1>9, <1>12 DEF SqlInv

LEMMA MenuKeepsInv ==
    ASSUME SqlInv, OnSqlBrowserToolsMenu
    PROVE  SqlInv'
<1>1. SqlTypeOK
  BY DEF SqlInv
<1>2. /\ SqlTypeOK' /\ panelsMade' = panelsMade + 1
      /\ ToSet(sqlPanels') = ToSet(sqlPanels) \cup {panelsMade + 1}
  BY <1>1, MenuKeepsTypes
<1>3. UNCHANGED <<queries, queryEvents, queryActionId, Results, ResultsGrid, lastAsked, mixedPanels>>
  BY DEF OnSqlBrowserToolsMenu, resultVars, askedVars
<1>4. /\ panelsMade \in Nat /\ ToSet(sqlPanels) \subseteq SqlPanels /\ MaxSqlPanels \in Nat
  BY <1>1, PanelsAreNumbers
<1>5. \A r : SameForPanel(r)
  BY <1>3 DEF SameForPanel
<1>6. NothingPosted'
  BY <1>3 DEF SqlInv, NothingPosted
<1>7. ASSUME NEW r \in SqlPanels PROVE LastAskedFits(r)'
  <2>1. r \in Nat
    BY DEF SqlPanels
  <2>2. r <= panelsMade => r <= panelsMade'
    BY <1>2, <1>4, <2>1
  <2> QED
    BY <1>5, <2>2, SamePanelKeepsFitting DEF SqlInv
<1>8. ASSUME NEW r \in ToSet(sqlPanels') PROVE PanelInv(r)'
  <2>1. CASE r \in ToSet(sqlPanels)
    BY <1>2, <1>4, <1>5, <2>1, SamePanelKeepsInv DEF SqlInv
  <2>2. CASE r = panelsMade + 1
    <3>1. r \in SqlPanels
      <4>1. panelsMade' \in 0 .. MaxSqlPanels
        BY <1>2 DEF SqlTypeOK
      <4> QED
        BY <1>2, <1>4, <2>2, <4>1 DEF SqlPanels
    <3>2. ~(r <= panelsMade)
      BY <1>4, <2>2
    <3>3. Untouched(r)
      BY <3>1, <3>2 DEF SqlInv, LastAskedFits
    <3>4. Untouched(r)'
      BY <1>3, <3>3 DEF Untouched
    <3> QED
      BY <1>2, <3>4, UntouchedPanelsNext
  <2> QED
    BY <1>2, <2>1, <2>2
<1> QED
  BY <1>2, <1>6, <1>7, <1>8 DEF SqlInv

\* Nothing that the panels' contents depend on.
LEMMA SamePanelsKeepInv ==
    ASSUME SqlInv, SqlTypeOK',
           UNCHANGED <<sqlPanels, panelsMade, queries, queryEvents, Results, ResultsGrid, lastAsked, mixedPanels>>
    PROVE  SqlInv'
<1>1. ToSet(sqlPanels) \subseteq SqlPanels
  BY PanelsAreNumbers DEF SqlInv
<1>2. \A r : SameForPanel(r)
  BY DEF SameForPanel
<1>3. NothingPosted'
  BY DEF SqlInv, NothingPosted
<1>4. \A r \in SqlPanels : LastAskedFits(r)'
  BY <1>2, SamePanelKeepsFitting DEF SqlInv
<1>5. \A r \in ToSet(sqlPanels) : PanelInv(r)'
  BY <1>1, <1>2, SamePanelKeepsInv DEF SqlInv
<1> QED
  BY <1>3, <1>4, <1>5 DEF SqlInv

LEMMA ClosingKeepsInv ==
    ASSUME SqlInv, NEW p \in ToSet(sqlPanels), OnSqlPanelClosed(p)
    PROVE  SqlInv'
<1>1. SqlTypeOK
  BY DEF SqlInv
<1>2. /\ SqlTypeOK' /\ DOMAIN queries' = DOMAIN queries
      /\ \A q \in DOMAIN queries : /\ queries'[q].panel = queries[q].panel
                                   /\ queries'[q].posted = queries[q].posted
                                   /\ queries[q].panel # p => queries'[q] = queries[q]
                                   /\ queries[q].panel = p => queries'[q].state = "unheard"
  BY <1>1, ClosingKeepsTypes
<1>3. ToSet(sqlPanels') = ToSet(sqlPanels) \ {p}
  BY <1>1, PanelClosed
<1>4. p \in SqlPanels /\ ToSet(sqlPanels) \subseteq SqlPanels
  BY <1>1, PanelsAreNumbers
<1>5. /\ queryEvents' = [queryEvents EXCEPT ![p] = << >>]
      /\ Results' = [Results EXCEPT ![p] = << >>]
      /\ ResultsGrid' = [ResultsGrid EXCEPT ![p] = << >>]
      /\ UNCHANGED <<panelsMade, lastAsked, mixedPanels>>
  BY DEF OnSqlPanelClosed, askedVars
<1>6. /\ queryEvents'[p] = << >> /\ Results'[p] = << >>
      /\ \A r \in SqlPanels : r # p => /\ queryEvents'[r] = queryEvents[r] /\ Results'[r] = Results[r]
                                       /\ ResultsGrid'[r] = ResultsGrid[r]
  BY <1>1, <1>4, <1>5 DEF SqlTypeOK
<1>7. \A r \in SqlPanels : r # p => SameForPanel(r)
  BY <1>2, <1>5, <1>6 DEF SameForPanel
<1>8. NothingPosted'
  BY <1>2 DEF SqlInv, NothingPosted
<1>9. ASSUME NEW r \in SqlPanels PROVE LastAskedFits(r)'
  <2>1. CASE r # p
    BY <1>5, <1>7, <2>1, SamePanelKeepsFitting DEF SqlInv
  <2>2. CASE Untouched(p)
    <3>1. Untouched(p)'
      BY <1>2, <1>5, <1>6, <2>2 DEF Untouched
    <3> QED
      BY <2>1, <3>1 DEF LastAskedFits
  <2>3. CASE lastAsked[p] \in DOMAIN queries /\ queries[lastAsked[p]].panel = p /\ p <= panelsMade
    <3>1. LastAskedFits(p)'
      BY <1>2, <1>5, <2>3 DEF LastAskedFits
    <3> QED
      BY <2>1, <3>1
  <2> QED
    BY <1>4, <2>1, <2>2, <2>3 DEF SqlInv, LastAskedFits
<1>10. ASSUME NEW r \in ToSet(sqlPanels') PROVE PanelInv(r)'
  BY <1>2, <1>3, <1>4, <1>7, SamePanelKeepsInv DEF SqlInv
<1> QED
  BY <1>2, <1>8, <1>9, <1>10 DEF SqlInv

\* What nothing has come of yet is silent.
LEMMA SilentQuery ==
    ASSUME SqlTypeOK, NEW p \in SqlPanels, NEW q \in DOMAIN queries, queries[q].posted = 0, queries[q].state # "ended",
           Arriving(p) = PostedBy(q)
    PROVE  Results[p] = << >> /\ queryEvents[p] = << >>
<1>1. Results[p] \in Seq(QueryResults) /\ queryEvents[p] \in Seq(QueryEvents)
  BY DEF SqlTypeOK
<1>2. ResultsOf(q) \in Seq(QueryResults) /\ Len(ResultsOf(q)) = 0
  BY ResultsOfAQuery
<1> DEFINE x == AsEvents(Results[p]) \o queryEvents[p]
           y == AsEvents(ResultsOf(q)) \o << >>
           m == Len(Results[p])
           n == Len(queryEvents[p])
<1>3. x = y
  BY DEF Arriving, PostedBy
<1>4. << >> \in Seq(QueryEvents) /\ Len(<< >>) = 0
  OBVIOUS
<1>5. Len(x) = m + n /\ m \in Nat /\ n \in Nat
  BY <1>1, ResultsThenEvents
<1>6. Len(y) = Len(ResultsOf(q)) + Len(<< >>)
  BY <1>2, <1>4, ResultsThenEvents
<1>7. Len(y) = 0
  <2> HIDE DEF y
  <2> QED
    BY <1>2, <1>4, <1>6
<1>8. m = 0 /\ n = 0
  <2> HIDE DEF x, y, m, n
  <2> QED
    BY <1>3, <1>5, <1>7
<1> QED
  BY <1>1, <1>8, EmptySeq

LEMMA StoppingKeepsInv ==
    ASSUME SqlInv, StopQueries
    PROVE  SqlInv'
<1>1. SqlTypeOK
  BY DEF SqlInv
<1> DEFINE Stopped(s) == CASE s = "queued" -> "dropped" [] s = "running" -> "cancelled" [] OTHER -> s
<1>2. /\ SqlTypeOK' /\ DOMAIN queries' = DOMAIN queries
      /\ \A q \in DOMAIN queries : /\ queries'[q].panel = queries[q].panel
                                   /\ queries'[q].posted = queries[q].posted
                                   /\ queries'[q].state = Stopped(queries[q].state)
  BY <1>1, StoppingKeepsTypes
<1>3. UNCHANGED <<sqlPanels, panelsMade, queryEvents, Results, ResultsGrid, lastAsked, mixedPanels>>
  BY DEF StopQueries, panelVars, resultVars, askedVars
<1>4. /\ ToSet(sqlPanels) \subseteq SqlPanels /\ \A q \in DOMAIN queries : queries[q] \in Queries
  BY <1>1, PanelsAreNumbers
<1>5. /\ \A s : /\ Stopped(s) # "queued" /\ Stopped(s) # "running"
                /\ Stopped(s) = "dropped" <=> s \in {"queued", "dropped"}
                /\ Stopped(s) = "cancelled" <=> s \in {"running", "cancelled"}
                /\ Stopped(s) = "ended" <=> s = "ended"
                /\ Stopped(s) = "unheard" <=> s = "unheard"
  OBVIOUS
<1> HIDE DEF Stopped
<1>6. NothingPosted'
  BY <1>2, <1>5 DEF SqlInv, NothingPosted
<1>7. ASSUME NEW p \in SqlPanels PROVE LastAskedFits(p)'
  <2>1. CASE Untouched(p)
    <3>1. Untouched(p)'
      BY <1>2, <1>3, <2>1 DEF Untouched
    <3> QED
      BY <3>1 DEF LastAskedFits
  <2>2. CASE lastAsked[p] \in DOMAIN queries /\ queries[lastAsked[p]].panel = p /\ p <= panelsMade
    BY <1>2, <1>3, <2>2 DEF LastAskedFits
  <2> QED
    BY <2>1, <2>2 DEF SqlInv, LastAskedFits
<1>8. ASSUME NEW p \in ToSet(sqlPanels) PROVE PanelInv(p)'
  <2>1. LastAskedFits(p) /\ PanelInv(p) /\ p \in SqlPanels
    BY <1>4 DEF SqlInv
  <2>2. OnlyLastIsUnderWay(p)'
    BY <1>2, <1>3, <1>5, <2>1 DEF PanelInv, OnlyLastIsUnderWay
  <2>3. CompletionIsOwed(p)'
    BY <1>2, <1>3, <1>5, <2>1 DEF PanelInv, CompletionIsOwed
  <2>4. CASE lastAsked[p] = 0 \/ p \in mixedPanels
    <3>1. DroppedIsSilent(p)' /\ ShowsItsQuery(p)'
      <4>1. 0 \notin DOMAIN queries
        BY <1>1, PanelsAreNumbers
      <4> QED
        BY <1>2, <1>3, <2>4, <4>1 DEF DroppedIsSilent, ShowsItsQuery
    <3> QED
      BY <2>2, <2>3, <3>1 DEF PanelInv
  <2>5. CASE lastAsked[p] # 0 /\ p \notin mixedPanels
    <3>1. PICK l \in DOMAIN queries : lastAsked[p] = l /\ queries[l].panel = p
      BY <2>1, <2>5 DEF LastAskedFits, Untouched
    <3>2. /\ Unfinished(p) => Arriving(p) = PostedBy(l)
          /\ ~Unfinished(p) => /\ Results[p] = << >>
                               /\ queries[l].state = "ended" => ResultsGrid[p] = ResultsOf(l)
      BY <2>1, <2>5, <3>1 DEF PanelInv, ShowsItsQuery
    <3>3. CASE queries[l].state = "queued"
      <4>1. Unfinished(p)
        BY <3>1, <3>3 DEF Unfinished
      <4>2. queries[l].posted = 0
        BY <3>1, <3>3 DEF SqlInv, NothingPosted
      <4>3. Results[p] = << >> /\ queryEvents[p] = << >>
        BY <1>1, <2>1, <3>2, <3>3, <4>1, <4>2, SilentQuery
      <4>4. queries'[l].state = "dropped"
        BY <1>2, <1>5, <3>3
      <4>5. ~Unfinished(p)'
        <5>1. ASSUME NEW q \in DOMAIN queries, queries[q].panel = p, q # l
              PROVE  queries'[q].state \in {"ended", "dropped"}
          <6>1. queries[q].state \in {"ended", "dropped"}
            BY <2>1, <2>5, <3>1, <5>1 DEF PanelInv, OnlyLastIsUnderWay
          <6> QED
            BY <1>2, <1>5, <6>1
        <5> QED
          BY <1>2, <1>3, <4>3, <4>4, <5>1 DEF Unfinished
      <4>6. DroppedIsSilent(p)' /\ ShowsItsQuery(p)'
        BY <1>3, <3>1, <4>3, <4>4, <4>5 DEF DroppedIsSilent, ShowsItsQuery
      <4> QED
        BY <2>2, <2>3, <4>6 DEF PanelInv
    <3>4. CASE queries[l].state # "queued"
      <4>1. /\ queries'[l].state = "dropped" <=> queries[l].state = "dropped"
            /\ queries'[l].state = "ended" <=> queries[l].state = "ended"
            /\ queries'[l].posted = queries[l].posted
        BY <1>2, <1>5, <3>4
      <4>2. Arriving(p)' = Arriving(p) /\ PostedBy(l)' = PostedBy(l) /\ ResultsOf(l)' = ResultsOf(l)
        BY <1>3, <4>1 DEF Arriving, PostedBy, ResultsOf, AsEvents
      <4>3. Unfinished(p)' <=> Unfinished(p)
        <5>1. ASSUME NEW q \in DOMAIN queries, queries[q].panel = p
              PROVE  queries'[q].state \in {"queued", "running", "cancelled"}
                        <=> queries[q].state \in {"queued", "running", "cancelled"}
          <6>1. queries[q].state # "queued"
            BY <2>1, <2>5, <3>1, <3>4, <5>1 DEF PanelInv, OnlyLastIsUnderWay
          <6> QED
            BY <1>2, <1>5, <5>1, <6>1
        <5> QED
          BY <1>2, <1>3, <5>1 DEF Unfinished
      <4>4. DroppedIsSilent(p)'
        BY <1>3, <2>1, <3>1, <4>1 DEF PanelInv, DroppedIsSilent
      <4>5. ShowsItsQuery(p)'
        BY <1>3, <3>1, <3>2, <4>1, <4>2, <4>3 DEF ShowsItsQuery
      <4> QED
        BY <2>2, <2>3, <4>4, <4>5 DEF PanelInv
    <3> QED
      BY <3>3, <3>4
  <2> QED
    BY <2>4, <2>5
<1> QED
  BY <1>2, <1>3, <1>6, <1>7, <1>8 DEF SqlInv

\* A thread works on a query of the panel.
LEMMA OneQueryKeepsInv ==
    ASSUME SqlInv, SqlTypeOK', NEW q \in DOMAIN queries, NEW x, QueryGets(q, x),
           UNCHANGED <<sqlPanels, panelsMade, Results, ResultsGrid, lastAsked, mixedPanels>>,
           NEW p \in SqlPanels, p = queries[q].panel,
           \A r \in SqlPanels : r # p => queryEvents'[r] = queryEvents[r],
           x.state \in {"queued", "dropped"} => x.posted = 0,
           p \in ToSet(sqlPanels) => PanelInv(p)'
    PROVE  SqlInv'
<1>1. /\ DOMAIN queries' = DOMAIN queries /\ queries'[q] = x
      /\ \A r \in DOMAIN queries : r # q => queries'[r] = queries[r]
      /\ \A r \in DOMAIN queries : queries'[r].panel = queries[r].panel
  BY QueryGetsTypes DEF SqlInv
<1>2. \A r \in SqlPanels : r # p => SameForPanel(r)
  BY <1>1 DEF SameForPanel
<1>3. NothingPosted'
  BY <1>1 DEF SqlInv, NothingPosted
<1>4. ASSUME NEW r \in SqlPanels PROVE LastAskedFits(r)'
  <2>1. CASE r # p
    BY <1>2, <2>1, SamePanelKeepsFitting DEF SqlInv
  <2>2. CASE r = p
    BY <1>1, <2>2 DEF SqlInv, LastAskedFits, Untouched
  <2> QED
    BY <2>1, <2>2
<1>5. ASSUME NEW r \in ToSet(sqlPanels) PROVE PanelInv(r)'
  <2>1. r \in SqlPanels
    BY PanelsAreNumbers DEF SqlInv
  <2> QED
    BY <1>2, <2>1, SamePanelKeepsInv DEF SqlInv
<1> QED
  BY <1>3, <1>4, <1>5 DEF SqlInv

\* The query that a thread works on is the one the panel was last asked.
LEMMA WorkedOnIsLast ==
    ASSUME SqlInv, NEW q \in DOMAIN queries, NEW p \in ToSet(sqlPanels), p = queries[q].panel,
           queries[q].state \in {"queued", "running", "cancelled"}, p \notin mixedPanels
    PROVE  /\ lastAsked[p] = q /\ Unfinished(p) /\ Arriving(p) = PostedBy(q)
           /\ \A r \in DOMAIN queries : queries[r].panel = p /\ r # q => queries[r].state \in {"ended", "dropped"}
<1>1. PanelInv(p)
  BY DEF SqlInv
<1>2. lastAsked[p] = q
  BY <1>1 DEF PanelInv, OnlyLastIsUnderWay
<1>3. Unfinished(p)
  BY DEF Unfinished
<1>4. Arriving(p) = PostedBy(q)
  BY <1>1, <1>2, <1>3 DEF PanelInv, ShowsItsQuery
<1> QED
  BY <1>1, <1>2, <1>3, <1>4 DEF PanelInv, OnlyLastIsUnderWay

LEMMA BeginningKeepsInv ==
    ASSUME SqlInv, SqlTypeOK', NEW q \in DOMAIN queries, BeginQuery(q),
           UNCHANGED <<sqlPanels, panelsMade, Results, ResultsGrid, lastAsked, mixedPanels>>
    PROVE  SqlInv'
<1>1. SqlTypeOK
  BY DEF SqlInv
<1>2. PICK x : /\ QueryGets(q, x) /\ x.state = "running" /\ x.posted = queries[q].posted
               /\ queries[q].state = "queued" /\ UNCHANGED queryEvents
  BY <1>1, QueryBegun
<1>3. /\ DOMAIN queries' = DOMAIN queries /\ queries'[q] = x
      /\ \A r \in DOMAIN queries : r # q => queries'[r] = queries[r]
      /\ \A r \in DOMAIN queries : queries'[r].panel = queries[r].panel
  BY <1>1, <1>2, QueryGetsTypes
<1>4. PICK p \in SqlPanels : p = queries[q].panel
  BY <1>1, PanelsAreNumbers, QueriesAreRecords
<1>5. ASSUME p \in ToSet(sqlPanels) PROVE PanelInv(p)'
  <2>1. PanelInv(p)
    BY <1>5 DEF SqlInv
  <2>2. p \notin mixedPanels => /\ lastAsked[p] = q /\ Arriving(p) = PostedBy(q)
    BY <1>2, <1>4, <1>5, WorkedOnIsLast
  <2>3. OnlyLastIsUnderWay(p)'
    BY <1>2, <1>3, <2>1, <2>2 DEF PanelInv, OnlyLastIsUnderWay
  <2>4. CompletionIsOwed(p)'
    BY <1>2, <1>3, <2>1 DEF PanelInv, CompletionIsOwed
  <2>5. DroppedIsSilent(p)'
    BY <1>2, <1>3, <2>2 DEF DroppedIsSilent
  <2>6. ShowsItsQuery(p)'
    <3> SUFFICES ASSUME p \notin mixedPanels PROVE Unfinished(p)' /\ Arriving(p)' = PostedBy(q)'
      BY <2>2 DEF ShowsItsQuery
    <3>1. Unfinished(p)'
      BY <1>2, <1>3, <1>4 DEF Unfinished
    <3>2. Arriving(p)' = Arriving(p)
      BY <1>2 DEF Arriving
    <3>3. PostedBy(q)' = PostedBy(q)
      BY <1>2, <1>3 DEF PostedBy, ResultsOf, AsEvents
    <3> QED
      BY <2>2, <3>1, <3>2, <3>3
  <2> QED
    BY <2>3, <2>4, <2>5, <2>6 DEF PanelInv
<1> QED
  BY <1>2, <1>4, <1>5, OneQueryKeepsInv

LEMMA ExecutingKeepsInv ==
    ASSUME SqlInv, SqlTypeOK', NEW q \in DOMAIN queries, ExecuteStatement(q),
           UNCHANGED <<sqlPanels, panelsMade, Results, ResultsGrid, lastAsked, mixedPanels>>
    PROVE  SqlInv'
<1>1. SqlTypeOK
  BY DEF SqlInv
<1>2. PICK x : /\ QueryGets(q, x) /\ x.state = queries[q].state /\ x.posted = queries[q].posted + 1
               /\ queries[q].state \in {"running", "cancelled"}
               /\ <<q, x.posted>> \in QueryResults
               /\ PostToPanel(q, ResultEvent(<<q, x.posted>>))
  BY <1>1, StatementExecuted
<1>3. /\ DOMAIN queries' = DOMAIN queries /\ queries'[q] = x
      /\ \A r \in DOMAIN queries : r # q => queries'[r] = queries[r]
      /\ \A r \in DOMAIN queries : queries'[r].panel = queries[r].panel
  BY <1>1, <1>2, QueryGetsTypes
<1>4. PICK p \in SqlPanels : p = queries[q].panel
  BY <1>1, PanelsAreNumbers, QueriesAreRecords
<1> DEFINE y == <<q, x.posted>>
           e == ResultEvent(y)
<1>5. y \in QueryResults /\ e \in QueryEvents
  BY <1>2, QueryEventsAreRecords
<1>6. queryEvents' = [queryEvents EXCEPT ![p] = Append(queryEvents[p], e)]
  BY <1>1, <1>2, <1>4, <1>5, EventPosted
<1>7. queryEvents[p] \in Seq(QueryEvents) /\ Results[p] \in Seq(QueryResults)
  BY <1>1 DEF SqlTypeOK
<1>8. queryEvents'[p] = Append(queryEvents[p], e) /\ \A r \in SqlPanels : r # p => queryEvents'[r] = queryEvents[r]
  BY <1>1, <1>6 DEF SqlTypeOK
<1> HIDE DEF e
<1>9. queryEvents'[p] # << >>
  BY <1>5, <1>7, <1>8, AppendProperties
<1>10. ASSUME p \in ToSet(sqlPanels) PROVE PanelInv(p)'
  <2>1. PanelInv(p)
    BY <1>10 DEF SqlInv
  <2>2. p \notin mixedPanels => lastAsked[p] = q /\ Arriving(p) = PostedBy(q)
    BY <1>2, <1>4, <1>10, WorkedOnIsLast
  <2>3. OnlyLastIsUnderWay(p)'
    BY <1>2, <1>3, <2>1, <2>2 DEF PanelInv, OnlyLastIsUnderWay
  <2>4. CompletionIsOwed(p)'
    BY <1>2, <1>3, <1>4 DEF CompletionIsOwed
  <2>5. DroppedIsSilent(p)'
    BY <1>2, <1>3, <2>2 DEF DroppedIsSilent
  <2>6. ShowsItsQuery(p)'
    <3> SUFFICES ASSUME p \notin mixedPanels PROVE Unfinished(p)' /\ Arriving(p)' = PostedBy(q)'
      BY <2>2 DEF ShowsItsQuery
    <3>1. Unfinished(p)'
      BY <1>9 DEF Unfinished
    <3>2. /\ ResultsOf(q) \in Seq(QueryResults) /\ Len(ResultsOf(q)) = queries[q].posted
          /\ \A k \in 1 .. queries[q].posted : ResultsOf(q)[k] = <<q, k>>
          /\ queries[q].posted \in 0 .. MaxStatements + 1
      BY <1>1, ResultsOfAQuery
    <3>3. ResultsOf(q)' = Append(ResultsOf(q), y)
      <4> DEFINE n == queries[q].posted
                 f == [k \in 1 .. n + 1 |-> <<q, k>>]
                 s == ResultsOf(q)
                 t == Append(s, y)
      <4>1. ResultsOf(q)' = f
        BY <1>2, <1>3 DEF ResultsOf
      <4>2. n \in Nat /\ s \in Seq(QueryResults) /\ Len(s) = n /\ \A k \in 1 .. n : s[k] = <<q, k>>
        BY <3>2
      <4>3. y = <<q, n + 1>>
        BY <1>2
      <4> HIDE DEF s, n
      <4>4. t \in Seq(QueryResults) /\ Len(t) = n + 1 /\ (\A k \in 1 .. n : t[k] = <<q, k>>) /\ t[n + 1] = y
        BY <1>5, <4>2, AppendProperties
      <4> HIDE DEF t, y
      <4>5. DOMAIN t = 1 .. n + 1 /\ t = [k \in DOMAIN t |-> t[k]]
        BY <4>4, LenProperties
      <4>6. \A k \in 1 .. n + 1 : t[k] = <<q, k>>
        <5> TAKE k \in 1 .. n + 1
        <5>1. CASE k = n + 1
          BY <4>3, <4>4, <5>1
        <5>2. CASE k # n + 1
          BY <4>2, <4>4, <5>2
        <5> QED
          BY <5>1, <5>2
      <4>7. t = f
        BY <4>5, <4>6
      <4> QED
        BY <4>1, <4>7 DEF t, s
    <3>4. PostedBy(q) = AsEvents(ResultsOf(q)) /\ AsEvents(ResultsOf(q)) \in Seq(QueryEvents)
      <4>1. AsEvents(ResultsOf(q)) \in Seq(QueryEvents)
        BY <3>2, AsEventsProperties
      <4>2. PostedBy(q) = AsEvents(ResultsOf(q)) \o << >>
        BY <1>2 DEF PostedBy
      <4> QED
        BY <4>1, <4>2, ConcatEmptySeq
    <3>5. AsEvents(Append(ResultsOf(q), y)) = Append(AsEvents(ResultsOf(q)), e)
      BY <1>5, <3>2, OneMoreEvent DEF e
    <3>6. PostedBy(q)' = Append(AsEvents(ResultsOf(q)), e)
      <4>1. Append(AsEvents(ResultsOf(q)), e) \in Seq(QueryEvents)
        BY <1>5, <3>4, AppendProperties
      <4>2. AsEvents(ResultsOf(q))' = Append(AsEvents(ResultsOf(q)), e)
        BY <3>3, <3>5 DEF AsEvents
      <4>3. PostedBy(q)' = AsEvents(ResultsOf(q))' \o << >>
        BY <1>2, <1>3 DEF PostedBy
      <4> QED
        BY <4>1, <4>2, <4>3, ConcatEmptySeq
    <3>7. AsEvents(Results[p]) \in Seq(QueryEvents)
      BY <1>7, AsEventsProperties
    <3>8. Arriving(p)' = Append(Arriving(p), e)
      <4>1. Arriving(p)' = AsEvents(Results[p]) \o queryEvents'[p]
        BY DEF Arriving, AsEvents
      <4>2. AsEvents(Results[p]) \o Append(queryEvents[p], e) = Append(AsEvents(Results[p]) \o queryEvents[p], e)
        <5> DEFINE a == AsEvents(Results[p])
                   b == queryEvents[p]
        <5>1. a \in Seq(QueryEvents) /\ b \in Seq(QueryEvents)
          BY <1>7, <3>7
        <5> HIDE DEF a, b
        <5>2. a \o Append(b, e) = Append(a \o b, e)
          BY <1>5, <5>1, EventBehind
        <5> QED
          BY <5>2 DEF a, b
      <4> QED
        BY <1>8, <4>1, <4>2 DEF Arriving
    <3> QED
      BY <2>2, <3>1, <3>4, <3>6, <3>8
  <2> QED
    BY <2>3, <2>4, <2>5, <2>6 DEF PanelInv
<1> QED
  BY <1>2, <1>4, <1>8, <1>10, OneQueryKeepsInv

LEMMA EndingKeepsInv ==
    ASSUME SqlInv, SqlTypeOK', NEW q \in DOMAIN queries, EndQuery(q),
           UNCHANGED <<sqlPanels, panelsMade, Results, ResultsGrid, lastAsked, mixedPanels>>
    PROVE  SqlInv'
<1>1. SqlTypeOK
  BY DEF SqlInv
<1>2. PICK x : /\ QueryGets(q, x) /\ x.state = "ended" /\ x.posted = queries[q].posted
               /\ queries[q].state \in {"running", "cancelled"}
               /\ PostToPanel(q, Completion)
  BY <1>1, QueryEnded
<1>3. /\ DOMAIN queries' = DOMAIN queries /\ queries'[q] = x
      /\ \A r \in DOMAIN queries : r # q => queries'[r] = queries[r]
      /\ \A r \in DOMAIN queries : queries'[r].panel = queries[r].panel
  BY <1>1, <1>2, QueryGetsTypes
<1>4. PICK p \in SqlPanels : p = queries[q].panel
  BY <1>1, PanelsAreNumbers, QueriesAreRecords
<1>5. Completion \in QueryEvents
  BY QueryEventsAreRecords
<1>6. queryEvents' = [queryEvents EXCEPT ![p] = Append(queryEvents[p], Completion)]
  BY <1>1, <1>2, <1>4, <1>5, EventPosted
<1>7. queryEvents[p] \in Seq(QueryEvents) /\ Results[p] \in Seq(QueryResults)
  BY <1>1 DEF SqlTypeOK
<1>8. /\ queryEvents'[p] = Append(queryEvents[p], Completion)
      /\ \A r \in SqlPanels : r # p => queryEvents'[r] = queryEvents[r]
  BY <1>1, <1>6 DEF SqlTypeOK
<1>9. queryEvents'[p] # << >> /\ queryEvents'[p][Len(queryEvents'[p])].kind = "complete"
  <2> DEFINE b == queryEvents[p]
             c == Append(b, Completion)
  <2>1. Len(c) = Len(b) + 1 /\ c[Len(b) + 1] = Completion /\ c \in Seq(QueryEvents) /\ Len(b) \in Nat
    BY <1>5, <1>7, AppendProperties, LenProperties
  <2>2. c # << >> /\ c[Len(c)] = Completion
    <3> HIDE DEF b, c
    <3> QED
      BY <2>1, EmptySeq
  <2> QED
    BY <1>8, <2>2, EventKindsDiffer
<1>10. ASSUME p \in ToSet(sqlPanels) PROVE PanelInv(p)'
  <2>1. PanelInv(p)
    BY <1>10 DEF SqlInv
  <2>2. p \notin mixedPanels => lastAsked[p] = q /\ Arriving(p) = PostedBy(q)
    BY <1>2, <1>4, <1>10, WorkedOnIsLast
  <2>3. OnlyLastIsUnderWay(p)'
    BY <1>2, <1>3, <2>1, <2>2 DEF PanelInv, OnlyLastIsUnderWay
  <2>4. CompletionIsOwed(p)'
    BY <1>9 DEF CompletionIsOwed
  <2>5. DroppedIsSilent(p)'
    BY <1>2, <1>3, <2>2 DEF DroppedIsSilent
  <2>6. ShowsItsQuery(p)'
    <3> SUFFICES ASSUME p \notin mixedPanels PROVE Unfinished(p)' /\ Arriving(p)' = PostedBy(q)'
      BY <2>2 DEF ShowsItsQuery
    <3>1. Unfinished(p)'
      BY <1>9 DEF Unfinished
    <3>2. ResultsOf(q)' = ResultsOf(q) /\ ResultsOf(q) \in Seq(QueryResults)
      BY <1>1, <1>2, <1>3, ResultsOfAQuery DEF ResultsOf
    <3>3. AsEvents(ResultsOf(q))' = AsEvents(ResultsOf(q)) /\ AsEvents(ResultsOf(q)) \in Seq(QueryEvents)
      BY <3>2, AsEventsProperties DEF AsEvents
    <3>4. PostedBy(q) = AsEvents(ResultsOf(q))
      <4>1. PostedBy(q) = AsEvents(ResultsOf(q)) \o << >>
        BY <1>2 DEF PostedBy
      <4> QED
        BY <3>3, <4>1, ConcatEmptySeq
    <3>5. PostedBy(q)' = Append(AsEvents(ResultsOf(q)), Completion)
      <4>1. PostedBy(q)' = AsEvents(ResultsOf(q)) \o <<Completion>>
        BY <1>2, <1>3, <3>3 DEF PostedBy, Completion
      <4> QED
        BY <1>5, <3>3, <4>1, AppendIsConcat
    <3>6. AsEvents(Results[p]) \in Seq(QueryEvents)
      BY <1>7, AsEventsProperties
    <3>7. Arriving(p)' = Append(Arriving(p), Completion)
      <4>1. Arriving(p)' = AsEvents(Results[p]) \o queryEvents'[p]
        BY DEF Arriving, AsEvents
      <4>2. AsEvents(Results[p]) \o Append(queryEvents[p], Completion) = Append(AsEvents(Results[p]) \o queryEvents[p], Completion)
        <5> DEFINE a == AsEvents(Results[p])
                   b == queryEvents[p]
        <5>1. a \in Seq(QueryEvents) /\ b \in Seq(QueryEvents)
          BY <1>7, <3>6
        <5> HIDE DEF a, b
        <5>2. a \o Append(b, Completion) = Append(a \o b, Completion)
          BY <1>5, <5>1, EventBehind
        <5> QED
          BY <5>2 DEF a, b
      <4> QED
        BY <1>8, <4>1, <4>2 DEF Arriving
    <3> QED
      BY <2>2, <3>1, <3>4, <3>5, <3>7
  <2> QED
    BY <2>3, <2>4, <2>5, <2>6 DEF PanelInv
<1> QED
  BY <1>2, <1>4, <1>8, <1>10, OneQueryKeepsInv

LEMMA WorkKeepsInv ==
    ASSUME SqlInv, QueryWorks
    PROVE  SqlInv'
<1>1. SqlTypeOK'
  BY WorkKeepsTypes DEF SqlInv
<1>2. PICK q \in DOMAIN queries : BeginQuery(q) \/ ExecuteStatement(q) \/ EndQuery(q)
  BY DEF QueryWorks
<1>3. UNCHANGED <<sqlPanels, panelsMade, Results, ResultsGrid, lastAsked, mixedPanels>>
  BY DEF QueryWorks, panelVars, resultVars, askedVars
<1>4. CASE BeginQuery(q)
  BY <1>1, <1>3, <1>4, BeginningKeepsInv
<1>5. CASE ExecuteStatement(q)
  BY <1>1, <1>3, <1>5, ExecutingKeepsInv
<1>6. CASE EndQuery(q)
  BY <1>1, <1>3, <1>6, EndingKeepsInv
<1> QED
  BY <1>2, <1>4, <1>5, <1>6

\* A panel handles an event of its own: the other panels do not notice, and a panel
\* that is made meanwhile has not been asked anything.
LEMMA OnePanelKeepsInv ==
    ASSUME SqlInv, SqlTypeOK', NEW p \in ToSet(sqlPanels), UNCHANGED <<queries, lastAsked, mixedPanels>>,
           panelsMade <= panelsMade', ToSet(sqlPanels') \subseteq ToSet(sqlPanels) \cup (panelsMade + 1 .. panelsMade'),
           ~Untouched(p), PanelInv(p)',
           \A r \in SqlPanels : r # p => queryEvents'[r] = queryEvents[r] /\ Results'[r] = Results[r],
           \A r \in 1 .. panelsMade : r # p => ResultsGrid'[r] = ResultsGrid[r]
    PROVE  SqlInv'
<1>1. /\ panelsMade \in Nat /\ panelsMade' \in Nat /\ panelsMade' <= MaxSqlPanels /\ MaxSqlPanels \in Nat
      /\ ToSet(sqlPanels) \subseteq 1 .. panelsMade /\ ToSet(sqlPanels) \subseteq SqlPanels
  <2>1. /\ panelsMade \in Nat /\ MaxSqlPanels \in Nat
        /\ ToSet(sqlPanels) \subseteq 1 .. panelsMade /\ ToSet(sqlPanels) \subseteq SqlPanels
    BY PanelsAreNumbers DEF SqlInv
  <2>2. panelsMade' \in 0 .. MaxSqlPanels
    BY DEF SqlTypeOK
  <2> QED
    BY <2>1, <2>2
<1>2. NothingPosted'
  BY DEF SqlInv, NothingPosted
<1>3. \A r \in 1 .. panelsMade : r \in SqlPanels /\ (r # p => SameForPanel(r))
  BY <1>1 DEF SameForPanel, SqlPanels
<1>4. ASSUME NEW r \in SqlPanels PROVE LastAskedFits(r)'
  <2>1. CASE r # p /\ Untouched(r)
    <3>1. Untouched(r)'
      BY <2>1 DEF Untouched
    <3> QED
      BY <3>1 DEF LastAskedFits
  <2>2. CASE ~Untouched(r)
    <3>1. lastAsked[r] \in DOMAIN queries /\ queries[lastAsked[r]].panel = r /\ r <= panelsMade
      BY <2>2 DEF SqlInv, LastAskedFits
    <3>2. r <= panelsMade'
      BY <1>1, <3>1 DEF SqlPanels
    <3> QED
      BY <3>1, <3>2 DEF LastAskedFits
  <2> QED
    BY <2>1, <2>2
<1>5. ASSUME NEW r \in ToSet(sqlPanels') PROVE PanelInv(r)'
  <2>1. CASE r = p
    BY <2>1
  <2>2. CASE r # p /\ r \in ToSet(sqlPanels)
    BY <1>1, <1>3, <2>2, SamePanelKeepsInv DEF SqlInv
  <2>3. CASE r # p /\ r \in panelsMade + 1 .. panelsMade'
    <3>1. r \in SqlPanels /\ ~(r <= panelsMade)
      BY <1>1, <2>3 DEF SqlPanels
    <3>2. Untouched(r)
      BY <3>1 DEF SqlInv, LastAskedFits
    <3>3. Untouched(r)'
      BY <2>3, <3>1, <3>2 DEF Untouched
    <3> QED
      BY <3>3, UntouchedPanelsNext
  <2> QED
    BY <2>1, <2>2, <2>3
<1> QED
  BY <1>2, <1>4, <1>5 DEF SqlInv

\* A panel whose events are not empty was asked a query that was not dropped, and is
\* still owed its completion behind the event that it handles now.
LEMMA BeforeAnEvent ==
    ASSUME SqlInv, NEW p \in ToSet(sqlPanels), queryEvents[p] # << >>
    PROVE  /\ p \in SqlPanels /\ PanelInv(p) /\ ~Untouched(p)
           /\ Unfinished(p)
           /\ \E l \in DOMAIN queries :
                 /\ lastAsked[p] = l /\ queries[l].panel = p
                 /\ p \notin mixedPanels => queries[l].state # "dropped" /\ Arriving(p) = PostedBy(l)
<1>1. p \in SqlPanels
  BY PanelsAreNumbers DEF SqlInv
<1>2. PanelInv(p) /\ LastAskedFits(p)
  BY <1>1 DEF SqlInv
<1>3. ~Untouched(p)
  BY DEF Untouched
<1>4. PICK l \in DOMAIN queries : lastAsked[p] = l /\ queries[l].panel = p
  BY <1>2, <1>3 DEF LastAskedFits
<1>5. l # 0
  BY <1>4, PanelsAreNumbers DEF SqlInv
<1>6. Unfinished(p)
  BY DEF Unfinished
<1>7. p \notin mixedPanels => queries[l].state # "dropped"
  BY <1>2, <1>4, <1>5 DEF PanelInv, DroppedIsSilent
<1>8. p \notin mixedPanels => Arriving(p) = PostedBy(l)
  BY <1>2, <1>4, <1>6 DEF PanelInv, ShowsItsQuery
<1> QED
  BY <1>1, <1>2, <1>3, <1>4, <1>6, <1>7, <1>8

\* The last event stays the last, unless it is the one that is handled.
LEMMA LastStaysLast ==
    ASSUME NEW b \in Seq(QueryEvents), b # << >>
    PROVE  \/ Len(b) = 1 /\ Tail(b) = << >> /\ b[Len(b)] = Head(b)
           \/ Tail(b) # << >> /\ Tail(b)[Len(Tail(b))] = b[Len(b)]
<1> DEFINE t == Tail(b)
<1>1. Len(b) \in Nat \ {0} /\ Head(b) = b[1]
  BY EmptySeq
<1>2. t \in Seq(QueryEvents) /\ Len(t) = Len(b) - 1 /\ \A i \in 1 .. Len(t) : t[i] = b[i + 1]
  BY HeadTailProperties
<1> HIDE DEF t
<1>3. CASE Len(b) = 1
  <2>1. Len(t) = 0
    BY <1>2, <1>3
  <2>2. t = << >>
    BY <1>2, <2>1, EmptySeq
  <2> QED
    BY <1>1, <1>3, <2>2 DEF t
<1>4. CASE Len(b) # 1
  <2>1. Len(t) \in 1 .. Len(t) /\ Len(t) + 1 = Len(b)
    BY <1>1, <1>2, <1>4
  <2>2. t # << >>
    BY <1>2, <2>1, EmptySeq
  <2>3. t[Len(t)] = b[Len(b)]
    BY <1>2, <2>1
  <2> QED
    BY <2>2, <2>3 DEF t
<1> QED
  BY <1>3, <1>4

LEMMA ResultKeepsInv ==
    ASSUME SqlInv, SqlTypeOK', NEW p \in ToSet(sqlPanels), PanelHandlesQueryEvent(p),
           Head(queryEvents[p]).kind = "result", OnQueryComplete(p, Head(queryEvents[p]).result)
    PROVE  SqlInv'
<1>1. SqlTypeOK /\ queryEvents[p] # << >>
  BY DEF SqlInv, PanelHandlesQueryEvent
<1>2. p \in SqlPanels /\ PanelInv(p) /\ ~Untouched(p) /\ Unfinished(p)
  BY <1>1, BeforeAnEvent
<1> DEFINE b == queryEvents[p]
           x == Head(b).result
<1>3. b \in Seq(QueryEvents) /\ Results[p] \in Seq(QueryResults)
  BY <1>1, <1>2 DEF SqlTypeOK
<1>4. Head(b) \in QueryEvents /\ Tail(b) \in Seq(QueryEvents)
  BY <1>1, <1>3, HeadInFront
<1>5. x \in QueryResults /\ Head(b) = ResultEvent(x) /\ Head(b).kind # "complete"
  BY <1>4, QueryEventsAreRecords, EventKindsDiffer
<1>6. /\ queryEvents'[p] = Tail(b) /\ Results'[p] = Append(Results[p], x)
      /\ \A r \in SqlPanels : r # p => queryEvents'[r] = queryEvents[r] /\ Results'[r] = Results[r]
      /\ UNCHANGED <<sqlPanels, panelsMade, ResultsGrid, queries, lastAsked, mixedPanels>>
  BY <1>1, <1>2 DEF SqlTypeOK, PanelHandlesQueryEvent, OnQueryComplete, panelVars, askedVars
<1>7. \/ Len(b) = 1 /\ Tail(b) = << >> /\ b[Len(b)] = Head(b)
      \/ Tail(b) # << >> /\ Tail(b)[Len(Tail(b))] = b[Len(b)]
  BY <1>1, <1>3, LastStaysLast
<1>8. \/ \E q \in DOMAIN queries : queries[q].panel = p /\ queries[q].state \in {"running", "cancelled"}
      \/ Tail(b) # << >> /\ Tail(b)[Len(Tail(b))].kind = "complete"
  <2>1. \/ \E q \in DOMAIN queries : queries[q].panel = p /\ queries[q].state \in {"running", "cancelled"}
        \/ b[Len(b)].kind = "complete"
    BY <1>1, <1>2 DEF PanelInv, CompletionIsOwed
  <2> HIDE DEF b, x
  <2> QED
    BY <1>5, <1>7, <2>1
<1>9. AsEvents(Append(Results[p], x)) \o Tail(b) = AsEvents(Results[p]) \o b
  BY <1>1, <1>3, <1>5, TakenResult
<1> HIDE DEF b, x
<1>10. OnlyLastIsUnderWay(p)'
  BY <1>2, <1>6 DEF PanelInv, OnlyLastIsUnderWay
<1>11. CompletionIsOwed(p)'
  BY <1>6, <1>8 DEF CompletionIsOwed
<1>12. Unfinished(p)'
  BY <1>6, <1>8 DEF Unfinished
<1>13. PICK l \in DOMAIN queries :
          /\ lastAsked[p] = l /\ queries[l].panel = p
          /\ p \notin mixedPanels => queries[l].state # "dropped" /\ Arriving(p) = PostedBy(l)
  BY <1>1, BeforeAnEvent
<1>14. DroppedIsSilent(p)'
  BY <1>6, <1>13 DEF DroppedIsSilent
<1>15. ShowsItsQuery(p)'
  <2>1. Arriving(p)' = AsEvents(Append(Results[p], x)) \o Tail(b)
    BY <1>6 DEF Arriving, AsEvents
  <2>2. Arriving(p) = AsEvents(Results[p]) \o b
    BY DEF Arriving, b
  <2>3. Arriving(p)' = Arriving(p)
    BY <1>9, <2>1, <2>2
  <2>4. PostedBy(l)' = PostedBy(l)
    BY <1>6 DEF PostedBy, ResultsOf, AsEvents
  <2> QED
    BY <1>6, <1>12, <1>13, <2>3, <2>4 DEF ShowsItsQuery
<1>16. PanelInv(p)'
  BY <1>10, <1>11, <1>14, <1>15 DEF PanelInv
<1>17. panelsMade <= panelsMade'
  BY <1>1, <1>6, PanelsAreNumbers
<1>18. \A r \in 1 .. panelsMade : r # p => ResultsGrid'[r] = ResultsGrid[r]
  BY <1>6
<1>19. UNCHANGED <<queries, lastAsked, mixedPanels>> /\ ToSet(sqlPanels') \subseteq ToSet(sqlPanels)
  BY <1>6
<1> QED
  BY <1>2, <1>6, <1>16, <1>17, <1>18, <1>19, OnePanelKeepsInv

LEMMA CompletionKeepsInv ==
    ASSUME SqlInv, SqlTypeOK', NEW p \in ToSet(sqlPanels), PanelHandlesQueryEvent(p),
           Head(queryEvents[p]).kind = "complete", OnSqlActionComplete(p)
    PROVE  SqlInv'
<1>1. SqlTypeOK /\ queryEvents[p] # << >>
  BY DEF SqlInv, PanelHandlesQueryEvent
<1>2. p \in SqlPanels /\ PanelInv(p) /\ ~Untouched(p) /\ Unfinished(p)
  BY <1>1, BeforeAnEvent
<1> DEFINE b == queryEvents[p]
           r == Results[p]
<1>3. b \in Seq(QueryEvents) /\ r \in Seq(QueryResults)
  BY <1>1, <1>2 DEF SqlTypeOK
<1>4. /\ queryEvents'[p] = Tail(b) /\ Results'[p] = << >>
      /\ \A q \in SqlPanels : q # p => queryEvents'[q] = queryEvents[q] /\ Results'[q] = Results[q]
      /\ UNCHANGED <<queries, lastAsked, mixedPanels>>
  BY <1>1, <1>2 DEF SqlTypeOK, PanelHandlesQueryEvent, OnSqlActionComplete, askedVars
<1>5. RenderAllResults(p)
  BY DEF OnSqlActionComplete
<1>6. /\ ResultsGrid'[p] = r
      /\ panelsMade' >= panelsMade /\ panelsMade' \in 0 .. MaxSqlPanels
      /\ ToSet(sqlPanels') = ToSet(sqlPanels) \cup (panelsMade + 1 .. panelsMade')
      /\ \A q \in 1 .. panelsMade : q # p => ResultsGrid'[q] = ResultsGrid[q]
  BY <1>1, <1>5, ResultsRendered
<1>7. \/ Len(b) = 1 /\ Tail(b) = << >> /\ b[Len(b)] = Head(b)
      \/ Tail(b) # << >> /\ Tail(b)[Len(Tail(b))] = b[Len(b)]
  BY <1>1, <1>3, LastStaysLast
<1>8. OnlyLastIsUnderWay(p)'
  BY <1>2, <1>4 DEF PanelInv, OnlyLastIsUnderWay
<1>9. CompletionIsOwed(p)'
  <2>1. \/ \E q \in DOMAIN queries : queries[q].panel = p /\ queries[q].state \in {"running", "cancelled"}
        \/ b[Len(b)].kind = "complete"
    BY <1>1, <1>2 DEF PanelInv, CompletionIsOwed
  <2> HIDE DEF b, r
  <2> QED
    BY <1>4, <1>7, <2>1 DEF CompletionIsOwed
<1>10. PICK l \in DOMAIN queries :
          /\ lastAsked[p] = l /\ queries[l].panel = p
          /\ p \notin mixedPanels => queries[l].state # "dropped" /\ Arriving(p) = PostedBy(l)
  BY <1>1, BeforeAnEvent
<1>11. DroppedIsSilent(p)'
  BY <1>4, <1>10 DEF DroppedIsSilent
<1>12. ShowsItsQuery(p)'
  <2> SUFFICES ASSUME p \notin mixedPanels
               PROVE  ~Unfinished(p)' /\ Results'[p] = << >> /\ ResultsGrid'[p] = ResultsOf(l)'
    BY <1>4, <1>10 DEF ShowsItsQuery
  <2> DEFINE s == ResultsOf(l)
             c == IF queries[l].state = "ended" THEN <<Completion>> ELSE << >>
  <2>1. s \in Seq(QueryResults)
    BY <1>1, ResultsOfAQuery
  <2>2. AsEvents(r) \o b = AsEvents(s) \o c
    BY <1>10 DEF Arriving, PostedBy, Completion
  <2>3. c \in {<< >>, <<Completion>>} /\ Head(b).kind = "complete" /\ b # << >>
    BY <1>1
  <2>4. c = <<Completion>> /\ r = s /\ Tail(b) = << >>
    <3> HIDE DEF b, r, s, c
    <3> QED
      BY <1>3, <2>1, <2>2, <2>3, TakenCompletion
  <2>5. queries[l].state = "ended"
    BY <2>4
  <2>6. ASSUME NEW q \in DOMAIN queries, queries[q].panel = p
        PROVE  queries[q].state \in {"ended", "dropped"}
    BY <1>2, <1>10, <2>5, <2>6 DEF PanelInv, OnlyLastIsUnderWay
  <2>7. ~Unfinished(p)'
    BY <1>4, <2>4, <2>6 DEF Unfinished
  <2>8. ResultsOf(l)' = s
    BY <1>4 DEF ResultsOf
  <2> QED
    BY <1>4, <1>6, <2>4, <2>7, <2>8
<1>13. PanelInv(p)'
  BY <1>8, <1>9, <1>11, <1>12 DEF PanelInv
<1>14. panelsMade <= panelsMade'
  BY <1>1, <1>6, PanelsAreNumbers
<1>15. UNCHANGED <<queries, lastAsked, mixedPanels>>
  BY <1>4
<1> QED
  BY <1>2, <1>4, <1>6, <1>13, <1>14, <1>15, OnePanelKeepsInv

LEMMA SqlInvStays == SqlInv /\ [SqlNext]_sqlVars => SqlInv'
<1> SUFFICES ASSUME SqlInv, [SqlNext]_sqlVars PROVE SqlInv'
  OBVIOUS
<1>1. SqlTypeOK
  BY DEF SqlInv
<1>2. SqlTypeOK'
  BY <1>1, SqlTypesStay
<1>3. CASE OnSqlBrowserToolsMenu
  BY <1>3, MenuKeepsInv
<1>4. CASE \/ OnRun \/ OnCmdTableDataOpen
           \/ \E p \in ToSet(sqlPanels) : OnRefreshButton(p)
  <2>1. \E p \in SqlPanels : Asks(p)
    BY <1>1, <1>4, QueueingActions
  <2> QED
    BY <1>2, <2>1, AskingKeepsInv
<1>5. CASE OnAppFileClosed
  BY <1>1, <1>2, <1>5, FileClosedKeepsTypes, SamePanelsKeepInv DEF resultVars, askedVars
<1>6. CASE StopQueries
  BY <1>6, StoppingKeepsInv
<1>7. CASE QueryWorks
  BY <1>7, WorkKeepsInv
<1>8. ASSUME NEW p \in ToSet(sqlPanels), OnSqlPanelClosed(p) PROVE SqlInv'
  BY <1>8, ClosingKeepsInv
<1>9. ASSUME NEW p \in ToSet(sqlPanels), PanelHandlesQueryEvent(p) PROVE SqlInv'
  BY <1>2, <1>9, ResultKeepsInv, CompletionKeepsInv DEF PanelHandlesQueryEvent
<1>10. CASE UNCHANGED sqlVars
  BY <1>2, <1>10, SamePanelsKeepInv DEF sqlVars, panelVars, resultVars, askedVars
<1> QED
  BY <1>3, <1>4, <1>5, <1>6, <1>7, <1>8, <1>9, <1>10 DEF SqlNext

\* Whatever is asked, stopped, closed and opened meanwhile: the results of a query
\* gather in its panel, each once and in order, and then the panel shows just these.
THEOREM PanelsStayTrue == SqlSpec => []PanelsShowTheirQuery
<1>1. SqlInit => SqlInv
  BY SqlInvAtFirst
<1>2. SqlInv /\ [SqlNext]_sqlVars => SqlInv'
  BY SqlInvStays
<1>3. SqlInv => PanelsShowTheirQuery
  BY SqlInvShows
<1> QED
  BY <1>1, <1>2, <1>3, PTL DEF SqlSpec

-----------------------------------------------------------------------------
(***************************************************************************)
(* The breakpoints: the invariant that makes EngineKnowsTheList hold.      *)
(***************************************************************************)

\* A breakpoint of the list.
Listed(w) == \E i \in DOMAIN breakpoints : breakpoints[i].who = w

\* The list has its breakpoints in the order in which they were added.
ListInv ==
    /\ \A i, j \in DOMAIN breakpoints : i < j => breakpoints[i].who < breakpoints[j].who
    /\ \A i \in DOMAIN breakpoints : breakpoints[i].who <= adds
    /\ Len(breakpoints) <= adds

IsSet(k) == commands[k].kind = "set"

\* The engine learns of a breakpoint once: those on their way to it are later than
\* as many as it has given ids, and in order.
SetsInv ==
    /\ engineIds <= adds
    /\ \A d \in DOMAIN engine : engine[d].who <= adds
    /\ \A k \in DOMAIN commands : IsSet(k) => engineIds < commands[k].who /\ commands[k].who <= adds
    /\ \A k, m \in DOMAIN commands :
           IsSet(k) /\ IsSet(m) /\ k < m => commands[k].who < commands[m].who

\* Where a script, its session and its events stand: the session begins with the
\* first event, answers come only after it, and the last event of all is the end.
SessionInv ==
    IF engineUp
    THEN IF sessionActive
         THEN \A m \in DOMAIN dbgpEvents : dbgpEvents[m].kind = "set"
         ELSE /\ dbgpEvents = <<[kind |-> "init"]>>
              /\ engineIds = 0
              /\ \A k \in DOMAIN commands : ~IsSet(k)
    ELSE /\ commands = << >> /\ engineIds = 0
         /\ IF dbgpEvents = << >> THEN ~sessionActive
            ELSE dbgpEvents[Len(dbgpEvents)].kind = "end"

\* Every command so far named the breakpoint that was meant.
Tracked == engineUp /\ sessionActive /\ ~loose

InSetCommand(w) == \E k \in DOMAIN commands : IsSet(k) /\ commands[k].who = w
InSetEvent(w) == \E m \in DOMAIN dbgpEvents : dbgpEvents[m].kind = "set" /\ dbgpEvents[m].transaction[2] = w

\* A transaction names its script and the breakpoint it sets.
TransactionsFit ==
    /\ \A i \in DOMAIN breakpoints : breakpoints[i].transaction = <<scripts, breakpoints[i].who>>
    /\ \A k \in DOMAIN commands : IsSet(k) => commands[k].transaction = <<scripts, commands[k].who>>
    /\ \A m \in DOMAIN dbgpEvents : dbgpEvents[m].transaction[1] = scripts

\* A breakpoint on its way to the engine is in the list, as enabled as there, and
\* not in the engine.
SetCommandsFit ==
    \A k \in DOMAIN commands : IsSet(k) =>
        /\ \E i \in DOMAIN breakpoints : /\ breakpoints[i].who = commands[k].who
                                         /\ breakpoints[i].enabled = commands[k].enabled
        /\ \A d \in DOMAIN engine : engine[d].who # commands[k].who

\* An answer on its way gives the id of the breakpoint it is for, and no command
\* uses that id yet.
SetEventsFit ==
    \A m \in DOMAIN dbgpEvents :
        /\ dbgpEvents[m].id \in DOMAIN engine
        /\ engine[dbgpEvents[m].id].who = dbgpEvents[m].transaction[2]
        /\ Listed(dbgpEvents[m].transaction[2])
        /\ \A k \in DOMAIN commands : ~IsSet(k) => commands[k].id # dbgpEvents[m].id

\* Every other breakpoint has the id under which the engine knows it.
IdsFit ==
    \A i \in DOMAIN breakpoints :
        ~InSetCommand(breakpoints[i].who) /\ ~InSetEvent(breakpoints[i].who) =>
            /\ breakpoints[i].id \in DOMAIN engine
            /\ engine[breakpoints[i].id].who = breakpoints[i].who
            /\ \A k \in DOMAIN commands : commands[k].kind = "remove" => commands[k].id # breakpoints[i].id

Switches(k, d) == commands[k].kind \in {"enable", "disable"} /\ commands[k].id = d

\* The last command for a breakpoint, or the engine if there is none, says of it
\* what the list says.
EnabledFits ==
    \A i \in DOMAIN breakpoints, d \in DOMAIN engine : engine[d].who = breakpoints[i].who =>
        /\ (\A k \in DOMAIN commands : ~Switches(k, d)) => engine[d].enabled = breakpoints[i].enabled
        /\ \A k \in DOMAIN commands :
               Switches(k, d) /\ (\A m \in DOMAIN commands : k < m => ~Switches(m, d))
                   => (commands[k].kind = "enable") = breakpoints[i].enabled

\* The engine has a breakpoint once, and has none that is neither in the list nor
\* about to be removed.
EngineFits ==
    /\ \A d, e \in DOMAIN engine : engine[d].who = engine[e].who => d = e
    /\ \A d \in DOMAIN engine :
           \/ Listed(engine[d].who)
           \/ \E k \in DOMAIN commands : commands[k].kind = "remove" /\ commands[k].id = d

\* A command whose id was not given in this script was posted before the session.
OldIds ==
    \A k \in DOMAIN commands : ~IsSet(k) /\ commands[k].id > engineIds =>
        engineIds = 0 /\ \A j \in DOMAIN commands : j < k => ~IsSet(j)

KnownInv ==
    Tracked => /\ TransactionsFit /\ SetCommandsFit /\ SetEventsFit /\ IdsFit
               /\ EnabledFits /\ EngineFits /\ OldIds

BreakpointsInv == ListInv /\ SetsInv /\ SessionInv /\ KnownInv

-----------------------------------------------------------------------------
USE BreakpointsAssumption

\* A function on the numbers up to n is a sequence of that length.
LEMMA Numbered ==
    ASSUME NEW S, NEW n \in Nat, NEW f \in [1 .. n -> S]
    PROVE  f \in Seq(S) /\ Len(f) = n /\ DOMAIN f = 1 .. n
  OBVIOUS

\* A sequence is defined on the numbers up to its length.
LEMMA ListIsASeq ==
    ASSUME NEW S, NEW s \in Seq(S)
    PROVE  /\ Len(s) \in Nat /\ DOMAIN s = 1 .. Len(s)
           /\ \A i \in DOMAIN s : s[i] \in S
  BY LenProperties

\* The breakpoint found on a line is the first one.
LEMMA FirstIsFirst ==
    ASSUME breakpoints \in Seq(BreakpointsOfFile), NEW i \in DOMAIN breakpoints
    PROVE  /\ First(breakpoints[i].line) \in DOMAIN breakpoints
           /\ breakpoints[First(breakpoints[i].line)].line = breakpoints[i].line
<1> DEFINE at == {j \in DOMAIN breakpoints : breakpoints[j].line = breakpoints[i].line}
<1>1. at \in SUBSET Nat /\ at # {}
  BY ListIsASeq
<1>2. PICK n \in at : \A m \in at : n <= m
  BY <1>1, LeastNumber
<1>3. First(breakpoints[i].line) = CHOOSE k \in at : \A m \in at : k <= m
  BY <1>1 DEF First
<1> QED
  BY <1>2, <1>3

\* Either no breakpoint is on the line, or the one found is.
LEMMA FirstOrNone ==
    ASSUME breakpoints \in Seq(BreakpointsOfFile), NEW l, First(l) # 0
    PROVE  First(l) \in DOMAIN breakpoints /\ breakpoints[First(l)].line = l
<1>1. PICK i \in DOMAIN breakpoints : breakpoints[i].line = l
  BY DEF First
<1> QED
  BY <1>1, FirstIsFirst

\* RemoveBreakpointAtLine takes one breakpoint away and leaves the others in order.
LEMMA WithoutOne ==
    ASSUME breakpoints \in Seq(BreakpointsOfFile), NEW i \in DOMAIN breakpoints
    PROVE  /\ Without(i) \in Seq(BreakpointsOfFile)
           /\ Len(Without(i)) = Len(breakpoints) - 1
           /\ DOMAIN Without(i) = 1 .. Len(breakpoints) - 1
           /\ \A j \in DOMAIN Without(i) :
                 \E k \in DOMAIN breakpoints \ {i} :
                     k = (IF j < i THEN j ELSE j + 1) /\ Without(i)[j] = breakpoints[k]
           /\ \A k \in DOMAIN breakpoints \ {i} : \E j \in DOMAIN Without(i) : Without(i)[j] = breakpoints[k]
<1> DEFINE n == Len(breakpoints)
<1>1. n \in Nat /\ DOMAIN breakpoints = 1 .. n /\ i \in 1 .. n
      /\ \A j \in 1 .. n : breakpoints[j] \in BreakpointsOfFile
  BY ListIsASeq
<1>2. n - 1 \in Nat
  BY <1>1
<1>3. Without(i) \in [1 .. n - 1 -> BreakpointsOfFile]
  <2>1. \A j \in 1 .. n - 1 : (IF j < i THEN j ELSE j + 1) \in 1 .. n
    BY <1>1
  <2> QED
    BY <1>1, <2>1 DEF Without
<1>4. \A j \in 1 .. n - 1 : Without(i)[j] = breakpoints[IF j < i THEN j ELSE j + 1]
  BY DEF Without
<1>5. \A j \in 1 .. n - 1 : (IF j < i THEN j ELSE j + 1) \in (1 .. n) \ {i}
  BY <1>1
<1>6. \A k \in (1 .. n) \ {i} : (IF k < i THEN k ELSE k - 1) \in 1 .. n - 1
                                /\ Without(i)[IF k < i THEN k ELSE k - 1] = breakpoints[k]
  <2> TAKE k \in (1 .. n) \ {i}
  <2> DEFINE j == IF k < i THEN k ELSE k - 1
  <2>1. j \in 1 .. n - 1 /\ (IF j < i THEN j ELSE j + 1) = k
    BY <1>1
  <2> QED
    BY <2>1, <1>4
<1>7. Without(i) \in Seq(BreakpointsOfFile) /\ Len(Without(i)) = n - 1 /\ DOMAIN Without(i) = 1 .. n - 1
  BY <1>2, <1>3, Numbered
<1> QED
  BY <1>1, <1>4, <1>5, <1>6, <1>7

\* A marker that is set gets a handle that no marker and no breakpoint has.
LEMMA FreshHandleIsNew ==
    ASSUME BreakpointsTypeOK
    PROVE  FreshHandle(markers, breakpoints) \in 1 .. MaxMarkers + 1
<1> DEFINE used == DOMAIN markers \cup {breakpoints[i].handle : i \in DOMAIN breakpoints}
           T == {h \in Nat : h >= 1 /\ h \notin used}
<1>1. used \subseteq Handles
  <2>1. \A i \in DOMAIN breakpoints : breakpoints[i] \in BreakpointsOfFile
    BY ListIsASeq DEF BreakpointsTypeOK
  <2>2. \A i \in DOMAIN breakpoints : breakpoints[i].handle \in Handles
    BY <2>1 DEF BreakpointsOfFile
  <2>3. DOMAIN markers \subseteq Handles
    BY DEF BreakpointsTypeOK
  <2> QED
    BY <2>2, <2>3
<1>2. MaxMarkers + 1 \in T
  BY <1>1 DEF Handles
<1>3. PICK h \in T : \A m \in T : h <= m
  BY <1>2, LeastNumber
<1>4. h \in 1 .. MaxMarkers + 1
  BY <1>2, <1>3
<1>5. \A g \in 1 .. h - 1 : g \in used
  BY <1>3
<1>6. h \notin used
  BY <1>3
<1> QED
  BY <1>4, <1>5, <1>6 DEF FreshHandle

MarkersFit(ms, n) == DOMAIN ms \subseteq Handles /\ \A h \in DOMAIN ms : ms[h] \in 1 .. n

\* Markers stay on lines of the file when one is deleted, or set.
LEMMA UnmarkedFits ==
    ASSUME NEW n, MarkersFit(markers, n), NEW l, NEW ms \in Unmarked(markers, l)
    PROVE  MarkersFit(ms, n)
<1>1. CASE ms = markers
  BY <1>1
<1>2. CASE \E h : ms = [g \in DOMAIN markers \ {h} |-> markers[g]]
  BY <1>2 DEF MarkersFit
<1> QED
  BY <1>1, <1>2 DEF Unmarked

LEMMA MarkedFits ==
    ASSUME NEW n, MarkersFit(markers, n), NEW l \in 1 .. n, NEW h \in Handles
    PROVE  MarkersFit(Marked(markers, h, l), n)
  BY DEF MarkersFit, Marked

-----------------------------------------------------------------------------
LEMMA BreakpointIsRecord ==
    ASSUME NEW b \in BreakpointsOfFile
    PROVE  /\ b.who \in Who /\ b.line \in -1 .. MaxLines /\ b.enabled \in BOOLEAN
           /\ b.handle \in Handles /\ b.id \in Ids /\ b.transaction \in Transactions
  BY DEF BreakpointsOfFile

\* Changing one field of a breakpoint leaves the others.
LEMMA HandleChanged ==
    ASSUME NEW b \in BreakpointsOfFile, NEW h \in Handles
    PROVE  /\ [b EXCEPT !.handle = h] \in BreakpointsOfFile
           /\ [b EXCEPT !.handle = h].who = b.who /\ [b EXCEPT !.handle = h].enabled = b.enabled
           /\ [b EXCEPT !.handle = h].id = b.id /\ [b EXCEPT !.handle = h].transaction = b.transaction
  BY DEF BreakpointsOfFile

LEMMA LineChanged ==
    ASSUME NEW b \in BreakpointsOfFile, NEW l \in -1 .. MaxLines
    PROVE  /\ [b EXCEPT !.line = l] \in BreakpointsOfFile
           /\ [b EXCEPT !.line = l].who = b.who /\ [b EXCEPT !.line = l].enabled = b.enabled
           /\ [b EXCEPT !.line = l].id = b.id /\ [b EXCEPT !.line = l].transaction = b.transaction
  BY DEF BreakpointsOfFile

LEMMA EnabledChanged ==
    ASSUME NEW b \in BreakpointsOfFile, NEW on \in BOOLEAN
    PROVE  /\ [b EXCEPT !.enabled = on] \in BreakpointsOfFile
           /\ [b EXCEPT !.enabled = on].who = b.who /\ [b EXCEPT !.enabled = on].enabled = on
           /\ [b EXCEPT !.enabled = on].id = b.id /\ [b EXCEPT !.enabled = on].transaction = b.transaction
  BY DEF BreakpointsOfFile

LEMMA IdChanged ==
    ASSUME NEW b \in BreakpointsOfFile, NEW d \in Ids
    PROVE  /\ [b EXCEPT !.id = d] \in BreakpointsOfFile
           /\ [b EXCEPT !.id = d].who = b.who /\ [b EXCEPT !.id = d].enabled = b.enabled
           /\ [b EXCEPT !.id = d].id = d /\ [b EXCEPT !.id = d].transaction = b.transaction
  BY DEF BreakpointsOfFile

LEMMA TransactionChanged ==
    ASSUME NEW b \in BreakpointsOfFile, NEW t \in Transactions
    PROVE  /\ [b EXCEPT !.transaction = t] \in BreakpointsOfFile
           /\ [b EXCEPT !.transaction = t].who = b.who /\ [b EXCEPT !.transaction = t].enabled = b.enabled
           /\ [b EXCEPT !.transaction = t].id = b.id /\ [b EXCEPT !.transaction = t].transaction = t
  BY DEF BreakpointsOfFile

\* What the user does in the editor changes the lines and the handles, and
\* nothing that the engine hears of.
SameList ==
    /\ breakpoints' \in Seq(BreakpointsOfFile)
    /\ Len(breakpoints') = Len(breakpoints)
    /\ \A i \in DOMAIN breakpoints :
           /\ breakpoints'[i].who = breakpoints[i].who
           /\ breakpoints'[i].enabled = breakpoints[i].enabled
           /\ breakpoints'[i].id = breakpoints[i].id
           /\ breakpoints'[i].transaction = breakpoints[i].transaction

EditorStep ==
    /\ SameList
    /\ MarkersFit(markers', lines') /\ lines' \in 1 .. MaxLines /\ openInEditor' \in BOOLEAN
    /\ UNCHANGED <<adds, sessionActive, scripts, engineVars, commands, dbgpEvents, loose>>

\* A list made from the one there is, breakpoint by breakpoint.
LEMMA ListChanged ==
    ASSUME breakpoints \in Seq(BreakpointsOfFile),
           NEW f, f = [i \in DOMAIN breakpoints |-> f[i]],
           \A i \in DOMAIN breakpoints : f[i] \in BreakpointsOfFile
    PROVE  f \in Seq(BreakpointsOfFile) /\ Len(f) = Len(breakpoints) /\ DOMAIN f = DOMAIN breakpoints
<1>1. Len(breakpoints) \in Nat /\ DOMAIN breakpoints = 1 .. Len(breakpoints)
  BY ListIsASeq
<1>2. f \in [1 .. Len(breakpoints) -> BreakpointsOfFile]
  BY <1>1
<1> QED
  BY <1>1, <1>2, Numbered

\* UpdateBreakpointLineNumber changes nothing that the engine hears of.
LEMMA FollowingMarkers ==
    ASSUME BreakpointsTypeOK, MarkersFit(markers', lines'), lines' \in 1 .. MaxLines,
           breakpoints' = FollowsMarkers(breakpoints)
    PROVE  SameList
<1>1. breakpoints \in Seq(BreakpointsOfFile)
  BY DEF BreakpointsTypeOK
<1> DEFINE f == FollowsMarkers(breakpoints)
<1>2. \A h : MarkerLine(h) \in -1 .. MaxLines
  BY DEF MarkerLine, MarkersFit
<1>3. ASSUME NEW i \in DOMAIN breakpoints
      PROVE  /\ f[i] \in BreakpointsOfFile
             /\ f[i].who = breakpoints[i].who /\ f[i].enabled = breakpoints[i].enabled
             /\ f[i].id = breakpoints[i].id /\ f[i].transaction = breakpoints[i].transaction
  <2>1. breakpoints[i] \in BreakpointsOfFile
    BY <1>1, ListIsASeq
  <2>2. f[i] = IF breakpoints[i].handle = 0 THEN breakpoints[i]
               ELSE [breakpoints[i] EXCEPT !.line = MarkerLine(breakpoints[Len(breakpoints)].handle)]
    BY DEF FollowsMarkers
  <2>3. MarkerLine(breakpoints[Len(breakpoints)].handle) \in -1 .. MaxLines
    BY <1>2
  <2> QED
    BY <2>1, <2>2, <2>3, LineChanged
<1>4. f = [i \in DOMAIN breakpoints |-> f[i]]
  BY DEF FollowsMarkers
<1> HIDE DEF f
<1>5. f \in Seq(BreakpointsOfFile) /\ Len(f) = Len(breakpoints)
  BY <1>1, <1>3, <1>4, ListChanged
<1>6. breakpoints' = f
  BY DEF f
<1> QED
  BY <1>3, <1>5, <1>6 DEF SameList

LEMMA MarkersAreFit == BreakpointsTypeOK => MarkersFit(markers, lines) /\ lines \in 1 .. MaxLines
  BY DEF BreakpointsTypeOK, MarkersFit

\* Neither do lines that come and go, nor the file opened and closed.
LEMMA LinesMove ==
    ASSUME BreakpointsTypeOK, NEW k \in 1 .. lines, InsertLine(k) \/ DeleteLine(k)
    PROVE  EditorStep
<1>1. MarkersFit(markers, lines) /\ lines \in 1 .. MaxLines /\ openInEditor \in BOOLEAN
      /\ MaxLines \in Nat
  BY MarkersAreFit DEF BreakpointsTypeOK
<1>2. /\ lines' \in 1 .. MaxLines /\ MarkersFit(markers', lines') /\ openInEditor' \in BOOLEAN
      /\ breakpoints' = FollowsMarkers(breakpoints)
      /\ UNCHANGED <<adds, sessionActive, scripts, engineVars, commands, dbgpEvents, loose>>
  <2>1. CASE InsertLine(k)
    <3>1. lines' = lines + 1 /\ lines < MaxLines
          /\ markers' = [h \in DOMAIN markers |-> IF markers[h] >= k THEN markers[h] + 1 ELSE markers[h]]
      BY <2>1 DEF InsertLine
    <3>2. MarkersFit(markers', lines') /\ lines' \in 1 .. MaxLines
      BY <1>1, <3>1 DEF MarkersFit
    <3> QED
      BY <1>1, <2>1, <3>2 DEF InsertLine
  <2>2. CASE DeleteLine(k)
    <3>1. lines' = lines - 1 /\ k > 1
          /\ markers' = [h \in DOMAIN markers |-> IF markers[h] >= k THEN markers[h] - 1 ELSE markers[h]]
      BY <2>2 DEF DeleteLine
    <3>2. MarkersFit(markers', lines') /\ lines' \in 1 .. MaxLines
      BY <1>1, <3>1 DEF MarkersFit
    <3> QED
      BY <1>1, <2>2, <3>2 DEF DeleteLine
  <2> QED
    BY <2>1, <2>2
<1> QED
  BY <1>2, FollowingMarkers DEF EditorStep

LEMMA Opening ==
    ASSUME BreakpointsTypeOK, ListInv, OpenInEditor
    PROVE  EditorStep
<1>1. breakpoints \in Seq(BreakpointsOfFile) /\ lines \in 1 .. MaxLines /\ adds \in 0 .. MaxAdds
  BY DEF BreakpointsTypeOK
<1>2. Len(breakpoints) \in Nat /\ DOMAIN breakpoints = 1 .. Len(breakpoints) /\ Len(breakpoints) <= MaxMarkers
      /\ \A i \in DOMAIN breakpoints : breakpoints[i] \in BreakpointsOfFile
  BY <1>1, ListIsASeq DEF ListInv
<1> DEFINE InFile(j) == breakpoints[j].line \in 1 .. lines
<1>3. ASSUME NEW i \in DOMAIN breakpoints
      PROVE  /\ HandleAtOpen(i) \in Handles
             /\ HandleAtOpen(i) # 0 => InFile(i)
  <2> DEFINE before == {j \in 1 .. i : InFile(j)}
  <2>1. before \subseteq 1 .. i /\ i \in Nat /\ i <= MaxMarkers
    BY <1>2
  <2>2. IsFiniteSet(1 .. i) /\ Cardinality(1 .. i) = i
    <3>1. 1 \in Int /\ i \in Int /\ i >= 1
      BY <1>2
    <3>2. IsFiniteSet(1 .. i) /\ Cardinality(1 .. i) = IF 1 > i THEN 0 ELSE i - 1 + 1
      BY <3>1, FS_Interval
    <3> QED
      BY <3>1, <3>2
  <2>3. IsFiniteSet(before) /\ Cardinality(before) <= i
    BY <2>1, <2>2, FS_Subset
  <2>4. Cardinality(before) \in Nat
    BY <2>3, FS_CardinalityType
  <2>5. HandleAtOpen(i) = IF InFile(i) THEN Cardinality(before) ELSE 0
    BY DEF HandleAtOpen
  <2> HIDE DEF before
  <2>6. CASE InFile(i)
    BY <2>1, <2>3, <2>4, <2>5, <2>6 DEF Handles
  <2>7. CASE ~InFile(i)
    BY <2>5, <2>7 DEF Handles
  <2> QED
    BY <2>6, <2>7
<1> DEFINE f == [i \in DOMAIN breakpoints |-> [breakpoints[i] EXCEPT !.handle = HandleAtOpen(i)]]
<1>4. breakpoints' = f
  BY DEF OpenInEditor
<1>5. ASSUME NEW i \in DOMAIN breakpoints
      PROVE  /\ f[i] \in BreakpointsOfFile
             /\ f[i].who = breakpoints[i].who /\ f[i].enabled = breakpoints[i].enabled
             /\ f[i].id = breakpoints[i].id /\ f[i].transaction = breakpoints[i].transaction
  BY <1>2, <1>3, HandleChanged
<1>6. f = [i \in DOMAIN breakpoints |-> f[i]]
  OBVIOUS
<1> HIDE DEF f
<1>7. SameList
  BY <1>1, <1>4, <1>5, <1>6, ListChanged DEF SameList
<1>8. MarkersFit(markers', lines')
  <2> DEFINE hs == {HandleAtOpen(i) : i \in DOMAIN breakpoints} \ {0}
             of(h) == CHOOSE i \in DOMAIN breakpoints : HandleAtOpen(i) = h
  <2>1. markers' = [h \in hs |-> breakpoints[of(h)].line] /\ lines' = lines
    BY DEF OpenInEditor
  <2>2. hs \subseteq Handles
    BY <1>3
  <2>3. ASSUME NEW h \in hs PROVE breakpoints[of(h)].line \in 1 .. lines
    <3>1. of(h) \in DOMAIN breakpoints /\ HandleAtOpen(of(h)) = h
      OBVIOUS
    <3> QED
      BY <3>1, <1>3
  <2> HIDE DEF hs, of
  <2> QED
    BY <2>1, <2>2, <2>3 DEF MarkersFit
<1> QED
  BY <1>1, <1>7, <1>8 DEF EditorStep, OpenInEditor

LEMMA Closing ==
    ASSUME BreakpointsTypeOK, NEW c \in BOOLEAN, CloseInEditor(c)
    PROVE  EditorStep
<1>1. breakpoints \in Seq(BreakpointsOfFile) /\ lines \in 1 .. MaxLines /\ MarkersFit(markers, lines)
  BY MarkersAreFit DEF BreakpointsTypeOK
<1> DEFINE f == [i \in DOMAIN breakpoints |-> [breakpoints[i] EXCEPT !.handle = -1]]
<1>2. -1 \in Handles
  BY DEF Handles
<1>3. ASSUME NEW i \in DOMAIN breakpoints
      PROVE  /\ f[i] \in BreakpointsOfFile
             /\ f[i].who = breakpoints[i].who /\ f[i].enabled = breakpoints[i].enabled
             /\ f[i].id = breakpoints[i].id /\ f[i].transaction = breakpoints[i].transaction
  BY <1>1, <1>2, ListIsASeq, HandleChanged
<1>4. f = [i \in DOMAIN breakpoints |-> f[i]] /\ breakpoints' = f
  BY DEF CloseInEditor
<1> HIDE DEF f
<1>5. SameList
  BY <1>1, <1>3, <1>4, ListChanged DEF SameList
<1>6. MarkersFit(<< >>, lines)
  BY DEF MarkersFit
<1> QED
  BY <1>1, <1>5, <1>6 DEF EditorStep, CloseInEditor

\* What the engine knows does not depend on the lines.
LEMMA EditorKeepsKnown ==
    ASSUME BreakpointsTypeOK, KnownInv, EditorStep
    PROVE  KnownInv'
<1> SUFFICES ASSUME Tracked'
             PROVE  /\ TransactionsFit' /\ SetCommandsFit' /\ SetEventsFit' /\ IdsFit'
                    /\ EnabledFits' /\ EngineFits' /\ OldIds'
  BY DEF KnownInv
<1>1. /\ adds' = adds /\ sessionActive' = sessionActive /\ scripts' = scripts /\ engineUp' = engineUp
      /\ engineIds' = engineIds /\ engine' = engine /\ commands' = commands
      /\ dbgpEvents' = dbgpEvents /\ loose' = loose
  BY DEF EditorStep, engineVars
<1>2. /\ TransactionsFit /\ SetCommandsFit /\ SetEventsFit /\ IdsFit
      /\ EnabledFits /\ EngineFits /\ OldIds
  BY <1>1 DEF KnownInv, Tracked
<1>3. /\ DOMAIN breakpoints' = DOMAIN breakpoints
      /\ \A i \in DOMAIN breakpoints :
             /\ breakpoints'[i].who = breakpoints[i].who
             /\ breakpoints'[i].enabled = breakpoints[i].enabled
             /\ breakpoints'[i].id = breakpoints[i].id
             /\ breakpoints'[i].transaction = breakpoints[i].transaction
  BY ListIsASeq DEF EditorStep, SameList, BreakpointsTypeOK
<1>4. TransactionsFit'
  BY <1>1, <1>2, <1>3 DEF TransactionsFit, IsSet
<1>5. SetCommandsFit'
  BY <1>1, <1>2, <1>3 DEF SetCommandsFit, IsSet
<1>6. SetEventsFit'
  BY <1>1, <1>2, <1>3 DEF SetEventsFit, IsSet, Listed
<1>7. IdsFit'
  BY <1>1, <1>2, <1>3 DEF IdsFit, IsSet, InSetCommand, InSetEvent
<1>8. EnabledFits'
  BY <1>1, <1>2, <1>3 DEF EnabledFits, Switches
<1>9. EngineFits'
  BY <1>1, <1>2, <1>3 DEF EngineFits, Listed
<1>10. OldIds'
  BY <1>1, <1>2 DEF OldIds, IsSet
<1> QED
  BY <1>4, <1>5, <1>6, <1>7, <1>8, <1>9, <1>10

\* What is done in the editor keeps the invariant.
LEMMA EditorKeepsInv ==
    ASSUME BreakpointsTypeOK, BreakpointsInv, EditorStep
    PROVE  BreakpointsTypeOK' /\ BreakpointsInv'
<1>1. /\ adds' = adds /\ sessionActive' = sessionActive /\ scripts' = scripts /\ engineUp' = engineUp
      /\ engineIds' = engineIds /\ engine' = engine /\ commands' = commands
      /\ dbgpEvents' = dbgpEvents /\ loose' = loose
  BY DEF EditorStep, engineVars
<1>a. /\ DOMAIN breakpoints' = DOMAIN breakpoints /\ Len(breakpoints') = Len(breakpoints)
      /\ \A i \in DOMAIN breakpoints : breakpoints'[i].who = breakpoints[i].who
  <2>1. breakpoints \in Seq(BreakpointsOfFile) /\ breakpoints' \in Seq(BreakpointsOfFile)
    BY DEF EditorStep, SameList, BreakpointsTypeOK
  <2> QED
    BY <2>1, ListIsASeq DEF EditorStep, SameList
<1>2. ListInv'
  BY <1>1, <1>a DEF BreakpointsInv, ListInv
<1>3. SetsInv' /\ SessionInv'
  BY <1>1 DEF BreakpointsInv, SetsInv, SessionInv, IsSet
<1>4. KnownInv'
  BY EditorKeepsKnown DEF BreakpointsInv
<1>5. \A i, j \in DOMAIN breakpoints' : breakpoints'[i].who = breakpoints'[j].who => i = j
  BY <1>a DEF BreakpointsTypeOK
<1>6. BreakpointsTypeOK'
  BY <1>1, <1>5 DEF EditorStep, SameList, MarkersFit, BreakpointsTypeOK
<1> QED
  BY <1>2, <1>3, <1>4, <1>6 DEF BreakpointsInv

-----------------------------------------------------------------------------
\* A command that names a breakpoint by its id is posted, or not if nobody takes it.
IdPosted(kind, d) ==
    \/ commands' = commands
    \/ engineUp /\ commands' = commands \o <<[kind |-> kind, id |-> d]>>

IdKinds == {"remove", "enable", "disable"}

\* Posting a command puts it behind the others.
LEMMA OneMoreCommand ==
    ASSUME commands \in Seq(Commands), NEW c \in Commands
    PROVE  /\ commands \o <<c>> \in Seq(Commands)
           /\ Len(commands) \in Nat /\ DOMAIN commands = 1 .. Len(commands)
           /\ Len(commands \o <<c>>) = Len(commands) + 1
           /\ DOMAIN (commands \o <<c>>) = 1 .. Len(commands) + 1
           /\ \A k \in DOMAIN commands : (commands \o <<c>>)[k] = commands[k]
           /\ (commands \o <<c>>)[Len(commands) + 1] = c
<1>1. <<c>> \in Seq(Commands) /\ Len(<<c>>) = 1 /\ <<c>>[1] = c
  OBVIOUS
<1>2. Len(commands) \in Nat /\ DOMAIN commands = 1 .. Len(commands)
  BY ListIsASeq
<1>3. /\ commands \o <<c>> \in Seq(Commands)
      /\ Len(commands \o <<c>>) = Len(commands) + 1
      /\ \A k \in 1 .. Len(commands) + 1 :
             (commands \o <<c>>)[k] = IF k <= Len(commands) THEN commands[k] ELSE <<c>>[k - Len(commands)]
  BY <1>1, ConcatProperties
<1>4. DOMAIN (commands \o <<c>>) = 1 .. Len(commands) + 1
  BY <1>3, ListIsASeq
<1> QED
  BY <1>1, <1>2, <1>3, <1>4

LEMMA IdCommand ==
    ASSUME NEW kind \in IdKinds, NEW d \in Ids
    PROVE  /\ [kind |-> kind, id |-> d] \in Commands
           /\ [kind |-> kind, id |-> d].kind = kind /\ kind # "set"
           /\ [kind |-> kind, id |-> d].id = d
  BY DEF Commands, IdKinds

LEMMA IdCommandPosted ==
    ASSUME commands \in Seq(Commands), SetsInv, SessionInv, NEW kind \in IdKinds, NEW d \in Ids,
           IdPosted(kind, d),
           UNCHANGED <<adds, sessionActive, scripts, engineVars, dbgpEvents>>
    PROVE  commands' \in Seq(Commands) /\ SetsInv' /\ SessionInv'
<1>1. /\ adds' = adds /\ sessionActive' = sessionActive /\ scripts' = scripts /\ engineUp' = engineUp
      /\ engineIds' = engineIds /\ engine' = engine /\ dbgpEvents' = dbgpEvents
  BY DEF engineVars
<1>2. CASE commands' = commands
  BY <1>1, <1>2 DEF SetsInv, SessionInv, IsSet
<1>3. CASE engineUp /\ commands' = commands \o <<[kind |-> kind, id |-> d]>>
  <2> DEFINE n == Len(commands)
  <2>1. /\ commands' \in Seq(Commands) /\ n \in Nat /\ DOMAIN commands = 1 .. n
        /\ DOMAIN commands' = 1 .. n + 1
        /\ \A k \in 1 .. n : commands'[k] = commands[k]
        /\ commands'[n + 1].kind # "set"
    BY <1>3, OneMoreCommand, IdCommand
  <2> HIDE DEF n
  <2>2. \A k \in DOMAIN commands' : IsSet(k)' => k \in DOMAIN commands /\ IsSet(k) /\ commands'[k] = commands[k]
    BY <2>1 DEF IsSet
  <2>3. SetsInv'
    BY <1>1, <2>2 DEF SetsInv
  <2>4. SessionInv'
    BY <1>1, <1>3, <2>2 DEF SessionInv
  <2> QED
    BY <2>1, <2>3, <2>4
<1> QED
  BY <1>2, <1>3 DEF IdPosted

\* A breakpoint that is not missed is the one found, and the engine has it.
LEMMA NotMissed ==
    ASSUME breakpoints \in Seq(BreakpointsOfFile), ListInv, engineUp, sessionActive,
           NEW i \in DOMAIN breakpoints, NEW j \in DOMAIN breakpoints,
           ~Misses(breakpoints[i], breakpoints[j])
    PROVE  i = j /\ ~InSetCommand(breakpoints[i].who) /\ ~InSetEvent(breakpoints[i].who)
<1>1. breakpoints[i].who = breakpoints[j].who
  BY DEF Misses
<1>2. i = j
  <2>1. i \in Nat /\ j \in Nat
    BY ListIsASeq
  <2>2. breakpoints[i].who \in Nat /\ breakpoints[j].who \in Nat
    <3>1. breakpoints[i] \in BreakpointsOfFile /\ breakpoints[j] \in BreakpointsOfFile
      BY ListIsASeq
    <3> QED
      BY <3>1, BreakpointIsRecord DEF Who
  <2> QED
    BY <1>1, <2>1, <2>2 DEF ListInv
<1>3. ~InSetCommand(breakpoints[i].who)
  <2>1. \A c \in ToSet(commands) : ~(c.kind = "set" /\ c.who = breakpoints[i].who)
    BY DEF Misses
  <2> QED
    BY <2>1 DEF InSetCommand, IsSet, ToSet
<1>4. ~InSetEvent(breakpoints[i].who)
  <2>1. \A e \in ToSet(dbgpEvents) : ~(e.kind = "set" /\ e.transaction[2] = breakpoints[i].who)
    BY DEF Misses
  <2> QED
    BY <2>1 DEF InSetEvent, ToSet
<1> QED
  BY <1>2, <1>3, <1>4

\* The list stays in order when a breakpoint is removed.
LEMMA ListWithoutOne ==
    ASSUME breakpoints \in Seq(BreakpointsOfFile), adds \in Nat, ListInv, NEW i \in DOMAIN breakpoints,
           breakpoints' = Without(i), adds' = adds
    PROVE  /\ breakpoints' \in Seq(BreakpointsOfFile) /\ ListInv'
           /\ \A j \in DOMAIN breakpoints' : \E k \in DOMAIN breakpoints \ {i} : breakpoints'[j] = breakpoints[k]
           /\ \A k \in DOMAIN breakpoints \ {i} : \E j \in DOMAIN breakpoints' : breakpoints'[j] = breakpoints[k]
           /\ \A k \in DOMAIN breakpoints \ {i} : breakpoints[k].who # breakpoints[i].who
<1>1. /\ Without(i) \in Seq(BreakpointsOfFile)
      /\ Len(Without(i)) = Len(breakpoints) - 1
      /\ DOMAIN Without(i) = 1 .. Len(breakpoints) - 1
      /\ \A j \in DOMAIN Without(i) :
             \E k \in DOMAIN breakpoints \ {i} :
                 k = (IF j < i THEN j ELSE j + 1) /\ Without(i)[j] = breakpoints[k]
      /\ \A k \in DOMAIN breakpoints \ {i} : \E j \in DOMAIN Without(i) : Without(i)[j] = breakpoints[k]
  BY WithoutOne
<1>2. /\ Len(breakpoints) \in Nat /\ DOMAIN breakpoints = 1 .. Len(breakpoints)
      /\ \A k \in DOMAIN breakpoints : breakpoints[k].who \in Nat
  BY ListIsASeq, BreakpointIsRecord DEF Who
<1>a. DOMAIN breakpoints' = 1 .. Len(breakpoints) - 1 /\ Len(breakpoints') = Len(breakpoints) - 1
  BY <1>1
<1>3. \A j \in DOMAIN breakpoints' :
          breakpoints'[j] = breakpoints[IF j < i THEN j ELSE j + 1]
          /\ (IF j < i THEN j ELSE j + 1) \in DOMAIN breakpoints
  BY <1>1
<1>4. ListInv'
  <2>1. \A j, m \in DOMAIN breakpoints' : j < m => breakpoints'[j].who < breakpoints'[m].who
    <3> TAKE j, m \in DOMAIN breakpoints'
    <3> HAVE j < m
    <3> DEFINE a == IF j < i THEN j ELSE j + 1
               b == IF m < i THEN m ELSE m + 1
    <3>1. j \in Nat /\ m \in Nat /\ i \in Nat
      BY <1>2, <1>a
    <3>2. a < b
      BY <3>1
    <3>3. a \in DOMAIN breakpoints /\ b \in DOMAIN breakpoints
          /\ breakpoints'[j] = breakpoints[a] /\ breakpoints'[m] = breakpoints[b]
      BY <1>3
    <3> HIDE DEF a, b
    <3> QED
      BY <3>2, <3>3 DEF ListInv
  <2>2. \A j \in DOMAIN breakpoints' : breakpoints'[j].who <= adds'
    BY <1>3 DEF ListInv
  <2>3. Len(breakpoints') <= adds'
    BY <1>2, <1>a DEF ListInv
  <2> QED
    BY <2>1, <2>2, <2>3 DEF ListInv
<1>5. \A k \in DOMAIN breakpoints \ {i} : breakpoints[k].who # breakpoints[i].who
  BY SMTT(30), <1>2 DEF ListInv
<1> QED
  BY <1>1, <1>4, <1>5

\* A breakpoint goes from the list, and the command to remove it names what the
\* engine knows of it.
RemovalStep(i) ==
    /\ breakpoints' = Without(i) /\ adds' = adds
    /\ UNCHANGED <<sessionActive, scripts, engineVars, dbgpEvents>>
    /\ Tracked' => /\ Tracked
                   /\ commands' = commands \o <<[kind |-> "remove", id |-> breakpoints[i].id]>>
                   /\ ~InSetCommand(breakpoints[i].who) /\ ~InSetEvent(breakpoints[i].who)

\* A breakpoint is removed, with the id that the engine gave it.
LEMMA RemovingKeepsKnown ==
    ASSUME breakpoints \in Seq(BreakpointsOfFile), adds \in Nat, commands \in Seq(Commands),
           BreakpointsTypeOK, ListInv, SessionInv, KnownInv,
           NEW i \in DOMAIN breakpoints, RemovalStep(i)
    PROVE  KnownInv'
<1> SUFFICES ASSUME Tracked'
             PROVE  /\ TransactionsFit' /\ SetCommandsFit' /\ SetEventsFit' /\ IdsFit'
                    /\ EnabledFits' /\ EngineFits' /\ OldIds'
  BY DEF KnownInv
<1> DEFINE n == Len(commands)
           d == breakpoints[i].id
           w == breakpoints[i].who
<1>1. /\ sessionActive' = sessionActive /\ scripts' = scripts /\ engineUp' = engineUp
      /\ engineIds' = engineIds /\ engine' = engine /\ dbgpEvents' = dbgpEvents
  BY DEF engineVars, RemovalStep
<1>2. /\ TransactionsFit /\ SetCommandsFit /\ SetEventsFit /\ IdsFit
      /\ EnabledFits /\ EngineFits /\ OldIds
  BY DEF KnownInv, RemovalStep
<1>a. ~InSetCommand(w) /\ ~InSetEvent(w) /\ commands' = commands \o <<[kind |-> "remove", id |-> d]>>
  BY DEF RemovalStep
<1>3. /\ d \in DOMAIN engine /\ engine[d].who = w
      /\ \A k \in DOMAIN commands : commands[k].kind = "remove" => commands[k].id # d
  BY <1>2, <1>a DEF IdsFit
<1>4. d \in Ids
  BY ListIsASeq, BreakpointIsRecord
<1>5. /\ n \in Nat /\ DOMAIN commands = 1 .. n /\ DOMAIN commands' = 1 .. n + 1
      /\ \A k \in 1 .. n : commands'[k] = commands[k]
      /\ commands'[n + 1].kind = "remove" /\ commands'[n + 1].id = d
  BY <1>4, <1>a, OneMoreCommand, IdCommand DEF IdKinds
<1>6. /\ \A j \in DOMAIN breakpoints' : \E k \in DOMAIN breakpoints \ {i} : breakpoints'[j] = breakpoints[k]
      /\ \A k \in DOMAIN breakpoints \ {i} : \E j \in DOMAIN breakpoints' : breakpoints'[j] = breakpoints[k]
      /\ \A k \in DOMAIN breakpoints \ {i} : breakpoints[k].who # w
  BY ListWithoutOne DEF RemovalStep
<1>7. ~InSetCommand(w) /\ ~InSetEvent(w)
  BY <1>a
<1> HIDE DEF n, d, w
<1>8. /\ \A k \in DOMAIN commands' : IsSet(k)' => k \in DOMAIN commands /\ IsSet(k) /\ commands'[k] = commands[k]
      /\ \A k \in DOMAIN commands : k \in DOMAIN commands' /\ commands'[k] = commands[k] /\ (IsSet(k)' <=> IsSet(k))
  BY SMTT(30), <1>5 DEF IsSet
<1>9. TransactionsFit'
  BY <1>1, <1>2, <1>6, <1>8 DEF TransactionsFit
<1>10. SetCommandsFit'
  <2> SUFFICES ASSUME NEW k \in DOMAIN commands', IsSet(k)'
               PROVE  /\ \E j \in DOMAIN breakpoints' : /\ breakpoints'[j].who = commands'[k].who
                                                        /\ breakpoints'[j].enabled = commands'[k].enabled
                      /\ \A e \in DOMAIN engine' : engine'[e].who # commands'[k].who
    BY DEF SetCommandsFit
  <2>1. k \in DOMAIN commands /\ IsSet(k) /\ commands'[k] = commands[k]
    BY <1>8
  <2>2. PICK j \in DOMAIN breakpoints : /\ breakpoints[j].who = commands[k].who
                                        /\ breakpoints[j].enabled = commands[k].enabled
    BY <1>2, <2>1 DEF SetCommandsFit
  <2>3. commands[k].who # w
    BY <1>7, <2>1 DEF InSetCommand
  <2>4. j # i
    BY <2>2, <2>3 DEF w
  <2>5. PICK m \in DOMAIN breakpoints' : breakpoints'[m] = breakpoints[j]
    BY <1>6, <2>4
  <2>6. \A e \in DOMAIN engine : engine[e].who # commands[k].who
    BY <1>2, <2>1 DEF SetCommandsFit
  <2> QED
    BY <1>1, <2>1, <2>2, <2>5, <2>6
<1>11. SetEventsFit'
  <2> SUFFICES ASSUME NEW m \in DOMAIN dbgpEvents
               PROVE  /\ dbgpEvents[m].id \in DOMAIN engine
                      /\ engine[dbgpEvents[m].id].who = dbgpEvents[m].transaction[2]
                      /\ Listed(dbgpEvents[m].transaction[2])'
                      /\ \A k \in DOMAIN commands' : ~IsSet(k)' => commands'[k].id # dbgpEvents[m].id
    BY <1>1 DEF SetEventsFit
  <2>1. /\ dbgpEvents[m].id \in DOMAIN engine
        /\ engine[dbgpEvents[m].id].who = dbgpEvents[m].transaction[2]
        /\ Listed(dbgpEvents[m].transaction[2])
        /\ \A k \in DOMAIN commands : ~IsSet(k) => commands[k].id # dbgpEvents[m].id
    BY <1>2 DEF SetEventsFit
  <2>2. dbgpEvents[m].kind = "set"
    BY DEF RemovalStep, Tracked, SessionInv
  <2>3. dbgpEvents[m].transaction[2] # w
    BY <1>7, <2>2 DEF InSetEvent
  <2>4. Listed(dbgpEvents[m].transaction[2])'
    BY <1>1, <1>6, <2>1, <2>3 DEF Listed, w
  <2>5. dbgpEvents[m].id # d
    BY <1>3, <2>1, <2>3
  <2> QED
    BY SMTT(30), <1>5, <1>8, <2>1, <2>4, <2>5
<1>12. IdsFit'
  <2>1. \A v : (InSetCommand(v)' <=> InSetCommand(v)) /\ (InSetEvent(v)' <=> InSetEvent(v))
    BY <1>1, <1>8 DEF InSetCommand, InSetEvent
  <2> SUFFICES ASSUME NEW j \in DOMAIN breakpoints',
                      ~InSetCommand(breakpoints'[j].who), ~InSetEvent(breakpoints'[j].who)
               PROVE  /\ breakpoints'[j].id \in DOMAIN engine
                      /\ engine[breakpoints'[j].id].who = breakpoints'[j].who
                      /\ \A k \in DOMAIN commands' :
                             commands'[k].kind = "remove" => commands'[k].id # breakpoints'[j].id
    BY <1>1, <2>1 DEF IdsFit
  <2>2. PICK m \in DOMAIN breakpoints \ {i} : breakpoints'[j] = breakpoints[m]
    BY <1>6
  <2>3. /\ breakpoints[m].id \in DOMAIN engine
        /\ engine[breakpoints[m].id].who = breakpoints[m].who
        /\ \A k \in DOMAIN commands : commands[k].kind = "remove" => commands[k].id # breakpoints[m].id
    BY <1>2, <2>2 DEF IdsFit
  <2>4. breakpoints[m].id # d
    BY <1>3, <1>6, <2>3
  <2> QED
    BY SMTT(30), <1>5, <2>2, <2>3, <2>4
<1>13. EnabledFits'
  <2>1. \A k, e : k \in DOMAIN commands' /\ Switches(k, e)' => k \in DOMAIN commands /\ Switches(k, e)
    BY <1>5 DEF Switches
  <2>2. \A k, e : k \in DOMAIN commands =>
            k \in DOMAIN commands' /\ commands'[k] = commands[k] /\ (Switches(k, e)' <=> Switches(k, e))
    BY <1>8 DEF Switches
  <2> SUFFICES ASSUME NEW j \in DOMAIN breakpoints', NEW e \in DOMAIN engine,
                      engine[e].who = breakpoints'[j].who
               PROVE  /\ (\A k \in DOMAIN commands' : ~Switches(k, e)') => engine[e].enabled = breakpoints'[j].enabled
                      /\ \A k \in DOMAIN commands' :
                             Switches(k, e)' /\ (\A m \in DOMAIN commands' : k < m => ~Switches(m, e)')
                                 => (commands'[k].kind = "enable") = breakpoints'[j].enabled
    BY <1>1 DEF EnabledFits
  <2>3. PICK m \in DOMAIN breakpoints \ {i} : breakpoints'[j] = breakpoints[m]
    BY <1>6
  <2>4. /\ (\A k \in DOMAIN commands : ~Switches(k, e)) => engine[e].enabled = breakpoints[m].enabled
        /\ \A k \in DOMAIN commands :
               Switches(k, e) /\ (\A l \in DOMAIN commands : k < l => ~Switches(l, e))
                   => (commands[k].kind = "enable") = breakpoints[m].enabled
    BY <1>2, <2>3 DEF EnabledFits
  <2> QED
    BY SMTT(30), <2>1, <2>2, <2>3, <2>4
<1>14. EngineFits'
  <2> SUFFICES ASSUME NEW e \in DOMAIN engine
               PROVE  \/ Listed(engine[e].who)'
                      \/ \E k \in DOMAIN commands' : commands'[k].kind = "remove" /\ commands'[k].id = e
    BY <1>1, <1>2 DEF EngineFits
  <2>1. CASE e = d
    BY <1>5, <2>1
  <2>2. CASE \E k \in DOMAIN commands : commands[k].kind = "remove" /\ commands[k].id = e
    BY <1>8, <2>2
  <2>3. CASE e # d /\ Listed(engine[e].who)
    <3>1. engine[e].who # w
      BY <1>2, <1>3, <2>3 DEF EngineFits
    <3>2. PICK j \in DOMAIN breakpoints : breakpoints[j].who = engine[e].who
      BY <2>3 DEF Listed
    <3>3. PICK m \in DOMAIN breakpoints' : breakpoints'[m] = breakpoints[j]
      BY <1>6, <3>1, <3>2 DEF w
    <3>4. Listed(engine[e].who)'
      BY <1>1, <3>2, <3>3 DEF Listed
    <3> QED
      BY <3>4
  <2> QED
    BY <1>2, <2>1, <2>2, <2>3 DEF EngineFits
<1>15. OldIds'
  <2>1. engineIds \in Nat /\ d \in 1 .. engineIds
    BY <1>3 DEF BreakpointsTypeOK, Ids
  <2> QED
    BY SMTT(30), <1>1, <1>2, <1>5, <1>8, <2>1 DEF OldIds
<1> QED
  BY <1>9, <1>10, <1>11, <1>12, <1>13, <1>14, <1>15

\* A breakpoint of the list is enabled or disabled, and the command names what the
\* engine knows of it.
Switch(on) == IF on THEN "enable" ELSE "disable"

SwitchStep(i, on) ==
    /\ breakpoints' \in Seq(BreakpointsOfFile) /\ Len(breakpoints') = Len(breakpoints)
    /\ \A j \in DOMAIN breakpoints :
           /\ breakpoints'[j].who = breakpoints[j].who
           /\ breakpoints'[j].id = breakpoints[j].id
           /\ breakpoints'[j].transaction = breakpoints[j].transaction
           /\ breakpoints'[j].enabled = IF j = i THEN on ELSE breakpoints[j].enabled
    /\ UNCHANGED <<adds, sessionActive, scripts, engineVars, dbgpEvents>>
    /\ Tracked' => /\ Tracked
                   /\ commands' = commands \o <<[kind |-> Switch(on), id |-> breakpoints[i].id]>>
                   /\ ~InSetCommand(breakpoints[i].who) /\ ~InSetEvent(breakpoints[i].who)

LEMMA SwitchIsKind ==
    ASSUME NEW on \in BOOLEAN
    PROVE  Switch(on) \in IdKinds \ {"remove"} /\ ((Switch(on) = "enable") = on)
<1>1. CASE on = TRUE
  BY <1>1 DEF Switch, IdKinds
<1>2. CASE on = FALSE
  BY <1>2 DEF Switch, IdKinds
<1> QED
  BY <1>1, <1>2

\* A breakpoint is enabled or disabled, with the id that the engine gave it.
LEMMA SwitchingKeepsKnown ==
    ASSUME breakpoints \in Seq(BreakpointsOfFile), commands \in Seq(Commands),
           BreakpointsTypeOK, ListInv, SessionInv, KnownInv,
           NEW i \in DOMAIN breakpoints, NEW on \in BOOLEAN, SwitchStep(i, on)
    PROVE  KnownInv'
<1> SUFFICES ASSUME Tracked'
             PROVE  /\ TransactionsFit' /\ SetCommandsFit' /\ SetEventsFit' /\ IdsFit'
                    /\ EnabledFits' /\ EngineFits' /\ OldIds'
  BY DEF KnownInv
<1> DEFINE n == Len(commands)
           d == breakpoints[i].id
           w == breakpoints[i].who
<1>1. /\ sessionActive' = sessionActive /\ scripts' = scripts /\ engineUp' = engineUp
      /\ engineIds' = engineIds /\ engine' = engine /\ dbgpEvents' = dbgpEvents
  BY DEF engineVars, SwitchStep
<1>2. /\ TransactionsFit /\ SetCommandsFit /\ SetEventsFit /\ IdsFit
      /\ EnabledFits /\ EngineFits /\ OldIds
  BY DEF KnownInv, SwitchStep
<1>a. ~InSetCommand(w) /\ ~InSetEvent(w) /\ commands' = commands \o <<[kind |-> Switch(on), id |-> d]>>
  BY DEF SwitchStep
<1>3. /\ d \in DOMAIN engine /\ engine[d].who = w
      /\ \A k \in DOMAIN commands : commands[k].kind = "remove" => commands[k].id # d
  BY <1>2, <1>a DEF IdsFit
<1>4. d \in Ids /\ Switch(on) \in IdKinds
  BY ListIsASeq, BreakpointIsRecord, SwitchIsKind
<1>d. PICK last : last = n + 1
  OBVIOUS
<1>5. /\ n \in Nat /\ DOMAIN commands = 1 .. n /\ DOMAIN commands' = 1 .. last
      /\ \A k \in 1 .. n : commands'[k] = commands[k]
      /\ commands'[last].kind = Switch(on) /\ commands'[last].id = d
  BY <1>4, <1>a, <1>d, OneMoreCommand, IdCommand
<1>b. /\ Switch(on) \in {"enable", "disable"} /\ ((Switch(on) = "enable") = on)
  BY SwitchIsKind DEF IdKinds
<1>6. /\ DOMAIN breakpoints' = DOMAIN breakpoints
      /\ \A j \in DOMAIN breakpoints :
             /\ breakpoints'[j].who = breakpoints[j].who
             /\ breakpoints'[j].id = breakpoints[j].id
             /\ breakpoints'[j].transaction = breakpoints[j].transaction
             /\ j # i => breakpoints'[j].enabled = breakpoints[j].enabled
      /\ breakpoints'[i].enabled = on
  BY ListIsASeq DEF SwitchStep
<1>7. \A j \in DOMAIN breakpoints : breakpoints[j].who = w => j = i
  BY DEF BreakpointsTypeOK
<1> HIDE DEF n, d, w
<1>8. /\ \A k \in DOMAIN commands' : IsSet(k)' => k \in DOMAIN commands /\ IsSet(k) /\ commands'[k] = commands[k]
      /\ \A k \in DOMAIN commands : k \in DOMAIN commands' /\ commands'[k] = commands[k] /\ (IsSet(k)' <=> IsSet(k))
      /\ \A k \in DOMAIN commands' : k \in DOMAIN commands \/ k = last
  BY <1>5, <1>b, <1>d DEF IsSet
<1>c. commands'[last].kind # "remove" /\ last \in DOMAIN commands' /\ \A k \in DOMAIN commands : k < last
  BY <1>5, <1>b, <1>d
<1>9. TransactionsFit'
  BY <1>1, <1>2, <1>6, <1>8 DEF TransactionsFit
<1>10. SetCommandsFit'
  <2> SUFFICES ASSUME NEW k \in DOMAIN commands', IsSet(k)'
               PROVE  /\ \E j \in DOMAIN breakpoints' : /\ breakpoints'[j].who = commands'[k].who
                                                        /\ breakpoints'[j].enabled = commands'[k].enabled
                      /\ \A e \in DOMAIN engine' : engine'[e].who # commands'[k].who
    BY DEF SetCommandsFit
  <2>1. k \in DOMAIN commands /\ IsSet(k) /\ commands'[k] = commands[k]
    BY <1>8
  <2>2. PICK j \in DOMAIN breakpoints : /\ breakpoints[j].who = commands[k].who
                                        /\ breakpoints[j].enabled = commands[k].enabled
    BY <1>2, <2>1 DEF SetCommandsFit
  <2>3. commands[k].who # w
    BY <1>a, <2>1 DEF InSetCommand
  <2>4. j # i
    BY <2>2, <2>3 DEF w
  <2>5. \A e \in DOMAIN engine : engine[e].who # commands[k].who
    BY <1>2, <2>1 DEF SetCommandsFit
  <2> QED
    BY <1>1, <1>6, <2>1, <2>2, <2>4, <2>5
<1>11. SetEventsFit'
  <2>1. \A v : Listed(v)' <=> Listed(v)
    BY <1>6 DEF Listed
  <2>2. \A m \in DOMAIN dbgpEvents : dbgpEvents[m].id # d
    <3> SUFFICES ASSUME NEW m \in DOMAIN dbgpEvents PROVE dbgpEvents[m].id # d
      OBVIOUS
    <3>1. dbgpEvents[m].kind = "set"
      BY DEF SwitchStep, Tracked, SessionInv
    <3>2. dbgpEvents[m].transaction[2] # w
      BY <1>a, <3>1 DEF InSetEvent
    <3> QED
      BY <1>2, <1>3, <3>2 DEF SetEventsFit
  <2> SUFFICES ASSUME NEW m \in DOMAIN dbgpEvents
               PROVE  /\ dbgpEvents[m].id \in DOMAIN engine
                      /\ engine[dbgpEvents[m].id].who = dbgpEvents[m].transaction[2]
                      /\ Listed(dbgpEvents[m].transaction[2])
                      /\ \A k \in DOMAIN commands' : ~IsSet(k)' => commands'[k].id # dbgpEvents[m].id
    BY <1>1, <2>1 DEF SetEventsFit
  <2>3. /\ dbgpEvents[m].id \in DOMAIN engine
        /\ engine[dbgpEvents[m].id].who = dbgpEvents[m].transaction[2]
        /\ Listed(dbgpEvents[m].transaction[2])
        /\ \A k \in DOMAIN commands : ~IsSet(k) => commands[k].id # dbgpEvents[m].id
    BY <1>2 DEF SetEventsFit
  <2> QED
    BY <1>5, <1>8, <1>d, <2>2, <2>3
<1>12. IdsFit'
  <2>1. \A v : (InSetCommand(v)' <=> InSetCommand(v)) /\ (InSetEvent(v)' <=> InSetEvent(v))
    BY <1>1, <1>8 DEF InSetCommand, InSetEvent
  <2>2. \A k \in DOMAIN commands' : commands'[k].kind = "remove" => k \in DOMAIN commands /\ commands'[k] = commands[k]
    BY <1>8, <1>c
  <2> QED
    BY <1>1, <1>2, <1>6, <2>1, <2>2 DEF IdsFit
<1>13. EnabledFits'
  <2> SUFFICES ASSUME NEW j \in DOMAIN breakpoints, NEW e \in DOMAIN engine,
                      engine[e].who = breakpoints[j].who
               PROVE  /\ (\A k \in DOMAIN commands' : ~Switches(k, e)') => engine[e].enabled = breakpoints'[j].enabled
                      /\ \A k \in DOMAIN commands' :
                             Switches(k, e)' /\ (\A m \in DOMAIN commands' : k < m => ~Switches(m, e)')
                                 => (commands'[k].kind = "enable") = breakpoints'[j].enabled
    BY <1>1, <1>6 DEF EnabledFits
  <2>1. \A k \in DOMAIN commands : k \in DOMAIN commands' /\ commands'[k] = commands[k] /\ (Switches(k, e)' <=> Switches(k, e))
    BY <1>8 DEF Switches
  <2>2. Switches(last, e)' <=> e = d
    <3>1. Switches(last, e)' <=> commands'[last].kind \in {"enable", "disable"} /\ commands'[last].id = e
      BY DEF Switches
    <3> QED
      BY <1>5, <1>b, <3>1
  <2>3. CASE j = i
    <3>1. e = d
      BY <1>2, <1>3, <2>3 DEF EngineFits, w
    <3>2. Switches(last, e)'
      BY <2>2, <3>1
    <3>3. ~\A k \in DOMAIN commands' : ~Switches(k, e)'
      BY <1>c, <3>2
    <3>4. ASSUME NEW k \in DOMAIN commands', \A m \in DOMAIN commands' : k < m => ~Switches(m, e)'
          PROVE  (commands'[k].kind = "enable") = breakpoints'[j].enabled
      <4>1. ~(k < last)
        BY <1>c, <3>2, <3>4
      <4>2. k = last
        BY <1>8, <1>c, <4>1
      <4>3. commands'[k].kind = Switch(on)
        BY <1>5, <4>2
      <4> QED
        BY <1>6, <1>b, <2>3, <4>3
    <3> QED
      BY <3>3, <3>4
  <2>4. CASE j # i
    <3>1. e # d
      BY <1>3, <1>7, <2>4
    <3>2. ~Switches(last, e)'
      BY <2>2, <3>1
    <3>3. /\ (\A k \in DOMAIN commands : ~Switches(k, e)) => engine[e].enabled = breakpoints[j].enabled
          /\ \A k \in DOMAIN commands :
                 Switches(k, e) /\ (\A l \in DOMAIN commands : k < l => ~Switches(l, e))
                     => (commands[k].kind = "enable") = breakpoints[j].enabled
      BY <1>2 DEF EnabledFits
    <3>4. breakpoints'[j].enabled = breakpoints[j].enabled
      BY <1>6, <2>4
    <3>5. (\A k \in DOMAIN commands' : ~Switches(k, e)') => engine[e].enabled = breakpoints'[j].enabled
      BY <2>1, <3>3, <3>4
    <3>6. ASSUME NEW k \in DOMAIN commands', Switches(k, e)',
                 \A m \in DOMAIN commands' : k < m => ~Switches(m, e)'
          PROVE  (commands'[k].kind = "enable") = breakpoints'[j].enabled
      <4>1. k # last
        BY <3>2, <3>6
      <4>2. k \in DOMAIN commands /\ Switches(k, e) /\ commands'[k] = commands[k]
        BY <1>8, <2>1, <3>6, <4>1
      <4>3. \A m \in DOMAIN commands : k < m => ~Switches(m, e)
        BY <2>1, <3>6
      <4> QED
        BY <3>3, <3>4, <4>2, <4>3
    <3> QED
      BY <3>5, <3>6
  <2> QED
    BY <2>3, <2>4
<1>14. EngineFits'
  <2>1. \A v : Listed(v)' <=> Listed(v)
    BY <1>6 DEF Listed
  <2> QED
    BY <1>1, <1>2, <1>8, <2>1 DEF EngineFits
<1>15. OldIds'
  <2>1. engineIds \in Nat /\ d \in 1 .. engineIds
    BY <1>3 DEF BreakpointsTypeOK, Ids
  <2> QED
    BY SMTT(30), <1>1, <1>2, <1>5, <1>8, <1>d, <2>1 DEF OldIds
<1> QED
  BY <1>9, <1>10, <1>11, <1>12, <1>13, <1>14, <1>15

\* A new breakpoint is at the end of the list; an active session is told of it.
NewBreakpoint(l, h) ==
    [who |-> adds + 1, line |-> l, enabled |-> TRUE, handle |-> h, id |-> 0,
     transaction |-> IF sessionActive THEN <<scripts, adds + 1>> ELSE <<0, 0>>]

LEMMA NewBreakpointFits ==
    ASSUME BreakpointsTypeOK, NEW l \in 1 .. lines, NEW h \in Handles, adds < MaxAdds
    PROVE  /\ NewBreakpoint(l, h) \in BreakpointsOfFile
           /\ NewBreakpoint(l, h).who = adds + 1 /\ NewBreakpoint(l, h).enabled = TRUE
           /\ sessionActive => NewBreakpoint(l, h).transaction = <<scripts, adds + 1>>
           /\ SetCommand(NewBreakpoint(l, h)) \in Commands
           /\ SetCommand(NewBreakpoint(l, h)).kind = "set"
           /\ SetCommand(NewBreakpoint(l, h)).who = adds + 1
           /\ SetCommand(NewBreakpoint(l, h)).enabled = TRUE
           /\ SetCommand(NewBreakpoint(l, h)).transaction = <<scripts, adds + 1>>
<1>1. adds \in 0 .. MaxAdds /\ scripts \in 0 .. MaxScripts /\ lines \in 1 .. MaxLines
      /\ sessionActive \in BOOLEAN
  BY DEF BreakpointsTypeOK
<1>2. adds + 1 \in Who /\ l \in -1 .. MaxLines /\ 0 \in Ids
  BY <1>1 DEF Who, Ids
<1>3. <<scripts, adds + 1>> \in Transactions /\ <<0, 0>> \in Transactions
  BY <1>1 DEF Transactions
<1> DEFINE t == IF sessionActive THEN <<scripts, adds + 1>> ELSE <<0, 0>>
<1>4. t \in Transactions /\ (sessionActive => t = <<scripts, adds + 1>>)
  BY <1>3
<1> HIDE DEF t
<1>5. NewBreakpoint(l, h) = [who |-> adds + 1, line |-> l, enabled |-> TRUE, handle |-> h, id |-> 0,
                            transaction |-> t]
  BY DEF NewBreakpoint, t
<1>6. /\ NewBreakpoint(l, h) \in BreakpointsOfFile
      /\ NewBreakpoint(l, h).who = adds + 1 /\ NewBreakpoint(l, h).enabled = TRUE
      /\ NewBreakpoint(l, h).transaction = t
  BY <1>2, <1>4, <1>5 DEF BreakpointsOfFile
<1>7. /\ SetCommand(NewBreakpoint(l, h)) \in Commands
      /\ SetCommand(NewBreakpoint(l, h)).kind = "set"
      /\ SetCommand(NewBreakpoint(l, h)).who = adds + 1
      /\ SetCommand(NewBreakpoint(l, h)).enabled = TRUE
      /\ SetCommand(NewBreakpoint(l, h)).transaction = <<scripts, adds + 1>>
  BY <1>2, <1>3, <1>6 DEF SetCommand, Commands
<1> QED
  BY <1>4, <1>6, <1>7

AdditionStep(b) ==
    /\ breakpoints' = Append(breakpoints, b) /\ adds' = adds + 1
    /\ commands' = IF sessionActive THEN Posted(<<SetCommand(b)>>) ELSE commands
    /\ UNCHANGED <<sessionActive, scripts, engineVars, dbgpEvents, loose>>

LEMMA ListWithOneMore ==
    ASSUME BreakpointsTypeOK, ListInv, NEW b \in BreakpointsOfFile, b.who = adds + 1, AdditionStep(b)
    PROVE  /\ breakpoints' \in Seq(BreakpointsOfFile) /\ ListInv'
           /\ DOMAIN breakpoints = 1 .. Len(breakpoints) /\ Len(breakpoints) \in Nat
           /\ DOMAIN breakpoints' = 1 .. Len(breakpoints) + 1
           /\ \A i \in DOMAIN breakpoints : breakpoints'[i] = breakpoints[i]
           /\ breakpoints'[Len(breakpoints) + 1] = b
           /\ \A i, j \in DOMAIN breakpoints' : breakpoints'[i].who = breakpoints'[j].who => i = j
<1>1. breakpoints \in Seq(BreakpointsOfFile) /\ adds \in Nat
  BY DEF BreakpointsTypeOK
<1>2. /\ DOMAIN breakpoints = 1 .. Len(breakpoints) /\ Len(breakpoints) \in Nat
      /\ \A i \in DOMAIN breakpoints : breakpoints[i].who \in Nat
  BY <1>1, ListIsASeq, BreakpointIsRecord DEF Who
<1>3. /\ breakpoints' \in Seq(BreakpointsOfFile) /\ Len(breakpoints') = Len(breakpoints) + 1
      /\ \A i \in DOMAIN breakpoints : breakpoints'[i] = breakpoints[i]
      /\ breakpoints'[Len(breakpoints) + 1] = b
      /\ adds' = adds + 1
  BY <1>1, <1>2, AppendProperties DEF AdditionStep
<1>4. DOMAIN breakpoints' = 1 .. Len(breakpoints) + 1
  BY <1>3, ListIsASeq
<1>5. \A i \in DOMAIN breakpoints' : (i \in DOMAIN breakpoints /\ i <= Len(breakpoints)) \/ i = Len(breakpoints) + 1
  BY <1>2, <1>4
<1>6. \A i \in DOMAIN breakpoints : breakpoints[i].who <= adds /\ i \in Nat
  BY <1>2 DEF ListInv
<1>7. \A i, j \in DOMAIN breakpoints' : i < j => breakpoints'[i].who < breakpoints'[j].who
  BY SMTT(30), <1>1, <1>2, <1>3, <1>4, <1>5, <1>6 DEF ListInv
<1>8. ListInv'
  BY SMTT(30), <1>1, <1>2, <1>3, <1>5, <1>6, <1>7 DEF ListInv
<1>9. \A i, j \in DOMAIN breakpoints' : breakpoints'[i].who = breakpoints'[j].who => i = j
  <2>1. \A i \in DOMAIN breakpoints' : i \in Nat /\ breakpoints'[i].who \in Nat
    BY <1>1, <1>2, <1>3, <1>4, <1>5
  <2> QED
    BY <1>7, <2>1
<1> QED
  BY <1>2, <1>3, <1>4, <1>8, <1>9

\* A breakpoint is added, and set if there is a session.
LEMMA AddingKeepsInv ==
    ASSUME BreakpointsTypeOK, BreakpointsInv, NEW l \in 1 .. lines, NEW h \in Handles, adds < MaxAdds,
           AdditionStep(NewBreakpoint(l, h))
    PROVE  commands' \in Seq(Commands) /\ SetsInv' /\ SessionInv' /\ KnownInv'
<1>a. PICK b, c : b = NewBreakpoint(l, h) /\ c = SetCommand(b)
  OBVIOUS
<1>b. AdditionStep(b)
  BY <1>a
<1>1. /\ sessionActive' = sessionActive /\ scripts' = scripts /\ engineUp' = engineUp
      /\ engineIds' = engineIds /\ engine' = engine /\ dbgpEvents' = dbgpEvents
      /\ loose' = loose /\ adds' = adds + 1 /\ adds \in Nat /\ engineIds \in Nat
  BY <1>b DEF engineVars, AdditionStep, BreakpointsTypeOK, Ids
<1>2. /\ b \in BreakpointsOfFile /\ b.who = adds + 1 /\ b.enabled = TRUE
      /\ sessionActive => b.transaction = <<scripts, adds + 1>>
      /\ c \in Commands /\ c.kind = "set" /\ c.who = adds + 1 /\ c.enabled = TRUE
      /\ c.transaction = <<scripts, adds + 1>>
  BY <1>a, NewBreakpointFits
<1>3. /\ DOMAIN breakpoints = 1 .. Len(breakpoints) /\ Len(breakpoints) \in Nat
      /\ DOMAIN breakpoints' = 1 .. Len(breakpoints) + 1
      /\ \A i \in DOMAIN breakpoints : breakpoints'[i] = breakpoints[i]
      /\ breakpoints'[Len(breakpoints) + 1] = b
  BY <1>2, <1>b, ListWithOneMore DEF BreakpointsInv
<1>4. commands \in Seq(Commands)
  BY DEF BreakpointsTypeOK
<1>5. /\ commands' = IF sessionActive /\ engineUp THEN commands \o <<c>> ELSE commands
  BY <1>a, <1>b DEF AdditionStep, Posted
<1>6. SetsInv /\ SessionInv /\ KnownInv /\ ListInv
  BY DEF BreakpointsInv
<1>7. CASE ~(sessionActive /\ engineUp)
  <2>1. commands' = commands /\ ~Tracked'
    BY <1>1, <1>5, <1>7 DEF Tracked
  <2>2. KnownInv'
    BY <2>1 DEF KnownInv
  <2>3. SessionInv'
    BY <1>1, <1>6, <2>1 DEF SessionInv, IsSet
  <2>4. SetsInv'
    <3>1. \A k \in DOMAIN commands : IsSet(k) => commands[k].who <= adds + 1
      <4> SUFFICES ASSUME NEW k \in DOMAIN commands, IsSet(k) PROVE commands[k].who <= adds + 1
        OBVIOUS
      <4>1. commands[k] \in Commands
        BY <1>4, ListIsASeq
      <4>2. commands[k].who \in Nat
        BY <4>1 DEF IsSet, Commands, Who
      <4> QED
        BY <1>1, <1>6, <4>2 DEF SetsInv
    <3>2. \A d \in DOMAIN engine : engine[d].who \in Nat
      BY DEF BreakpointsTypeOK, Who
    <3> QED
      BY <1>1, <1>6, <2>1, <3>1, <3>2 DEF SetsInv, IsSet
  <2> QED
    BY <1>4, <2>1, <2>2, <2>3, <2>4
<1>8. CASE sessionActive /\ engineUp
  <2>a. PICK last : last = Len(commands) + 1
    OBVIOUS
  <2>1. /\ commands' \in Seq(Commands) /\ DOMAIN commands' = DOMAIN commands \cup {last}
        /\ \A k \in DOMAIN commands : commands'[k] = commands[k] /\ k < last /\ k \in Nat
        /\ commands'[last] = c /\ last \in Nat
    BY <1>2, <1>4, <1>5, <1>8, <2>a, OneMoreCommand
  <2>b. PICK new : new = Len(breakpoints) + 1
    OBVIOUS
  <2>2. DOMAIN breakpoints' = DOMAIN breakpoints \cup {new} /\ breakpoints'[new] = b
    BY <1>3, <2>b
  <2>3. /\ \A k \in DOMAIN commands : k \in DOMAIN commands' /\ (IsSet(k)' <=> IsSet(k))
        /\ \A k \in DOMAIN commands' : ~IsSet(k)' => k \in DOMAIN commands
        /\ IsSet(last)'
    BY <1>2, <2>1 DEF IsSet
  <2>c. \A k \in DOMAIN commands : IsSet(k) => commands[k].who \in Nat
    BY <1>4, ListIsASeq DEF IsSet, Commands, Who
  <2>d. \A d \in DOMAIN engine : engine[d].who \in Nat /\ engine[d].who <= adds
    BY <1>6 DEF BreakpointsTypeOK, Who, SetsInv
  <2>4. SetsInv'
    <3>1. \A k \in DOMAIN commands : IsSet(k) =>
              engineIds < commands[k].who /\ commands[k].who <= adds /\ commands[k].who \in Nat
      BY <1>6, <2>c DEF SetsInv
    <3>2. \A k \in DOMAIN commands' : IsSet(k)' =>
              \/ k = last /\ commands'[k].who = adds + 1
              \/ k \in DOMAIN commands /\ IsSet(k) /\ commands'[k] = commands[k]
      BY <1>2, <2>1, <2>3
    <3>3. engineIds <= adds
      BY <1>6 DEF SetsInv
    <3>4. engineIds' <= adds' /\ \A d \in DOMAIN engine' : engine'[d].who <= adds'
      BY <1>1, <2>d, <3>3
    <3>5. \A k \in DOMAIN commands' : IsSet(k)' => engineIds' < commands'[k].who /\ commands'[k].who <= adds'
      BY <1>1, <3>1, <3>2, <3>3
    <3>6. \A k, m \in DOMAIN commands' :
              IsSet(k)' /\ IsSet(m)' /\ k < m => commands'[k].who < commands'[m].who
      <4> SUFFICES ASSUME NEW k \in DOMAIN commands', NEW m \in DOMAIN commands',
                          IsSet(k)', IsSet(m)', k < m
                   PROVE  commands'[k].who < commands'[m].who
        OBVIOUS
      <4>1. k # last
        BY <2>1, <3>2
      <4>2. CASE m = last
        BY SMTT(30), <1>1, <2>1, <3>1, <3>2, <4>1, <4>2
      <4>3. CASE m # last
        BY <1>6, <3>2, <4>1, <4>3 DEF SetsInv
      <4> QED
        BY <4>2, <4>3
    <3> QED
      BY <3>4, <3>5, <3>6 DEF SetsInv
  <2>5. SessionInv'
    BY <1>1, <1>6, <1>8, <2>1 DEF SessionInv
  <2>6. KnownInv'
    <3> SUFFICES ASSUME Tracked'
                 PROVE  /\ TransactionsFit' /\ SetCommandsFit' /\ SetEventsFit' /\ IdsFit'
                        /\ EnabledFits' /\ EngineFits' /\ OldIds'
      BY DEF KnownInv
    <3>1. /\ TransactionsFit /\ SetCommandsFit /\ SetEventsFit /\ IdsFit
          /\ EnabledFits /\ EngineFits /\ OldIds
      BY <1>1, <1>6 DEF KnownInv, Tracked
    <3>2. TransactionsFit'
      BY <1>1, <1>2, <1>3, <1>8, <2>1, <2>2, <2>3, <3>1 DEF TransactionsFit
    <3>3. SetCommandsFit'
      <4> SUFFICES ASSUME NEW k \in DOMAIN commands', IsSet(k)'
                   PROVE  /\ \E j \in DOMAIN breakpoints' : /\ breakpoints'[j].who = commands'[k].who
                                                            /\ breakpoints'[j].enabled = commands'[k].enabled
                          /\ \A e \in DOMAIN engine' : engine'[e].who # commands'[k].who
        BY DEF SetCommandsFit
      <4>1. CASE k = last
        <5>1. breakpoints'[new].who = commands'[k].who /\ breakpoints'[new].enabled = commands'[k].enabled
              /\ new \in DOMAIN breakpoints'
          BY <1>2, <2>1, <2>2, <4>1
        <5>2. \A e \in DOMAIN engine : engine[e].who # commands'[k].who
          BY <1>1, <1>2, <2>1, <2>d, <4>1
        <5> QED
          BY <1>1, <5>1, <5>2
      <4>2. CASE k \in DOMAIN commands
        <5>1. IsSet(k) /\ commands'[k] = commands[k]
          BY <2>1, <2>3, <4>2
        <5>2. /\ \E j \in DOMAIN breakpoints : /\ breakpoints[j].who = commands[k].who
                                               /\ breakpoints[j].enabled = commands[k].enabled
              /\ \A e \in DOMAIN engine : engine[e].who # commands[k].who
          BY <3>1, <4>2, <5>1 DEF SetCommandsFit
        <5> QED
          BY <1>1, <1>3, <2>2, <5>1, <5>2
      <4> QED
        BY <2>1, <4>1, <4>2
    <3>4. SetEventsFit'
      <4>1. \A v : Listed(v) => Listed(v)'
        BY <1>3, <2>2 DEF Listed
      <4> QED
        BY <1>1, <2>1, <2>3, <3>1, <4>1 DEF SetEventsFit
    <3>5. IdsFit'
      <4>1. \A v : InSetEvent(v)' <=> InSetEvent(v)
        BY <1>1 DEF InSetEvent
      <4>2. InSetCommand(b.who)' /\ \A v : InSetCommand(v) => InSetCommand(v)'
        <5>1. \A v : InSetCommand(v) => InSetCommand(v)'
          BY <2>1, <2>3 DEF InSetCommand
        <5>2. InSetCommand(b.who)'
          BY <1>2, <2>1, <2>3 DEF InSetCommand
        <5> QED
          BY <5>1, <5>2
      <4> SUFFICES ASSUME NEW j \in DOMAIN breakpoints',
                          ~InSetCommand(breakpoints[j].who)', ~InSetEvent(breakpoints[j].who)'
                   PROVE  /\ breakpoints'[j].id \in DOMAIN engine
                          /\ engine[breakpoints'[j].id].who = breakpoints'[j].who
                          /\ \A k \in DOMAIN commands' :
                                 commands'[k].kind = "remove" => commands'[k].id # breakpoints'[j].id
        BY <1>1 DEF IdsFit
      <4>3. j # new
        BY <2>2, <4>2
      <4>4. j \in DOMAIN breakpoints /\ breakpoints'[j] = breakpoints[j]
        BY <1>3, <2>2, <4>3
      <4>5. ~InSetCommand(breakpoints[j].who) /\ ~InSetEvent(breakpoints[j].who)
        BY <4>1, <4>2, <4>4
      <4>6. \A k \in DOMAIN commands' : commands'[k].kind = "remove" => k \in DOMAIN commands
        BY <1>2, <2>1
      <4> QED
        BY <2>1, <3>1, <4>4, <4>5, <4>6 DEF IdsFit
    <3>6. EnabledFits'
      <4>1. \A k, e : k \in DOMAIN commands' /\ Switches(k, e)' => k \in DOMAIN commands
        BY <1>2, <2>1 DEF Switches
      <4>2. \A k, e : k \in DOMAIN commands => (Switches(k, e)' <=> Switches(k, e))
        BY <2>1 DEF Switches
      <4> SUFFICES ASSUME NEW j \in DOMAIN breakpoints', NEW e \in DOMAIN engine,
                          engine[e].who = breakpoints'[j].who
                   PROVE  /\ (\A k \in DOMAIN commands' : ~Switches(k, e)') => engine[e].enabled = breakpoints'[j].enabled
                          /\ \A k \in DOMAIN commands' :
                                 Switches(k, e)' /\ (\A m \in DOMAIN commands' : k < m => ~Switches(m, e)')
                                     => (commands'[k].kind = "enable") = breakpoints'[j].enabled
        BY <1>1 DEF EnabledFits
      <4>3. j \in DOMAIN breakpoints /\ breakpoints'[j] = breakpoints[j]
        BY <1>1, <1>2, <1>3, <2>2, <2>d
      <4>4. /\ (\A k \in DOMAIN commands : ~Switches(k, e)) => engine[e].enabled = breakpoints[j].enabled
            /\ \A k \in DOMAIN commands :
                   Switches(k, e) /\ (\A m \in DOMAIN commands : k < m => ~Switches(m, e))
                       => (commands[k].kind = "enable") = breakpoints[j].enabled
        BY <3>1, <4>3 DEF EnabledFits
      <4> QED
        BY <2>1, <4>1, <4>2, <4>3, <4>4
    <3>7. EngineFits'
      <4>1. \A v : Listed(v) => Listed(v)'
        BY <1>3, <2>2 DEF Listed
      <4> QED
        BY <1>1, <2>1, <3>1, <4>1 DEF EngineFits
    <3>8. OldIds'
      BY <1>1, <2>1, <2>3, <3>1 DEF OldIds
    <3> QED
      BY <3>2, <3>3, <3>4, <3>5, <3>6, <3>7, <3>8
  <2> QED
    BY <2>1, <2>4, <2>5, <2>6
<1> QED
  BY <1>7, <1>8

\* In a list in order no two breakpoints are the same.
LEMMA WhosDiffer ==
    ASSUME breakpoints' \in Seq(BreakpointsOfFile), ListInv'
    PROVE  \A j, k \in DOMAIN breakpoints' : breakpoints'[j].who = breakpoints'[k].who => j = k
<1>1. DOMAIN breakpoints' = 1 .. Len(breakpoints') /\ Len(breakpoints') \in Nat
      /\ \A j \in DOMAIN breakpoints' : breakpoints'[j] \in BreakpointsOfFile
  BY ListIsASeq
<1>2. \A j \in DOMAIN breakpoints' : breakpoints'[j].who \in Nat
  BY <1>1, BreakpointIsRecord DEF Who
<1>3. \A j, k \in DOMAIN breakpoints' : j < k => breakpoints'[j].who < breakpoints'[k].who
  BY DEF ListInv
<1>4. \A j \in DOMAIN breakpoints' : j \in Nat
  BY <1>1
<1> QED
  BY <1>2, <1>3, <1>4

\* OnMarginClick and OnToggleBreakpoint keep the invariant.
LEMMA TogglingKeepsInv ==
    ASSUME BreakpointsTypeOK, BreakpointsInv, NEW l \in 1 .. lines, ToggleBreakpoint(l)
    PROVE  BreakpointsTypeOK' /\ BreakpointsInv'
<1>1. /\ openInEditor' = openInEditor /\ lines' = lines /\ sessionActive' = sessionActive
      /\ scripts' = scripts /\ engineUp' = engineUp
      /\ engineIds' = engineIds /\ engine' = engine /\ dbgpEvents' = dbgpEvents
  BY DEF ToggleBreakpoint, engineVars
<1>2. /\ breakpoints \in Seq(BreakpointsOfFile) /\ adds \in Nat /\ commands \in Seq(Commands)
      /\ adds \in 0 .. MaxAdds
  BY DEF BreakpointsTypeOK
<1>3. MarkersFit(markers, lines) /\ lines \in 1 .. MaxLines
  BY MarkersAreFit
<1>4. ListInv /\ SetsInv /\ SessionInv /\ KnownInv
  BY DEF BreakpointsInv
<1> DEFINE h == FreshHandle(markers, breakpoints)
           i == First(l)
<1>5. CASE i = 0
  <2>1. /\ h <= MaxMarkers /\ markers' = Marked(markers, h, l) /\ loose' = loose
        /\ AddBreakpointAtLine(l, h)
    BY <1>5 DEF ToggleBreakpoint
  <2>2. h \in Handles /\ h \in Nat
    BY <2>1, FreshHandleIsNew DEF Handles
  <2> HIDE DEF h
  <2>3. AdditionStep(NewBreakpoint(l, h)) /\ adds < MaxAdds
    BY <1>1, <2>1 DEF AddBreakpointAtLine, AdditionStep, NewBreakpoint, engineVars
  <2>4. NewBreakpoint(l, h) \in BreakpointsOfFile /\ NewBreakpoint(l, h).who = adds + 1
    BY <2>2, <2>3, NewBreakpointFits
  <2>5. /\ breakpoints' \in Seq(BreakpointsOfFile) /\ ListInv'
        /\ \A j, k \in DOMAIN breakpoints' : breakpoints'[j].who = breakpoints'[k].who => j = k
    BY <1>4, <2>3, <2>4, ListWithOneMore
  <2>6. commands' \in Seq(Commands) /\ SetsInv' /\ SessionInv' /\ KnownInv'
    BY <2>2, <2>3, AddingKeepsInv
  <2>7. MarkersFit(markers', lines)
    BY <1>3, <2>1, <2>2, MarkedFits
  <2>8. adds' \in 0 .. MaxAdds
    BY <1>2, <2>1, <2>3 DEF AdditionStep
  <2>9. BreakpointsTypeOK'
    BY <1>1, <2>1, <2>5, <2>6, <2>7, <2>8 DEF BreakpointsTypeOK, MarkersFit
  <2> QED
    BY <2>5, <2>6, <2>9 DEF BreakpointsInv
<1>6. CASE i # 0
  <2>1. /\ breakpoints' = Without(i) /\ markers' \in Unmarked(markers, l) /\ adds' = adds
        /\ commands' = IF sessionActive THEN Posted(<<[kind |-> "remove", id |-> breakpoints[i].id]>>)
                       ELSE commands
        /\ loose' = (loose \/ Misses(breakpoints[i], breakpoints[i]))
    BY <1>6 DEF ToggleBreakpoint
  <2>2. i \in DOMAIN breakpoints
    BY <1>2, <1>6, FirstOrNone
  <2> HIDE DEF i
  <2>3. breakpoints[i].id \in Ids
    BY <1>2, <2>2, ListIsASeq, BreakpointIsRecord
  <2>4. /\ breakpoints' \in Seq(BreakpointsOfFile) /\ ListInv'
    BY <1>2, <1>4, <2>1, <2>2, ListWithoutOne
  <2>5. \A j, k \in DOMAIN breakpoints' : breakpoints'[j].who = breakpoints'[k].who => j = k
    BY <2>4, WhosDiffer
  <2>6. IdPosted("remove", breakpoints[i].id)
    BY <2>1 DEF IdPosted, Posted
  <2>7. commands' \in Seq(Commands) /\ SetsInv' /\ SessionInv'
    BY <1>1, <1>2, <1>4, <2>1, <2>3, <2>6, IdCommandPosted DEF IdKinds, engineVars
  <2>8. RemovalStep(i)
    <3>1. ASSUME Tracked'
          PROVE  /\ Tracked
                 /\ commands' = commands \o <<[kind |-> "remove", id |-> breakpoints[i].id]>>
                 /\ ~InSetCommand(breakpoints[i].who) /\ ~InSetEvent(breakpoints[i].who)
      <4>1. Tracked /\ engineUp /\ sessionActive /\ ~Misses(breakpoints[i], breakpoints[i])
        BY <1>1, <2>1, <3>1 DEF Tracked
      <4> QED
        BY <1>2, <1>4, <2>1, <2>2, <4>1, NotMissed DEF Posted
    <3> QED
      BY <1>1, <2>1, <3>1 DEF RemovalStep, engineVars
  <2>9. KnownInv'
    BY <1>2, <1>4, <2>2, <2>8, RemovingKeepsKnown
  <2>10. MarkersFit(markers', lines)
    BY <1>3, <2>1, UnmarkedFits
  <2>11. loose' \in BOOLEAN
    BY <2>1 DEF BreakpointsTypeOK
  <2>12. BreakpointsTypeOK'
    BY <1>1, <2>1, <2>4, <2>5, <2>7, <2>10, <2>11 DEF BreakpointsTypeOK, MarkersFit
  <2> QED
    BY <2>4, <2>7, <2>9, <2>12 DEF BreakpointsInv
<1> QED
  BY <1>5, <1>6

\* So do the commands of the panel.
LEMMA PanelRemoveKeepsInv ==
    ASSUME BreakpointsTypeOK, BreakpointsInv, NEW i \in DOMAIN breakpoints, BreakpointRemove(i)
    PROVE  BreakpointsTypeOK' /\ BreakpointsInv'
<1> DEFINE f == First(breakpoints[i].line)
<1>1. /\ openInEditor' = openInEditor /\ lines' = lines /\ sessionActive' = sessionActive
      /\ scripts' = scripts /\ engineUp' = engineUp /\ adds' = adds
      /\ engineIds' = engineIds /\ engine' = engine /\ dbgpEvents' = dbgpEvents
  BY DEF BreakpointRemove, PanelCommand, engineVars
<1>2. /\ breakpoints \in Seq(BreakpointsOfFile) /\ adds \in Nat /\ commands \in Seq(Commands)
  BY DEF BreakpointsTypeOK
<1>3. MarkersFit(markers, lines) /\ lines \in 1 .. MaxLines
  BY MarkersAreFit
<1>4. ListInv /\ SetsInv /\ SessionInv /\ KnownInv
  BY DEF BreakpointsInv
<1>5. /\ breakpoints' = Without(f)
      /\ markers' \in IF openInEditor THEN Unmarked(markers, breakpoints[i].line) ELSE {markers}
      /\ commands' = Posted(<<[kind |-> "remove", id |-> breakpoints[i].id]>>)
      /\ loose' = (loose \/ Misses(breakpoints[i], breakpoints[f]))
  BY DEF BreakpointRemove, PanelCommand
<1>6. f \in DOMAIN breakpoints
  BY <1>2, FirstIsFirst
<1> HIDE DEF f
<1>7. breakpoints[i].id \in Ids
  BY <1>2, ListIsASeq, BreakpointIsRecord
<1>8. breakpoints' \in Seq(BreakpointsOfFile) /\ ListInv'
  BY <1>1, <1>2, <1>4, <1>5, <1>6, ListWithoutOne
<1>9. \A j, k \in DOMAIN breakpoints' : breakpoints'[j].who = breakpoints'[k].who => j = k
  BY <1>8, WhosDiffer
<1>10. IdPosted("remove", breakpoints[i].id)
  BY <1>5 DEF IdPosted, Posted
<1>11. commands' \in Seq(Commands) /\ SetsInv' /\ SessionInv'
  BY <1>1, <1>2, <1>4, <1>7, <1>10, IdCommandPosted DEF IdKinds, engineVars
<1>12. RemovalStep(f)
  <2>1. ASSUME Tracked'
        PROVE  /\ Tracked
               /\ commands' = commands \o <<[kind |-> "remove", id |-> breakpoints[f].id]>>
               /\ ~InSetCommand(breakpoints[f].who) /\ ~InSetEvent(breakpoints[f].who)
    <3>1. Tracked /\ engineUp /\ sessionActive /\ ~Misses(breakpoints[i], breakpoints[f])
      BY <1>1, <1>5, <2>1 DEF Tracked
    <3>2. i = f /\ ~InSetCommand(breakpoints[i].who) /\ ~InSetEvent(breakpoints[i].who)
      BY <1>2, <1>4, <1>6, <3>1, NotMissed
    <3> QED
      BY <1>5, <3>1, <3>2 DEF Posted
  <2> QED
    BY <1>1, <1>5, <2>1 DEF RemovalStep, engineVars
<1>13. KnownInv'
  BY <1>2, <1>4, <1>6, <1>12, RemovingKeepsKnown
<1>14. MarkersFit(markers', lines)
  BY <1>3, <1>5, UnmarkedFits
<1>15. loose' \in BOOLEAN
  BY <1>5 DEF BreakpointsTypeOK
<1>16. BreakpointsTypeOK'
  BY <1>1, <1>8, <1>9, <1>11, <1>14, <1>15 DEF BreakpointsTypeOK, MarkersFit
<1> QED
  BY <1>8, <1>11, <1>13, <1>16 DEF BreakpointsInv

\* The panel enables or disables the first breakpoint of a line.
LEMMA PanelSwitchKeepsInv ==
    ASSUME BreakpointsTypeOK, BreakpointsInv, NEW i \in DOMAIN breakpoints, NEW on \in BOOLEAN,
           NEW f, f = First(breakpoints[i].line), NEW b \in BreakpointsOfFile,
           b.who = breakpoints[f].who, b.id = breakpoints[f].id,
           b.transaction = breakpoints[f].transaction, b.enabled = on,
           breakpoints' = [breakpoints EXCEPT ![f] = b], MarkersFit(markers', lines),
           PanelCommand(i, Switch(on))
    PROVE  BreakpointsTypeOK' /\ BreakpointsInv'
<1>1. /\ openInEditor' = openInEditor /\ lines' = lines /\ sessionActive' = sessionActive
      /\ scripts' = scripts /\ engineUp' = engineUp /\ adds' = adds
      /\ engineIds' = engineIds /\ engine' = engine /\ dbgpEvents' = dbgpEvents
  BY DEF PanelCommand, engineVars
<1>2. /\ breakpoints \in Seq(BreakpointsOfFile) /\ adds \in Nat /\ commands \in Seq(Commands)
  BY DEF BreakpointsTypeOK
<1>3. lines \in 1 .. MaxLines
  BY DEF BreakpointsTypeOK
<1>4. ListInv /\ SetsInv /\ SessionInv /\ KnownInv
  BY DEF BreakpointsInv
<1>5. /\ commands' = Posted(<<[kind |-> Switch(on), id |-> breakpoints[i].id]>>)
      /\ loose' = (loose \/ Misses(breakpoints[i], breakpoints[f]))
  BY DEF PanelCommand
<1>6. f \in DOMAIN breakpoints
  BY <1>2, FirstIsFirst
<1>7. breakpoints[i].id \in Ids /\ Switch(on) \in IdKinds
  BY <1>2, ListIsASeq, BreakpointIsRecord, SwitchIsKind
<1>8. /\ breakpoints' \in Seq(BreakpointsOfFile) /\ Len(breakpoints') = Len(breakpoints)
      /\ DOMAIN breakpoints' = DOMAIN breakpoints
      /\ \A j \in DOMAIN breakpoints : breakpoints'[j] = IF j = f THEN b ELSE breakpoints[j]
  <2>1. DOMAIN breakpoints = 1 .. Len(breakpoints)
    BY <1>2, ListIsASeq
  <2>2. /\ breakpoints' \in Seq(BreakpointsOfFile) /\ Len(breakpoints') = Len(breakpoints)
        /\ \A j \in 1 .. Len(breakpoints) : breakpoints'[j] = IF j = f THEN b ELSE breakpoints[j]
    BY <1>2, <1>6, <2>1, ExceptSeq
  <2> QED
    BY <2>1, <2>2, ListIsASeq
<1>9. \A j \in DOMAIN breakpoints :
          /\ breakpoints'[j].who = breakpoints[j].who
          /\ breakpoints'[j].id = breakpoints[j].id
          /\ breakpoints'[j].transaction = breakpoints[j].transaction
          /\ breakpoints'[j].enabled = IF j = f THEN on ELSE breakpoints[j].enabled
  BY <1>8
<1>10. ListInv'
  BY <1>1, <1>4, <1>8, <1>9 DEF ListInv
<1>11. \A j, k \in DOMAIN breakpoints' : breakpoints'[j].who = breakpoints'[k].who => j = k
  BY <1>8, <1>10, WhosDiffer
<1>12. IdPosted(Switch(on), breakpoints[i].id)
  BY <1>5 DEF IdPosted, Posted
<1>13. commands' \in Seq(Commands) /\ SetsInv' /\ SessionInv'
  BY <1>1, <1>2, <1>4, <1>7, <1>12, IdCommandPosted DEF engineVars
<1>14. SwitchStep(f, on)
  <2>1. ASSUME Tracked'
        PROVE  /\ Tracked
               /\ commands' = commands \o <<[kind |-> Switch(on), id |-> breakpoints[f].id]>>
               /\ ~InSetCommand(breakpoints[f].who) /\ ~InSetEvent(breakpoints[f].who)
    <3>1. Tracked /\ engineUp /\ sessionActive /\ ~Misses(breakpoints[i], breakpoints[f])
      BY <1>1, <1>5, <2>1 DEF Tracked
    <3>2. i = f /\ ~InSetCommand(breakpoints[i].who) /\ ~InSetEvent(breakpoints[i].who)
      BY <1>2, <1>4, <1>6, <3>1, NotMissed
    <3> QED
      BY <1>5, <3>1, <3>2 DEF Posted
  <2> QED
    BY <1>1, <1>8, <1>9, <2>1 DEF SwitchStep, engineVars
<1>15. KnownInv'
  BY <1>2, <1>4, <1>6, <1>14, SwitchingKeepsKnown
<1>16. loose' \in BOOLEAN
  BY <1>5 DEF BreakpointsTypeOK
<1>17. BreakpointsTypeOK'
  BY <1>1, <1>8, <1>11, <1>13, <1>16 DEF BreakpointsTypeOK, MarkersFit
<1> QED
  BY <1>10, <1>13, <1>15, <1>17 DEF BreakpointsInv

LEMMA DisablingKeepsInv ==
    ASSUME BreakpointsTypeOK, BreakpointsInv, NEW i \in DOMAIN breakpoints, BreakpointDisable(i)
    PROVE  BreakpointsTypeOK' /\ BreakpointsInv'
<1>1. PICK f : f = First(breakpoints[i].line)
  OBVIOUS
<1>2. breakpoints \in Seq(BreakpointsOfFile)
  BY DEF BreakpointsTypeOK
<1>3. f \in DOMAIN breakpoints /\ breakpoints[f] \in BreakpointsOfFile
  BY <1>1, <1>2, FirstIsFirst, ListIsASeq
<1>4. PICK b : b = [breakpoints[f] EXCEPT !.enabled = FALSE]
  OBVIOUS
<1>5. /\ b \in BreakpointsOfFile /\ b.who = breakpoints[f].who /\ b.id = breakpoints[f].id
      /\ b.transaction = breakpoints[f].transaction /\ b.enabled = FALSE
  BY <1>3, <1>4, EnabledChanged
<1>6. breakpoints' = [breakpoints EXCEPT ![f] = b]
  BY <1>1, <1>4 DEF BreakpointDisable
<1>7. MarkersFit(markers', lines)
  BY MarkersAreFit, UnmarkedFits DEF BreakpointDisable
<1>8. PanelCommand(i, Switch(FALSE))
  BY DEF BreakpointDisable, Switch
<1> QED
  BY <1>1, <1>5, <1>6, <1>7, <1>8, PanelSwitchKeepsInv

LEMMA EnablingKeepsInv ==
    ASSUME BreakpointsTypeOK, BreakpointsInv, NEW i \in DOMAIN breakpoints, BreakpointEnable(i)
    PROVE  BreakpointsTypeOK' /\ BreakpointsInv'
<1>1. PICK f : f = First(breakpoints[i].line)
  OBVIOUS
<1>2. breakpoints \in Seq(BreakpointsOfFile)
  BY DEF BreakpointsTypeOK
<1>3. f \in DOMAIN breakpoints /\ breakpoints[f] \in BreakpointsOfFile
  BY <1>1, <1>2, FirstIsFirst, ListIsASeq
<1> DEFINE l == breakpoints[i].line
           marked == openInEditor /\ l \in 1 .. lines
<1>4. PICK h : h = IF marked THEN FreshHandle(markers, breakpoints) ELSE IF openInEditor THEN 0 ELSE -1
  OBVIOUS
<1>5. /\ h <= MaxMarkers
      /\ markers' = IF marked THEN Marked(markers, h, l) ELSE markers
      /\ breakpoints' = [breakpoints EXCEPT ![f].enabled = TRUE, ![f].handle = h]
      /\ PanelCommand(i, Switch(TRUE))
  BY <1>1, <1>4 DEF BreakpointEnable, Switch
<1>6. h \in Handles
  <2>1. CASE marked
    <3>1. h \in 1 .. MaxMarkers + 1
      BY <1>4, <2>1, FreshHandleIsNew
    <3> QED
      BY <1>5, <3>1 DEF Handles
  <2>2. CASE ~marked
    BY <1>4, <2>2 DEF Handles
  <2> QED
    BY <2>1, <2>2
<1>7. PICK b : b = [[breakpoints[f] EXCEPT !.enabled = TRUE] EXCEPT !.handle = h]
  OBVIOUS
<1>8. /\ b \in BreakpointsOfFile /\ b.who = breakpoints[f].who /\ b.id = breakpoints[f].id
      /\ b.transaction = breakpoints[f].transaction /\ b.enabled = TRUE
  <2>1. PICK a : a = [breakpoints[f] EXCEPT !.enabled = TRUE]
    OBVIOUS
  <2>2. /\ a \in BreakpointsOfFile /\ a.who = breakpoints[f].who /\ a.id = breakpoints[f].id
        /\ a.transaction = breakpoints[f].transaction /\ a.enabled = TRUE
    BY <1>3, <2>1, EnabledChanged
  <2> QED
    BY <1>6, <1>7, <2>1, <2>2, HandleChanged
<1>9. breakpoints' = [breakpoints EXCEPT ![f] = b]
  <2>1. breakpoints' = [breakpoints EXCEPT ![f] = [[breakpoints[f] EXCEPT !.enabled = TRUE] EXCEPT !.handle = h]]
    BY <1>3, <1>5
  <2> QED
    BY <1>7, <2>1
<1>10. MarkersFit(markers', lines)
  BY <1>5, <1>6, MarkersAreFit, MarkedFits
<1> QED
  BY ZenonT(60), <1>1, <1>5, <1>8, <1>9, <1>10, PanelSwitchKeepsInv

\* Posting several commands puts them behind the others.
LEMMA MoreCommands ==
    ASSUME commands \in Seq(Commands), NEW cs \in Seq(Commands)
    PROVE  /\ commands \o cs \in Seq(Commands)
           /\ DOMAIN commands = 1 .. Len(commands) /\ Len(commands) \in Nat
           /\ DOMAIN cs = 1 .. Len(cs) /\ Len(cs) \in Nat
           /\ DOMAIN (commands \o cs) = 1 .. Len(commands) + Len(cs)
           /\ \A k \in DOMAIN commands : (commands \o cs)[k] = commands[k]
           /\ \A k \in DOMAIN (commands \o cs) : k \notin DOMAIN commands =>
                  k - Len(commands) \in DOMAIN cs /\ (commands \o cs)[k] = cs[k - Len(commands)]
           /\ \A k \in DOMAIN cs : Len(commands) + k \in DOMAIN (commands \o cs)
                                       /\ (commands \o cs)[Len(commands) + k] = cs[k]
<1>1. /\ DOMAIN commands = 1 .. Len(commands) /\ Len(commands) \in Nat
      /\ DOMAIN cs = 1 .. Len(cs) /\ Len(cs) \in Nat
  BY ListIsASeq
<1>2. /\ commands \o cs \in Seq(Commands)
      /\ Len(commands \o cs) = Len(commands) + Len(cs)
      /\ \A k \in 1 .. Len(commands) + Len(cs) :
             (commands \o cs)[k] = IF k <= Len(commands) THEN commands[k] ELSE cs[k - Len(commands)]
  BY ConcatProperties
<1>3. DOMAIN (commands \o cs) = 1 .. Len(commands) + Len(cs)
  BY <1>2, ListIsASeq
<1>4. PICK all, n, m : all = commands \o cs /\ n = Len(commands) /\ m = Len(cs)
  OBVIOUS
<1>5. \A k \in 1 .. n : all[k] = commands[k]
  BY <1>1, <1>2, <1>4
<1>6. \A k \in 1 .. n + m : k \notin 1 .. n => k - n \in 1 .. m /\ all[k] = cs[k - n]
  BY <1>1, <1>2, <1>4
<1>7. \A k \in 1 .. m : n + k \in 1 .. n + m /\ all[n + k] = cs[k]
  <2> TAKE k \in 1 .. m
  <2>1. n + k \in 1 .. n + m /\ ~(n + k <= n) /\ (n + k) - n = k
    BY <1>1, <1>4
  <2>2. all[n + k] = cs[(n + k) - n]
    BY <1>2, <1>4, <2>1
  <2> QED
    BY <2>1, <2>2
<1> QED
  BY <1>1, <1>2, <1>3, <1>4, <1>5, <1>6, <1>7

\* Finish gives commands with ids that nothing is claimed of.
LEMMA FinishingKeepsInv ==
    ASSUME BreakpointsTypeOK, BreakpointsInv, Finish
    PROVE  BreakpointsTypeOK' /\ BreakpointsInv'
<1>1. /\ openInEditor' = openInEditor /\ lines' = lines /\ markers' = markers
      /\ breakpoints' = breakpoints /\ sessionActive' = sessionActive
      /\ scripts' = scripts /\ engineUp' = engineUp /\ adds' = adds
      /\ engineIds' = engineIds /\ engine' = engine /\ dbgpEvents' = dbgpEvents
      /\ loose' = TRUE
  BY DEF Finish, engineVars, editorVars
<1>2. /\ breakpoints \in Seq(BreakpointsOfFile) /\ commands \in Seq(Commands)
  BY DEF BreakpointsTypeOK
<1>3. ListInv /\ SetsInv /\ SessionInv
  BY DEF BreakpointsInv
<1> DEFINE S == {i \in DOMAIN breakpoints : breakpoints[i].enabled}
<1>4. PICK is \in LeastFirst(S) :
          commands' = Posted([k \in DOMAIN is |-> [kind |-> "disable", id |-> breakpoints[is[k]].id]])
  BY DEF Finish
<1>5. Cardinality(S) \in Nat
  <2>1. DOMAIN breakpoints = 1 .. Len(breakpoints) /\ Len(breakpoints) \in Nat
    BY <1>2, ListIsASeq
  <2>2. IsFiniteSet(DOMAIN breakpoints)
    BY <2>1, FS_Interval
  <2>3. IsFiniteSet(S)
    BY <2>2, FS_Subset
  <2> QED
    BY <2>3, FS_CardinalityType
<1>6. DOMAIN is = 1 .. Cardinality(S) /\ \A k \in DOMAIN is : is[k] \in DOMAIN breakpoints
  BY <1>4 DEF LeastFirst
<1> HIDE DEF S
<1>7. PICK n \in Nat : DOMAIN is = 1 .. n
  BY <1>5, <1>6
<1>8. PICK cs : cs = [k \in 1 .. n |-> [kind |-> "disable", id |-> breakpoints[is[k]].id]]
  OBVIOUS
<1>9. \A k \in 1 .. n : cs[k] \in Commands /\ cs[k].kind = "disable"
  <2> TAKE k \in 1 .. n
  <2>1. breakpoints[is[k]].id \in Ids
    BY <1>2, <1>6, <1>7, ListIsASeq, BreakpointIsRecord
  <2>2. cs[k] = [kind |-> "disable", id |-> breakpoints[is[k]].id]
    BY <1>8
  <2> QED
    BY <2>1, <2>2, IdCommand DEF IdKinds
<1>10. cs \in Seq(Commands) /\ DOMAIN cs = 1 .. n
  <2>1. cs \in [1 .. n -> Commands]
    BY <1>8, <1>9
  <2> QED
    BY <2>1, Numbered
<1>11. commands' = IF engineUp THEN commands \o cs ELSE commands
  BY <1>4, <1>7, <1>8 DEF Posted
<1>12. commands' \in Seq(Commands)
       /\ \A k \in DOMAIN commands' : IsSet(k)' => k \in DOMAIN commands /\ IsSet(k) /\ commands'[k] = commands[k]
  <2>1. CASE engineUp
    <3>1. commands' \in Seq(Commands)
      BY <1>2, <1>10, <1>11, <2>1, MoreCommands
    <3>2. \A k \in DOMAIN commands' : \/ k \in DOMAIN commands /\ commands'[k] = commands[k]
                                      \/ commands'[k].kind = "disable"
      BY SMTT(30), <1>2, <1>9, <1>10, <1>11, <2>1, MoreCommands
    <3> QED
      BY <3>1, <3>2 DEF IsSet
  <2>2. CASE ~engineUp
    BY <1>2, <1>11, <2>2 DEF IsSet
  <2> QED
    BY <2>1, <2>2
<1>13. SetsInv'
  BY <1>1, <1>3, <1>12 DEF SetsInv
<1>14. SessionInv'
  BY <1>1, <1>3, <1>11, <1>12 DEF SessionInv
<1>15. ListInv' /\ KnownInv'
  BY <1>1, <1>3 DEF ListInv, KnownInv, Tracked
<1>16. BreakpointsTypeOK'
  BY <1>1, <1>12 DEF BreakpointsTypeOK
<1> QED
  BY <1>13, <1>14, <1>15, <1>16 DEF BreakpointsInv

\* A script connects, and ends.
LEMMA ConnectingKeepsInv ==
    ASSUME BreakpointsTypeOK, BreakpointsInv, ScriptConnects
    PROVE  BreakpointsTypeOK' /\ BreakpointsInv'
<1>1. /\ openInEditor' = openInEditor /\ lines' = lines /\ markers' = markers
      /\ breakpoints' = breakpoints /\ sessionActive' = sessionActive
      /\ commands' = commands /\ adds' = adds
      /\ scripts' = scripts + 1 /\ scripts < MaxScripts
      /\ engineUp' = TRUE /\ engineIds' = 0 /\ engine' = << >> /\ loose' = FALSE
      /\ ~engineUp /\ dbgpEvents = << >> /\ dbgpEvents' = <<[kind |-> "init"]>>
  BY DEF ScriptConnects, editorVars
<1>2. ListInv /\ SetsInv /\ SessionInv
  BY DEF BreakpointsInv
<1>3. commands = << >> /\ ~sessionActive
  BY <1>1, <1>2 DEF SessionInv
<1>4. ListInv' /\ KnownInv'
  BY <1>1, <1>2, <1>3 DEF ListInv, KnownInv, Tracked
<1>5. SetsInv'
  BY <1>1, <1>3 DEF SetsInv, IsSet, BreakpointsTypeOK
<1>6. SessionInv'
  BY <1>1, <1>3 DEF SessionInv, IsSet
<1>7. dbgpEvents' \in Seq(DbgpEvents)
  BY <1>1 DEF DbgpEvents
<1>8. scripts' \in 0 .. MaxScripts /\ engineIds' \in Ids /\ DOMAIN engine' = {}
  BY <1>1 DEF BreakpointsTypeOK, Ids
<1>9. BreakpointsTypeOK'
  BY <1>1, <1>7, <1>8 DEF BreakpointsTypeOK
<1> QED
  BY <1>4, <1>5, <1>6, <1>9 DEF BreakpointsInv

LEMMA ScriptEndKeepsInv ==
    ASSUME BreakpointsTypeOK, BreakpointsInv, ScriptEnds
    PROVE  BreakpointsTypeOK' /\ BreakpointsInv'
<1>1. /\ openInEditor' = openInEditor /\ lines' = lines /\ markers' = markers
      /\ breakpoints' = breakpoints /\ sessionActive' = sessionActive
      /\ adds' = adds /\ scripts' = scripts /\ loose' = loose
      /\ commands' = << >> /\ engineUp' = FALSE /\ engineIds' = 0 /\ engine' = << >>
      /\ dbgpEvents' = Append(dbgpEvents, [kind |-> "end"])
  BY DEF ScriptEnds, editorVars
<1>2. ListInv /\ SetsInv /\ SessionInv /\ dbgpEvents \in Seq(DbgpEvents)
  BY DEF BreakpointsInv, BreakpointsTypeOK
<1>a. [kind |-> "end"] \in DbgpEvents
  BY DEF DbgpEvents
<1>3. PICK e \in DbgpEvents : e = [kind |-> "end"]
  BY <1>a
<1>4. /\ dbgpEvents' \in Seq(DbgpEvents) /\ dbgpEvents' # << >>
      /\ dbgpEvents'[Len(dbgpEvents')] = e
  BY <1>1, <1>2, <1>3, AppendProperties
<1>5. ListInv' /\ KnownInv'
  BY <1>1, <1>2 DEF ListInv, KnownInv, Tracked
<1>6. SetsInv'
  BY <1>1 DEF SetsInv, IsSet, BreakpointsTypeOK
<1>7. SessionInv'
  BY <1>1, <1>3, <1>4 DEF SessionInv
<1>8. engineIds' \in Ids /\ DOMAIN engine' = {} /\ commands' \in Seq(Commands)
  BY <1>1 DEF BreakpointsTypeOK, Ids
<1>9. BreakpointsTypeOK'
  BY <1>1, <1>4, <1>8 DEF BreakpointsTypeOK
<1> QED
  BY <1>5, <1>6, <1>7, <1>9 DEF BreakpointsInv

\* What was so of the last command that switches d is still so when the command in
\* front, which does not, is taken.
LEMMA TailSwitches ==
    ASSUME NEW d, NEW x, NEW y,
           1 \in DOMAIN commands, DOMAIN commands \subseteq Nat, DOMAIN commands' \subseteq Nat,
           \A k \in DOMAIN commands' : k + 1 \in DOMAIN commands /\ commands'[k] = commands[k + 1],
           \A k \in DOMAIN commands : k = 1 \/ k - 1 \in DOMAIN commands',
           ~Switches(1, d),
           \A k \in DOMAIN commands' : Switches(k, d)' <=> Switches(k + 1, d),
           (\A k \in DOMAIN commands : ~Switches(k, d)) => x,
           \A k \in DOMAIN commands :
               Switches(k, d) /\ (\A m \in DOMAIN commands : k < m => ~Switches(m, d))
                   => (commands[k].kind = "enable") = y
    PROVE  /\ (\A k \in DOMAIN commands' : ~Switches(k, d)') => x
           /\ \A k \in DOMAIN commands' :
                  Switches(k, d)' /\ (\A m \in DOMAIN commands' : k < m => ~Switches(m, d)')
                      => (commands'[k].kind = "enable") = y
  OBVIOUS

-----------------------------------------------------------------------------
\* The engine takes the command in front.
TakesCommand ==
    /\ engineUp /\ commands # << >> /\ commands' = Tail(commands)
    /\ UNCHANGED <<breakpoints, adds, editorVars, sessionActive, scripts, engineUp, loose>>

\* The engine takes the command in front.
LEMMA TakenCommand ==
    ASSUME commands \in Seq(Commands), commands # << >>, commands' = Tail(commands)
    PROVE  /\ commands' \in Seq(Commands)
           /\ 1 \in DOMAIN commands /\ Head(commands) = commands[1] /\ commands[1] \in Commands
           /\ DOMAIN commands \subseteq Nat /\ DOMAIN commands' \subseteq Nat
           /\ \A k \in DOMAIN commands' : k + 1 \in DOMAIN commands /\ commands'[k] = commands[k + 1]
           /\ \A k \in DOMAIN commands : k = 1 \/ k - 1 \in DOMAIN commands'
<1>1. /\ Len(commands) \in Nat \ {0} /\ DOMAIN commands = 1 .. Len(commands)
      /\ \A k \in DOMAIN commands : commands[k] \in Commands
  BY ListIsASeq, EmptySeq
<1>2. /\ commands' \in Seq(Commands) /\ Len(commands') = Len(commands) - 1
      /\ \A k \in 1 .. Len(commands') : commands'[k] = commands[k + 1]
  BY HeadTailProperties
<1>3. DOMAIN commands' = 1 .. Len(commands) - 1
  BY <1>2, ListIsASeq
<1>4. Head(commands) = commands[1]
  OBVIOUS
<1>5. DOMAIN commands \subseteq Nat /\ DOMAIN commands' \subseteq Nat
  BY <1>1, <1>3
<1>6. \A k \in DOMAIN commands' : k + 1 \in DOMAIN commands
  BY <1>1, <1>3
<1>7. \A k \in DOMAIN commands : k = 1 \/ k - 1 \in DOMAIN commands'
  BY <1>1, <1>3
<1>8. 1 \in DOMAIN commands
  BY <1>1
<1> QED
  BY <1>1, <1>2, <1>3, <1>4, <1>5, <1>6, <1>7, <1>8

LEMMA CommandIsRecord ==
    ASSUME NEW c \in Commands
    PROVE  /\ c.kind \in {"set"} \cup IdKinds
           /\ c.kind = "set" => c.who \in Who /\ c.enabled \in BOOLEAN /\ c.transaction \in Transactions
           /\ c.kind # "set" => c.id \in Ids
  BY DEF Commands, IdKinds

\* The engine gives a breakpoint its id, and answers.
LEMMA SetAnswered ==
    ASSUME BreakpointsTypeOK, BreakpointsInv, TakesCommand, NEW c, c = commands[1], c.kind = "set",
           engineIds' = engineIds + 1,
           engine' = Known(engineIds', [who |-> c.who, enabled |-> c.enabled]),
           dbgpEvents' = Append(dbgpEvents,
               [kind |-> "set", transaction |-> c.transaction, id |-> engineIds'])
    PROVE  BreakpointsTypeOK' /\ BreakpointsInv'
<1>1. /\ breakpoints' = breakpoints /\ adds' = adds /\ openInEditor' = openInEditor
      /\ lines' = lines /\ markers' = markers /\ sessionActive' = sessionActive
      /\ scripts' = scripts /\ engineUp' = engineUp /\ loose' = loose /\ engineUp
  BY DEF TakesCommand, editorVars
<1>2. /\ ListInv /\ SetsInv /\ SessionInv /\ KnownInv
      /\ commands \in Seq(Commands) /\ dbgpEvents \in Seq(DbgpEvents)
      /\ engineIds \in Nat /\ adds \in Nat /\ adds <= MaxAdds
  BY DEF BreakpointsInv, BreakpointsTypeOK, Ids
<1>3. /\ commands' \in Seq(Commands)
      /\ 1 \in DOMAIN commands /\ c \in Commands
      /\ DOMAIN commands \subseteq Nat /\ DOMAIN commands' \subseteq Nat
      /\ \A k \in DOMAIN commands' : k + 1 \in DOMAIN commands /\ commands'[k] = commands[k + 1]
      /\ \A k \in DOMAIN commands : k = 1 \/ k - 1 \in DOMAIN commands'
  BY <1>2, TakenCommand DEF TakesCommand
<1>4. IsSet(1)
  BY DEF IsSet
<1>5. c.who \in Who /\ c.enabled \in BOOLEAN /\ c.transaction \in Transactions
  BY <1>3, CommandIsRecord
<1>6. engineIds < c.who /\ c.who <= adds /\ c.who \in Nat
  BY SMTT(30), <1>2, <1>3, <1>4, <1>5 DEF SetsInv, Who
<1>7. PICK d, b, e : /\ d = engineIds + 1 /\ b = [who |-> c.who, enabled |-> c.enabled]
                     /\ e = [kind |-> "set", transaction |-> c.transaction, id |-> d]
  OBVIOUS
<1>8. /\ d \in Nat /\ d \in Ids /\ engineIds' = d /\ d <= c.who
      /\ b \in [who : Who, enabled : BOOLEAN] /\ b.who = c.who /\ b.enabled = c.enabled
      /\ e \in DbgpEvents /\ e.kind = "set" /\ e.transaction = c.transaction /\ e.id = d
  <2>1. d \in Nat /\ d \in Ids /\ engineIds' = d /\ d <= c.who
    <3>1. d = engineIds + 1 /\ engineIds' = engineIds + 1
      BY <1>7
    <3>2. engineIds + 1 \in 0 .. MaxAdds /\ engineIds + 1 <= c.who
      <4>1. MaxAdds \in Nat
        OBVIOUS
      <4>2. engineIds \in Nat /\ adds \in Nat /\ adds <= MaxAdds
        BY <1>2
      <4> QED
        BY <1>6, <4>1, <4>2
    <3> QED
      BY <3>1, <3>2 DEF Ids
  <2>2. b \in [who : Who, enabled : BOOLEAN] /\ b.who = c.who /\ b.enabled = c.enabled
    BY <1>5, <1>7
  <2>3. e \in DbgpEvents /\ e.kind = "set" /\ e.transaction = c.transaction /\ e.id = d
    BY <1>5, <1>7, <2>1 DEF DbgpEvents
  <2> QED
    BY <2>1, <2>2, <2>3
<1>9. engine' = [g \in DOMAIN engine \cup {d} |-> IF g = d THEN b ELSE engine[g]]
  BY <1>7, <1>8 DEF Known
<1>10. d \notin DOMAIN engine /\ DOMAIN engine \subseteq 1 .. engineIds
  BY SMTT(30), <1>2, <1>7 DEF BreakpointsTypeOK
<1>11. /\ DOMAIN engine' = DOMAIN engine \cup {d} /\ engine'[d] = b
       /\ \A g \in DOMAIN engine : engine'[g] = engine[g]
  BY <1>9, <1>10
<1>12. PICK last : last = Len(dbgpEvents) + 1
  OBVIOUS
<1>13. /\ dbgpEvents' \in Seq(DbgpEvents)
       /\ DOMAIN dbgpEvents' = DOMAIN dbgpEvents \cup {last}
       /\ \A m \in DOMAIN dbgpEvents : dbgpEvents'[m] = dbgpEvents[m]
       /\ dbgpEvents'[last] = e
  <2>1. DOMAIN dbgpEvents = 1 .. Len(dbgpEvents) /\ Len(dbgpEvents) \in Nat
    BY <1>2, ListIsASeq
  <2>2. dbgpEvents' = Append(dbgpEvents, e)
    BY <1>7, <1>8
  <2>3. /\ dbgpEvents' \in Seq(DbgpEvents) /\ Len(dbgpEvents') = last
        /\ \A m \in 1 .. Len(dbgpEvents) : dbgpEvents'[m] = dbgpEvents[m]
        /\ dbgpEvents'[last] = e
    BY SMTT(30), <1>2, <1>8, <1>12, <2>2, AppendProperties
  <2>4. DOMAIN dbgpEvents' = 1 .. last
    BY <2>3, ListIsASeq
  <2> QED
    BY <1>12, <2>1, <2>3, <2>4
<1>14. sessionActive
  BY <1>1, <1>2, <1>3, <1>4 DEF SessionInv
<1>15. /\ \A k \in DOMAIN commands' : k + 1 \in DOMAIN commands /\ 1 < k + 1 /\ commands'[k] = commands[k + 1]
              /\ (IsSet(k)' <=> IsSet(k + 1))
  BY <1>3 DEF IsSet
<1>16. \A k \in DOMAIN commands' : IsSet(k)' => c.who < commands'[k].who /\ commands'[k].who <= adds
                                                /\ commands'[k].who \in Nat
  <2> SUFFICES ASSUME NEW k \in DOMAIN commands', IsSet(k)'
               PROVE  c.who < commands'[k].who /\ commands'[k].who <= adds /\ commands'[k].who \in Nat
    OBVIOUS
  <2>1. k + 1 \in DOMAIN commands /\ 1 < k + 1 /\ commands'[k] = commands[k + 1] /\ IsSet(k + 1)
    BY <1>15
  <2>2. c.who < commands[k + 1].who /\ commands[k + 1].who <= adds
    BY <1>2, <1>3, <1>4, <2>1 DEF SetsInv
  <2>3. commands'[k] \in Commands
    BY <1>3, ListIsASeq
  <2>4. commands'[k].who \in Nat
    BY <2>1, <2>3, CommandIsRecord DEF IsSet, Who
  <2> QED
    BY <2>1, <2>2, <2>4
<1>17. SetsInv'
  <2>1. \A k \in DOMAIN commands' : IsSet(k)' => engineIds' < commands'[k].who
    BY <1>6, <1>8, <1>16
  <2>2. \A g \in DOMAIN engine' : engine'[g].who <= adds
    BY SMTT(30), <1>2, <1>6, <1>8, <1>11 DEF SetsInv
  <2>3. engineIds' <= adds
    BY SMTT(30), <1>2, <1>6, <1>8
  <2>4. \A k, m \in DOMAIN commands' :
            IsSet(k)' /\ IsSet(m)' /\ k < m => commands'[k].who < commands'[m].who
    <3> SUFFICES ASSUME NEW k \in DOMAIN commands', NEW m \in DOMAIN commands', IsSet(k)', IsSet(m)', k < m
                 PROVE  commands'[k].who < commands'[m].who
      OBVIOUS
    <3>1. /\ k + 1 \in DOMAIN commands /\ m + 1 \in DOMAIN commands /\ k + 1 < m + 1
          /\ IsSet(k + 1) /\ IsSet(m + 1)
      BY <1>3, <1>15
    <3>2. commands[k + 1].who < commands[m + 1].who
      BY <1>2, <3>1 DEF SetsInv
    <3> QED
      BY <1>15, <3>2
  <2> QED
    BY <1>1, <1>16, <2>1, <2>2, <2>3, <2>4 DEF SetsInv
<1>18. SessionInv'
  BY <1>1, <1>2, <1>8, <1>13, <1>14 DEF SessionInv
<1>19. ListInv'
  BY <1>1, <1>2 DEF ListInv
<1>20. BreakpointsTypeOK'
  <2>1. DOMAIN engine' \subseteq 1 .. engineIds'
    <3>1. engineIds \in Nat /\ d = engineIds + 1 /\ engineIds' = d
      BY <1>2, <1>7, <1>8
    <3>2. (1 .. engineIds) \cup {d} \subseteq 1 .. engineIds'
      BY <3>1
    <3> QED
      BY <1>10, <1>11, <3>2
  <2>2. \A g \in DOMAIN engine' : engine'[g] \in [who : Who, enabled : BOOLEAN]
    <3>1. \A g \in DOMAIN engine : engine[g] \in [who : Who, enabled : BOOLEAN]
      BY DEF BreakpointsTypeOK
    <3>2. b \in [who : Who, enabled : BOOLEAN]
      BY <1>8
    <3> QED
      BY <1>11, <3>1, <3>2
  <2> QED
    BY <1>1, <1>3, <1>8, <1>13, <2>1, <2>2 DEF BreakpointsTypeOK
<1>21. KnownInv'
  <2> SUFFICES ASSUME Tracked'
               PROVE  /\ TransactionsFit' /\ SetCommandsFit' /\ SetEventsFit' /\ IdsFit'
                      /\ EnabledFits' /\ EngineFits' /\ OldIds'
    BY DEF KnownInv
  <2>1. /\ TransactionsFit /\ SetCommandsFit /\ SetEventsFit /\ IdsFit
        /\ EnabledFits /\ EngineFits /\ OldIds
    BY <1>1, <1>2 DEF KnownInv, Tracked
  <2>2. /\ c.transaction = <<scripts, c.who>>
        /\ \E i \in DOMAIN breakpoints : breakpoints[i].who = c.who /\ breakpoints[i].enabled = c.enabled
        /\ \A g \in DOMAIN engine : engine[g].who # c.who
    BY <1>3, <1>4, <2>1 DEF TransactionsFit, SetCommandsFit
  <2>3. e.transaction[1] = scripts /\ e.transaction[2] = c.who
    BY <1>8, <2>2
  <2>4. \A k \in DOMAIN commands' : ~IsSet(k)' => commands'[k].id <= engineIds /\ commands'[k].id # d
    <3> SUFFICES ASSUME NEW k \in DOMAIN commands', ~IsSet(k)'
                 PROVE  commands'[k].id <= engineIds /\ commands'[k].id # d
      OBVIOUS
    <3>1. k + 1 \in DOMAIN commands /\ 1 < k + 1 /\ ~IsSet(k + 1) /\ commands'[k] = commands[k + 1]
      BY <1>15
    <3>2. ~(commands[k + 1].id > engineIds)
      BY <1>3, <1>4, <2>1, <3>1 DEF OldIds
    <3>3. commands[k + 1].id \in Nat
      BY SMTT(30), <1>2, <3>1, ListIsASeq, CommandIsRecord DEF IsSet, Ids
    <3> QED
      BY SMTT(30), <1>2, <1>7, <3>1, <3>2, <3>3
  <2>5. TransactionsFit'
    <3>1. \A k \in DOMAIN commands' : IsSet(k)' => commands'[k].transaction = <<scripts', commands'[k].who>>
      BY <1>1, <1>15, <2>1 DEF TransactionsFit
    <3>2. \A m \in DOMAIN dbgpEvents' : dbgpEvents'[m].transaction[1] = scripts'
      BY <1>1, <1>13, <2>1, <2>3 DEF TransactionsFit
    <3> QED
      BY <1>1, <2>1, <3>1, <3>2 DEF TransactionsFit
  <2>6. SetCommandsFit'
    <3> SUFFICES ASSUME NEW k \in DOMAIN commands', IsSet(k)'
                 PROVE  /\ \E i \in DOMAIN breakpoints : /\ breakpoints[i].who = commands'[k].who
                                                         /\ breakpoints[i].enabled = commands'[k].enabled
                        /\ \A g \in DOMAIN engine' : engine'[g].who # commands'[k].who
      BY <1>1 DEF SetCommandsFit
    <3>1. k + 1 \in DOMAIN commands /\ IsSet(k + 1) /\ commands'[k] = commands[k + 1]
      BY <1>15
    <3>2. /\ \E i \in DOMAIN breakpoints : /\ breakpoints[i].who = commands'[k].who
                                           /\ breakpoints[i].enabled = commands'[k].enabled
          /\ \A g \in DOMAIN engine : engine[g].who # commands'[k].who
      BY <2>1, <3>1 DEF SetCommandsFit
    <3>3. c.who # commands'[k].who
      BY <1>6, <1>16
    <3> QED
      BY <1>8, <1>11, <3>2, <3>3
  <2>7. SetEventsFit'
    <3> SUFFICES ASSUME NEW m \in DOMAIN dbgpEvents'
                 PROVE  /\ dbgpEvents'[m].id \in DOMAIN engine'
                        /\ engine'[dbgpEvents'[m].id].who = dbgpEvents'[m].transaction[2]
                        /\ Listed(dbgpEvents'[m].transaction[2])
                        /\ \A k \in DOMAIN commands' : ~IsSet(k)' => commands'[k].id # dbgpEvents'[m].id
      <4>1. \A v : Listed(v)' <=> Listed(v)
        BY <1>1 DEF Listed
      <4> QED
        BY <4>1 DEF SetEventsFit
    <3>1. CASE m = last
      <4>1. Listed(c.who)
        BY <2>2 DEF Listed
      <4> QED
        BY <1>8, <1>11, <1>13, <2>3, <2>4, <3>1, <4>1
    <3>2. CASE m \in DOMAIN dbgpEvents
      <4>1. /\ dbgpEvents'[m] = dbgpEvents[m]
            /\ dbgpEvents[m].id \in DOMAIN engine
            /\ engine[dbgpEvents[m].id].who = dbgpEvents[m].transaction[2]
            /\ Listed(dbgpEvents[m].transaction[2])
            /\ \A k \in DOMAIN commands : ~IsSet(k) => commands[k].id # dbgpEvents[m].id
        BY <1>13, <2>1, <3>2 DEF SetEventsFit
      <4>2. \A k \in DOMAIN commands' : ~IsSet(k)' => commands'[k].id # dbgpEvents[m].id
        BY <1>15, <4>1
      <4> QED
        BY <1>11, <4>1, <4>2
    <3> QED
      BY <1>13, <3>1, <3>2
  <2>8. IdsFit'
    <3> SUFFICES ASSUME NEW i \in DOMAIN breakpoints,
                        ~InSetCommand(breakpoints[i].who)', ~InSetEvent(breakpoints[i].who)'
                 PROVE  /\ breakpoints[i].id \in DOMAIN engine'
                        /\ engine'[breakpoints[i].id].who = breakpoints[i].who
                        /\ \A k \in DOMAIN commands' :
                               commands'[k].kind = "remove" => commands'[k].id # breakpoints[i].id
      BY <1>1 DEF IdsFit
    <3>1. breakpoints[i].who # c.who
      <4>1. InSetEvent(c.who)'
        BY <1>8, <1>13, <2>3 DEF InSetEvent
      <4>2. breakpoints'[i].who = breakpoints[i].who
        BY <1>1
      <4> SUFFICES ASSUME breakpoints[i].who = c.who PROVE FALSE
        OBVIOUS
      <4>3. PICK m \in DOMAIN dbgpEvents' : dbgpEvents'[m].kind = "set" /\ dbgpEvents'[m].transaction[2] = c.who
        BY <1>8, <1>13, <2>3
      <4> QED
        BY <1>1, <4>3 DEF InSetEvent
    <3>2. ~InSetCommand(breakpoints[i].who)
      <4> SUFFICES ASSUME NEW k \in DOMAIN commands, IsSet(k), commands[k].who = breakpoints[i].who PROVE FALSE
        BY DEF InSetCommand
      <4>1. k # 1
        BY <3>1
      <4>2. k - 1 \in DOMAIN commands' /\ (k - 1) + 1 = k
        BY <1>3, <4>1
      <4>3. PICK m \in DOMAIN commands' : m + 1 = k
        BY <4>2
      <4>4. IsSet(m)' /\ commands'[m].who = breakpoints[i].who
        BY <1>15, <4>3
      <4> QED
        BY <1>1, <4>4 DEF InSetCommand
    <3>3. ~InSetEvent(breakpoints[i].who)
      BY <1>1, <1>13 DEF InSetEvent
    <3>4. /\ breakpoints[i].id \in DOMAIN engine
          /\ engine[breakpoints[i].id].who = breakpoints[i].who
          /\ \A k \in DOMAIN commands : commands[k].kind = "remove" => commands[k].id # breakpoints[i].id
      BY <2>1, <3>2, <3>3 DEF IdsFit
    <3> QED
      BY <1>11, <1>15, <3>4
  <2>9. EnabledFits'
    <3> SUFFICES ASSUME NEW i \in DOMAIN breakpoints, NEW g \in DOMAIN engine',
                        engine'[g].who = breakpoints[i].who
                 PROVE  /\ (\A k \in DOMAIN commands' : ~Switches(k, g)') => engine'[g].enabled = breakpoints[i].enabled
                        /\ \A k \in DOMAIN commands' :
                               Switches(k, g)' /\ (\A m \in DOMAIN commands' : k < m => ~Switches(m, g)')
                                   => (commands'[k].kind = "enable") = breakpoints[i].enabled
      BY <1>1 DEF EnabledFits
    <3>1. CASE g = d
      <4>1. \A k \in DOMAIN commands' : ~Switches(k, g)'
        BY <2>4, <3>1 DEF Switches, IsSet
      <4>2. PICK j \in DOMAIN breakpoints : breakpoints[j].who = c.who /\ breakpoints[j].enabled = c.enabled
        BY <2>2
      <4>3. j = i
        BY <1>8, <1>11, <3>1, <4>2 DEF BreakpointsTypeOK
      <4>4. engine'[g].enabled = breakpoints[i].enabled
        BY <1>8, <1>11, <3>1, <4>2, <4>3
      <4> QED
        BY <4>1, <4>4
    <3>2. CASE g \in DOMAIN engine
      <4>1. /\ (\A k \in DOMAIN commands : ~Switches(k, g)) => engine[g].enabled = breakpoints[i].enabled
            /\ \A k \in DOMAIN commands :
                   Switches(k, g) /\ (\A m \in DOMAIN commands : k < m => ~Switches(m, g))
                       => (commands[k].kind = "enable") = breakpoints[i].enabled
        BY <1>11, <2>1, <3>2 DEF EnabledFits
      <4>2. ~Switches(1, g)
        BY DEF Switches
      <4>3. \A k \in DOMAIN commands' : Switches(k, g)' <=> Switches(k + 1, g)
        BY <1>15 DEF Switches
      <4> QED
        BY ZenonT(60), <1>3, <1>11, <1>15, <3>2, <4>1, <4>2, <4>3, TailSwitches
    <3> QED
      BY <1>11, <3>1, <3>2
  <2>10. EngineFits'
    <3>1. \A g, h \in DOMAIN engine' : engine'[g].who = engine'[h].who => g = h
      BY <1>8, <1>11, <2>1, <2>2 DEF EngineFits
    <3>2. \A v : Listed(v)' <=> Listed(v)
      BY <1>1 DEF Listed
    <3>3. ASSUME NEW g \in DOMAIN engine'
          PROVE  \/ Listed(engine'[g].who)
                 \/ \E k \in DOMAIN commands' : commands'[k].kind = "remove" /\ commands'[k].id = g
      <4>1. CASE g = d
        BY <1>8, <1>11, <2>2, <4>1 DEF Listed
      <4>2. CASE g \in DOMAIN engine /\ Listed(engine[g].who)
        BY <1>11, <4>2
      <4>3. CASE \E k \in DOMAIN commands : commands[k].kind = "remove" /\ commands[k].id = g
        <5>1. PICK k \in DOMAIN commands : commands[k].kind = "remove" /\ commands[k].id = g
          BY <4>3
        <5>2. k # 1
          BY <5>1
        <5>3. k - 1 \in DOMAIN commands' /\ (k - 1) + 1 = k
          BY <1>3, <5>2
        <5> QED
          BY <1>3, <5>1, <5>3
      <4> QED
        BY <1>11, <2>1, <4>1, <4>2, <4>3 DEF EngineFits
    <3> QED
      BY <3>1, <3>2, <3>3 DEF EngineFits
  <2>11. OldIds'
    <3>1. \A k \in DOMAIN commands' : ~IsSet(k)' => ~(commands'[k].id > engineIds')
      <4> SUFFICES ASSUME NEW k \in DOMAIN commands', ~IsSet(k)' PROVE ~(commands'[k].id > engineIds')
        OBVIOUS
      <4>1. commands'[k].id \in Nat
        BY <1>3, ListIsASeq, CommandIsRecord DEF IsSet, Ids
      <4> QED
        BY <1>2, <1>7, <1>8, <2>4, <4>1
    <3> QED
      BY <3>1 DEF OldIds
  <2> QED
    BY <2>5, <2>6, <2>7, <2>8, <2>9, <2>10, <2>11
<1> QED
  BY <1>17, <1>18, <1>19, <1>20, <1>21 DEF BreakpointsInv

\* A command with an id is taken.
LEMMA IdCommandTaken ==
    ASSUME BreakpointsTypeOK, BreakpointsInv, TakesCommand, commands[1].kind # "set",
           engineIds' = engineIds, dbgpEvents' = dbgpEvents,
           DOMAIN engine' \subseteq DOMAIN engine,
           \A g \in DOMAIN engine' : engine'[g].who = engine[g].who
                                     /\ engine'[g] \in [who : Who, enabled : BOOLEAN]
    PROVE  BreakpointsTypeOK' /\ ListInv' /\ SetsInv' /\ SessionInv'
<1>1. /\ breakpoints' = breakpoints /\ adds' = adds /\ openInEditor' = openInEditor
      /\ lines' = lines /\ markers' = markers /\ sessionActive' = sessionActive
      /\ scripts' = scripts /\ engineUp' = engineUp /\ loose' = loose /\ engineUp
  BY DEF TakesCommand, editorVars
<1>2. /\ ListInv /\ SetsInv /\ SessionInv /\ commands \in Seq(Commands)
  BY DEF BreakpointsInv, BreakpointsTypeOK
<1>3. /\ commands' \in Seq(Commands)
      /\ DOMAIN commands \subseteq Nat /\ DOMAIN commands' \subseteq Nat
      /\ \A k \in DOMAIN commands' : k + 1 \in DOMAIN commands /\ commands'[k] = commands[k + 1]
  BY <1>2, TakenCommand DEF TakesCommand
<1>4. \A k \in DOMAIN commands' : k + 1 \in DOMAIN commands /\ commands'[k] = commands[k + 1]
                                  /\ (IsSet(k)' <=> IsSet(k + 1))
  BY <1>3 DEF IsSet
<1>5. SetsInv'
  <2>1. \A k, m \in DOMAIN commands' :
            IsSet(k)' /\ IsSet(m)' /\ k < m => commands'[k].who < commands'[m].who
    <3> SUFFICES ASSUME NEW k \in DOMAIN commands', NEW m \in DOMAIN commands', IsSet(k)', IsSet(m)', k < m
                 PROVE  commands'[k].who < commands'[m].who
      OBVIOUS
    <3>1. /\ k + 1 \in DOMAIN commands /\ m + 1 \in DOMAIN commands /\ k + 1 < m + 1
          /\ IsSet(k + 1) /\ IsSet(m + 1)
      BY <1>3, <1>4
    <3>2. commands[k + 1].who < commands[m + 1].who
      BY <1>2, <3>1 DEF SetsInv
    <3> QED
      BY <1>4, <3>2
  <2>2. \A k \in DOMAIN commands' : IsSet(k)' => engineIds' < commands'[k].who /\ commands'[k].who <= adds'
    BY <1>1, <1>2, <1>4 DEF SetsInv
  <2>3. engineIds' <= adds' /\ \A g \in DOMAIN engine' : engine'[g].who <= adds'
    BY <1>1, <1>2 DEF SetsInv
  <2> QED
    BY <2>1, <2>2, <2>3 DEF SetsInv
<1>6. SessionInv'
  BY <1>1, <1>2, <1>4 DEF SessionInv
<1>7. ListInv'
  BY <1>1, <1>2 DEF ListInv
<1>8. BreakpointsTypeOK'
  BY <1>1, <1>3 DEF BreakpointsTypeOK
<1> QED
  BY <1>5, <1>6, <1>7, <1>8

\* What the engine knows of the others is not touched; of the one named by the
\* command, `gone` says whether it goes, `on` whether it is enabled.
LEMMA IdCommandAnswered ==
    ASSUME BreakpointsTypeOK, BreakpointsInv, TakesCommand, NEW c, c = commands[1], c.kind # "set",
           engineIds' = engineIds, dbgpEvents' = dbgpEvents,
           DOMAIN engine' = IF c.kind = "remove" THEN DOMAIN engine \ {c.id} ELSE DOMAIN engine,
           \A g \in DOMAIN engine' :
               /\ engine'[g] \in [who : Who, enabled : BOOLEAN]
               /\ engine'[g].who = engine[g].who
               /\ engine'[g].enabled = IF g = c.id THEN c.kind = "enable" ELSE engine[g].enabled
    PROVE  BreakpointsTypeOK' /\ BreakpointsInv'
<1>1. /\ breakpoints' = breakpoints /\ adds' = adds /\ sessionActive' = sessionActive
      /\ scripts' = scripts /\ engineUp' = engineUp /\ loose' = loose /\ engineUp
  BY DEF TakesCommand
<1>2. /\ ListInv /\ SetsInv /\ SessionInv /\ KnownInv /\ commands \in Seq(Commands)
      /\ engineIds \in Nat
  BY DEF BreakpointsInv, BreakpointsTypeOK, Ids
<1>3. /\ commands' \in Seq(Commands)
      /\ 1 \in DOMAIN commands /\ c \in Commands
      /\ DOMAIN commands \subseteq Nat /\ DOMAIN commands' \subseteq Nat
      /\ \A k \in DOMAIN commands' : k + 1 \in DOMAIN commands /\ commands'[k] = commands[k + 1]
      /\ \A k \in DOMAIN commands : k = 1 \/ k - 1 \in DOMAIN commands'
  BY <1>2, TakenCommand DEF TakesCommand
<1>4. DOMAIN engine' \subseteq DOMAIN engine
  OBVIOUS
<1>5. BreakpointsTypeOK' /\ ListInv' /\ SetsInv' /\ SessionInv'
  BY <1>4, IdCommandTaken
<1>6. \A k \in DOMAIN commands' : k + 1 \in DOMAIN commands /\ commands'[k] = commands[k + 1]
                                  /\ (IsSet(k)' <=> IsSet(k + 1))
  BY <1>3 DEF IsSet
<1>7. \A k \in DOMAIN commands : k = 1 \/ \E m \in DOMAIN commands' : m + 1 = k
  <2> SUFFICES ASSUME NEW k \in DOMAIN commands, k # 1 PROVE \E m \in DOMAIN commands' : m + 1 = k
    OBVIOUS
  <2>1. k - 1 \in DOMAIN commands' /\ (k - 1) + 1 = k
    BY <1>3
  <2> QED
    BY <2>1
<1>8. ~IsSet(1)
  BY DEF IsSet
<1>9. KnownInv'
  <2> SUFFICES ASSUME Tracked'
               PROVE  /\ TransactionsFit' /\ SetCommandsFit' /\ SetEventsFit' /\ IdsFit'
                      /\ EnabledFits' /\ EngineFits' /\ OldIds'
    BY DEF KnownInv
  <2>1. /\ TransactionsFit /\ SetCommandsFit /\ SetEventsFit /\ IdsFit
        /\ EnabledFits /\ EngineFits /\ OldIds
    BY <1>1, <1>2 DEF KnownInv, Tracked
  <2>a. \A v : Listed(v)' <=> Listed(v)
    BY <1>1 DEF Listed
  <2>b. \A v : (InSetEvent(v)' <=> InSetEvent(v))
    BY DEF InSetEvent
  <2>c. \A v : InSetCommand(v) => InSetCommand(v)'
    BY <1>6, <1>7, <1>8 DEF InSetCommand
  <2>2. TransactionsFit'
    BY <1>1, <1>6, <2>1 DEF TransactionsFit
  <2>3. SetCommandsFit'
    BY <1>1, <1>4, <1>6, <2>1 DEF SetCommandsFit
  <2>4. SetEventsFit'
    <3> SUFFICES ASSUME NEW m \in DOMAIN dbgpEvents
                 PROVE  /\ dbgpEvents[m].id \in DOMAIN engine'
                        /\ engine'[dbgpEvents[m].id].who = dbgpEvents[m].transaction[2]
                        /\ Listed(dbgpEvents[m].transaction[2])
                        /\ \A k \in DOMAIN commands' : ~IsSet(k)' => commands'[k].id # dbgpEvents[m].id
      BY <2>a DEF SetEventsFit
    <3>1. /\ dbgpEvents[m].id \in DOMAIN engine
          /\ engine[dbgpEvents[m].id].who = dbgpEvents[m].transaction[2]
          /\ Listed(dbgpEvents[m].transaction[2])
          /\ \A k \in DOMAIN commands : ~IsSet(k) => commands[k].id # dbgpEvents[m].id
      BY <2>1 DEF SetEventsFit
    <3>2. c.id # dbgpEvents[m].id
      BY <1>3, <1>8, <3>1
    <3>3. dbgpEvents[m].id \in DOMAIN engine'
      BY <3>1, <3>2
    <3> QED
      BY <1>6, <3>1, <3>3
  <2>5. IdsFit'
    <3> SUFFICES ASSUME NEW i \in DOMAIN breakpoints,
                        ~InSetCommand(breakpoints[i].who)', ~InSetEvent(breakpoints[i].who)'
                 PROVE  /\ breakpoints[i].id \in DOMAIN engine'
                        /\ engine'[breakpoints[i].id].who = breakpoints[i].who
                        /\ \A k \in DOMAIN commands' :
                               commands'[k].kind = "remove" => commands'[k].id # breakpoints[i].id
      BY <1>1 DEF IdsFit
    <3>0. ~InSetCommand(breakpoints[i].who) /\ ~InSetEvent(breakpoints[i].who)
      BY <1>1, <2>b, <2>c
    <3>1. /\ breakpoints[i].id \in DOMAIN engine
          /\ engine[breakpoints[i].id].who = breakpoints[i].who
          /\ \A k \in DOMAIN commands : commands[k].kind = "remove" => commands[k].id # breakpoints[i].id
      BY <2>1, <3>0 DEF IdsFit
    <3>2. c.kind = "remove" => c.id # breakpoints[i].id
      BY <1>3, <3>1
    <3>3. breakpoints[i].id \in DOMAIN engine'
      BY <3>1, <3>2
    <3> QED
      BY <1>6, <3>1, <3>3
  <2>6. EnabledFits'
    <3> SUFFICES ASSUME NEW i \in DOMAIN breakpoints, NEW g \in DOMAIN engine',
                        engine'[g].who = breakpoints[i].who
                 PROVE  /\ (\A k \in DOMAIN commands' : ~Switches(k, g)') => engine'[g].enabled = breakpoints[i].enabled
                        /\ \A k \in DOMAIN commands' :
                               Switches(k, g)' /\ (\A m \in DOMAIN commands' : k < m => ~Switches(m, g)')
                                   => (commands'[k].kind = "enable") = breakpoints[i].enabled
      BY <1>1 DEF EnabledFits
    <3>1. g \in DOMAIN engine /\ engine[g].who = breakpoints[i].who
      BY <1>4
    <3>2. /\ (\A k \in DOMAIN commands : ~Switches(k, g)) => engine[g].enabled = breakpoints[i].enabled
          /\ \A k \in DOMAIN commands :
                 Switches(k, g) /\ (\A m \in DOMAIN commands : k < m => ~Switches(m, g))
                     => (commands[k].kind = "enable") = breakpoints[i].enabled
      BY <2>1, <3>1 DEF EnabledFits
    <3>3. \A k \in DOMAIN commands' : Switches(k, g)' <=> Switches(k + 1, g)
      BY <1>6 DEF Switches
    <3>4. CASE Switches(1, g)
      <4>1. g = c.id /\ engine'[g].enabled = (c.kind = "enable")
        BY <3>4 DEF Switches
      <4>2. ASSUME \A k \in DOMAIN commands' : ~Switches(k, g)'
            PROVE  engine'[g].enabled = breakpoints[i].enabled
        <5>1. \A m \in DOMAIN commands : 1 < m => ~Switches(m, g)
          BY <1>7, <3>3, <4>2
        <5>2. (commands[1].kind = "enable") = breakpoints[i].enabled
          BY <1>3, <3>2, <3>4, <5>1
        <5> QED
          BY <4>1, <5>2
      <4>3. ASSUME NEW k \in DOMAIN commands', Switches(k, g)',
                   \A m \in DOMAIN commands' : k < m => ~Switches(m, g)'
            PROVE  (commands'[k].kind = "enable") = breakpoints[i].enabled
        <5>1. k + 1 \in DOMAIN commands /\ Switches(k + 1, g) /\ commands'[k] = commands[k + 1]
          BY <1>6, <3>3, <4>3
        <5>2. \A m \in DOMAIN commands : k + 1 < m => ~Switches(m, g)
          <6> SUFFICES ASSUME NEW m \in DOMAIN commands, k + 1 < m PROVE ~Switches(m, g)
            OBVIOUS
          <6>1. m # 1 /\ m \in Nat /\ k \in Nat
            BY <1>3
          <6>2. PICK l \in DOMAIN commands' : l + 1 = m
            BY <1>7, <6>1
          <6>a. l \in Nat
            BY <1>3
          <6>3. k < l
            BY <6>1, <6>2, <6>a
          <6> QED
            BY <3>3, <4>3, <6>2, <6>3
        <5> QED
          BY <3>2, <5>1, <5>2
      <4> QED
        BY <4>2, <4>3
    <3>5. CASE ~Switches(1, g)
      <4>1. engine'[g].enabled = engine[g].enabled
        <5>1. c.kind \in IdKinds
          BY <1>3, CommandIsRecord
        <5>2. g # c.id
          BY <3>1, <3>5, <5>1 DEF Switches, IdKinds
        <5> QED
          BY <5>2
      <4>2. (\A k \in DOMAIN commands : ~Switches(k, g)) => engine'[g].enabled = breakpoints[i].enabled
        BY <3>2, <4>1
      <4>3. \A k \in DOMAIN commands :
                Switches(k, g) /\ (\A m \in DOMAIN commands : k < m => ~Switches(m, g))
                    => (commands[k].kind = "enable") = breakpoints[i].enabled
        BY <3>2
      <4> QED
        BY ZenonT(60), <1>3, <3>3, <3>5, <4>2, <4>3, TailSwitches
    <3> QED
      BY <3>4, <3>5
  <2>7. EngineFits'
    <3>1. \A g, h \in DOMAIN engine' : engine'[g].who = engine'[h].who => g = h
      BY <1>4, <2>1 DEF EngineFits
    <3>2. ASSUME NEW g \in DOMAIN engine'
          PROVE  \/ Listed(engine'[g].who)
                 \/ \E k \in DOMAIN commands' : commands'[k].kind = "remove" /\ commands'[k].id = g
      <4>1. g \in DOMAIN engine /\ engine'[g].who = engine[g].who /\ (c.kind = "remove" => g # c.id)
        BY <1>4
      <4>2. CASE Listed(engine[g].who)
        BY <4>1, <4>2
      <4>3. CASE \E k \in DOMAIN commands : commands[k].kind = "remove" /\ commands[k].id = g
        <5>1. PICK k \in DOMAIN commands : commands[k].kind = "remove" /\ commands[k].id = g
          BY <4>3
        <5>2. k # 1
          BY <4>1, <5>1
        <5>3. PICK m \in DOMAIN commands' : m + 1 = k
          BY <1>7, <5>2
        <5> QED
          BY <1>6, <5>1, <5>3
      <4> QED
        BY <2>1, <4>1, <4>2, <4>3 DEF EngineFits
    <3> QED
      BY <2>a, <3>1, <3>2 DEF EngineFits
  <2>8. OldIds'
    <3> SUFFICES ASSUME NEW k \in DOMAIN commands', ~IsSet(k)', commands'[k].id > engineIds
                 PROVE  engineIds = 0 /\ \A j \in DOMAIN commands' : j < k => ~IsSet(j)'
      BY DEF OldIds
    <3>1. k + 1 \in DOMAIN commands /\ ~IsSet(k + 1) /\ commands[k + 1].id > engineIds
      BY <1>6
    <3>2. engineIds = 0 /\ \A j \in DOMAIN commands : j < k + 1 => ~IsSet(j)
      BY <2>1, <3>1 DEF OldIds
    <3>3. \A j \in DOMAIN commands' : j < k => j + 1 < k + 1
      BY <1>3
    <3> QED
      BY <1>6, <3>2, <3>3
  <2> QED
    BY <2>2, <2>3, <2>4, <2>5, <2>6, <2>7, <2>8
<1> QED
  BY <1>5, <1>9 DEF BreakpointsInv

\* The engine's part keeps the invariant.
LEMMA AnswersKeepInv ==
    ASSUME BreakpointsTypeOK, BreakpointsInv, EngineAnswers
    PROVE  BreakpointsTypeOK' /\ BreakpointsInv'
<1>1. TakesCommand
  BY DEF EngineAnswers, TakesCommand
<1>2. PICK c : c = commands[1]
  OBVIOUS
<1>3. c = Head(commands) /\ c \in Commands
  BY <1>1, <1>2, TakenCommand DEF TakesCommand, BreakpointsTypeOK
<1>4. \A g \in DOMAIN engine : engine[g] \in [who : Who, enabled : BOOLEAN]
  BY DEF BreakpointsTypeOK
<1>5. CASE /\ c.kind = "set"
           /\ engineIds' = engineIds + 1
           /\ engine' = Known(engineIds', [who |-> c.who, enabled |-> c.enabled])
           /\ dbgpEvents' = Append(dbgpEvents,
                  [kind |-> "set", transaction |-> c.transaction, id |-> engineIds'])
  BY <1>1, <1>2, <1>5, SetAnswered
<1>6. CASE /\ c.kind = "remove"
           /\ engine' = [d \in DOMAIN engine \ {c.id} |-> engine[d]]
           /\ UNCHANGED <<engineIds, dbgpEvents>>
  <2>1. DOMAIN engine' = IF c.kind = "remove" THEN DOMAIN engine \ {c.id} ELSE DOMAIN engine
    BY <1>6
  <2>2. \A g \in DOMAIN engine' :
               /\ engine'[g] \in [who : Who, enabled : BOOLEAN]
               /\ engine'[g].who = engine[g].who
               /\ engine'[g].enabled = IF g = c.id THEN c.kind = "enable" ELSE engine[g].enabled
    BY <1>4, <1>6
  <2>3. c.kind # "set" /\ engineIds' = engineIds /\ dbgpEvents' = dbgpEvents
    BY <1>6
  <2> QED
    BY <1>1, <1>2, <2>1, <2>2, <2>3, IdCommandAnswered
<1>7. CASE /\ c.kind \in {"enable", "disable"}
           /\ engine' = Switched(c.id, c.kind = "enable")
           /\ UNCHANGED <<engineIds, dbgpEvents>>
  <2>1. DOMAIN engine' = IF c.kind = "remove" THEN DOMAIN engine \ {c.id} ELSE DOMAIN engine
    BY <1>7 DEF Switched
  <2>2. ASSUME NEW g \in DOMAIN engine'
        PROVE  /\ engine'[g] \in [who : Who, enabled : BOOLEAN]
               /\ engine'[g].who = engine[g].who
               /\ engine'[g].enabled = IF g = c.id THEN c.kind = "enable" ELSE engine[g].enabled
    <3>1. g \in DOMAIN engine
      BY <1>7, <2>1
    <3>2. engine'[g] = IF g = c.id THEN [engine[g] EXCEPT !.enabled = (c.kind = "enable")] ELSE engine[g]
      BY <1>7, <3>1 DEF Switched
    <3>3. PICK on \in BOOLEAN : on = (c.kind = "enable")
      OBVIOUS
    <3> QED
      BY <1>4, <3>1, <3>2, <3>3
  <2>3. c.kind # "set" /\ engineIds' = engineIds /\ dbgpEvents' = dbgpEvents
    BY <1>7
  <2> QED
    BY <1>1, <1>2, <2>1, <2>2, <2>3, IdCommandAnswered
<1> QED
  BY <1>3, <1>5, <1>6, <1>7 DEF EngineAnswers

-----------------------------------------------------------------------------
LEMMA EventIsRecord ==
    ASSUME NEW e \in DbgpEvents, e.kind = "set"
    PROVE  e.transaction \in Transactions /\ e.id \in Ids
<1>1. CASE e \in [kind : {"init", "end"}]
  BY <1>1
<1>2. CASE e \in [kind : {"set"}, transaction : Transactions, id : Ids]
  BY <1>2
<1> QED
  BY <1>1, <1>2 DEF DbgpEvents

\* The feature takes the event in front.
TakesEvent ==
    /\ dbgpEvents # << >> /\ dbgpEvents' = Tail(dbgpEvents)
    /\ UNCHANGED <<adds, editorVars, scripts, engineVars, loose>>

\* The event in front is taken and the others move up.
LEMMA TakenEvent ==
    ASSUME dbgpEvents \in Seq(DbgpEvents), dbgpEvents # << >>, dbgpEvents' = Tail(dbgpEvents)
    PROVE  /\ dbgpEvents' \in Seq(DbgpEvents)
           /\ 1 \in DOMAIN dbgpEvents /\ Head(dbgpEvents) = dbgpEvents[1] /\ dbgpEvents[1] \in DbgpEvents
           /\ \A m \in DOMAIN dbgpEvents' : m + 1 \in DOMAIN dbgpEvents /\ dbgpEvents'[m] = dbgpEvents[m + 1]
           /\ \A m \in DOMAIN dbgpEvents : m = 1 \/ \E k \in DOMAIN dbgpEvents' : k + 1 = m
           /\ IF dbgpEvents' = << >> THEN Len(dbgpEvents) = 1
              ELSE dbgpEvents'[Len(dbgpEvents')] = dbgpEvents[Len(dbgpEvents)]
<1>1. /\ Len(dbgpEvents) \in Nat \ {0} /\ DOMAIN dbgpEvents = 1 .. Len(dbgpEvents)
      /\ \A m \in DOMAIN dbgpEvents : dbgpEvents[m] \in DbgpEvents
  BY ListIsASeq, EmptySeq
<1>2. /\ dbgpEvents' \in Seq(DbgpEvents) /\ Len(dbgpEvents') = Len(dbgpEvents) - 1
      /\ \A m \in 1 .. Len(dbgpEvents') : dbgpEvents'[m] = dbgpEvents[m + 1]
  BY HeadTailProperties
<1>3. DOMAIN dbgpEvents' = 1 .. Len(dbgpEvents) - 1 /\ DOMAIN dbgpEvents' = 1 .. Len(dbgpEvents')
  BY <1>2, ListIsASeq
<1>4. Head(dbgpEvents) = dbgpEvents[1]
  OBVIOUS
<1>5. \A m \in DOMAIN dbgpEvents' : m + 1 \in DOMAIN dbgpEvents
  BY <1>1, <1>3
<1>6. \A m \in DOMAIN dbgpEvents : m = 1 \/ \E k \in DOMAIN dbgpEvents' : k + 1 = m
  <2> SUFFICES ASSUME NEW m \in DOMAIN dbgpEvents, m # 1 PROVE \E k \in DOMAIN dbgpEvents' : k + 1 = m
    OBVIOUS
  <2>1. m - 1 \in DOMAIN dbgpEvents' /\ (m - 1) + 1 = m
    BY <1>1, <1>3
  <2> QED
    BY <2>1
<1>7. CASE dbgpEvents' = << >>
  <2>1. Len(dbgpEvents') = 0
    BY <1>2, <1>7, EmptySeq
  <2> QED
    BY <1>1, <1>2, <1>3, <1>4, <1>5, <1>6, <1>7, <2>1
<1>8. CASE dbgpEvents' # << >>
  <2>1. Len(dbgpEvents') \in Nat \ {0}
    BY <1>2, <1>8, EmptySeq
  <2>2. Len(dbgpEvents') \in 1 .. Len(dbgpEvents') /\ Len(dbgpEvents') + 1 = Len(dbgpEvents)
    BY <1>1, <1>2, <2>1
  <2>3. dbgpEvents'[Len(dbgpEvents')] = dbgpEvents[Len(dbgpEvents)]
    BY <1>2, <2>2
  <2>4. 1 \in DOMAIN dbgpEvents
    BY <1>1
  <2> QED
    BY <1>1, <1>2, <1>3, <1>4, <1>5, <1>6, <1>8, <2>3, <2>4
<1> QED
  BY <1>7, <1>8

\* A script that has ended is not talked to any more; the last event tells its end.
LEMMA AfterTheEnd ==
    ASSUME BreakpointsTypeOK, BreakpointsInv, TakesEvent, ~engineUp, commands' = commands,
           sessionActive' \in BOOLEAN, dbgpEvents[1].kind = "end" => sessionActive' = FALSE
    PROVE  SetsInv' /\ SessionInv' /\ KnownInv'
<1>1. /\ adds' = adds /\ scripts' = scripts /\ engineUp' = engineUp
      /\ engineIds' = engineIds /\ engine' = engine /\ loose' = loose
  BY DEF TakesEvent, engineVars
<1>2. SetsInv /\ SessionInv /\ dbgpEvents \in Seq(DbgpEvents)
  BY DEF BreakpointsInv, BreakpointsTypeOK
<1>3. SetsInv' /\ KnownInv'
  BY <1>1, <1>2 DEF SetsInv, KnownInv, Tracked, IsSet
<1>4. IF dbgpEvents' = << >> THEN Len(dbgpEvents) = 1
      ELSE dbgpEvents'[Len(dbgpEvents')] = dbgpEvents[Len(dbgpEvents)]
  BY <1>2, TakenEvent DEF TakesEvent
<1>5. dbgpEvents[Len(dbgpEvents)].kind = "end" /\ commands = << >> /\ engineIds = 0
  BY <1>2 DEF SessionInv, TakesEvent
<1>6. SessionInv'
  BY <1>1, <1>4, <1>5 DEF SessionInv
<1> QED
  BY <1>3, <1>6

\* With a script, the first event it has is the session's beginning, and then only
\* answers come.
LEMMA InitKeepsInv ==
    ASSUME BreakpointsTypeOK, BreakpointsInv, TakesEvent, dbgpEvents[1].kind = "init", OnDbgpInit
    PROVE  BreakpointsTypeOK' /\ BreakpointsInv'
<1>1. /\ adds' = adds /\ scripts' = scripts /\ engineUp' = engineUp /\ openInEditor' = openInEditor
      /\ lines' = lines /\ markers' = markers
      /\ engineIds' = engineIds /\ engine' = engine /\ loose' = loose
  BY DEF TakesEvent, engineVars, editorVars
<1>2. /\ ListInv /\ SetsInv /\ SessionInv /\ KnownInv
      /\ breakpoints \in Seq(BreakpointsOfFile) /\ commands \in Seq(Commands)
      /\ dbgpEvents \in Seq(DbgpEvents) /\ scripts \in 0 .. MaxScripts
  BY DEF BreakpointsInv, BreakpointsTypeOK
<1>3. dbgpEvents' \in Seq(DbgpEvents)
  BY <1>2, TakenEvent DEF TakesEvent
<1>4. ASSUME NEW i \in DOMAIN breakpoints
      PROVE  /\ breakpoints[i] \in BreakpointsOfFile /\ <<scripts, breakpoints[i].who>> \in Transactions
             /\ breakpoints[i].who \in Who /\ breakpoints[i].enabled \in BOOLEAN
  <2>1. breakpoints[i] \in BreakpointsOfFile
    BY <1>2, ListIsASeq
  <2>2. breakpoints[i].who \in Who /\ breakpoints[i].enabled \in BOOLEAN
    BY <2>1, BreakpointIsRecord
  <2>3. breakpoints[i].who \in 0 .. MaxAdds
    BY <2>2 DEF Who
  <2> QED
    BY <1>2, <2>1, <2>2, <2>3 DEF Transactions
<1>5. PICK f : f = [i \in DOMAIN breakpoints |->
                       [breakpoints[i] EXCEPT !.transaction = <<scripts, breakpoints[i].who>>]]
  OBVIOUS
<1>6. ASSUME NEW i \in DOMAIN breakpoints
      PROVE  /\ f[i] \in BreakpointsOfFile /\ f[i].who = breakpoints[i].who
             /\ f[i].enabled = breakpoints[i].enabled /\ f[i].id = breakpoints[i].id
             /\ f[i].transaction = <<scripts, breakpoints[i].who>>
  BY <1>4, <1>5, TransactionChanged
<1>7. breakpoints' = f
  BY <1>5 DEF OnDbgpInit
<1>8. f = [i \in DOMAIN breakpoints |-> f[i]]
  BY <1>5
<1>9. breakpoints' \in Seq(BreakpointsOfFile) /\ Len(breakpoints') = Len(breakpoints)
      /\ DOMAIN breakpoints' = DOMAIN breakpoints
  BY <1>2, <1>6, <1>7, <1>8, ListChanged
<1>10. ListInv'
  BY ZenonT(60), <1>1, <1>2, <1>6, <1>7, <1>9 DEF ListInv
<1>11. \A j, k \in DOMAIN breakpoints' : breakpoints'[j].who = breakpoints'[k].who => j = k
  BY <1>9, <1>10, WhosDiffer
<1>12. PICK cs : cs = [i \in DOMAIN breakpoints |-> SetCommand(breakpoints[i])]
  OBVIOUS
<1>13. ASSUME NEW i \in DOMAIN breakpoints
       PROVE  /\ cs[i] \in Commands /\ cs[i].kind = "set" /\ cs[i].who = breakpoints[i].who
              /\ cs[i].enabled = breakpoints[i].enabled
              /\ cs[i].transaction = <<scripts, breakpoints[i].who>>
  <2>1. cs[i] = [kind |-> "set", who |-> breakpoints[i].who, enabled |-> breakpoints[i].enabled,
                 transaction |-> <<scripts, breakpoints[i].who>>]
    BY <1>12 DEF SetCommand
  <2> QED
    BY <1>4, <2>1 DEF Commands
<1>14. /\ DOMAIN breakpoints = 1 .. Len(breakpoints) /\ Len(breakpoints) \in Nat
  BY <1>2, ListIsASeq
<1>15. cs \in Seq(Commands) /\ DOMAIN cs = DOMAIN breakpoints
  <2>1. cs \in [1 .. Len(breakpoints) -> Commands]
    BY <1>12, <1>13, <1>14
  <2> QED
    BY <1>14, <2>1, Numbered
<1>16. commands' = (IF engineUp THEN commands \o cs ELSE commands) /\ sessionActive' = TRUE
  BY <1>12 DEF OnDbgpInit, Posted
<1>17. CASE ~engineUp
  <2>1. SetsInv' /\ SessionInv' /\ KnownInv' /\ commands' = commands
    BY <1>16, <1>17, AfterTheEnd
  <2>2. BreakpointsTypeOK'
    BY <1>1, <1>3, <1>9, <1>11, <1>16, <2>1 DEF BreakpointsTypeOK
  <2> QED
    BY <1>10, <2>1, <2>2 DEF BreakpointsInv
<1>18. CASE engineUp
  <2>1. /\ ~sessionActive /\ dbgpEvents = <<[kind |-> "init"]>> /\ engineIds = 0
        /\ \A k \in DOMAIN commands : ~IsSet(k)
    <3>1. 1 \in DOMAIN dbgpEvents
      BY <1>2, TakenEvent DEF TakesEvent
    <3> QED
      BY <1>2, <1>18, <3>1 DEF SessionInv
  <2>2. dbgpEvents' = << >>
    BY <2>1 DEF TakesEvent
  <2>3. DOMAIN engine = {}
    <3>1. DOMAIN engine \subseteq 1 .. engineIds
      BY DEF BreakpointsTypeOK
    <3>2. 1 .. 0 = {}
      OBVIOUS
    <3> QED
      BY <2>1, <3>1, <3>2
  <2>4. PICK n \in Nat : n = Len(commands)
    BY <1>2, ListIsASeq
  <2>5. /\ commands' \in Seq(Commands) /\ DOMAIN commands \subseteq DOMAIN commands'
        /\ DOMAIN commands = 1 .. n /\ DOMAIN commands' \subseteq Nat
        /\ \A k \in DOMAIN commands : commands'[k] = commands[k]
        /\ \A k \in DOMAIN commands' : k \notin DOMAIN commands =>
               k - n \in DOMAIN breakpoints /\ commands'[k] = cs[k - n]
        /\ \A i \in DOMAIN breakpoints : n + i \in DOMAIN commands' /\ commands'[n + i] = cs[i]
    <3>1. commands' = commands \o cs
      BY <1>16, <1>18
    <3>2. DOMAIN commands' = 1 .. n + Len(cs) /\ Len(cs) \in Nat /\ DOMAIN commands = 1 .. n
      BY <1>2, <1>15, <2>4, <3>1, MoreCommands
    <3>3. DOMAIN commands \subseteq DOMAIN commands' /\ DOMAIN commands' \subseteq Nat
      BY <3>2
    <3> QED
      BY <1>2, <1>15, <2>4, <3>1, <3>2, <3>3, MoreCommands
  <2>6. ASSUME NEW k \in DOMAIN commands', IsSet(k)'
        PROVE  k - n \in DOMAIN breakpoints /\ commands'[k] = cs[k - n]
    <3>1. k \notin DOMAIN commands
      BY <2>1, <2>5, <2>6 DEF IsSet
    <3> QED
      BY <2>5, <3>1
  <2>7. \A k \in DOMAIN commands' : ~IsSet(k)' => k \in DOMAIN commands
    <3> SUFFICES ASSUME NEW k \in DOMAIN commands', k \notin DOMAIN commands PROVE IsSet(k)'
      OBVIOUS
    <3>1. k - n \in DOMAIN breakpoints /\ commands'[k] = cs[k - n]
      BY <2>5
    <3> QED
      BY <1>13, <3>1 DEF IsSet
  <2>8. SetsInv'
    <3>1. \A k \in DOMAIN commands' : IsSet(k)' => engineIds' < commands'[k].who /\ commands'[k].who <= adds'
      <4> SUFFICES ASSUME NEW k \in DOMAIN commands', IsSet(k)'
                   PROVE  engineIds' < commands'[k].who /\ commands'[k].who <= adds'
        OBVIOUS
      <4>1. PICK i \in DOMAIN breakpoints : commands'[k] = cs[i]
        BY <2>6
      <4>2. commands'[k].who = breakpoints[i].who /\ breakpoints[i].who \in Who
        BY <1>4, <1>13, <4>1
      <4>3. 0 < breakpoints[i].who
        BY <4>2 DEF Who
      <4> QED
        BY <1>1, <1>2, <2>1, <4>2, <4>3 DEF ListInv
    <3>2. \A k, m \in DOMAIN commands' :
              IsSet(k)' /\ IsSet(m)' /\ k < m => commands'[k].who < commands'[m].who
      <4> SUFFICES ASSUME NEW k \in DOMAIN commands', NEW m \in DOMAIN commands', IsSet(k)', IsSet(m)', k < m
                   PROVE  commands'[k].who < commands'[m].who
        OBVIOUS
      <4>1. /\ k - n \in DOMAIN breakpoints /\ commands'[k].who = breakpoints[k - n].who
            /\ m - n \in DOMAIN breakpoints /\ commands'[m].who = breakpoints[m - n].who
        BY <1>13, <2>6
      <4>2. k - n < m - n
        BY <2>5
      <4> QED
        BY <1>2, <4>1, <4>2 DEF ListInv
    <3>3. engineIds' <= adds' /\ \A g \in DOMAIN engine' : engine'[g].who <= adds'
      BY <1>1, <1>2 DEF SetsInv
    <3> QED
      BY <3>1, <3>2, <3>3 DEF SetsInv
  <2>9. SessionInv'
    BY <1>1, <1>16, <1>18, <2>2 DEF SessionInv
  <2>10. KnownInv'
    <3> SUFFICES /\ TransactionsFit' /\ SetCommandsFit' /\ SetEventsFit' /\ IdsFit'
                 /\ EnabledFits' /\ EngineFits' /\ OldIds'
      BY DEF KnownInv
    <3>1. TransactionsFit'
      <4>1. \A i \in DOMAIN breakpoints' : breakpoints'[i].transaction = <<scripts', breakpoints'[i].who>>
        BY <1>1, <1>6, <1>7, <1>9
      <4>2. \A k \in DOMAIN commands' : IsSet(k)' => commands'[k].transaction = <<scripts', commands'[k].who>>
        <5> SUFFICES ASSUME NEW k \in DOMAIN commands', IsSet(k)'
                     PROVE  commands'[k].transaction = <<scripts', commands'[k].who>>
          OBVIOUS
        <5>1. PICK i \in DOMAIN breakpoints : commands'[k] = cs[i]
          BY <2>6
        <5> QED
          BY <1>1, <1>13, <5>1
      <4>3. DOMAIN dbgpEvents' = {}
        BY <2>2
      <4> QED
        BY <4>1, <4>2, <4>3 DEF TransactionsFit
    <3>2. SetCommandsFit'
      <4> SUFFICES ASSUME NEW k \in DOMAIN commands', IsSet(k)'
                   PROVE  \E i \in DOMAIN breakpoints' : /\ breakpoints'[i].who = commands'[k].who
                                                         /\ breakpoints'[i].enabled = commands'[k].enabled
        BY <1>1, <2>3 DEF SetCommandsFit
      <4>1. PICK i \in DOMAIN breakpoints : commands'[k] = cs[i]
        BY <2>6
      <4> QED
        BY <1>6, <1>7, <1>9, <1>13, <4>1
    <3>3. SetEventsFit'
      BY <2>2 DEF SetEventsFit
    <3>4. IdsFit'
      <4> SUFFICES ASSUME NEW i \in DOMAIN breakpoints' PROVE InSetCommand(breakpoints[i].who)'
        <5>1. \A i \in DOMAIN breakpoints' : breakpoints'[i].who = f[i].who
          BY <1>7
        <5>2. \A i \in DOMAIN breakpoints' : InSetCommand(breakpoints[i].who)'
          OBVIOUS
        <5> QED
          BY <5>2 DEF IdsFit
      <4>1. n + i \in DOMAIN commands' /\ commands'[n + i] = cs[i]
        BY <1>9, <2>5
      <4>2. cs[i].kind = "set" /\ cs[i].who = breakpoints'[i].who
        BY <1>6, <1>7, <1>9, <1>13
      <4>3. PICK k \in DOMAIN commands' : commands'[k].kind = "set" /\ commands'[k].who = breakpoints'[i].who
        BY <4>1, <4>2
      <4> QED
        BY <4>3 DEF InSetCommand, IsSet
    <3>5. EnabledFits' /\ EngineFits'
      BY <1>1, <2>3 DEF EnabledFits, EngineFits
    <3>6. OldIds'
      <4> SUFFICES ASSUME NEW k \in DOMAIN commands', ~IsSet(k)', NEW j \in DOMAIN commands', j < k
                   PROVE  ~IsSet(j)'
        BY <1>1, <2>1 DEF OldIds
      <4>1. j \in DOMAIN commands
        BY <2>5, <2>7
      <4> QED
        BY <2>1, <2>5, <4>1 DEF IsSet
    <3> QED
      BY <3>1, <3>2, <3>3, <3>4, <3>5, <3>6
  <2>11. BreakpointsTypeOK'
    BY <1>1, <1>3, <1>9, <1>11, <1>16, <2>5 DEF BreakpointsTypeOK
  <2> QED
    BY <1>10, <2>8, <2>9, <2>10, <2>11 DEF BreakpointsInv
<1> QED
  BY <1>17, <1>18

\* An answer gives the breakpoint it is for the id that the engine gave it.
LEMMA SetEventKeepsInv ==
    ASSUME BreakpointsTypeOK, BreakpointsInv, TakesEvent, dbgpEvents[1].kind = "set",
           OnDbgpBreakpointSet(dbgpEvents[1])
    PROVE  BreakpointsTypeOK' /\ BreakpointsInv'
<1>1. /\ adds' = adds /\ scripts' = scripts /\ engineUp' = engineUp /\ openInEditor' = openInEditor
      /\ lines' = lines /\ markers' = markers /\ commands' = commands /\ sessionActive' = sessionActive
      /\ engineIds' = engineIds /\ engine' = engine /\ loose' = loose
  BY DEF TakesEvent, engineVars, editorVars, OnDbgpBreakpointSet
<1>2. /\ ListInv /\ SetsInv /\ SessionInv /\ KnownInv
      /\ breakpoints \in Seq(BreakpointsOfFile) /\ dbgpEvents \in Seq(DbgpEvents)
      /\ sessionActive \in BOOLEAN /\ dbgpEvents # << >>
  BY DEF BreakpointsInv, BreakpointsTypeOK, TakesEvent
<1>3. /\ dbgpEvents' \in Seq(DbgpEvents) /\ 1 \in DOMAIN dbgpEvents /\ dbgpEvents[1] \in DbgpEvents
      /\ \A m \in DOMAIN dbgpEvents' : m + 1 \in DOMAIN dbgpEvents /\ dbgpEvents'[m] = dbgpEvents[m + 1]
      /\ \A m \in DOMAIN dbgpEvents : m = 1 \/ \E k \in DOMAIN dbgpEvents' : k + 1 = m
  BY <1>2, TakenEvent DEF TakesEvent
<1>4. PICK e : e = dbgpEvents[1]
  OBVIOUS
<1>5. e.transaction \in Transactions /\ e.id \in Ids
  BY <1>3, <1>4, EventIsRecord
<1>6. PICK f : f = [i \in DOMAIN breakpoints |->
                       IF breakpoints[i].transaction = e.transaction
                       THEN [breakpoints[i] EXCEPT !.id = e.id] ELSE breakpoints[i]]
  OBVIOUS
<1>7. breakpoints' = f
  BY <1>4, <1>6 DEF OnDbgpBreakpointSet
<1>8. ASSUME NEW i \in DOMAIN breakpoints
      PROVE  /\ f[i] \in BreakpointsOfFile /\ f[i].who = breakpoints[i].who
             /\ f[i].enabled = breakpoints[i].enabled /\ f[i].transaction = breakpoints[i].transaction
             /\ f[i].id = IF breakpoints[i].transaction = e.transaction THEN e.id ELSE breakpoints[i].id
  <2>1. breakpoints[i] \in BreakpointsOfFile
    BY <1>2, ListIsASeq
  <2>2. f[i] = IF breakpoints[i].transaction = e.transaction
               THEN [breakpoints[i] EXCEPT !.id = e.id] ELSE breakpoints[i]
    BY <1>6
  <2> QED
    BY <1>5, <2>1, <2>2, IdChanged
<1>9. f = [i \in DOMAIN breakpoints |-> f[i]]
  BY <1>6
<1>10. breakpoints' \in Seq(BreakpointsOfFile) /\ Len(breakpoints') = Len(breakpoints)
       /\ DOMAIN breakpoints' = DOMAIN breakpoints
  BY <1>2, <1>7, <1>8, <1>9, ListChanged
<1>11. ListInv'
  BY SMTT(30), <1>1, <1>2, <1>7, <1>8, <1>10 DEF ListInv
<1>12. \A j, k \in DOMAIN breakpoints' : breakpoints'[j].who = breakpoints'[k].who => j = k
  BY <1>10, <1>11, WhosDiffer
<1>13. BreakpointsTypeOK'
  BY <1>1, <1>3, <1>10, <1>12 DEF BreakpointsTypeOK
<1>14. CASE ~engineUp
  <2>1. SetsInv' /\ SessionInv' /\ KnownInv'
    BY <1>1, <1>2, <1>14, AfterTheEnd
  <2> QED
    BY <1>11, <1>13, <2>1 DEF BreakpointsInv
<1>15. CASE engineUp
  <2>1. SetsInv'
    BY <1>1, <1>2 DEF SetsInv, IsSet
  <2>2. sessionActive /\ \A m \in DOMAIN dbgpEvents : dbgpEvents[m].kind = "set"
    BY <1>2, <1>3, <1>15 DEF SessionInv
  <2>3. SessionInv'
    BY <1>1, <1>3, <1>15, <2>2 DEF SessionInv
  <2>4. ASSUME ~loose
        PROVE  /\ TransactionsFit' /\ SetCommandsFit' /\ SetEventsFit' /\ IdsFit'
               /\ EnabledFits' /\ EngineFits' /\ OldIds'
    <3>1. /\ TransactionsFit /\ SetCommandsFit /\ SetEventsFit /\ IdsFit
          /\ EnabledFits /\ EngineFits /\ OldIds
      BY <1>2, <1>15, <2>2, <2>4 DEF KnownInv, Tracked
    <3>2. TransactionsFit'
      BY SMTT(30), <1>1, <1>3, <1>7, <1>8, <1>10, <3>1 DEF TransactionsFit, IsSet
    <3>3. SetCommandsFit'
      <4>1. \A k \in DOMAIN commands : IsSet(k)' <=> IsSet(k)
        BY <1>1 DEF IsSet
      <4> QED
        BY <1>1, <1>7, <1>8, <1>10, <3>1, <4>1 DEF SetCommandsFit
    <3>4. \A w : Listed(w) => Listed(w)'
      BY <1>7, <1>8, <1>10 DEF Listed
    <3>5. SetEventsFit'
      <4> SUFFICES ASSUME NEW m \in DOMAIN dbgpEvents'
                   PROVE  /\ dbgpEvents'[m].id \in DOMAIN engine
                          /\ engine[dbgpEvents'[m].id].who = dbgpEvents'[m].transaction[2]
                          /\ Listed(dbgpEvents[m].transaction[2])'
                          /\ \A k \in DOMAIN commands : ~IsSet(k) => commands[k].id # dbgpEvents'[m].id
        BY <1>1 DEF SetEventsFit, IsSet
      <4>1. PICK n \in DOMAIN dbgpEvents : dbgpEvents'[m] = dbgpEvents[n]
        BY <1>3
      <4>2. Listed(dbgpEvents[n].transaction[2])
        BY <3>1, <4>1 DEF SetEventsFit
      <4>3. Listed(dbgpEvents[m].transaction[2])'
        BY <1>7, <1>8, <1>10, <4>1, <4>2 DEF Listed
      <4> QED
        BY <3>1, <4>1, <4>3 DEF SetEventsFit
    <3>6. IdsFit'
      <4> SUFFICES ASSUME NEW i \in DOMAIN breakpoints',
                          ~InSetCommand(breakpoints[i].who)', ~InSetEvent(breakpoints[i].who)'
                   PROVE  /\ breakpoints'[i].id \in DOMAIN engine'
                          /\ engine'[breakpoints'[i].id].who = breakpoints'[i].who
                          /\ \A k \in DOMAIN commands' :
                                 commands'[k].kind = "remove" => commands'[k].id # breakpoints'[i].id
        BY DEF IdsFit
      <4>1. i \in DOMAIN breakpoints /\ breakpoints'[i].who = breakpoints[i].who
        BY <1>7, <1>8, <1>10
      <4>2. ~InSetCommand(breakpoints[i].who)
        BY <1>1, <4>1 DEF InSetCommand, IsSet
      <4>3. breakpoints[i].transaction = <<scripts, breakpoints[i].who>>
        BY <3>1, <4>1 DEF TransactionsFit
      <4>4. CASE breakpoints[i].transaction = e.transaction
        <5>1. breakpoints'[i].id = e.id /\ e.transaction[2] = breakpoints[i].who
          BY <1>7, <1>8, <4>1, <4>3, <4>4
        <5>2. /\ e.id \in DOMAIN engine /\ engine[e.id].who = e.transaction[2]
              /\ \A k \in DOMAIN commands : ~IsSet(k) => commands[k].id # e.id
          BY <1>3, <1>4, <3>1 DEF SetEventsFit
        <5> QED
          BY <1>1, <4>1, <5>1, <5>2 DEF IsSet
      <4>5. CASE breakpoints[i].transaction # e.transaction
        <5>1. breakpoints'[i].id = breakpoints[i].id
          BY <1>7, <1>8, <4>1, <4>5
        <5>2. e.transaction[2] # breakpoints[i].who
          <6>1. e.transaction[1] = scripts
            BY <1>3, <1>4, <3>1 DEF TransactionsFit
          <6>2. e.transaction = <<e.transaction[1], e.transaction[2]>>
            BY <1>5 DEF Transactions
          <6> QED
            BY <4>3, <4>5, <6>1, <6>2
        <5>3. ~InSetEvent(breakpoints[i].who)
          <6> SUFFICES ASSUME NEW m \in DOMAIN dbgpEvents, dbgpEvents[m].transaction[2] = breakpoints[i].who
                       PROVE  FALSE
            BY DEF InSetEvent
          <6>1. m # 1
            BY <1>4, <5>2
          <6>2. PICK k \in DOMAIN dbgpEvents' : dbgpEvents'[k] = dbgpEvents[m]
            BY <1>3, <6>1
          <6>3. dbgpEvents'[k].kind = "set" /\ dbgpEvents'[k].transaction[2] = breakpoints'[i].who
            BY <2>2, <4>1, <6>2
          <6> QED
            BY <6>2, <6>3 DEF InSetEvent
        <5> QED
          BY <1>1, <3>1, <4>1, <4>2, <5>1, <5>3 DEF IdsFit
      <4> QED
        BY <4>4, <4>5
    <3>7. EnabledFits'
      <4>1. \A k, d : Switches(k, d)' <=> Switches(k, d)
        BY <1>1 DEF Switches
      <4> QED
        BY <1>1, <1>7, <1>8, <1>10, <3>1, <4>1 DEF EnabledFits
    <3>8. EngineFits'
      BY <1>1, <3>1, <3>4 DEF EngineFits
    <3>9. OldIds'
      BY <1>1, <3>1 DEF OldIds, IsSet
    <3> QED
      BY <3>2, <3>3, <3>5, <3>6, <3>7, <3>8, <3>9
  <2> QED
    BY <1>1, <1>11, <1>13, <2>1, <2>3, <2>4 DEF BreakpointsInv, KnownInv, Tracked
<1> QED
  BY <1>14, <1>15

\* The end of a script is the last the feature hears of it.
LEMMA EndKeepsInv ==
    ASSUME BreakpointsTypeOK, BreakpointsInv, TakesEvent, dbgpEvents[1].kind = "end", OnScriptEnded
    PROVE  BreakpointsTypeOK' /\ BreakpointsInv'
<1>1. /\ adds' = adds /\ scripts' = scripts /\ engineUp' = engineUp /\ openInEditor' = openInEditor
      /\ lines' = lines /\ markers' = markers /\ commands' = commands /\ sessionActive' = FALSE
      /\ breakpoints' = breakpoints
      /\ engineIds' = engineIds /\ engine' = engine /\ loose' = loose
  BY DEF TakesEvent, engineVars, editorVars, OnScriptEnded
<1>2. ListInv /\ SessionInv /\ dbgpEvents \in Seq(DbgpEvents) /\ dbgpEvents # << >>
  BY DEF BreakpointsInv, BreakpointsTypeOK, TakesEvent
<1>3. dbgpEvents' \in Seq(DbgpEvents) /\ 1 \in DOMAIN dbgpEvents
  BY <1>2, TakenEvent DEF TakesEvent
<1>4. ~engineUp
  BY <1>2, <1>3 DEF SessionInv
<1>5. SetsInv' /\ SessionInv' /\ KnownInv'
  BY <1>1, <1>4, AfterTheEnd
<1>6. ListInv'
  BY <1>1, <1>2 DEF ListInv
<1>7. BreakpointsTypeOK'
  BY <1>1, <1>3 DEF BreakpointsTypeOK
<1> QED
  BY <1>5, <1>6, <1>7 DEF BreakpointsInv

LEMMA HandlingKeepsInv ==
    ASSUME BreakpointsTypeOK, BreakpointsInv, HandleDbgpEvent
    PROVE  BreakpointsTypeOK' /\ BreakpointsInv'
<1>1. TakesEvent
  BY DEF HandleDbgpEvent, TakesEvent
<1>2. Head(dbgpEvents) = dbgpEvents[1]
  OBVIOUS
<1>3. \/ dbgpEvents[1].kind = "init" /\ OnDbgpInit
      \/ dbgpEvents[1].kind = "set" /\ OnDbgpBreakpointSet(dbgpEvents[1])
      \/ dbgpEvents[1].kind = "end" /\ OnScriptEnded
  BY <1>2 DEF HandleDbgpEvent
<1> QED
  BY <1>1, <1>3, InitKeepsInv, SetEventKeepsInv, EndKeepsInv

-----------------------------------------------------------------------------
LEMMA BreakpointsStart == BreakpointsInit => BreakpointsTypeOK /\ BreakpointsInv
<1> SUFFICES ASSUME BreakpointsInit PROVE BreakpointsTypeOK /\ BreakpointsInv
  OBVIOUS
<1>1. /\ breakpoints = << >> /\ adds = 0 /\ openInEditor = TRUE /\ lines = 2 /\ markers = << >>
      /\ sessionActive = FALSE /\ scripts = 0 /\ engineUp = FALSE /\ engineIds = 0 /\ engine = << >>
      /\ commands = << >> /\ dbgpEvents = << >> /\ loose = FALSE
  BY DEF BreakpointsInit
<1>2. \A S : << >> \in Seq(S)
  OBVIOUS
<1>3. DOMAIN breakpoints = {} /\ Len(breakpoints) = 0 /\ DOMAIN markers = {} /\ DOMAIN engine = {}
      /\ DOMAIN commands = {}
  BY <1>1
<1>4. /\ 0 \in 0 .. MaxAdds /\ 2 \in 1 .. MaxLines /\ 0 \in 0 .. MaxScripts
  OBVIOUS
<1>5. BreakpointsTypeOK
  BY <1>1, <1>2, <1>3, <1>4 DEF BreakpointsTypeOK, Ids
<1>6. ListInv /\ SetsInv
  BY <1>1, <1>3 DEF ListInv, SetsInv
<1>7. SessionInv /\ KnownInv
  BY <1>1 DEF SessionInv, KnownInv, Tracked
<1> QED
  BY <1>5, <1>6, <1>7 DEF BreakpointsInv

\* Every step keeps the types and the invariant.
LEMMA BreakpointsStep ==
    BreakpointsTypeOK /\ BreakpointsInv /\ [BreakpointsNext]_breakpointVars
        => BreakpointsTypeOK' /\ BreakpointsInv'
<1> SUFFICES ASSUME BreakpointsTypeOK, BreakpointsInv, [BreakpointsNext]_breakpointVars
             PROVE  BreakpointsTypeOK' /\ BreakpointsInv'
  OBVIOUS
<1>1. ASSUME NEW k \in 1 .. lines, InsertLine(k) \/ DeleteLine(k)
      PROVE  BreakpointsTypeOK' /\ BreakpointsInv'
  BY <1>1, LinesMove, EditorKeepsInv
<1>2. ASSUME NEW k \in 1 .. lines, ToggleBreakpoint(k) PROVE BreakpointsTypeOK' /\ BreakpointsInv'
  BY <1>2, TogglingKeepsInv
<1>3. CASE OpenInEditor
  BY <1>3, Opening, EditorKeepsInv DEF BreakpointsInv
<1>4. ASSUME NEW c \in BOOLEAN, CloseInEditor(c) PROVE BreakpointsTypeOK' /\ BreakpointsInv'
  BY <1>4, Closing, EditorKeepsInv
<1>5. ASSUME NEW i \in DOMAIN breakpoints, BreakpointRemove(i)
      PROVE  BreakpointsTypeOK' /\ BreakpointsInv'
  BY <1>5, PanelRemoveKeepsInv
<1>6. ASSUME NEW i \in DOMAIN breakpoints, BreakpointDisable(i)
      PROVE  BreakpointsTypeOK' /\ BreakpointsInv'
  BY <1>6, DisablingKeepsInv
<1>7. ASSUME NEW i \in DOMAIN breakpoints, BreakpointEnable(i)
      PROVE  BreakpointsTypeOK' /\ BreakpointsInv'
  BY <1>7, EnablingKeepsInv
<1>8. CASE Finish
  BY <1>8, FinishingKeepsInv
<1>9. CASE ScriptConnects
  BY <1>9, ConnectingKeepsInv
<1>10. CASE EngineAnswers
  BY <1>10, AnswersKeepInv
<1>11. CASE ScriptEnds
  BY <1>11, ScriptEndKeepsInv
<1>12. CASE HandleDbgpEvent
  BY <1>12, HandlingKeepsInv
<1>13. CASE UNCHANGED breakpointVars
  <2>1. EditorStep
    <3>1. /\ breakpoints' = breakpoints /\ markers' = markers /\ lines' = lines
          /\ openInEditor' = openInEditor
          /\ UNCHANGED <<adds, sessionActive, scripts, engineVars, commands, dbgpEvents, loose>>
      BY <1>13 DEF breakpointVars, engineVars
    <3>2. breakpoints \in Seq(BreakpointsOfFile) /\ openInEditor \in BOOLEAN
      BY DEF BreakpointsTypeOK
    <3>3. SameList
      BY <3>1, <3>2 DEF SameList
    <3> QED
      BY <3>1, <3>2, <3>3, MarkersAreFit DEF EditorStep
  <2> QED
    BY <2>1, EditorKeepsInv
<1> QED
  BY <1>1, <1>2, <1>3, <1>4, <1>5, <1>6, <1>7, <1>8, <1>9, <1>10, <1>11, <1>12, <1>13 DEF BreakpointsNext

\* The types of the list of breakpoints, of the markers, and of what the engine of a
\* script knows, and no two breakpoints taken for one.
THEOREM BreakpointsTypeCorrect == BreakpointsSpec => []BreakpointsTypeOK
<1>1. BreakpointsSpec => [](BreakpointsTypeOK /\ BreakpointsInv)
  BY BreakpointsStart, BreakpointsStep, PTL DEF BreakpointsSpec
<1> QED
  BY <1>1, PTL

\* With nothing on its way, the invariant says that the engine knows the list.
LEMMA KnownShows == BreakpointsTypeOK /\ BreakpointsInv => EngineKnowsTheList
<1> SUFFICES ASSUME BreakpointsTypeOK, BreakpointsInv, engineUp, sessionActive,
                    commands = << >>, dbgpEvents = << >>, ~loose
             PROVE  {engine[d] : d \in DOMAIN engine}
                        = {[who |-> breakpoints[i].who, enabled |-> breakpoints[i].enabled]
                               : i \in DOMAIN breakpoints}
  BY DEF EngineKnowsTheList
<1>1. IdsFit /\ EnabledFits /\ EngineFits
  BY DEF BreakpointsInv, KnownInv, Tracked
<1>2. DOMAIN commands = {} /\ DOMAIN dbgpEvents = {}
  OBVIOUS
<1>3. ASSUME NEW d \in DOMAIN engine
      PROVE  engine[d] = [who |-> engine[d].who, enabled |-> engine[d].enabled]
  BY DEF BreakpointsTypeOK
<1>4. ASSUME NEW d \in DOMAIN engine, NEW i \in DOMAIN breakpoints, engine[d].who = breakpoints[i].who
      PROVE  engine[d] = [who |-> breakpoints[i].who, enabled |-> breakpoints[i].enabled]
  <2>1. engine[d].enabled = breakpoints[i].enabled
    BY <1>1, <1>2, <1>4 DEF EnabledFits
  <2> QED
    BY <1>3, <1>4, <2>1
<1>5. ASSUME NEW d \in DOMAIN engine
      PROVE  \E i \in DOMAIN breakpoints :
                 engine[d] = [who |-> breakpoints[i].who, enabled |-> breakpoints[i].enabled]
  <2>1. PICK i \in DOMAIN breakpoints : breakpoints[i].who = engine[d].who
    BY <1>1, <1>2 DEF EngineFits, Listed
  <2> QED
    BY <1>4, <2>1
<1>6. ASSUME NEW i \in DOMAIN breakpoints
      PROVE  \E d \in DOMAIN engine :
                 engine[d] = [who |-> breakpoints[i].who, enabled |-> breakpoints[i].enabled]
  <2>1. breakpoints[i].id \in DOMAIN engine /\ engine[breakpoints[i].id].who = breakpoints[i].who
    BY <1>1, <1>2 DEF IdsFit, InSetCommand, InSetEvent
  <2> QED
    BY <1>4, <2>1
<1> QED
  BY <1>5, <1>6

\* For any number of breakpoints and of scripts: when nothing is on its way, the
\* engine has the breakpoints of the list, and has enabled those that the list has.
THEOREM EngineStaysInformed == BreakpointsSpec => []EngineKnowsTheList
<1>1. BreakpointsSpec => [](BreakpointsTypeOK /\ BreakpointsInv)
  BY BreakpointsStart, BreakpointsStep, PTL DEF BreakpointsSpec
<1> QED
  BY <1>1, KnownShows, PTL
=============================================================================
