----------------------------- MODULE SqlQueries -----------------------------
(***************************************************************************)
(* The SQL browser (views/SqlBrowserViewClass): panels in the tools        *)
(* notebook show the results of the statements in a code control.  Each    *)
(* query is an action (MultipleSqlExecuteClass) on the background pool,    *)
(* which has several threads; it posts one result for each statement, and  *)
(* the panel shows them when it is complete.  Events are told apart by the *)
(* panel they are for, not by the query.                                   *)
(*                                                                         *)
(* A result is <<query, statement>>.  There is one code control at a time, *)
(* a connection is always chosen, and action ids begin with 1.             *)
(***************************************************************************)
EXTENDS Naturals, Sequences, FiniteSets, SequencesExt

CONSTANTS
    MaxSqlPanels,   \* bound on the panels
    MaxQueries,     \* bound on the queries
    MaxStatements   \* bound on the statements of a query

ASSUME SqlAssumption == {MaxSqlPanels, MaxQueries, MaxStatements} \subseteq Nat

VARIABLES
    codeCtrlIsOpen,  \* the code control of the statements
    sqlPanels,       \* the open panels, in the order of their pages
    panelsMade,      \* counts the panels
    linkedPanels,    \* those that are linked to the code control
    queryActionId,   \* RunningActionId of each panel, 0 for none
    queries,         \* the queries by their action ids
    queryEvents,     \* posted to each panel
    Results,         \* of each panel
    ResultsGrid,     \* the results that each panel shows
    lastAsked,       \* the query whose results each panel should show, or 0
    mixedPanels      \* the panels whose query was asked before the last one was complete

panelVars == <<sqlPanels, panelsMade, linkedPanels>>
resultVars == <<queryActionId, Results, ResultsGrid>>
askedVars == <<lastAsked, mixedPanels>>
sqlVars == <<codeCtrlIsOpen, panelVars, resultVars, queries, queryEvents, askedVars>>

SqlPanels == 1 .. MaxSqlPanels
QueryResults == (1 .. MaxQueries) \X (1 .. MaxStatements + 1)
QueryEvents == [kind : {"result"}, result : QueryResults] \cup [kind : {"complete"}]
Queries ==
    [panel : SqlPanels, statements : 0 .. MaxStatements, connects : BOOLEAN,
     posted : 0 .. MaxStatements + 1,
     state : {"queued", "running", "cancelled", "ended", "dropped", "unheard"}]

SqlTypeOK ==
    /\ codeCtrlIsOpen \in BOOLEAN
    /\ panelsMade \in 0 .. MaxSqlPanels
    /\ sqlPanels \in Seq(1 .. panelsMade) /\ IsInjective(sqlPanels)
    /\ linkedPanels \subseteq ToSet(sqlPanels)
    /\ linkedPanels # {} => codeCtrlIsOpen
    /\ queryActionId \in [SqlPanels -> 0 .. Len(queries)]
    /\ queries \in Seq(Queries) /\ Len(queries) <= MaxQueries
    /\ queryEvents \in [SqlPanels -> Seq(QueryEvents)]
    /\ Results \in [SqlPanels -> Seq(QueryResults)]
    /\ ResultsGrid \in [SqlPanels -> Seq(QueryResults)]
    /\ lastAsked \in [SqlPanels -> 0 .. Len(queries)]
    /\ mixedPanels \subseteq SqlPanels

SqlInit ==
    /\ codeCtrlIsOpen = FALSE
    /\ sqlPanels = << >> /\ panelsMade = 0 /\ linkedPanels = {}
    /\ queryActionId = [p \in SqlPanels |-> 0]
    /\ queries = << >>
    /\ queryEvents = [p \in SqlPanels |-> << >>]
    /\ Results = [p \in SqlPanels |-> << >>]
    /\ ResultsGrid = [p \in SqlPanels |-> << >>]
    /\ lastAsked = [p \in SqlPanels |-> 0]
    /\ mixedPanels = {}

-----------------------------------------------------------------------------
(***************************************************************************)
(* The menu, the panels and the code control.                              *)
(***************************************************************************)

\* CreateResultsPanel, n times: the pages are added at the end.
NewPanels(n) == [k \in 1 .. n |-> panelsMade + k]
CreateResultsPanels(n) ==
    /\ panelsMade + n <= MaxSqlPanels
    /\ panelsMade' = panelsMade + n
    /\ sqlPanels' = sqlPanels \o NewPanels(n)

Unfinished(p) ==
    \/ \E q \in DOMAIN queries :
           queries[q].panel = p /\ queries[q].state \in {"queued", "running", "cancelled"}
    \/ queryEvents[p] # << >>

\* Of a text that is not empty, which may still have no statement.
Query(p, connects, statements) ==
    [panel |-> p, statements |-> statements, connects |-> connects, posted |-> 0, state |-> "queued"]
QueueQuery(p) ==
    /\ Len(queries) < MaxQueries
    /\ \E connects \in BOOLEAN, statements \in 0 .. MaxStatements :
           queries' = Append(queries, Query(p, connects, statements))
    /\ queryActionId' = [queryActionId EXCEPT ![p] = Len(queries')]
    /\ lastAsked' = [lastAsked EXCEPT ![p] = Len(queries')]
    /\ mixedPanels' = IF Unfinished(p) THEN mixedPanels \cup {p} ELSE mixedPanels \ {p}

OnSqlBrowserToolsMenu ==
    /\ ~codeCtrlIsOpen
    /\ CreateResultsPanels(1)
    /\ codeCtrlIsOpen' = TRUE
    /\ linkedPanels' = {panelsMade'}
    /\ UNCHANGED <<queries, queryEvents, resultVars, askedVars>>

\* OnRun: ExecuteCodeControl of the first panel that is linked, or of a new one.
OnRun ==
    /\ codeCtrlIsOpen
    /\ IF linkedPanels # {}
       THEN LET p == sqlPanels[SelectInSeq(sqlPanels, LAMBDA q : q \in linkedPanels)]
            IN  /\ queryActionId[p] = 0
                /\ QueueQuery(p)
                /\ UNCHANGED panelVars
       ELSE /\ CreateResultsPanels(1)
            /\ linkedPanels' = {panelsMade'}
            /\ QueueQuery(panelsMade')
    /\ UNCHANGED <<codeCtrlIsOpen, queryEvents, Results, ResultsGrid>>

\* It does not look at RunningActionId.  A panel that has asked nothing yet shows
\* a result of another one; its query is empty and is not queued.
OnRefreshButton(p) ==
    /\ lastAsked[p] # 0
    /\ QueueQuery(p)
    /\ UNCHANGED <<codeCtrlIsOpen, panelVars, queryEvents, Results, ResultsGrid>>

\* A panel with the rows of a table, linked to no code control.
OnCmdTableDataOpen ==
    /\ CreateResultsPanels(1)
    /\ QueueQuery(panelsMade')
    /\ UNCHANGED <<codeCtrlIsOpen, linkedPanels, queryEvents, Results, ResultsGrid>>

OnAppFileClosed ==
    /\ codeCtrlIsOpen
    /\ codeCtrlIsOpen' = FALSE
    /\ linkedPanels' = {}
    /\ UNCHANGED <<sqlPanels, panelsMade, queries, queryEvents, resultVars, askedVars>>

\* The panel no longer listens, and its last query is cancelled: what its queries
\* do from now on is heard by nobody.
OnSqlPanelClosed(p) ==
    /\ \E i \in DOMAIN sqlPanels : sqlPanels[i] = p /\ sqlPanels' = RemoveAt(sqlPanels, i)
    /\ linkedPanels' = linkedPanels \ {p}
    /\ queries' = [q \in DOMAIN queries |->
                      IF queries[q].panel = p THEN [queries[q] EXCEPT !.state = "unheard"] ELSE queries[q]]
    /\ queryEvents' = [queryEvents EXCEPT ![p] = << >>]
    /\ queryActionId' = [queryActionId EXCEPT ![p] = 0]
    /\ Results' = [Results EXCEPT ![p] = << >>]
    /\ ResultsGrid' = [ResultsGrid EXCEPT ![p] = << >>]
    /\ UNCHANGED <<codeCtrlIsOpen, panelsMade, askedVars>>

\* StopAll of the pool, for a dialog that changes the projects or the preferences.
StopQueries ==
    /\ \E q \in DOMAIN queries : queries[q].state \in {"queued", "running"}
    /\ queries' = [q \in DOMAIN queries |->
                      [queries[q] EXCEPT !.state = CASE @ = "queued" -> "dropped"
                                                     [] @ = "running" -> "cancelled"
                                                     [] OTHER -> @]]
    /\ UNCHANGED <<codeCtrlIsOpen, panelVars, queryEvents, resultVars, askedVars>>

-----------------------------------------------------------------------------
(***************************************************************************)
(* The queries, on the threads of the pool.                                *)
(***************************************************************************)

\* A mutant: the panels do not look for whom an event is.
PostToEveryPanel(q, e) ==
    queryEvents' = [p \in SqlPanels |->
        IF p \in ToSet(sqlPanels) THEN Append(queryEvents[p], e) ELSE queryEvents[p]]

PostToPanel(q, e) ==
    LET p == queries[q].panel
    IN  queryEvents' = [queryEvents EXCEPT ![p] = Append(@, e)]

BeginQuery(q) ==
    /\ queries[q].state = "queued"
    /\ queries' = [queries EXCEPT ![q].state = "running"]
    /\ UNCHANGED queryEvents

\* BackgroundWork posts the result of the next statement, unless it was cancelled,
\* or that there is no connection, even if it was.
ExecuteStatement(q) ==
    /\ IF queries[q].connects
       THEN queries[q].state = "running" /\ queries[q].posted < queries[q].statements
       ELSE queries[q].state \in {"running", "cancelled"} /\ queries[q].posted = 0
    /\ queries' = [queries EXCEPT ![q].posted = @ + 1]
    /\ PostToPanel(q, [kind |-> "result", result |-> <<q, queries'[q].posted>>])

EndQuery(q) ==
    /\ queries[q].state \in {"running", "cancelled"}
    /\ IF queries[q].connects
       THEN queries[q].state = "cancelled" \/ queries[q].posted = queries[q].statements
       ELSE queries[q].posted = 1
    /\ queries' = [queries EXCEPT ![q].state = "ended"]
    /\ PostToPanel(q, [kind |-> "complete"])

QueryWorks ==
    /\ \E q \in DOMAIN queries : BeginQuery(q) \/ ExecuteStatement(q) \/ EndQuery(q)
    /\ UNCHANGED <<codeCtrlIsOpen, panelVars, resultVars, askedVars>>

-----------------------------------------------------------------------------
(***************************************************************************)
(* Their events.                                                           *)
(***************************************************************************)

OnQueryComplete(p, result) ==
    /\ Results' = [Results EXCEPT ![p] = Append(@, result)]
    /\ UNCHANGED <<panelVars, queryActionId, ResultsGrid>>

\* The numbers of n results out of m, in their order.
InOrder(n, m) == {shown \in [1 .. n -> 1 .. m] : \A i, j \in 1 .. n : i < j => shown[i] < shown[j]}

\* RenderAllResults: of more than one result the panel shows a summary, and each
\* that has rows goes to a panel of its own, linked to the code control as well.
RenderAllResults(p) ==
    \E n \in 0 .. Len(Results[p]) : \E shown \in InOrder(n, Len(Results[p])) :
        /\ Len(Results[p]) <= 1 => n = 0
        /\ \A k \in 1 .. n : queries[Results[p][shown[k]][1]].connects
        /\ CreateResultsPanels(n)
        /\ linkedPanels' = linkedPanels \cup IF p \in linkedPanels THEN ToSet(NewPanels(n)) ELSE {}
        /\ ResultsGrid' = [q \in SqlPanels |->
               CASE q = p -> Results[p]
                 [] q \in panelsMade + 1 .. panelsMade + n -> <<Results[p][shown[q - panelsMade]]>>
                 [] OTHER -> ResultsGrid[q]]

\* A mutant: the results stay with the panel.
RenderedOnly(p) ==
    /\ RenderAllResults(p)
    /\ UNCHANGED Results
    /\ queryActionId' = [queryActionId EXCEPT ![p] = 0]

OnSqlActionComplete(p) ==
    /\ RenderAllResults(p)
    /\ Results' = [Results EXCEPT ![p] = << >>]
    /\ queryActionId' = [queryActionId EXCEPT ![p] = 0]

PanelHandlesQueryEvent(p) ==
    /\ queryEvents[p] # << >>
    /\ LET e == Head(queryEvents[p])
       IN  \/ e.kind = "result" /\ OnQueryComplete(p, e.result)
           \/ e.kind = "complete" /\ OnSqlActionComplete(p)
    /\ queryEvents' = [queryEvents EXCEPT ![p] = Tail(@)]
    /\ UNCHANGED <<codeCtrlIsOpen, queries, askedVars>>

SqlNext ==
    \/ OnSqlBrowserToolsMenu \/ OnRun \/ OnCmdTableDataOpen \/ OnAppFileClosed
    \/ StopQueries
    \/ QueryWorks
    \/ \E p \in ToSet(sqlPanels) :
           OnRefreshButton(p) \/ OnSqlPanelClosed(p) \/ PanelHandlesQueryEvent(p)

SqlSpec == SqlInit /\ [][SqlNext]_sqlVars

-----------------------------------------------------------------------------
(***************************************************************************)
(* Properties.                                                             *)
(***************************************************************************)

ResultsOf(q) == [k \in 1 .. queries[q].posted |-> <<q, k>>]
AsEvents(results) == [k \in DOMAIN results |-> [kind |-> "result", result |-> results[k]]]

\* What a panel has got since it was last complete, with what is on its way to it.
Arriving(p) == AsEvents(Results[p]) \o queryEvents[p]
PostedBy(q) ==
    AsEvents(ResultsOf(q))
        \o IF queries[q].state = "ended" THEN <<[kind |-> "complete"]>> ELSE << >>

\* Queries of several panels run at once on several threads, are stopped, and open
\* panels that are run in later: the results of a query gather in its panel, each
\* once and in order, its completion behind them, and then the panel shows just
\* these.  Unless it was refreshed while a query was under way.
PanelsShowTheirQuery ==
    \A p \in ToSet(sqlPanels) : lastAsked[p] # 0 /\ p \notin mixedPanels =>
        IF Unfinished(p)
        THEN Arriving(p) = PostedBy(lastAsked[p])
        ELSE /\ Results[p] = << >>
             /\ queries[lastAsked[p]].state = "ended" => ResultsGrid[p] = ResultsOf(lastAsked[p])

\* A panel shows the results of one query, also when it was refreshed.  Not so: the
\* results of the two that run are shown together when the first is complete.
PanelsShowOneQuery ==
    \A p \in ToSet(sqlPanels), i, j \in 1 .. MaxQueries * (MaxStatements + 1) :
        {i, j} \subseteq DOMAIN ResultsGrid[p] => ResultsGrid[p][i][1] = ResultsGrid[p][j][1]

\* A panel without a query under way can run one.  Not so: it still waits for the
\* query that was dropped with the pool's queue.
IdlePanelsCanRun ==
    \A p \in ToSet(sqlPanels) : ~Unfinished(p) => queryActionId[p] = 0
=============================================================================
