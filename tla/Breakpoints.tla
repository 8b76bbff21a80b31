---------------------------- MODULE Breakpoints ----------------------------
(***************************************************************************)
(* The breakpoints of one file: the list that DebuggerFeatureClass keeps,  *)
(* the markers of the editor that show them and move with the text, and    *)
(* what the debug engine of a script knows of them.  The engine gives each *)
(* breakpoint an id in its answer to breakpoint_set; the commands that     *)
(* remove, enable and disable name that id.                                *)
(*                                                                         *)
(* Commands reach the engine in order; those of a script that has ended    *)
(* are dropped here, and the next script connects when the events of the   *)
(* last are handled (what may be carried over otherwise is the subject of  *)
(* module Debugger).  A transaction is named by the script it belongs to   *)
(* and the breakpoint it sets.  The engines of successive scripts run in   *)
(* one process of a web server and count their ids from 1.                 *)
(***************************************************************************)
EXTENDS Integers, FiniteSets, SequencesExt

CONSTANTS
    MaxLines,       \* bound on the lines of the file
    MaxAdds,        \* bound on the breakpoints added
    MaxMarkers,     \* bound on the markers there are at a time
    MaxCommands,    \* bound on the commands that wait when another is given
    MaxScripts      \* bound on the scripts debugged

ASSUME BreakpointsAssumption ==
    /\ {MaxLines, MaxAdds, MaxMarkers, MaxCommands, MaxScripts} \subseteq Nat
    /\ MaxAdds <= MaxMarkers /\ MaxLines >= 2

VARIABLES
    breakpoints,    \* Breakpoints; "who" tells apart what the code does not name
    adds,
    openInEditor,
    lines,
    markers,        \* the lines of the markers, by handle
    sessionActive,  \* IsDebuggerSessionActive
    scripts,
    engineUp, engineIds, engine,    \* a script, the ids given, its breakpoints
    commands,       \* on their way to the engine
    dbgpEvents,     \* on their way to the feature
    loose           \* this script got a command with an id that may not be the one meant

breakpointVars == <<breakpoints, adds, openInEditor, lines, markers, sessionActive, scripts,
                    engineUp, engineIds, engine, commands, dbgpEvents, loose>>
engineVars == <<engineUp, engineIds, engine>>
editorVars == <<openInEditor, lines, markers>>

Who == 1 .. MaxAdds
Ids == 0 .. MaxAdds             \* 0: no id yet
Handles == -1 .. MaxMarkers    \* -1: closed; 0: never marked
Transactions == (0 .. MaxScripts) \X (0 .. MaxAdds)
BreakpointsOfFile ==
    [who : Who, line : -1 .. MaxLines, enabled : BOOLEAN, handle : Handles,
     id : Ids, transaction : Transactions]
Commands ==
    [kind : {"set"}, who : Who, enabled : BOOLEAN, transaction : Transactions]
    \cup [kind : {"remove", "enable", "disable"}, id : Ids]
DbgpEvents ==
    [kind : {"init", "end"}] \cup [kind : {"set"}, transaction : Transactions, id : Ids]

BreakpointsTypeOK ==
    /\ breakpoints \in Seq(BreakpointsOfFile)
    /\ \A i, j \in DOMAIN breakpoints : breakpoints[i].who = breakpoints[j].who => i = j
    /\ adds \in 0 .. MaxAdds
    /\ openInEditor \in BOOLEAN /\ lines \in 1 .. MaxLines
    /\ DOMAIN markers \subseteq Handles /\ \A h \in DOMAIN markers : markers[h] \in 1 .. lines
    /\ sessionActive \in BOOLEAN /\ engineUp \in BOOLEAN /\ loose \in BOOLEAN
    /\ scripts \in 0 .. MaxScripts /\ engineIds \in Ids
    /\ DOMAIN engine \subseteq 1 .. engineIds
    /\ \A d \in DOMAIN engine : engine[d] \in [who : Who, enabled : BOOLEAN]
    /\ commands \in Seq(Commands)
    /\ dbgpEvents \in Seq(DbgpEvents)

BreakpointsInit ==
    /\ breakpoints = << >> /\ adds = 0
    /\ openInEditor = TRUE /\ lines = 2 /\ markers = << >>
    /\ sessionActive = FALSE /\ scripts = 0
    /\ engineUp = FALSE /\ engineIds = 0 /\ engine = << >>
    /\ commands = << >> /\ dbgpEvents = << >> /\ loose = FALSE

-----------------------------------------------------------------------------
(***************************************************************************)
(* The editor's markers.                                                   *)
(***************************************************************************)

\* The handle of the next marker: handles of markers that are gone are not reused.
FreshHandle(ms, bs) ==
    CHOOSE h \in 1 .. MaxMarkers + 1 :
        /\ h \notin DOMAIN ms \cup {bs[i].handle : i \in DOMAIN bs}
        /\ \A g \in 1 .. h - 1 : g \in DOMAIN ms \cup {bs[i].handle : i \in DOMAIN bs}

Marked(ms, h, l) == [g \in DOMAIN ms \cup {h} |-> IF g = h THEN l ELSE ms[g]]

\* MarkerDelete takes away one of the markers of a line.
Unmarked(ms, l) ==
    LET there == {h \in DOMAIN ms : ms[h] = l}
    IN  IF there = {} THEN {ms} ELSE {[g \in DOMAIN ms \ {h} |-> ms[g]] : h \in there}

MarkerLine(h) == IF h \in DOMAIN markers' THEN markers'[h] ELSE -1

\* OnStyledTextModified: UpdateBreakpointLineNumber moves every breakpoint of the
\* file that has a handle, for each of them in turn; what remains is the line of
\* the last one's marker.
FollowsMarkers(bs) ==
    [i \in DOMAIN bs |->
        IF bs[i].handle = 0 THEN bs[i] ELSE [bs[i] EXCEPT !.line = MarkerLine(bs[Len(bs)].handle)]]

InsertLine(k) ==
    /\ openInEditor
    /\ lines < MaxLines
    /\ lines' = lines + 1
    /\ markers' = [h \in DOMAIN markers |-> IF markers[h] >= k THEN markers[h] + 1 ELSE markers[h]]
    /\ breakpoints' = FollowsMarkers(breakpoints)
    /\ UNCHANGED <<adds, openInEditor, sessionActive, scripts, engineVars, commands, dbgpEvents, loose>>

\* Line k is joined to the one before; its markers go with it.
DeleteLine(k) ==
    /\ openInEditor
    /\ k > 1
    /\ lines' = lines - 1
    /\ markers' = [h \in DOMAIN markers |-> IF markers[h] >= k THEN markers[h] - 1 ELSE markers[h]]
    /\ breakpoints' = FollowsMarkers(breakpoints)
    /\ UNCHANGED <<adds, openInEditor, sessionActive, scripts, engineVars, commands, dbgpEvents, loose>>

\* The breakpoints are marked one after the other, in a text that has no markers
\* yet; one whose line is not in the file gets the handle 0.
HandleAtOpen(i) ==
    LET InFile(j) == breakpoints[j].line \in 1 .. lines
    IN  IF InFile(i) THEN Cardinality({j \in 1 .. i : InFile(j)}) ELSE 0

OpenInEditor ==
    /\ ~openInEditor
    /\ openInEditor' = TRUE
    /\ breakpoints' = [i \in DOMAIN breakpoints |-> [breakpoints[i] EXCEPT !.handle = HandleAtOpen(i)]]
    /\ markers' = [h \in {HandleAtOpen(i) : i \in DOMAIN breakpoints} \ {0} |->
                      breakpoints[CHOOSE i \in DOMAIN breakpoints : HandleAtOpen(i) = h].line]
    /\ UNCHANGED <<adds, lines, sessionActive, scripts, engineVars, commands, dbgpEvents, loose>>

\* EVENT_APP_FILE_CLOSED, which is published also when the user cancels.
CloseInEditor(cancelled) ==
    /\ openInEditor
    /\ breakpoints' = [i \in DOMAIN breakpoints |-> [breakpoints[i] EXCEPT !.handle = -1]]
    /\ openInEditor' = cancelled
    /\ markers' = IF cancelled THEN markers ELSE << >>
    /\ UNCHANGED <<adds, lines, sessionActive, scripts, engineVars, commands, dbgpEvents, loose>>

-----------------------------------------------------------------------------
(***************************************************************************)
(* Adding, removing, enabling and disabling.                               *)
(***************************************************************************)

SetCommand(b) ==
    [kind |-> "set", who |-> b.who, enabled |-> b.enabled, transaction |-> <<scripts, b.who>>]

\* PostCmd: nobody takes the command if there is no script.
Posted(cs) == IF engineUp THEN commands \o cs ELSE commands

\* The command for a breakpoint names what the engine knows of another one, or
\* nothing because the answer to its breakpoint_set is not there yet.
Misses(b, found) ==
    /\ engineUp /\ sessionActive
    /\ \/ b.who # found.who
       \/ \E c \in ToSet(commands) : c.kind = "set" /\ c.who = b.who
       \/ \E e \in ToSet(dbgpEvents) : e.kind = "set" /\ e.transaction[2] = b.who

First(l) ==
    LET at == {i \in DOMAIN breakpoints : breakpoints[i].line = l}
    IN  IF at = {} THEN 0 ELSE CHOOSE i \in at : \A j \in at : i <= j

Without(i) == [j \in 1 .. Len(breakpoints) - 1 |-> breakpoints[IF j < i THEN j ELSE j + 1]]

\* A mutant: the transaction is not remembered.
AddedUnnamed(l, h) ==
    LET b == [who |-> adds + 1, line |-> l, enabled |-> TRUE, handle |-> h, id |-> 0,
              transaction |-> <<0, 0>>]
    IN  /\ adds < MaxAdds
        /\ adds' = adds + 1
        /\ breakpoints' = Append(breakpoints, b)
        /\ commands' = IF sessionActive THEN Posted(<<SetCommand(b)>>) ELSE commands

AddBreakpointAtLine(l, h) ==
    LET b == [who |-> adds + 1, line |-> l, enabled |-> TRUE, handle |-> h, id |-> 0,
              transaction |-> IF sessionActive THEN <<scripts, adds + 1>> ELSE <<0, 0>>]
    IN  /\ adds < MaxAdds
        /\ adds' = adds + 1
        /\ breakpoints' = Append(breakpoints, b)
        /\ commands' = IF sessionActive THEN Posted(<<SetCommand(b)>>) ELSE commands

\* OnMarginClick, OnToggleBreakpoint, with RemoveBreakpointAtLine.
ToggleBreakpoint(l) ==
    /\ openInEditor
    /\ Len(commands) < MaxCommands
    /\ LET i == First(l)
           h == FreshHandle(markers, breakpoints)
       IN  IF i = 0
           THEN /\ h <= MaxMarkers
                /\ markers' = Marked(markers, h, l)
                /\ AddBreakpointAtLine(l, h)
                /\ UNCHANGED loose
           ELSE /\ breakpoints' = Without(i)
                /\ markers' \in Unmarked(markers, l)
                /\ commands' = IF sessionActive
                               THEN Posted(<<[kind |-> "remove", id |-> breakpoints[i].id]>>)
                               ELSE commands
                /\ loose' = (loose \/ Misses(breakpoints[i], breakpoints[i]))
                /\ UNCHANGED adds
    /\ UNCHANGED <<openInEditor, lines, sessionActive, scripts, engineVars, dbgpEvents>>

\* The panel names a breakpoint by its row, the view looks for the first of its
\* line; the command is posted whether there is a session or not.
PanelCommand(i, kind) ==
    /\ Len(commands) < MaxCommands
    /\ commands' = Posted(<<[kind |-> kind, id |-> breakpoints[i].id]>>)
    /\ loose' = (loose \/ Misses(breakpoints[i], breakpoints[First(breakpoints[i].line)]))
    /\ UNCHANGED <<adds, openInEditor, lines, sessionActive, scripts, engineVars, dbgpEvents>>

BreakpointRemove(i) ==
    /\ markers' \in IF openInEditor THEN Unmarked(markers, breakpoints[i].line) ELSE {markers}
    /\ breakpoints' = Without(First(breakpoints[i].line))
    /\ PanelCommand(i, "remove")

BreakpointDisable(i) ==
    /\ breakpoints[i].enabled
    /\ markers' \in IF openInEditor THEN Unmarked(markers, breakpoints[i].line) ELSE {markers}
    /\ breakpoints' = [breakpoints EXCEPT ![First(breakpoints[i].line)].enabled = FALSE]
    /\ PanelCommand(i, "disable")

\* OnToggleAllBreakpoints enables all, those that are enabled too, one after the
\* other.  A line that is not in the file gets no marker, and the handle 0.
BreakpointEnable(i) ==
    /\ \E j \in DOMAIN breakpoints : ~breakpoints[j].enabled
    /\ LET l == breakpoints[i].line
           marked == openInEditor /\ l \in 1 .. lines
           h == IF marked THEN FreshHandle(markers, breakpoints) ELSE IF openInEditor THEN 0 ELSE -1
       IN  /\ h <= MaxMarkers
           /\ markers' = IF marked THEN Marked(markers, h, l) ELSE markers
           /\ breakpoints' = [breakpoints EXCEPT ![First(l)].enabled = TRUE, ![First(l)].handle = h]
    /\ PanelCommand(i, "enable")

\* The numbers of S from the least to the greatest.
LeastFirst(S) ==
    {is \in [1 .. Cardinality(S) -> S] : \A j, k \in DOMAIN is : j < k => is[j] < is[k]}

\* Finish disables what is enabled and lets the script run to its end.
Finish ==
    /\ sessionActive
    /\ Len(commands) < MaxCommands
    /\ \E is \in LeastFirst({i \in DOMAIN breakpoints : breakpoints[i].enabled}) :
           commands' = Posted([k \in DOMAIN is |-> [kind |-> "disable", id |-> breakpoints[is[k]].id]])
    /\ loose' = TRUE
    /\ UNCHANGED <<breakpoints, adds, editorVars, sessionActive, scripts, engineVars, dbgpEvents>>

-----------------------------------------------------------------------------
(***************************************************************************)
(* The engine, and its events.                                             *)
(***************************************************************************)

ScriptConnects ==
    /\ ~engineUp
    /\ dbgpEvents = << >>
    /\ scripts < MaxScripts
    /\ scripts' = scripts + 1
    /\ engineUp' = TRUE /\ engineIds' = 0 /\ engine' = << >>
    /\ dbgpEvents' = Append(dbgpEvents, [kind |-> "init"])
    /\ loose' = FALSE
    /\ UNCHANGED <<breakpoints, adds, editorVars, sessionActive, commands>>

Known(d, b) == [g \in DOMAIN engine \cup {d} |-> IF g = d THEN b ELSE engine[g]]

Switched(id, on) ==
    IF id \in DOMAIN engine THEN [engine EXCEPT ![id].enabled = on] ELSE engine

EngineAnswers ==
    /\ engineUp
    /\ commands # << >>
    /\ commands' = Tail(commands)
    /\ LET c == Head(commands)
       IN  \/ /\ c.kind = "set"
              /\ engineIds' = engineIds + 1
              /\ engine' = Known(engineIds', [who |-> c.who, enabled |-> c.enabled])
              /\ dbgpEvents' = Append(dbgpEvents,
                     [kind |-> "set", transaction |-> c.transaction, id |-> engineIds'])
           \/ /\ c.kind = "remove"
              /\ engine' = [d \in DOMAIN engine \ {c.id} |-> engine[d]]
              /\ UNCHANGED <<engineIds, dbgpEvents>>
           \/ /\ c.kind \in {"enable", "disable"}
              /\ engine' = Switched(c.id, c.kind = "enable")
              /\ UNCHANGED <<engineIds, dbgpEvents>>
    /\ UNCHANGED <<breakpoints, adds, editorVars, sessionActive, scripts, engineUp, loose>>

ScriptEnds ==
    /\ engineUp
    /\ engineUp' = FALSE /\ engineIds' = 0 /\ engine' = << >>
    /\ commands' = << >>
    /\ dbgpEvents' = Append(dbgpEvents, [kind |-> "end"])
    /\ UNCHANGED <<breakpoints, adds, editorVars, sessionActive, scripts, loose>>

\* Every breakpoint is sent, with the transaction its answer will have.
OnDbgpInit ==
    /\ breakpoints' = [i \in DOMAIN breakpoints |->
           [breakpoints[i] EXCEPT !.transaction = <<scripts, breakpoints[i].who>>]]
    /\ commands' = Posted([i \in DOMAIN breakpoints |-> SetCommand(breakpoints[i])])
    /\ sessionActive' = TRUE

OnDbgpBreakpointSet(e) ==
    /\ breakpoints' = [i \in DOMAIN breakpoints |->
           IF breakpoints[i].transaction = e.transaction
           THEN [breakpoints[i] EXCEPT !.id = e.id] ELSE breakpoints[i]]
    /\ UNCHANGED <<commands, sessionActive>>

\* OnDbgpContinue with a script that is stopping, or OnDbgpError.
OnScriptEnded ==
    /\ sessionActive' = FALSE
    /\ UNCHANGED <<breakpoints, commands>>

HandleDbgpEvent ==
    /\ dbgpEvents # << >>
    /\ dbgpEvents' = Tail(dbgpEvents)
    /\ LET e == Head(dbgpEvents)
       IN  \/ e.kind = "init" /\ OnDbgpInit
           \/ e.kind = "set" /\ OnDbgpBreakpointSet(e)
           \/ e.kind = "end" /\ OnScriptEnded
    /\ UNCHANGED <<adds, editorVars, scripts, engineVars, loose>>

-----------------------------------------------------------------------------
BreakpointsNext ==
    \/ \E k \in 1 .. lines : InsertLine(k) \/ DeleteLine(k) \/ ToggleBreakpoint(k)
    \/ OpenInEditor \/ \E c \in BOOLEAN : CloseInEditor(c)
    \/ \E i \in DOMAIN breakpoints : BreakpointRemove(i) \/ BreakpointDisable(i) \/ BreakpointEnable(i)
    \/ Finish
    \/ ScriptConnects \/ EngineAnswers \/ ScriptEnds
    \/ HandleDbgpEvent

BreakpointsSpec == BreakpointsInit /\ [][BreakpointsNext]_breakpointVars

-----------------------------------------------------------------------------
\* When nothing is on its way, the engine's breakpoints are those of the list, as
\* enabled as there, unless a command was posted before the id it needs was known
\* or for a line with two breakpoints.
EngineKnowsTheList ==
    engineUp /\ sessionActive /\ commands = << >> /\ dbgpEvents = << >> /\ ~loose =>
        {engine[d] : d \in DOMAIN engine}
            = {[who |-> breakpoints[i].who, enabled |-> breakpoints[i].enabled] : i \in DOMAIN breakpoints}

\* "that way we can track movements of the breakpoint when code is added or
\* deleted": every breakpoint is on the line of its marker.
BreakpointsFollowMarkers ==
    \A i \in DOMAIN breakpoints :
        breakpoints[i].handle \in DOMAIN markers
            => breakpoints[i].line = markers[breakpoints[i].handle]
=============================================================================
