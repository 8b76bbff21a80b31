----------------------------- MODULE MCPromises -----------------------------
(***************************************************************************)
(* Parts that promise to act like something simpler, for TLC: the          *)
(* sequences, which are one after another; the tag database they fill,     *)
(* which is one table; the panels of the SQL browser, each of which shows  *)
(* its query as if no other ran; the engine of the debugger, which has the *)
(* breakpoints of the editor as if nothing were between them.  They are    *)
(* checked next to each other: one of them takes all the steps of a        *)
(* behaviour, the others stay as they begin.                               *)
(***************************************************************************)
EXTENDS Sequence, TagDb, SqlQueries, Breakpoints, TLC

CONSTANTS index, model, readme, lib, app, page

VARIABLE part

promisesVars == <<part, vars, tagDbVars, sqlVars, breakpointVars>>

\* The second source directory is below the first.
SourceFilesOf == (app :> {index, model}) @@ (lib :> {model, readme})
SourceDirectories == {{index, model}}
DirectoryRenames == {(model :> index)}

PromisesInit ==
    /\ part \in {"sequence", "tags", "sql", "breakpoints"}
    /\ Init
    /\ TagDbInit /\ (part # "tags" => \A f \in Files : fileText[f] = 0)
    /\ SqlInit
    /\ BreakpointsInit

PromisesNext ==
    \/ part = "sequence" /\ Next /\ UNCHANGED <<part, tagDbVars, sqlVars, breakpointVars>>
    \/ part = "tags" /\ TagDbNext /\ UNCHANGED <<part, vars, sqlVars, breakpointVars>>
    \/ part = "sql" /\ SqlNext /\ UNCHANGED <<part, vars, tagDbVars, breakpointVars>>
    \/ part = "breakpoints" /\ BreakpointsNext /\ UNCHANGED <<part, vars, tagDbVars, sqlVars>>

PromisesSpec == PromisesInit /\ [][PromisesNext]_promisesVars
=============================================================================
