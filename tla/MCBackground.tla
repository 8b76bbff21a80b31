---------------------------- MODULE MCBackground ----------------------------
(***************************************************************************)
(* What views have done in the background and hear of in events, for TLC:  *)
(* the check for modified files, the tags of the text that is typed, lint  *)
(* checks, the processes of the console.  They share no state and are      *)
(* checked next to each other: one of them takes all the steps of a        *)
(* behaviour, the others stay as they begin.                               *)
(***************************************************************************)
EXTENDS ModifiedCheck, WorkingCache, Lint, Console

VARIABLE part

vars == <<part, checkVars, cacheVars, lintVars, consoleVars>>

Parts == {"check", "cache", "lint", "console"}

FilesToLint == <<"a.php", "b.php">>

\* A part that takes no steps begins in one way only.
Init ==
    /\ part \in Parts
    /\ CheckInit /\ (part # "check" => \A f \in CheckedFiles : fileTime[f] = 0)
    /\ CacheInit /\ (part # "cache" => \A b \in Buffers : saved[b] = 0)
    /\ LintInit
    /\ ConsoleInit

Next ==
    \/ /\ part = "check" /\ CheckNext
       /\ UNCHANGED <<part, cacheVars, lintVars, consoleVars>>
    \/ /\ part = "cache" /\ CacheNext
       /\ UNCHANGED <<part, checkVars, lintVars, consoleVars>>
    \/ /\ part = "lint" /\ LintNext
       /\ UNCHANGED <<part, checkVars, cacheVars, consoleVars>>
    \/ /\ part = "console" /\ ConsoleNext
       /\ UNCHANGED <<part, checkVars, cacheVars, lintVars>>

\* The types of the part that takes the steps.
BackgroundTypeOK ==
    CASE part = "check" -> CheckTypeOK
      [] part = "cache" -> CacheTypeOK
      [] part = "lint" -> LintTypeOK
      [] part = "console" -> ConsoleTypeOK

\* Nothing of a part that does not begin is under way: it is not in the way of the
\* fairness of the others.
Spec ==
    Init /\ [][Next]_vars /\ CheckFairness /\ CacheFairness /\ LintFairness /\ ConsoleFairness
=============================================================================
