---------------------------- MODULE NumberOrder ----------------------------
(***************************************************************************)
(* The order in which a sorted container hands over what it holds, where   *)
(* this is told by numbers: keys of a std::map, names of directories, of   *)
(* files and of groups of a config file.                                   *)
(***************************************************************************)
EXTENDS Naturals, FiniteSets

Below(S, k) == {j \in S : j < k}

\* The numbers of a finite set, each behind as many as are below it.
Ascending(S) ==
    [i \in 1 .. Cardinality(S) |-> CHOOSE k \in S : Cardinality(Below(S, k)) = i - 1]
=============================================================================
