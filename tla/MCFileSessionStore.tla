-------------------------- MODULE MCFileSessionStore --------------------------
(***************************************************************************)
(* FileSessionStore for TLC: two callers, three sessions, one set-valued   *)
(* dimension and budgets of at most two.                                   *)
(***************************************************************************)
EXTENDS FileSessionStore, TLC

MCSetDims == {"credentials"}
MCNames == {"n1", "n2"}
MCPatterns == {Text(<<"a", "**">>)}
MCPaths == {Text(<<"a">>)}

Asking(credentials, remaining) ==
  [sets |-> [d \in MCSetDims |-> credentials], paths |-> None, remaining |-> remaining]

MCRequested == {Asking({"n1"}, None), Asking({"n1", "n2"}, 2)}
MCRequestedOne == {Asking({"n1"}, 1)}

\* The sessions are interchangeable, and so are the callers.
Symmetry == Permutations(SessionIds) \cup Permutations(Procs)
===============================================================================
