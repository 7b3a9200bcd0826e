----------------------------- MODULE MCBrokerEngine -----------------------------
(***************************************************************************)
(* BrokerEngine for TLC: a root session, a child delegated from it with    *)
(* one credential and a budget, a token that no session has, and requests  *)
(* that fail in each of the pure stages beside one that passes them all.   *)
(***************************************************************************)
EXTENDS BrokerEngine, TLC

CONSTANTS root, kid, stranger, ChildBudget

MCSetDims == {"credentials"}
MCNames == {"n1", "n2"}
MCPatterns == {Text(<<"a", "**">>)}
MCPaths == {Text(<<"a">>)}
MCRequested ==
  {[sets |-> [d \in MCSetDims |-> {"n1"}], paths |-> {Text(<<"a", "**">>)},
    remaining |-> ChildBudget]}

\* The store after `agent session create` and one delegation.
MCInitialSessions ==
  LET empty == [s \in SessionIds |-> None]
      created == create_impl(empty, root, "ag1", "dev", None, 0)
  IN delegate_inner(created, kid, root, CHOOSE r \in MCRequested : TRUE)

Target(name) == [names |-> [d \in MCSetDims |-> name], path |-> Text(<<"a">>)]

Passing(name) ==
  [protocol |-> TRUE, canonical |-> TRUE, egress |-> TRUE, policy |-> TRUE,
   target |-> Target(name)]

\* One request that every stage passes, one outside the child's delegation.
TwoShapes == {Passing("n1"), Passing("n2")}

\* Those, and one that fails in each earlier stage.
AllShapes ==
  TwoShapes \cup
  {[Passing("n1") EXCEPT !.protocol = FALSE], [Passing("n1") EXCEPT !.canonical = FALSE],
   [Passing("n1") EXCEPT !.egress = FALSE], [Passing("n1") EXCEPT !.policy = FALSE]}

Symmetry == Permutations(Calls)
===============================================================================
