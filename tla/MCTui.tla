-------------------------------- MODULE MCTui ---------------------------------
(***************************************************************************)
(* TuiApp for TLC: a project and the one another process may turn it into, *)
(* with fewer agents, sessions, environments, branches and audit rows, and *)
(* the keys the event loop gives a meaning to.                             *)
(***************************************************************************)
EXTENDS TuiApp

plain(c) == [code |-> c, ctrl |-> FALSE]
PressedKeys == {plain(c) : c \in {"1","2","3","4","5","6","7","q","r","Tab","Up","Down","Enter","Esc","x","y","n","f","d","u","t"}}
   \cup {[code |-> c, ctrl |-> TRUE] : c \in {"s", "c"}}
environment(n, p) == [name |-> n, protected |-> p]
variable(k) == [kind |-> k, reference |-> "r"]
snapshot(agents, sessions, envs, branches, audit) ==
  [agents |-> agents, sessions |-> sessions, envs |-> envs, branches |-> branches, audit |-> audit,
   remotes |-> <<"origin">>, variables |-> <<variable("secret"), variable("config")>>, history |-> <<"c1">>, diff |-> <<"+">>]
ProjectSnapshots == {
  snapshot(<<"a", "b">>, [a |-> <<"s1">>, b |-> <<"s2", "s3">>], <<environment("dev", FALSE), environment("prod", TRUE)>>, <<"main", "side">>, <<TRUE, FALSE>>),
  snapshot(<<"a">>, [a |-> <<"s1">>], <<environment("dev", TRUE)>>, <<"main">>, <<FALSE>>)}
PolicyNameList == <<"p">>
===============================================================================
