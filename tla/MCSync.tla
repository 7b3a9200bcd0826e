--------------------------------- MODULE MCSync ---------------------------------
(***************************************************************************)
(* SyncProtocol for TLC: two working copies, a branch and a protected      *)
(* environment, answers and uploads of one object at a time.               *)
(***************************************************************************)
EXTENDS SyncProtocol

CONSTANTS ann, bob

\* One client publishes with authorization; the other publishes and pulls
\* without.
MCCommands == (ann :> {[what |-> "push", auth |-> TRUE]}) @@
              (bob :> {[what |-> "push", auth |-> FALSE], [what |-> "pull", auth |-> FALSE]})

\* Both push and then pull.
MCSyncBoth == [c \in Clients |-> {[what |-> "sync", auth |-> FALSE]}]
MCMaxCommits == [c \in Clients |-> 1]
MCRefOrder == <<"main", "prod">>
===============================================================================
