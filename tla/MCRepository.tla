----------------------------- MODULE MCRepository -----------------------------
(***************************************************************************)
(* Repository for TLC: two branches, an environment, an empty repository   *)
(* or one with a short history.                                            *)
(***************************************************************************)
EXTENDS Repository

CONSTANTS main, side, prod, v, w, plain, other, msg

\* Bound: environments are followed no further than the first commit.
PinnedEarly == \A e \in Envs : envs[e] \in {None, 1}

\* Bound: what is staged when the last commit has been made is not followed.
StagedEarly == op = None /\ Len(commits) = MaxCommits => is_empty(index)

Early == PinnedEarly /\ StagedEarly

(***************************************************************************)
(* After: commit 1 on main, branch side; v changed twice on main (2, 3)    *)
(* with prod created and protected in between; w added on side (4).        *)
(***************************************************************************)
Made(parents, atV, atW) ==
  [parents |-> parents, manifest |-> [x \in Vars |-> IF x = v THEN atV ELSE atW],
   message |-> <<"commit", msg, None>>]

DivergedInit ==
  /\ commits = <<Made(<<>>, plain, None), Made(<<1>>, other, None),
                 Made(<<2>>, plain, None), Made(<<1>>, plain, plain)>>
  /\ heads = [b \in Branches |-> IF b = main THEN 3 ELSE 4]
  /\ envs = [e \in Envs |-> 2]
  /\ protected = [e \in Envs |-> TRUE]
  /\ head = main
  /\ index = EmptyIndex
  /\ op = None

DivergedSpec == DivergedInit /\ [][Next]_vars
===============================================================================
