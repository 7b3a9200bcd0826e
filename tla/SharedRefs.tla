------------------------------- MODULE SharedRefs -------------------------------
(***************************************************************************)
(* What the team shares, as its members are promised it: a growing history *)
(* of commits and named tips that only ever move forward along it.         *)
(***************************************************************************)
EXTENDS Naturals, Sequences

CONSTANT RefNames

VARIABLES
  parents,  \* parents[n] is the parent of commit n, 0 for a root
  tips      \* ref -> commit, 0 while the ref is absent

\* The parents of the commits of S are in S.
ParentClosed(ps, S) == \A n \in S \ {0} : ps[n] \in S

\* Commit n and its ancestors, up to the 0 before the root.
Lineage(ps, n) == {a \in 0..n : \A S \in SUBSET (0..n) : n \in S /\ ParentClosed(ps, S) => a \in S}

Init == /\ parents \in Seq(Nat) /\ tips \in [RefNames -> 0..Len(parents)]

\* Somebody commits on top of something.
Commit(p) == /\ p \in 0..Len(parents)
             /\ parents' = Append(parents, p)
             /\ UNCHANGED tips

\* A ref is created, or moves to a descendant of the commit it named.
Publish(r, n) == /\ n \in 1..Len(parents)
                 /\ tips[r] = 0 \/ tips[r] \in Lineage(parents, n)
                 /\ tips' = [tips EXCEPT ![r] = n]
                 /\ UNCHANGED parents

Next == \/ \E p \in 0..Len(parents) : Commit(p)
        \/ \E r \in RefNames, n \in 1..Len(parents) : Publish(r, n)

Spec == Init /\ [][Next]_<<parents, tips>>
===============================================================================
