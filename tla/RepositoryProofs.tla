---------------------------- MODULE RepositoryProofs ----------------------------
(***************************************************************************)
(* Proofs about Repository: whatever operations run, and wherever one of   *)
(* them dies, refs resolve, history only grows, staged work is not lost    *)
(* and secrets are not picked by a merge. And about Recovery, for every    *)
(* graph of objects, whatever other processes do to the refs meanwhile.    *)
(***************************************************************************)
EXTENDS Repository, TLAPS, WellFoundedInduction, Recovery, FiniteSetTheorems

-------------------------------------------------------------------------------
(* Lineages.                                                               *)

\* A set of numbers that is not empty has a least member.
LEMMA LeastMember ==
  ASSUME NEW T \in SUBSET Nat, T # {}
  PROVE  \E n \in T : \A m \in T : n <= m
<1>1. PICK n \in T : \A m \in T : <<m, n>> \notin OpToRel(<, Nat)
  BY NatLessThanWellFounded, WFMin
<1>2. \A m \in T : ~(m < n)
  BY <1>1 DEF OpToRel
<1> QED BY <1>2

\* Every parent was stored before its child.
Ordered(cs) == \A i \in Ids(cs) : \A j \in ParentSet(cs, i) : j \in 1..(i - 1)

\* What the proofs use of a stored history.
History(cs) == cs \in Seq(Commit) /\ Ordered(cs)

\* The shape of what is stored in a history.
LEMMA HistoryFacts ==
  ASSUME NEW cs, History(cs)
  PROVE  /\ Ids(cs) = 1..Len(cs) /\ Len(cs) \in Nat
         /\ \A i \in Ids(cs) : /\ cs[i] \in Commit /\ cs[i].parents \in Seq(Nat)
                               /\ cs[i].manifest \in Manifest
                               /\ ParentSet(cs, i) \subseteq 1..(i - 1)
<1>1. cs \in Seq(Commit)
  BY DEF History
<1>2. Ids(cs) = 1..Len(cs) /\ Len(cs) \in Nat /\ \A i \in 1..Len(cs) : cs[i] \in Commit
  BY <1>1 DEF Ids
<1> QED BY <1>2 DEF Commit, History, Ordered

\* A commit and the parents of what it is made of belong to its lineage.
LEMMA LineageFacts ==
  ASSUME NEW cs, History(cs), NEW id \in Ids(cs)
  PROVE  /\ id \in Lineage(cs, id)
         /\ Lineage(cs, id) \subseteq Ids(cs)
         /\ \A i \in Lineage(cs, id) : ParentSet(cs, i) \subseteq Lineage(cs, id)
<1>1. /\ Ids(cs) = 1..Len(cs) /\ Len(cs) \in Nat
      /\ \A i \in Ids(cs) : ParentSet(cs, i) \subseteq 1..(i - 1)
  BY HistoryFacts
<1>2. id \in Lineage(cs, id) /\ Lineage(cs, id) \subseteq Ids(cs)
  BY <1>1 DEF Lineage
<1>3. ASSUME NEW i \in Lineage(cs, id), NEW j \in ParentSet(cs, i)
      PROVE  j \in Lineage(cs, id)
  <2>1. i \in 1..id /\ i \in Ids(cs)
    BY <1>1, <1>2, <1>3 DEF Lineage
  <2>2. j \in 1..id
    BY <1>1, <1>3, <2>1
  <2>3. PICK k \in DOMAIN cs[i].parents : j = cs[i].parents[k]
    BY <1>3 DEF ParentSet, Elements
  <2>4. \A S \in SUBSET (1..id) : id \in S /\ ParentClosed(cs, S) => i \in S
    BY <1>3 DEF Lineage
  <2>5. \A S \in SUBSET (1..id) : id \in S /\ ParentClosed(cs, S) => j \in S
    BY <2>3, <2>4 DEF ParentClosed
  <2> QED BY <2>2, <2>5 DEF Lineage
<1> QED BY <1>2, <1>3

\* Storing more commits leaves the lineage of a stored one as it was.
LEMMA LineageStays ==
  ASSUME NEW cs, NEW ds, History(cs), NEW id \in Ids(cs),
         \A i \in Ids(cs) : ds[i] = cs[i]
  PROVE  Lineage(ds, id) = Lineage(cs, id)
<1>1. 1..id \subseteq Ids(cs)
  BY HistoryFacts
<1>2. \A S \in SUBSET (1..id) : ParentClosed(ds, S) <=> ParentClosed(cs, S)
  BY <1>1 DEF ParentClosed
<1> QED BY <1>2 DEF Lineage

-------------------------------------------------------------------------------
(* The walk that searches the merge base.                                  *)

Start(b) == [queue |-> <<b>>, seen |-> {}, found |-> None]

IsWalk(f, cs, known, b, N) ==
  f = [n \in 0..N |-> IF n = 0 THEN Start(b) ELSE WalkStep(cs, known, f[n - 1])]

\* The recursive definition of the walk does define a function.
LEMMA WalkExists ==
  ASSUME NEW cs, NEW known, NEW b, NEW N \in Nat
  PROVE  \E f : IsWalk(f, cs, known, b, N)
<1> DEFINE T == {n \in Nat : ~\E f : IsWalk(f, cs, known, b, n)}
<1> SUFFICES ASSUME T # {} PROVE FALSE
  OBVIOUS
<1>1. PICK n \in T : \A m \in T : n <= m
  BY LeastMember
<1>2. CASE n = 0
  <2> DEFINE f == [m \in 0..0 |-> Start(b)]
  <2>1. f = [m \in 0..0 |-> IF m = 0 THEN Start(b) ELSE WalkStep(cs, known, f[m - 1])]
    OBVIOUS
  <2>2. IsWalk(f, cs, known, b, n)
    BY <1>2, <2>1 DEF IsWalk
  <2> QED BY <2>2
<1>3. CASE n # 0
  <2>1. n - 1 \in Nat /\ n - 1 \notin T
    BY <1>1, <1>3
  <2>2. PICK f : IsWalk(f, cs, known, b, n - 1)
    BY <2>1
  <2> DEFINE g == [m \in 0..n |-> IF m = n THEN WalkStep(cs, known, f[n - 1]) ELSE f[m]]
  <2>3. \A m \in 0..n : g[m] = IF m = 0 THEN Start(b) ELSE WalkStep(cs, known, g[m - 1])
    <3> TAKE m \in 0..n
    <3>1. \A k \in 0..(n - 1) :
            f[k] = IF k = 0 THEN Start(b) ELSE WalkStep(cs, known, f[k - 1])
      BY <2>2 DEF IsWalk
    <3>2. \A k \in 0..(n - 1) : g[k] = f[k]
      OBVIOUS
    <3>3. CASE m = n
      BY <1>3, <2>1, <3>2, <3>3
    <3>4. CASE m # n
      <4>1. m \in 0..(n - 1) /\ (m # 0 => m - 1 \in 0..(n - 1))
        BY <3>4
      <4> QED BY <3>1, <3>2, <4>1
    <3> QED BY <3>3, <3>4
  <2>4. g = [m \in 0..n |-> IF m = 0 THEN Start(b) ELSE WalkStep(cs, known, g[m - 1])]
    BY <2>3
  <2>5. IsWalk(g, cs, known, b, n)
    <3> HIDE DEF g
    <3> QED BY <2>4 DEF IsWalk
  <2> QED BY <2>5
<1> QED BY <1>2, <1>3

\* One step of the walk stays in the lineage it started in.
LEMMA WalkStepStays ==
  ASSUME NEW cs, History(cs), NEW known, NEW b \in Ids(cs),
         NEW w \in [queue : Seq(Lineage(cs, b)), seen : SUBSET Nat,
                    found : Option(known \cap Lineage(cs, b))]
  PROVE  WalkStep(cs, known, w) \in [queue : Seq(Lineage(cs, b)), seen : SUBSET Nat,
                                     found : Option(known \cap Lineage(cs, b))]
<1> DEFINE L == Lineage(cs, b)
           Walks == [queue : Seq(L), seen : SUBSET Nat, found : Option(known \cap L)]
<1>1. w \in Walks /\ w.queue \in Seq(L)
  OBVIOUS
<1>2. /\ L \subseteq Ids(cs) /\ L \subseteq Nat
      /\ \A i \in L : ParentSet(cs, i) \subseteq L /\ cs[i].parents \in Seq(Nat)
  BY LineageFacts, HistoryFacts
<1> HIDE DEF L
<1>3. CASE w.found # None \/ w.queue = <<>>
  BY <1>1, <1>3 DEF WalkStep, L
<1>4. CASE ~(w.found # None \/ w.queue = <<>>)
  <2> DEFINE id == Head(w.queue)
  <2>1. id \in L /\ Tail(w.queue) \in Seq(L)
    BY <1>1, <1>4
  <2>2. cs[id].parents \in Seq(L)
    <3>1. /\ cs[id].parents \in Seq(Nat)
          /\ \A k \in DOMAIN cs[id].parents : cs[id].parents[k] \in L
      BY <1>2, <2>1 DEF ParentSet, Elements
    <3> DEFINE ps == cs[id].parents
    <3> HIDE DEF ps
    <3>2. ps \in Seq(Nat) /\ \A k \in DOMAIN ps : ps[k] \in L
      BY <3>1 DEF ps
    <3>3. ps \in Seq(L)
      BY <3>2
    <3> QED BY <3>3 DEF ps
  <2>3. Tail(w.queue) \o cs[id].parents \in Seq(L)
    BY <2>1, <2>2
  <2>4. [w EXCEPT !.queue = Tail(@)] \in Walks
    BY <1>1, <2>1
  <2>5. id \in known => [w EXCEPT !.found = id] \in Walks
    BY <1>1, <2>1 DEF Option
  <2>6. [w EXCEPT !.queue = Tail(@) \o cs[id].parents, !.seen = @ \cup {id}] \in Walks
    BY <1>1, <1>2, <2>1, <2>3
  <2>7. WalkStep(cs, known, w) =
          IF id \in w.seen THEN [w EXCEPT !.queue = Tail(@)]
          ELSE IF id \in known THEN [w EXCEPT !.found = id]
          ELSE [w EXCEPT !.queue = Tail(@) \o cs[id].parents, !.seen = @ \cup {id}]
    BY <1>4 DEF WalkStep
  <2> HIDE DEF id, Walks
  <2>8. WalkStep(cs, known, w) \in Walks
    BY <2>4, <2>5, <2>6, <2>7
  <2> QED BY <2>8 DEF Walks, L
<1> QED BY <1>3, <1>4

\* A merge base is in the lineage of both sides.
LEMMA MergeBaseShared ==
  ASSUME NEW cs, History(cs), NEW a \in Ids(cs), NEW b \in Ids(cs),
         merge_base(cs, a, b) # None
  PROVE  merge_base(cs, a, b) \in Lineage(cs, a) \cap Lineage(cs, b)
<1> DEFINE known == Lineage(cs, a)
           longest == 2 * Len(cs) + 1
           walk == CHOOSE f : f = [n \in 0..longest |->
                                     IF n = 0 THEN [queue |-> <<b>>, seen |-> {}, found |-> None]
                                     ELSE WalkStep(cs, known, f[n - 1])]
           Walks == [queue : Seq(Lineage(cs, b)), seen : SUBSET Nat,
                     found : Option(known \cap Lineage(cs, b))]
<1>1. merge_base(cs, a, b) = walk[longest].found
  BY DEF merge_base
<1>2. longest \in Nat
  BY HistoryFacts
<1>3. IsWalk(walk, cs, known, b, longest)
  <2>1. \E f : f = [n \in 0..longest |->
                      IF n = 0 THEN [queue |-> <<b>>, seen |-> {}, found |-> None]
                      ELSE WalkStep(cs, known, f[n - 1])]
    <3> HIDE DEF known, longest
    <3>1. PICK f : IsWalk(f, cs, known, b, longest)
      BY <1>2, WalkExists
    <3> QED BY <3>1 DEF IsWalk, Start
  <2> QED BY <2>1 DEF IsWalk, Start
<1> HIDE DEF walk, known, longest, Walks
<1>4. \A n \in 0..longest : walk[n] = IF n = 0 THEN Start(b) ELSE WalkStep(cs, known, walk[n - 1])
  BY <1>3 DEF IsWalk
<1>5. Start(b) \in Walks
  <2>1. <<b>> \in Seq(Lineage(cs, b))
    BY LineageFacts
  <2> QED BY <2>1 DEF Start, Walks, Option
<1>6. \A w \in Walks : WalkStep(cs, known, w) \in Walks
  BY WalkStepStays DEF Walks
<1> DEFINE T == {n \in 0..longest : walk[n] \notin Walks}
<1>7. T = {}
  <2> SUFFICES ASSUME T # {} PROVE FALSE
    OBVIOUS
  <2>0. T \in SUBSET Nat
    BY <1>2
  <2>1. PICK n \in T : \A m \in T : n <= m
    BY <2>0, LeastMember
  <2>2. n # 0
    BY <1>2, <1>4, <1>5, <2>1
  <2>3. n - 1 \in 0..longest /\ n - 1 \notin T
    BY <1>2, <2>1, <2>2
  <2>4. walk[n] = WalkStep(cs, known, walk[n - 1]) /\ walk[n - 1] \in Walks
    BY <1>4, <2>1, <2>2, <2>3
  <2> QED BY <1>6, <2>1, <2>4
<1>8. walk[longest] \in Walks
  BY <1>2, <1>7
<1> QED BY <1>1, <1>8 DEF Walks, Option, known

-------------------------------------------------------------------------------
(* The inductive invariant.                                                *)

\* What the running operation has yet to do is safe to do: its commit is
\* stored, the ref it moves is a parent of it, and the index it empties is in it.
OpSafe ==
  op # None =>
    /\ op.id \in Ids(commits)
    /\ op.next = "advance_head" => heads[head] \in Option(ParentSet(commits, op.id))
    /\ op.next = "write_ref" =>
         op.target \in Branches /\ heads[op.target] \in ParentSet(commits, op.id)
    /\ op.next = "clear_staging" => heads[head] = op.id
    /\ op.clears \/ op.next = "clear_staging" =>
         \A v \in Vars : index[v] # None =>
           LET m == manifest_at(commits, op.id) IN apply_onto(index, m)[v] = m[v]

IInv == RefsResolve /\ OpSafe /\ SecretsNeverPicked

-------------------------------------------------------------------------------
(* What storing a commit does.                                             *)

\* put finds or appends the commit, and touches nothing that was stored.
LEMMA PutFacts ==
  ASSUME NEW cs, History(cs), NEW c \in Commit, Elements(c.parents) \subseteq Ids(cs),
         NEW ds, ds = put(cs, c)
  PROVE  /\ History(ds)
         /\ Ids(cs) \subseteq Ids(ds) /\ \A i \in Ids(cs) : ds[i] = cs[i]
         /\ \A i \in Ids(ds) \ Ids(cs) : ds[i] = c
         /\ id_of(ds, c) \in Ids(ds) /\ ds[id_of(ds, c)] = c
<1>1. cs \in Seq(Commit) /\ Ids(cs) = 1..Len(cs) /\ Len(cs) \in Nat
  BY HistoryFacts DEF History
<1>2. CASE Stored(cs, c)
  BY <1>2 DEF put, Stored, id_of
<1>3. CASE ~Stored(cs, c)
  <2>1. /\ ds \in Seq(Commit) /\ Len(ds) = Len(cs) + 1 /\ ds[Len(cs) + 1] = c
        /\ \A i \in 1..Len(cs) : ds[i] = cs[i]
    BY <1>1, <1>3 DEF put
  <2>2. Ids(ds) = 1..(Len(cs) + 1)
    BY <2>1 DEF Ids
  <2>3. Ordered(ds)
    <3> SUFFICES ASSUME NEW i \in Ids(ds), NEW j \in ParentSet(ds, i)
                 PROVE  j \in 1..(i - 1)
      BY DEF Ordered
    <3>1. CASE i \in 1..Len(cs)
      <4>1. ParentSet(ds, i) = ParentSet(cs, i)
        BY <2>1, <3>1 DEF ParentSet
      <4> QED BY <1>1, <3>1, <4>1 DEF History, Ordered
    <3>2. CASE i = Len(cs) + 1
      <4>1. ParentSet(ds, i) = Elements(c.parents)
        BY <2>1, <3>2 DEF ParentSet
      <4> QED BY <1>1, <3>2, <4>1
    <3> QED BY <1>1, <2>2, <3>1, <3>2
  <2>4. id_of(ds, c) \in Ids(ds) /\ ds[id_of(ds, c)] = c
    BY <1>1, <2>1, <2>2 DEF id_of
  <2> QED BY <1>1, <2>1, <2>2, <2>3, <2>4 DEF History
<1> QED BY <1>2, <1>3

Texts == {"commit", "rollback", "merge"} \X (Messages \cup Branches \cup Nat) \X Option(Branches)

ToDo == [next : {"advance_head", "write_ref"}, id : {None}, clears : BOOLEAN,
         target : Option(Branches), guarded : BOOLEAN]

\* The first half of every operation that makes a commit.
LEMMA StoreStep ==
  ASSUME RefsResolve, NEW parents \in Seq(Nat), NEW manifest \in Manifest,
         NEW message \in Texts, NEW todo \in ToDo,
         store_signed_commit(parents, manifest, message, todo),
         UNCHANGED <<heads, envs, protected, head, index>>
  PROVE  /\ RefsResolve'
         /\ History(commits) /\ History(commits')
         /\ Ids(commits) \subseteq Ids(commits')
         /\ \A i \in Ids(commits) : commits'[i] = commits[i]
         /\ \A i \in Ids(commits') \ Ids(commits) :
              commits'[i] = [parents |-> parents, manifest |-> manifest, message |-> message]
         /\ op'.id \in Ids(commits')
         /\ commits'[op'.id] = [parents |-> parents, manifest |-> manifest, message |-> message]
         /\ op'.next = todo.next /\ op'.clears = todo.clears /\ op'.target = todo.target
<1> DEFINE c == [parents |-> parents, manifest |-> manifest, message |-> message]
<1>1. c \in Commit /\ c.parents = parents
  BY DEF Commit, Texts
<1>2. History(commits)
  BY DEF RefsResolve, TypeOK, History, Ordered
<1>3. /\ Elements(parents) \subseteq Ids(commits)
      /\ commits' = put(commits, c)
      /\ op' = [todo EXCEPT !.id = id_of(commits', c)]
  BY DEF store_signed_commit
<1> HIDE DEF c
<1>4. /\ History(commits')
      /\ Ids(commits) \subseteq Ids(commits') /\ \A i \in Ids(commits) : commits'[i] = commits[i]
      /\ \A i \in Ids(commits') \ Ids(commits) : commits'[i] = c
      /\ id_of(commits', c) \in Ids(commits') /\ commits'[id_of(commits', c)] = c
  BY <1>1, <1>2, <1>3, PutFacts
<1>5. /\ op'.id = id_of(commits', c) /\ op'.next = todo.next /\ op'.clears = todo.clears
      /\ op'.target = todo.target /\ op'.guarded = todo.guarded
      /\ op' = [next |-> todo.next, id |-> id_of(commits', c), clears |-> todo.clears,
                target |-> todo.target, guarded |-> todo.guarded]
  BY <1>3 DEF ToDo
<1>6. op'.id \in Nat
  BY <1>4, <1>5, HistoryFacts
<1>7. TypeOK'
  BY <1>4, <1>5, <1>6 DEF RefsResolve, TypeOK, History, ToDo, Option
<1>8. /\ \A b \in Branches : heads'[b] \in Option(Ids(commits'))
      /\ \A e \in Envs : envs'[e] \in Option(Ids(commits'))
  BY <1>4 DEF RefsResolve, Option
<1>9. RefsResolve'
  BY <1>4, <1>7, <1>8 DEF RefsResolve, History, Ordered
<1> QED BY <1>2, <1>4, <1>5, <1>9 DEF c

-------------------------------------------------------------------------------
(* Merges and secrets.                                                     *)

\* SecretsNeverPicked, of one commit.
Unpicked(cs, i) ==
  cs[i].message[1] = "merge" =>
    \A v \in Vars : (\E p \in ParentSet(cs, i) : cs[p].manifest[v] \in Secrets) =>
      \A p \in ParentSet(cs, i) : cs[p].manifest[v] # cs[i].manifest[v] =>
        \E a \in Ids(cs) : /\ \A q \in ParentSet(cs, i) : a \in Lineage(cs, q)
                           /\ cs[a].manifest[v] = cs[p].manifest[v]

\* A merge that was right stays right while history grows.
LEMMA UnpickedStays ==
  ASSUME NEW cs, NEW ds, History(cs), NEW i \in Ids(cs), Unpicked(cs, i),
         Ids(cs) \subseteq Ids(ds), \A j \in Ids(cs) : ds[j] = cs[j]
  PROVE  Unpicked(ds, i)
<1>1. ds[i] = cs[i] /\ ParentSet(ds, i) = ParentSet(cs, i)
  BY DEF ParentSet
<1>2. ParentSet(cs, i) \subseteq Ids(cs)
  BY HistoryFacts
<1>3. \A p \in ParentSet(cs, i) : ds[p] = cs[p] /\ Lineage(ds, p) = Lineage(cs, p)
  BY <1>2, LineageStays
<1> QED BY <1>1, <1>2, <1>3 DEF Unpicked

\* The merge of two sides with a base both descend from is right.
LEMMA MergeUnpicked ==
  ASSUME NEW ds, NEW i, NEW o \in Ids(ds), NEW t \in Ids(ds), NEW base \in Ids(ds), NEW strategy,
         base \in Lineage(ds, o), base \in Lineage(ds, t),
         ds[i].parents = <<o, t>>,
         ds[i].manifest = merge_inner(ds[base].manifest, ds[o].manifest, ds[t].manifest, strategy),
         conflicts(ds[base].manifest, ds[o].manifest, ds[t].manifest, strategy) = {}
  PROVE  Unpicked(ds, i)
<1>1. ParentSet(ds, i) = {o, t}
  BY DEF ParentSet, Elements
<1> SUFFICES ASSUME NEW v \in Vars, NEW p \in {o, t},
                    ds[o].manifest[v] \in Secrets \/ ds[t].manifest[v] \in Secrets,
                    ds[p].manifest[v] # ds[i].manifest[v]
             PROVE  ds[base].manifest[v] = ds[p].manifest[v]
  BY <1>1 DEF Unpicked
<1>2. Agreed(ds[base].manifest[v], ds[o].manifest[v], ds[t].manifest[v])
  BY DEF conflicts, SecretConflict
<1>3. ds[i].manifest[v] = resolved(ds[base].manifest[v], ds[o].manifest[v], ds[t].manifest[v])
  BY <1>2 DEF merge_inner
<1> QED BY <1>2, <1>3 DEF Agreed, resolved

\* The property of all commits is the property of each.
LEMMA SecretsByCommit == SecretsNeverPicked <=> \A i \in Ids(commits) : Unpicked(commits, i)
BY DEF SecretsNeverPicked, Unpicked
-------------------------------------------------------------------------------
(* The operations that make a commit.                                      *)

\* What each of them stores has the shape of a commit.
LEMMA StoredTypes ==
  ASSUME RefsResolve
  PROVE  /\ HeadParents \in Seq(Nat)
         /\ \A id \in Option(Ids(commits)) : manifest_at(commits, id) \in Manifest
         /\ \A m \in Manifest : apply_onto(index, m) \in Manifest
         /\ \A clears \in BOOLEAN : AdvanceHead(clears) \in ToDo
         /\ \A target \in Branches, g \in BOOLEAN : WriteRef(target, g) \in ToDo
<1>1. heads[head] \in Option(Ids(commits)) /\ History(commits)
  BY DEF RefsResolve, TypeOK, History, Ordered
<1>2. /\ Ids(commits) \subseteq Nat /\ None \notin Ids(commits)
      /\ \A i \in Ids(commits) : commits[i].manifest \in Manifest
  BY <1>1, HistoryFacts, NoneIsNoId
<1>3. HeadParents \in Seq(Nat)
  BY <1>1, <1>2 DEF HeadParents, current_head, Option
<1>4. \A id \in Option(Ids(commits)) : manifest_at(commits, id) \in Manifest
  BY <1>2 DEF manifest_at, Option, EmptyManifest, Manifest
<1>5. \A m \in Manifest : apply_onto(index, m) \in Manifest
  <2> SUFFICES ASSUME NEW m \in Manifest
               PROVE  apply_onto(index, m) \in Manifest
    OBVIOUS
  <2>1. \A v \in Vars : m[v] \in Option(Entries) /\ index[v] \in Entries \cup {Removed, None}
    BY DEF Manifest, RefsResolve, TypeOK, StagingIndex
  <2>2. \A v \in Vars : (CASE index[v] = None -> m[v]
                           [] index[v] = Removed -> None
                           [] OTHER -> index[v]) \in Option(Entries)
    BY <2>1, EntryAssumption DEF Option
  <2> QED BY <2>2 DEF apply_onto, Manifest
<1>6. /\ \A clears \in BOOLEAN : AdvanceHead(clears) \in ToDo
      /\ \A target \in Branches, g \in BOOLEAN : WriteRef(target, g) \in ToDo
  BY DEF AdvanceHead, WriteRef, ToDo, Option
<1> QED BY <1>3, <1>4, <1>5, <1>6

\* A commit on top of HEAD: HEAD is its parent, and it is no merge.
LEMMA HeadCommitStep ==
  ASSUME IInv, NEW manifest \in Manifest, NEW kind \in {"commit", "rollback"},
         NEW subject \in Messages \cup Branches \cup Nat, NEW clears \in BOOLEAN,
         store_signed_commit(HeadParents, manifest, <<kind, subject, None>>, AdvanceHead(clears)),
         UNCHANGED <<heads, envs, protected, head, index>>,
         clears => \A v \in Vars : index[v] # None => apply_onto(index, manifest)[v] = manifest[v]
  PROVE  /\ IInv'
         /\ \A i \in Ids(commits) : i \in Ids(commits') /\ commits'[i] = commits[i]
<1>1. RefsResolve /\ SecretsNeverPicked
  BY DEF IInv
<1>2. /\ HeadParents \in Seq(Nat) /\ AdvanceHead(clears) \in ToDo
      /\ <<kind, subject, None>> \in Texts
  BY <1>1, StoredTypes DEF Texts, Option
<1> DEFINE c == [parents |-> HeadParents, manifest |-> manifest, message |-> <<kind, subject, None>>]
<1>3. /\ RefsResolve' /\ History(commits) /\ History(commits')
      /\ Ids(commits) \subseteq Ids(commits')
      /\ \A i \in Ids(commits) : commits'[i] = commits[i]
      /\ \A i \in Ids(commits') \ Ids(commits) : commits'[i] = c
      /\ op'.id \in Ids(commits') /\ commits'[op'.id] = c
      /\ op'.next = AdvanceHead(clears).next /\ op'.clears = AdvanceHead(clears).clears
  BY <1>1, <1>2, StoreStep, SMTT(40)
<1>4. op'.next = "advance_head" /\ op'.clears = clears
  BY <1>3 DEF AdvanceHead
<1>5. /\ c.parents = HeadParents /\ c.manifest = manifest /\ c.message[1] # "merge"
  OBVIOUS
<1> HIDE DEF c
<1>6. heads'[head'] \in Option(ParentSet(commits', op'.id))
  <2>1. heads[head] # None => HeadParents = <<heads[head]>>
    BY DEF HeadParents, current_head
  <2>2. ParentSet(commits', op'.id) = Elements(HeadParents)
    BY <1>3, <1>5 DEF ParentSet
  <2>3. heads[head] # None => heads[head] \in Elements(HeadParents)
    BY <2>1 DEF Elements
  <2> QED BY <2>2, <2>3 DEF Option
<1>7. manifest_at(commits', op'.id) = manifest
  <2>1. op'.id # None
    BY <1>3, HistoryFacts, NoneIsNoId
  <2> QED BY <1>3, <1>5, <2>1 DEF manifest_at
<1>8. OpSafe'
  BY <1>3, <1>4, <1>6, <1>7 DEF OpSafe
<1>9. \A i \in Ids(commits') : Unpicked(commits', i)
  <2>1. \A i \in Ids(commits) : Unpicked(commits', i)
    BY <1>1, <1>3, SecretsByCommit, UnpickedStays
  <2>2. \A i \in Ids(commits') \ Ids(commits) : Unpicked(commits', i)
    BY <1>3, <1>5 DEF Unpicked
  <2> QED BY <2>1, <2>2
<1>10. SecretsNeverPicked'
  BY <1>9 DEF SecretsNeverPicked, Unpicked
<1> QED BY <1>3, <1>8, <1>10 DEF IInv

\* A merge: both tips are its parents, and no secret is picked.
LEMMA MergeStep ==
  ASSUME IInv, NEW theirs \in Branches, NEW target \in Branches, merge_branch(theirs, target)
  PROVE  /\ IInv'
         /\ \A i \in Ids(commits) : i \in Ids(commits') /\ commits'[i] = commits[i]
<1> DEFINE o == heads[target]
           t == heads[theirs]
           base_commit == merge_base(commits, o, t)
           base == manifest_at(commits, base_commit)
           ours == manifest_at(commits, o)
           incoming == manifest_at(commits, t)
<1>1. RefsResolve /\ SecretsNeverPicked /\ History(commits)
  BY DEF IInv, RefsResolve, TypeOK, History, Ordered
<1>2. o # None /\ t # None /\ base_commit # None /\ UNCHANGED <<heads, envs, protected, head, index>>
  BY DEF merge_branch
<1>3. PICK strategy \in {None, "ours", "theirs"}, allow_weaker_protection \in BOOLEAN :
        /\ conflicts(base, ours, incoming, strategy) = {}
        /\ store_signed_commit(<<o, t>>, merge_inner(base, ours, incoming, strategy),
                               <<"merge", theirs, target>>, WriteRef(target, ~allow_weaker_protection))
  BY DEF merge_branch
<1>4. o \in Ids(commits) /\ t \in Ids(commits)
  BY <1>1, <1>2 DEF RefsResolve, Option
<1>5. /\ base_commit \in Lineage(commits, o) /\ base_commit \in Lineage(commits, t)
      /\ base_commit \in Ids(commits)
  BY <1>1, <1>2, <1>4, MergeBaseShared, LineageFacts
<1>6. Ids(commits) \subseteq Nat /\ None \notin Ids(commits)
  BY <1>1, HistoryFacts, NoneIsNoId
<1>7. /\ base = commits[base_commit].manifest /\ ours = commits[o].manifest
      /\ incoming = commits[t].manifest
      /\ ours \in Manifest /\ incoming \in Manifest
  BY <1>1, <1>4, <1>5, <1>6, HistoryFacts DEF manifest_at
<1> DEFINE merged == merge_inner(base, ours, incoming, strategy)
           todo == WriteRef(target, ~allow_weaker_protection)
           c == [parents |-> <<o, t>>, manifest |-> merged, message |-> <<"merge", theirs, target>>]
<1> HIDE DEF o, t, base_commit, base, ours, incoming
<1>8. /\ <<o, t>> \in Seq(Nat) /\ merged \in Manifest
      /\ <<"merge", theirs, target>> \in Texts /\ todo \in ToDo
  <2>1. merged \in Manifest
    BY <1>7 DEF merge_inner, Manifest, resolved
  <2>2. <<o, t>> \in Seq(Nat)
    BY <1>4, <1>6
  <2>3. todo \in ToDo
    BY <1>1, StoredTypes
  <2> QED BY <2>1, <2>2, <2>3 DEF Texts, Option
<1> HIDE DEF merged, todo
<1>9. /\ RefsResolve' /\ History(commits')
      /\ Ids(commits) \subseteq Ids(commits')
      /\ \A i \in Ids(commits) : commits'[i] = commits[i]
      /\ \A i \in Ids(commits') \ Ids(commits) : commits'[i] = c
      /\ op'.id \in Ids(commits') /\ commits'[op'.id] = c
      /\ op'.next = todo.next /\ op'.clears = todo.clears /\ op'.target = todo.target
  <2>1. store_signed_commit(<<o, t>>, merged, <<"merge", theirs, target>>, todo)
    BY <1>3 DEF merged, todo
  <2> QED BY <1>1, <1>2, <1>8, <2>1, StoreStep, ZenonT(40)
<1>10. op'.next = "write_ref" /\ ~op'.clears /\ op'.target = target
  BY <1>9 DEF WriteRef, todo
<1>11. c.parents = <<o, t>> /\ c.manifest = merged
  OBVIOUS
<1> HIDE DEF c
<1>12. OpSafe'
  <2>1. ParentSet(commits', op'.id) = {o, t}
    BY <1>9, <1>11 DEF ParentSet, Elements
  <2>2. heads'[op'.target] = o
    BY <1>2, <1>10 DEF o
  <2> QED BY <1>9, <1>10, <2>1, <2>2 DEF OpSafe
<1>13. \A i \in Ids(commits') : Unpicked(commits', i)
  <2>1. \A i \in Ids(commits) : Unpicked(commits', i)
    BY <1>1, <1>9, SecretsByCommit, UnpickedStays
  <2>2. ASSUME NEW i \in Ids(commits') \ Ids(commits)
        PROVE  Unpicked(commits', i)
    <3>1. /\ o \in Ids(commits') /\ t \in Ids(commits') /\ base_commit \in Ids(commits')
          /\ commits'[o] = commits[o] /\ commits'[t] = commits[t]
          /\ commits'[base_commit] = commits[base_commit]
      BY <1>4, <1>5, <1>9
    <3>2. Lineage(commits', o) = Lineage(commits, o) /\ Lineage(commits', t) = Lineage(commits, t)
      BY <1>1, <1>4, <1>9, LineageStays
    <3>3. /\ commits'[i].parents = <<o, t>>
          /\ commits'[i].manifest = merge_inner(commits'[base_commit].manifest, commits'[o].manifest,
                                                commits'[t].manifest, strategy)
          /\ conflicts(commits'[base_commit].manifest, commits'[o].manifest,
                       commits'[t].manifest, strategy) = {}
      BY <1>3, <1>7, <1>9, <1>11, <2>2, <3>1 DEF merged
    <3> QED BY <1>5, <3>1, <3>2, <3>3, MergeUnpicked
  <2> QED BY <2>1, <2>2
<1>14. SecretsNeverPicked'
  BY <1>13 DEF SecretsNeverPicked, Unpicked
<1> QED BY <1>9, <1>12, <1>14 DEF IInv
-------------------------------------------------------------------------------
(* Every step.                                                             *)

\* The steps that store no commit keep everything that speaks of commits.
LEMMA QuietStep ==
  ASSUME IInv, UNCHANGED commits, TypeOK', OpSafe',
         \A b \in Branches : heads'[b] \in Option(Ids(commits)),
         \A e \in Envs : envs'[e] \in Option(Ids(commits))
  PROVE  IInv'
<1>1. RefsResolve'
  BY DEF IInv, RefsResolve
<1>2. SecretsNeverPicked'
  <2>1. \A i \in Ids(commits) : Unpicked(commits, i)
    BY SecretsByCommit DEF IInv
  <2>2. \A i \in Ids(commits') : Unpicked(commits', i)
    BY <2>1
  <2> QED BY <2>2 DEF SecretsNeverPicked, Unpicked
<1> QED BY <1>1, <1>2 DEF IInv

\* The inductive step, and with it what no operation does to stored commits.
LEMMA InvStep ==
  ASSUME IInv, [Next]_vars
  PROVE  /\ IInv'
         /\ \A i \in Ids(commits) : i \in Ids(commits') /\ commits'[i] = commits[i]
<1>1. /\ TypeOK /\ RefsResolve /\ OpSafe /\ History(commits)
      /\ \A b \in Branches : heads[b] \in Option(Ids(commits))
      /\ \A e \in Envs : envs[e] \in Option(Ids(commits))
  BY DEF IInv, RefsResolve, TypeOK, History, Ordered
<1>2. Ids(commits) \subseteq Nat
  BY <1>1, HistoryFacts
<1>3. ASSUME NEW v \in Vars, restore(v)
      PROVE  IInv' /\ UNCHANGED commits
  <2>1. TypeOK' /\ OpSafe'
    BY <1>1, <1>3 DEF restore, TypeOK, StagingIndex, OpSafe
  <2> QED BY <1>1, <1>3, <2>1, QuietStep DEF restore
<1>4. ASSUME NEW v \in Vars, NEW change \in Entries \cup {Removed}, stage_change(v, change)
      PROVE  IInv' /\ UNCHANGED commits
  <2>1. TypeOK' /\ OpSafe'
    BY <1>1, <1>4 DEF stage_change, TypeOK, StagingIndex, OpSafe
  <2> QED BY <1>1, <1>4, <2>1, QuietStep DEF stage_change
<1>5. ASSUME NEW message \in Messages, create_commit(message)
      PROVE  /\ IInv'
             /\ \A i \in Ids(commits) : i \in Ids(commits') /\ commits'[i] = commits[i]
  <2> DEFINE m == manifest_at(commits, current_head)
  <2>1. /\ store_signed_commit(HeadParents, apply_onto(index, m), <<"commit", message, None>>,
                               AdvanceHead(TRUE))
        /\ UNCHANGED <<heads, envs, protected, head, index>>
    BY <1>5 DEF create_commit
  <2>2. m \in Manifest /\ apply_onto(index, m) \in Manifest
    BY <1>1, StoredTypes DEF current_head, TypeOK
  <2>3. \A v \in Vars : index[v] # None =>
          apply_onto(index, apply_onto(index, m))[v] = apply_onto(index, m)[v]
    BY DEF apply_onto
  <2> HIDE DEF m
  <2> QED BY <2>1, <2>2, <2>3, HeadCommitStep
<1>6. ASSUME NEW target \in Ids(commits), rollback(target)
      PROVE  /\ IInv'
             /\ \A i \in Ids(commits) : i \in Ids(commits') /\ commits'[i] = commits[i]
  <2>1. /\ store_signed_commit(HeadParents, manifest_at(commits, target),
                               <<"rollback", target, None>>, AdvanceHead(FALSE))
        /\ UNCHANGED <<heads, envs, protected, head, index>>
    BY <1>6 DEF rollback
  <2>2. manifest_at(commits, target) \in Manifest /\ target \in Nat
    BY <1>1, <1>2, StoredTypes DEF Option
  <2> QED BY <2>1, <2>2, HeadCommitStep
<1>7. CASE advance_head_to
  <2>1. /\ op # None /\ op.next = "advance_head" /\ op.id \in Ids(commits)
        /\ heads' = [heads EXCEPT ![head] = op.id]
        /\ op' = IF op.clears THEN [op EXCEPT !.next = "clear_staging"] ELSE None
        /\ UNCHANGED <<commits, envs, protected, head, index>>
    BY <1>1, <1>7 DEF advance_head_to, OpSafe
  <2>2. head \in Branches /\ heads'[head] = op.id
        /\ \A b \in Branches \ {head} : heads'[b] = heads[b]
    BY <1>1, <2>1 DEF TypeOK
  <2>3. op' # None => /\ op.clears /\ op'.next = "clear_staging" /\ op'.id = op.id
                      /\ op'.clears = op.clears
    BY <1>1, <2>1 DEF TypeOK, Option
  <2>4. TypeOK'
    <3>1. heads' \in [Branches -> Option(Nat)]
      BY <1>1, <1>2, <2>1 DEF TypeOK, Option
    <3>2. op' \in Option([next : {"advance_head", "clear_staging", "write_ref"}, id : Nat,
                    clears : BOOLEAN, target : Option(Branches), guarded : BOOLEAN])
      BY <1>1, <2>1 DEF TypeOK, Option
    <3> QED BY <1>1, <2>1, <3>1, <3>2 DEF TypeOK
  <2>5. OpSafe'
    BY <1>1, <2>1, <2>2, <2>3 DEF OpSafe
  <2>6. \A b \in Branches : heads'[b] \in Option(Ids(commits))
    BY <1>1, <2>1, <2>2 DEF Option
  <2> QED BY <1>1, <2>1, <2>4, <2>5, <2>6, QuietStep
<1>8. CASE clear_staging
  <2>1. TypeOK' /\ OpSafe'
    BY <1>1, <1>8 DEF clear_staging, TypeOK, StagingIndex, EmptyIndex, OpSafe, Option
  <2> QED BY <1>1, <1>8, <2>1, QuietStep DEF clear_staging
<1>9. CASE write_ref
  <2>1. /\ op # None /\ op.id \in Ids(commits) /\ op.target \in Branches
        /\ heads' = [heads EXCEPT ![op.target] = op.id] /\ op' = None
        /\ UNCHANGED <<commits, envs, protected, head, index>>
    BY <1>1, <1>9 DEF write_ref, OpSafe
  <2>2. TypeOK' /\ OpSafe'
    BY <1>1, <1>2, <2>1 DEF TypeOK, OpSafe, Option
  <2>3. \A b \in Branches : heads'[b] \in Option(Ids(commits))
    BY <1>1, <2>1 DEF TypeOK, Option
  <2> QED BY <1>1, <2>1, <2>2, <2>3, QuietStep
<1>10. CASE Abort
  <2>1. TypeOK' /\ OpSafe'
    BY <1>1, <1>10 DEF Abort, TypeOK, OpSafe, Option
  <2> QED BY <1>1, <1>10, <2>1, QuietStep DEF Abort
<1>11. ASSUME NEW name \in Branches, create_branch(name)
       PROVE  IInv' /\ UNCHANGED commits
  <2>1. heads[head] \in Ids(commits) /\ op = None
    BY <1>1, <1>11 DEF create_branch, current_head, TypeOK, Option
  <2>2. TypeOK' /\ OpSafe'
    BY <1>1, <1>2, <1>11, <2>1 DEF create_branch, current_head, TypeOK, OpSafe, Option
  <2>3. \A b \in Branches : heads'[b] \in Option(Ids(commits))
    BY <1>1, <1>11, <2>1 DEF create_branch, current_head, TypeOK, Option
  <2> QED BY <1>1, <1>11, <2>2, <2>3, QuietStep DEF create_branch
<1>12. ASSUME NEW name \in Branches, checkout_branch(name)
       PROVE  IInv' /\ UNCHANGED commits
  <2>1. TypeOK' /\ OpSafe'
    BY <1>1, <1>12 DEF checkout_branch, TypeOK, OpSafe
  <2> QED BY <1>1, <1>12, <2>1, QuietStep DEF checkout_branch
<1>13. ASSUME NEW e \in Envs, create_environment(e)
       PROVE  IInv' /\ UNCHANGED commits
  <2>1. heads[head] \in Ids(commits) /\ op = None
    BY <1>1, <1>13 DEF create_environment, current_head, TypeOK, Option
  <2>2. TypeOK' /\ OpSafe'
    BY <1>1, <1>2, <1>13, <2>1 DEF create_environment, current_head, TypeOK, OpSafe, Option
  <2>3. \A x \in Envs : envs'[x] \in Option(Ids(commits))
    BY <1>1, <1>13, <2>1 DEF create_environment, current_head, TypeOK, Option
  <2> QED BY <1>1, <1>13, <2>2, <2>3, QuietStep DEF create_environment
<1>14. ASSUME NEW e \in Envs, NEW flag \in BOOLEAN, protect_environment(e, flag)
       PROVE  IInv' /\ UNCHANGED commits
  <2>1. TypeOK' /\ OpSafe'
    BY <1>1, <1>14 DEF protect_environment, TypeOK, OpSafe
  <2> QED BY <1>1, <1>14, <2>1, QuietStep DEF protect_environment
<1>15. ASSUME NEW from \in Branches \cup Envs, NEW e \in Envs, NEW force \in BOOLEAN,
              promote(from, e, force)
       PROVE  IInv' /\ UNCHANGED commits
  <2>1. PromotionSource(from) \in Ids(commits) /\ op = None
    BY <1>1, <1>15 DEF promote, PromotionSource, Option
  <2>2. TypeOK' /\ OpSafe'
    BY <1>1, <1>2, <1>15, <2>1 DEF promote, TypeOK, OpSafe, Option
  <2>3. \A x \in Envs : envs'[x] \in Option(Ids(commits))
    BY <1>1, <1>15, <2>1 DEF promote, TypeOK, Option
  <2> QED BY <1>1, <1>15, <2>2, <2>3, QuietStep DEF promote
<1>16. CASE UNCHANGED vars
  <2>1. TypeOK' /\ OpSafe'
    BY <1>1, <1>16 DEF vars, TypeOK, OpSafe
  <2> QED BY <1>1, <1>16, <2>1, QuietStep DEF vars
<1>17. ASSUME UNCHANGED commits
       PROVE  \A i \in Ids(commits) : i \in Ids(commits') /\ commits'[i] = commits[i]
  BY <1>17
<1>18. UNCHANGED commits \/ ~(advance_head_to \/ clear_staging \/ write_ref \/ Abort \/ UNCHANGED vars)
  BY DEF advance_head_to, clear_staging, write_ref, Abort, vars
<1> QED
  BY <1>3, <1>4, <1>5, <1>6, <1>7, <1>8, <1>9, <1>10, <1>11, <1>12, <1>13, <1>14, <1>15, <1>16,
     <1>17, <1>18, MergeStep DEF Next
-------------------------------------------------------------------------------
(* The theorems.                                                           *)

\* The inductive invariant holds of every behaviour, with an operation dying
\* after any of its writes.
THEOREM RepositoryInvariant == Spec => []IInv
<1>1. Init => IInv
  <2> SUFFICES ASSUME Init PROVE IInv
    OBVIOUS
  <2>1. commits = <<>> /\ Ids(commits) = {} /\ op = None
    BY DEF Init, Ids
  <2>2. TypeOK
    BY RefAssumption DEF Init, TypeOK, StagingIndex, EmptyIndex, Option
  <2>3. RefsResolve
    BY <2>1, <2>2 DEF Init, RefsResolve, Option
  <2> QED BY <2>1, <2>3 DEF IInv, OpSafe, SecretsNeverPicked
<1>2. IInv /\ [Next]_vars => IInv'
  BY InvStep
<1> QED BY <1>1, <1>2, PTL DEF Spec

\* Wherever an operation dies, every ref and every parent resolves.
THEOREM RefsAlwaysResolve == Spec => []RefsResolve
<1>1. IInv => RefsResolve
  BY DEF IInv
<1> QED BY <1>1, RepositoryInvariant, PTL

\* A merge never chooses between two secret revisions.
THEOREM SecretsAreNeverPicked == Spec => []SecretsNeverPicked
<1>1. IInv => SecretsNeverPicked
  BY DEF IInv
<1> QED BY <1>1, RepositoryInvariant, PTL

\* Stored commits stay, and branches move only to descendants of their tips.
THEOREM HistoryIsAppendOnly == Spec => HistoryAppendOnly
<1> DEFINE Grows == \A i \in Ids(commits) : i \in Ids(commits') /\ commits'[i] = commits[i]
           Forward == \A b \in Branches : heads[b] \in {None, heads'[b]} \/
                        (heads'[b] # None /\ heads[b] \in Lineage(commits', heads'[b]))
<1>1. ASSUME IInv, [Next]_vars
      PROVE  Grows /\ Forward
  <2>1. Grows
    BY <1>1, InvStep
  <2>2. RefsResolve /\ OpSafe /\ TypeOK /\ History(commits)
    BY <1>1 DEF IInv, RefsResolve, TypeOK, History, Ordered
  \* A ref that is put on a commit it is a parent of.
  <2>3. ASSUME NEW b \in Branches, op # None, heads[b] \in Option(ParentSet(commits, op.id)),
               commits' = commits, heads' = [heads EXCEPT ![b] = op.id]
        PROVE  Forward
    <3>1. op.id \in Ids(commits) /\ op.id # None
      BY <2>2, <2>3, HistoryFacts, NoneIsNoId DEF OpSafe
    <3>2. heads'[b] = op.id /\ \A x \in Branches \ {b} : heads'[x] = heads[x]
      BY <2>2, <2>3 DEF TypeOK
    <3>3. heads[b] # None => heads[b] \in Lineage(commits, op.id)
      BY <2>2, <2>3, <3>1, LineageFacts DEF Option
    <3> QED BY <2>3, <3>1, <3>2, <3>3
  <2>4. CASE advance_head_to
    <3>1. /\ op # None /\ head \in Branches /\ heads[head] \in Option(ParentSet(commits, op.id))
          /\ commits' = commits /\ heads' = [heads EXCEPT ![head] = op.id]
      BY <2>2, <2>4 DEF advance_head_to, OpSafe, TypeOK
    <3> QED BY <2>3, <3>1
  <2>5. CASE write_ref
    <3>1. /\ op # None /\ op.target \in Branches
          /\ heads[op.target] \in Option(ParentSet(commits, op.id))
          /\ commits' = commits /\ heads' = [heads EXCEPT ![op.target] = op.id]
      BY <2>2, <2>5 DEF write_ref, OpSafe, Option
    <3> QED BY <2>3, <3>1
  <2>6. ASSUME NEW name \in Branches, create_branch(name)
        PROVE  Forward
    BY <2>2, <2>6 DEF create_branch, TypeOK
  <2>7. ASSUME heads' = heads
        PROVE  Forward
    BY <2>7
  <2>8. ASSUME NEW theirs \in Branches, NEW target \in Branches, merge_branch(theirs, target)
        PROVE  heads' = heads
    BY <2>8 DEF merge_branch
  <2>9. Forward
    BY <1>1, <2>4, <2>5, <2>6, <2>7, <2>8
    DEF Next, restore, stage_change, create_commit, rollback, clear_staging, Abort,
        checkout_branch, create_environment, protect_environment, promote, vars
  <2> QED BY <2>1, <2>9
<1>2. IInv /\ [Next]_vars => [Grows /\ Forward]_vars
  BY <1>1
<1> QED BY <1>2, RepositoryInvariant, PTL DEF HistoryAppendOnly, Spec

\* Staged work leaves the index only when the user takes it back or the commit
\* HEAD is on has it.
THEOREM StagedIntentIsKept == Spec => StagedIntentKept
<1> DEFINE Kept == \A v \in Vars : index[v] # None /\ index'[v] = None /\ {op, op'} # {None} =>
                     LET m == manifest_at(commits', heads'[head']) IN apply_onto(index, m)[v] = m[v]
<1>1. ASSUME IInv, [Next]_vars
      PROVE  Kept
  <2>1. CASE clear_staging
    <3>1. /\ heads[head] = op.id /\ UNCHANGED <<commits, heads, head>>
          /\ \A v \in Vars : index[v] # None =>
               LET m == manifest_at(commits, op.id) IN apply_onto(index, m)[v] = m[v]
      BY <1>1, <2>1 DEF clear_staging, IInv, OpSafe
    <3> QED BY <3>1
  <2>2. CASE index' = index
    BY <2>2
  <2>3. CASE op = None /\ op' = None
    BY <2>3
  <2>4. ASSUME NEW theirs \in Branches, NEW target \in Branches, merge_branch(theirs, target)
        PROVE  index' = index
    BY <2>4 DEF merge_branch
  <2> HIDE DEF Kept
  <2> QED BY <1>1, <2>1, <2>2, <2>3, <2>4
    DEF Next, restore, stage_change, create_commit, rollback, advance_head_to, write_ref, Abort,
        create_branch, checkout_branch, create_environment, protect_environment, promote, vars
<1>2. IInv /\ [Next]_vars => [Kept]_vars
  BY <1>1
<1> QED BY <1>2, RepositoryInvariant, PTL DEF StagedIntentKept, Spec

-------------------------------------------------------------------------------
(* `vaultx recover`.                                                       *)

\* A set of numbers that is not empty has a least member.
LEMMA LeastNumber ==
  ASSUME NEW T \in SUBSET Nat, T # {}
  PROVE  \E n \in T : \A m \in T : n <= m
<1>1. PICK n \in T : \A m \in T : <<m, n>> \notin OpToRel(<, Nat)
  BY NatLessThanWellFounded, WFMin
<1>2. \A m \in T : ~(m < n)
  BY <1>1 DEF OpToRel
<1> QED BY <1>2

Grown(s, next) == s \cup UNION {next[c] : c \in s}

\* The commits reached in k steps, for each k up to n.
Walked(f, n, from, next) ==
  f = [k \in 0..n |-> IF k = 0 THEN from ELSE f[k - 1] \cup UNION {next[c] : c \in f[k - 1]}]

\* What the equation says step by step.
LEMMA WalkedSteps ==
  ASSUME NEW f, NEW n \in Nat, NEW from, NEW next, Walked(f, n, from, next)
  PROVE  f[0] = from /\ \A k \in 1..n : f[k] = Grown(f[k - 1], next)
<1>1. \A k \in 0..n : f[k] = IF k = 0 THEN from ELSE Grown(f[k - 1], next)
  BY DEF Walked, Grown
<1> QED BY <1>1

\* The equation has a solution for every n.
LEMMA WalkedExists ==
  ASSUME NEW n \in Nat, NEW from, NEW next
  PROVE  \E f : Walked(f, n, from, next)
<1> DEFINE Bad == {m \in Nat : ~ \E f : Walked(f, m, from, next)}
<1>1. SUFFICES ASSUME Bad # {} PROVE FALSE
  OBVIOUS
<1>2. PICK m \in Bad : \A k \in Bad : m <= k
  <2>1. Bad \in SUBSET Nat
    OBVIOUS
  <2> HIDE DEF Bad
  <2> QED BY <1>1, <2>1, LeastNumber
<1>3. m # 0
  <2>1. SUFFICES ASSUME m = 0 PROVE FALSE
    OBVIOUS
  <2>2. PICK f : f = [k \in 0..0 |-> from]
    OBVIOUS
  <2>3. Walked(f, 0, from, next)
    BY <2>2 DEF Walked
  <2> QED BY <1>2, <2>1, <2>3
<1>4. PICK f : Walked(f, m - 1, from, next)
  BY <1>2, <1>3
<1>5. PICK g : g = [k \in 0..m |-> IF k = m THEN Grown(f[m - 1], next) ELSE f[k]]
  OBVIOUS
<1>6. \A k \in 0..m : g[k] = IF k = 0 THEN from ELSE Grown(g[k - 1], next)
  <2>1. m - 1 \in Nat
    BY <1>2, <1>3
  <2>2. f[0] = from /\ \A k \in 1..(m - 1) : f[k] = Grown(f[k - 1], next)
    BY <1>4, <2>1, WalkedSteps
  <2>3. \A k \in 0..(m - 1) : g[k] = f[k]
    BY <1>5, <2>1
  <2>4. g[m] = Grown(f[m - 1], next)
    BY <1>5, <2>1
  <2> QED BY <1>3, <2>1, <2>2, <2>3, <2>4
<1>7. g = [k \in 0..m |-> g[k]]
  BY <1>5
<1>8. Walked(g, m, from, next)
  BY <1>6, <1>7 DEF Walked, Grown
<1> QED BY <1>2, <1>8

\* What Reached computes.
LEMMA ReachedIs ==
  ASSUME NEW from, NEW next
  PROVE  \E f : Walked(f, Cardinality(Commits), from, next) /\ Reached(from, next) = f[Cardinality(Commits)]
<1>1. Cardinality(Commits) \in Nat
  BY CommitsAreDeclared, FS_CardinalityType
<1>2. \E f : Walked(f, Cardinality(Commits), from, next)
  BY <1>1, WalkedExists
<1>3. PICK f : f = CHOOSE g : Walked(g, Cardinality(Commits), from, next)
  OBVIOUS
<1>4. Walked(f, Cardinality(Commits), from, next)
  BY <1>2, <1>3, Zenon
<1>5. Reached(from, next) = f[Cardinality(Commits)]
  BY <1>3, Zenon DEF Reached, Walked
<1> QED BY <1>4, <1>5

\* A set that has the tips and is closed has everything that is reached.
LEMMA ReachedWithin ==
  ASSUME NEW from, NEW next, NEW S, from \subseteq S, \A c \in S : next[c] \subseteq S
  PROVE  Reached(from, next) \subseteq S
<1>1. PICK f : Walked(f, Cardinality(Commits), from, next) /\ Reached(from, next) = f[Cardinality(Commits)]
  BY ReachedIs
<1>2. PICK n : n = Cardinality(Commits) /\ n \in Nat
  BY CommitsAreDeclared, FS_CardinalityType
<1>3. f[0] = from /\ \A k \in 1..n : f[k] = Grown(f[k - 1], next)
  BY <1>1, <1>2, WalkedSteps
<1> DEFINE Bad == {k \in 0..n : ~(f[k] \subseteq S)}
<1>4. Bad = {}
  <2>1. SUFFICES ASSUME Bad # {} PROVE FALSE
    OBVIOUS
  <2>2. PICK m \in Bad : \A k \in Bad : m <= k
    <3>1. Bad \in SUBSET Nat
      BY <1>2
    <3> HIDE DEF Bad
    <3> QED BY <2>1, <3>1, LeastNumber
  <2>3. m \in 1..n /\ f[m - 1] \subseteq S
    BY <1>2, <1>3, <2>2
  <2>4. f[m] \subseteq S
    BY <1>3, <2>3 DEF Grown
  <2> QED BY <2>2, <2>4
<1> QED BY <1>1, <1>2, <1>4

\* When every commit of a walk has parents that resolve, the walk has missed
\* no ancestor.
LEMMA WalkCovers ==
  ASSUME NEW tips \in SUBSET Commits, \A c \in Walk(tips) : ParentsOf[c] \subseteq readable
  PROVE  Ancestry(tips) \subseteq Walk(tips)
<1>1. PICK next : next = [c \in Commits |-> ParentsOf[c] \cap readable]
  OBVIOUS
<1>2. PICK f : Walked(f, Cardinality(Commits), tips, next) /\ Walk(tips) = f[Cardinality(Commits)]
  BY <1>1, ReachedIs DEF Walk
<1>3. PICK g : Walked(g, Cardinality(Commits), tips, ParentsOf) /\ Ancestry(tips) = g[Cardinality(Commits)]
  BY ReachedIs DEF Ancestry
<1>4. PICK n : n = Cardinality(Commits) /\ n \in Nat
  BY CommitsAreDeclared, FS_CardinalityType
<1>5. /\ f[0] = tips /\ \A k \in 1..n : f[k] = Grown(f[k - 1], next)
      /\ g[0] = tips /\ \A k \in 1..n : g[k] = Grown(g[k - 1], ParentsOf)
  BY <1>2, <1>3, <1>4, WalkedSteps
<1>6. \A k \in 0..n : f[k] \subseteq f[n]
  <2> DEFINE Bad == {j \in 0..n : ~(f[n - j] \subseteq f[n])}
  <2>1. Bad = {}
    <3>1. SUFFICES ASSUME Bad # {} PROVE FALSE
      OBVIOUS
    <3>2. PICK m \in Bad : \A k \in Bad : m <= k
      <4>1. Bad \in SUBSET Nat
        BY <1>4
      <4> HIDE DEF Bad
      <4> QED BY <3>1, <4>1, LeastNumber
    <3>3. m \in 1..n /\ f[n - (m - 1)] \subseteq f[n]
      BY <1>4, <3>2
    <3>4. n - (m - 1) \in 1..n /\ (n - (m - 1)) - 1 = n - m
      BY <1>4, <3>3
    <3>5. f[n - (m - 1)] = Grown(f[n - m], next)
      BY <1>5, <3>4
    <3>6. f[n - m] \subseteq f[n]
      BY <3>3, <3>5 DEF Grown
    <3> QED BY <3>2, <3>6
  <2>2. ASSUME NEW k \in 0..n PROVE f[k] \subseteq f[n]
    <3>1. n - k \in 0..n /\ n - (n - k) = k
      BY <1>4, <2>2
    <3>2. f[n - (n - k)] \subseteq f[n]
      BY <2>1, <3>1
    <3> QED BY <3>1, <3>2
  <2> QED BY <2>2
<1>7. \A k \in 0..n : g[k] \subseteq f[k] /\ g[k] \subseteq Commits
  <2> DEFINE Bad == {k \in 0..n : ~(g[k] \subseteq f[k] /\ g[k] \subseteq Commits)}
  <2>1. SUFFICES ASSUME Bad # {} PROVE FALSE
    OBVIOUS
  <2>2. PICK m \in Bad : \A k \in Bad : m <= k
    <3>1. Bad \in SUBSET Nat
      BY <1>4
    <3> HIDE DEF Bad
    <3> QED BY <2>1, <3>1, LeastNumber
  <2>3. m \in 1..n /\ m - 1 \in 0..n /\ g[m - 1] \subseteq f[m - 1] /\ g[m - 1] \subseteq Commits
    BY <1>4, <1>5, <2>2
  <2>4. \A c \in g[m - 1] : /\ ParentsOf[c] \subseteq readable /\ ParentsOf[c] \subseteq Commits
                            /\ next[c] = ParentsOf[c] \cap readable
    BY <1>1, <1>2, <1>4, <1>6, <2>3, CommitsAreDeclared
  <2>5. g[m] = Grown(g[m - 1], ParentsOf) /\ f[m] = Grown(f[m - 1], next)
    BY <1>5, <2>3
  <2>6. g[m] \subseteq f[m] /\ g[m] \subseteq Commits
    BY <2>3, <2>4, <2>5 DEF Grown
  <2> QED BY <2>2, <2>6
<1> QED BY <1>2, <1>3, <1>4, <1>7

\* Everything there is resolves, verifies and has its secrets.
Whole ==
  LET all == Ancestry({refs[r] : r \in Refs} \ {None}) IN
  /\ all \subseteq readable
  /\ all # {} => pub /\ all \cap Unsigned = {}
  /\ UNION {RevisionsOf[c] : c \in all} \subseteq vaultRecords

\* An audit that reports nothing has audited a project that is whole.
LEMMA CleanAudit ==
  ASSUME readable \subseteq Commits, refs \in [Refs -> Option(Commits)], is_clean(audit)
  PROVE  Whole
<1>1. PICK tips, walked : /\ tips = {refs[r] : r \in {r \in Refs : refs[r] # None}} \cap readable
                          /\ walked = Walk(tips)
  OBVIOUS
<1>2. /\ {<<r, refs[r]>> : r \in {r \in Refs : refs[r] # None /\ refs[r] \notin readable}} = {}
      /\ (IF ~pub /\ tips # {} THEN {<<"device key">>} ELSE {}) = {}
      /\ {<<c>> : c \in IF pub THEN walked \cap Unsigned ELSE {}} = {}
      /\ UNION {ParentFindings(c) : c \in walked} = {}
  BY <1>1 DEF is_clean, audit, load_device_public_key
<1>3. \A r \in Refs : refs[r] # None => refs[r] \in readable
  <2>1. SUFFICES ASSUME NEW r \in Refs, refs[r] # None, refs[r] \notin readable PROVE FALSE
    OBVIOUS
  <2>2. PICK broken : broken = {q \in Refs : refs[q] # None /\ refs[q] \notin readable}
    OBVIOUS
  <2>3. {<<q, refs[q]>> : q \in broken} = {} /\ r \in broken
    BY <1>2, <2>1, <2>2
  <2> QED BY <2>3
<1>4. {refs[r] : r \in Refs} \ {None} = tips
  BY <1>1, <1>3
<1>5. tips \subseteq Commits
  BY <1>1
<1>6. \A c \in walked : ParentsOf[c] \subseteq readable
  <2>1. UNION {ParentFindings(c) : c \in walked} = {}
    BY <1>2
  <2>2. \A c \in walked : ParentFindings(c) = {}
    BY <2>1
  <2>3. SUFFICES ASSUME NEW c \in walked, NEW p \in ParentsOf[c], p \notin readable PROVE FALSE
    OBVIOUS
  <2>4. <<c, "parent", p>> \in ParentFindings(c)
    BY <2>3 DEF ParentFindings
  <2> QED BY <2>2, <2>4
<1>7. Ancestry(tips) \subseteq walked
  BY <1>1, <1>5, <1>6, WalkCovers
<1>8. walked \subseteq readable
  <2>1. PICK next : next = [c \in Commits |-> ParentsOf[c] \cap readable]
    OBVIOUS
  <2>2. tips \subseteq readable /\ \A c \in readable : next[c] \subseteq readable
    BY <1>1, <2>1
  <2> QED BY <1>1, <2>1, <2>2, ReachedWithin DEF Walk
<1>9. tips = {} => Ancestry(tips) = {}
  <2>1. SUFFICES ASSUME tips = {} PROVE Ancestry(tips) \subseteq {}
    OBVIOUS
  <2>2. tips \subseteq {} /\ \A c \in {} : ParentsOf[c] \subseteq {}
    BY <2>1
  <2> QED BY <2>2, ReachedWithin DEF Ancestry
<1>10. Ancestry(tips) # {} => pub /\ Ancestry(tips) \cap Unsigned = {}
  <2>1. SUFFICES ASSUME Ancestry(tips) # {} PROVE pub /\ Ancestry(tips) \cap Unsigned = {}
    OBVIOUS
  <2>2. tips # {}
    BY <1>9, <2>1
  <2>3. pub
    BY <1>2, <2>2
  <2>4. walked \cap Unsigned = {}
    <3>1. {<<c>> : c \in walked \cap Unsigned} = {}
      BY <1>2, <2>3
    <3> QED BY <3>1
  <2> QED BY <1>7, <2>3, <2>4
<1>11. UNION {RevisionsOf[c] : c \in Ancestry(tips)} \subseteq vaultRecords
  <2>1. \A v : v \notin audit.missing
    BY DEF is_clean
  <2>2. SUFFICES ASSUME NEW c \in Ancestry(tips), NEW v \in RevisionsOf[c], v \notin vaultRecords PROVE FALSE
    OBVIOUS
  <2>3. PICK missing : missing = (UNION {RevisionsOf[d] : d \in walked}) \ vaultRecords
    OBVIOUS
  <2>4. v \in missing
    BY <1>7, <2>2, <2>3
  <2>5. audit.missing = missing
    BY <1>1, <2>3 DEF audit
  <2> QED BY <2>1, <2>4, <2>5
<1>12. Ancestry(tips) \subseteq readable
  BY <1>7, <1>8
<1> QED BY <1>4, <1>10, <1>11, <1>12, Zenon DEF Whole

-------------------------------------------------------------------------------
\* The shape of a recovery; the report is whatever the audit found.
Shaped(r) ==
  \E H : r \in [at : {"idle", "confirm", "fix", "delete", "done"}, report : H, todo : SUBSET (Refs \X Commits),
                now : H, removed : Nat, skipped : Nat, moved : SUBSET Refs, back : SUBSET Commits]

\* A ref the audit found broken, whose target has not come back since.
Broken(t, r, objects) == t \in Refs \X Commits /\ (t[2] \in objects => t[2] \in r.back)

\* What is to be deleted was found broken; what is being deleted has not moved
\* since it was read again; and a repair that found nothing to do has skipped.
Repairing(r, objects, tips) ==
  /\ Shaped(r)
  /\ r.at = "confirm" => /\ r.report.unresolvable # {} /\ \A t \in r.report.unresolvable : Broken(t, r, objects)
                         /\ \E H : r.report \in [unresolvable : H, signatures : H, missing : H]
  /\ r.at \in {"fix", "delete"} => \A t \in r.todo : Broken(t, r, objects)
  /\ r.at = "delete" => Broken(r.now, r, objects) /\ (r.now[1] \notin r.moved => tips[r.now[1]] = r.now[2])
  /\ r.at = "fix" => r.todo # {} \/ r.removed > 0 \/ r.skipped > 0

RecoverInv ==
  /\ readable \subseteq Commits /\ refs \in [Refs -> Option(Commits)]
  /\ Repairing(repair, readable, refs)
  /\ repair.at = "done" /\ is_clean(repair.report) /\ repair.skipped = 0 => Whole

\* The invariant holds when recovery has not begun.
LEMMA RecoverInvInit == recoverInit => RecoverInv
<1> SUFFICES ASSUME recoverInit PROVE RecoverInv
  OBVIOUS
<1>1. readable \subseteq Commits /\ refs \in [Refs -> Option(Commits)] /\ repair = Idle
  BY DEF recoverInit, Option
<1>2. Shaped(Idle) /\ Idle.at = "idle"
  <2>1. Idle \in [at : {"idle", "confirm", "fix", "delete", "done"}, report : {None},
                  todo : SUBSET (Refs \X Commits), now : {None}, removed : Nat, skipped : Nat,
                  moved : SUBSET Refs, back : SUBSET Commits]
    BY DEF Idle
  <2> QED BY <2>1 DEF Shaped, Idle
<1> QED BY <1>1, <1>2 DEF RecoverInv, Repairing

\* A change around the command.
LEMMA AroundKeeps ==
  ASSUME RecoverInv, ObjectsChange \/ RefMoves
  PROVE  RecoverInv'
<1>1. PICK moved \in SUBSET Refs, back \in SUBSET Commits :
        /\ repair.at # "done" /\ repair' = [repair EXCEPT !.moved = @ \cup moved, !.back = @ \cup back]
        /\ readable' \subseteq Commits /\ readable' \subseteq readable \cup back
        /\ refs' \in [Refs -> Option(Commits)]
        /\ \A r \in Refs \ moved : refs'[r] = refs[r]
  <2>1. CASE ObjectsChange
    <3>1. PICK back : /\ Around({}, back) /\ back \subseteq Commits /\ UNCHANGED refs
                      /\ readable' \subseteq Commits /\ readable' \subseteq readable \cup back
      <4>1. readable \subseteq Commits /\ UNCHANGED refs
        BY <2>1 DEF ObjectsChange, RecoverInv
      <4>2. CASE \E c \in Commits \ readable : readable' = readable \cup {c} /\ Around({}, {c})
        <5>1. PICK c \in Commits \ readable : readable' = readable \cup {c} /\ Around({}, {c})
          BY <4>2
        <5>2. {c} \subseteq Commits /\ readable' \subseteq Commits /\ readable' \subseteq readable \cup {c}
          BY <4>1, <5>1
        <5> QED BY <4>1, <5>1, <5>2
      <4>3. CASE Around({}, {}) /\ readable' \subseteq readable
        <5>1. {} \subseteq Commits /\ readable' \subseteq Commits /\ readable' \subseteq readable \cup {}
          BY <4>1, <4>3
        <5> QED BY <4>1, <4>3, <5>1
      <4>4. \/ \E c \in Commits \ readable : readable' = readable \cup {c} /\ Around({}, {c})
            \/ Around({}, {}) /\ readable' \subseteq readable
        BY <2>1 DEF ObjectsChange
      <4> QED BY <4>2, <4>3, <4>4
    <3>2. {} \in SUBSET Refs /\ back \in SUBSET Commits /\ refs' = refs
      BY <3>1
    <3> QED BY <3>1, <3>2 DEF Around, RecoverInv
  <2>2. CASE RefMoves
    <3>1. PICK r \in Refs, c \in readable : refs' = [refs EXCEPT ![r] = c] /\ Around({r}, {}) /\ UNCHANGED readable
      BY <2>2 DEF RefMoves
    <3>2. refs' \in [Refs -> Option(Commits)] /\ \A q \in Refs \ {r} : refs'[q] = refs[q]
      BY <3>1 DEF RecoverInv, Option
    <3>3. {r} \in SUBSET Refs /\ {} \in SUBSET Commits
      OBVIOUS
    <3> QED BY <3>1, <3>2, <3>3 DEF Around, RecoverInv
  <2> QED BY <2>1, <2>2
<1>2. PICK H : repair \in [at : {"idle", "confirm", "fix", "delete", "done"}, report : H,
                 todo : SUBSET (Refs \X Commits), now : H, removed : Nat, skipped : Nat,
                 moved : SUBSET Refs, back : SUBSET Commits]
  BY DEF RecoverInv, Repairing, Shaped
<1>3. /\ repair' \in [at : {"idle", "confirm", "fix", "delete", "done"}, report : H,
                 todo : SUBSET (Refs \X Commits), now : H, removed : Nat, skipped : Nat,
                 moved : SUBSET Refs, back : SUBSET Commits]
      /\ repair'.at = repair.at /\ repair'.report = repair.report /\ repair'.todo = repair.todo
      /\ repair'.now = repair.now /\ repair'.removed = repair.removed /\ repair'.skipped = repair.skipped
      /\ repair'.moved = repair.moved \cup moved /\ repair'.back = repair.back \cup back
  BY <1>1, <1>2
<1>4. \A t : Broken(t, repair, readable) => Broken(t, repair', readable')
  BY <1>1, <1>3 DEF Broken
<1>5. Shaped(repair')
  BY <1>3 DEF Shaped
<1>6. ASSUME repair.at = "delete", repair.now[1] \notin repair'.moved
      PROVE  refs'[repair.now[1]] = repair.now[2]
  <2>1. repair.now[1] \in Refs \ moved /\ refs[repair.now[1]] = repair.now[2]
    BY <1>3, <1>6 DEF RecoverInv, Repairing, Broken
  <2> QED BY <1>1, <2>1
<1>7. Repairing(repair', readable', refs')
  BY <1>3, <1>4, <1>5, <1>6 DEF RecoverInv, Repairing
<1> QED BY <1>1, <1>3, <1>7 DEF RecoverInv

\* The audit and the question whether to repair.
LEMMA StartRecoverKeeps ==
  ASSUME RecoverInv, NEW fix \in BOOLEAN, StartRecover(fix)
  PROVE  RecoverInv'
<1>1. PICK a : a = audit
  OBVIOUS
<1>2. /\ repair.at = "idle" /\ UNCHANGED <<readable, pub, vaultRecords, refs>>
      /\ repair' = [repair EXCEPT !.report = a, !.back = {},
                                  !.at = IF fix /\ a.unresolvable # {} THEN "confirm" ELSE "done"]
  BY <1>1 DEF StartRecover
<1>3. PICK at \in {"confirm", "done"} : /\ at = IF fix /\ a.unresolvable # {} THEN "confirm" ELSE "done"
                                        /\ at = "confirm" => a.unresolvable # {}
  OBVIOUS
<1>4. PICK H : repair \in [at : {"idle", "confirm", "fix", "delete", "done"}, report : H,
                 todo : SUBSET (Refs \X Commits), now : H, removed : Nat, skipped : Nat,
                 moved : SUBSET Refs, back : SUBSET Commits]
  BY DEF RecoverInv, Repairing, Shaped
<1>5. PICK G : G = H \cup {a}
  OBVIOUS
<1>6. /\ repair' \in [at : {"idle", "confirm", "fix", "delete", "done"}, report : G,
                 todo : SUBSET (Refs \X Commits), now : G, removed : Nat, skipped : Nat,
                 moved : SUBSET Refs, back : SUBSET Commits]
      /\ repair'.at = at /\ repair'.report = a
  BY <1>2, <1>3, <1>4, <1>5
<1>7. /\ a.unresolvable = {<<r, refs[r]>> : r \in {r \in Refs : refs[r] # None /\ refs[r] \notin readable}}
      /\ \E F : a \in [unresolvable : F, signatures : F, missing : F]
  <2>1. PICK x, y, z : a = [unresolvable |-> x, signatures |-> y, missing |-> z]
    BY <1>1 DEF audit
  <2>2. a \in [unresolvable : {x, y, z}, signatures : {x, y, z}, missing : {x, y, z}]
    BY <2>1
  <2>3. a.unresolvable = {<<r, refs[r]>> : r \in {r \in Refs : refs[r] # None /\ refs[r] \notin readable}}
    BY <1>1 DEF audit
  <2> QED BY <2>2, <2>3
<1>8. \A t \in a.unresolvable : Broken(t, repair', readable)
  <2>1. SUFFICES ASSUME NEW r \in Refs, refs[r] # None, refs[r] \notin readable
                 PROVE  Broken(<<r, refs[r]>>, repair', readable)
    BY <1>7
  <2>2. refs[r] \in Commits
    BY <2>1 DEF RecoverInv, Option
  <2> QED BY <2>1, <2>2 DEF Broken
<1>9. Shaped(repair')
  BY <1>6 DEF Shaped
<1>10. Repairing(repair', readable, refs)
  BY <1>3, <1>6, <1>7, <1>8, <1>9 DEF Repairing
<1>11. is_clean(a) => Whole'
  <2>1. SUFFICES ASSUME is_clean(audit) PROVE Whole'
    BY <1>1
  <2>2. Whole
    BY <2>1, CleanAudit DEF RecoverInv
  <2> QED BY <1>2, <2>2 DEF Whole, Ancestry
<1> QED BY <1>2, <1>6, <1>10, <1>11 DEF RecoverInv

\* The answer to the question keeps the invariant.
LEMMA ConfirmKeeps ==
  ASSUME RecoverInv, NEW yes \in BOOLEAN, Confirm(yes)
  PROVE  RecoverInv'
<1>1. /\ repair.at = "confirm" /\ UNCHANGED <<readable, pub, vaultRecords, refs>>
      /\ repair' = IF yes THEN [repair EXCEPT !.at = "fix", !.todo = repair.report.unresolvable,
                                              !.report.unresolvable = {}]
                   ELSE [repair EXCEPT !.at = "done"]
  BY DEF Confirm
<1>2. PICK H : repair \in [at : {"idle", "confirm", "fix", "delete", "done"}, report : H,
                 todo : SUBSET (Refs \X Commits), now : H, removed : Nat, skipped : Nat,
                 moved : SUBSET Refs, back : SUBSET Commits]
  BY DEF RecoverInv, Repairing, Shaped
<1>3. PICK U : U = repair.report.unresolvable /\ U # {} /\ \A t \in U : Broken(t, repair, readable)
  BY <1>1 DEF RecoverInv, Repairing
<1>4. CASE yes
  <2>1. PICK a : a = [repair.report EXCEPT !.unresolvable = {}]
    OBVIOUS
  <2>2. repair' = [repair EXCEPT !.at = "fix", !.todo = U, !.report = a]
    BY <1>1, <1>2, <1>3, <1>4, <2>1
  <2>3. U \subseteq Refs \X Commits
    BY <1>3 DEF Broken
  <2>4. PICK G : G = H \cup {a}
    OBVIOUS
  <2>5. /\ repair' \in [at : {"idle", "confirm", "fix", "delete", "done"}, report : G,
                 todo : SUBSET (Refs \X Commits), now : G, removed : Nat, skipped : Nat,
                 moved : SUBSET Refs, back : SUBSET Commits]
        /\ repair'.at = "fix" /\ repair'.todo = U /\ repair'.back = repair.back
    BY <1>2, <2>2, <2>3, <2>4
  <2>6. Shaped(repair') /\ \A t \in U : Broken(t, repair', readable)
    BY <1>3, <2>5 DEF Shaped, Broken
  <2>7. Repairing(repair', readable, refs)
    BY <1>3, <2>5, <2>6 DEF Repairing
  <2> QED BY <1>1, <2>5, <2>7 DEF RecoverInv
<1>5. CASE ~yes
  <2>1. repair' = [repair EXCEPT !.at = "done"]
    BY <1>1, <1>5
  <2>2. /\ repair' \in [at : {"idle", "confirm", "fix", "delete", "done"}, report : H,
                 todo : SUBSET (Refs \X Commits), now : H, removed : Nat, skipped : Nat,
                 moved : SUBSET Refs, back : SUBSET Commits]
        /\ repair'.at = "done" /\ repair'.report = repair.report
    BY <1>2, <2>1
  <2>3. Shaped(repair') /\ ~is_clean(repair'.report)
    BY <1>3, <2>2 DEF Shaped, is_clean
  <2>4. Repairing(repair', readable, refs)
    BY <2>2, <2>3 DEF Repairing
  <2> QED BY <1>1, <2>3, <2>4 DEF RecoverInv
<1> QED BY <1>4, <1>5

\* Reading a ref again before its repair keeps the invariant.
LEMMA RereadKeeps ==
  ASSUME RecoverInv, NEW target \in repair.todo, Reread(target)
  PROVE  RecoverInv'
<1>1. /\ repair.at = "fix" /\ UNCHANGED <<readable, pub, vaultRecords, refs>>
      /\ repair' = IF StillAudited(target)
                   THEN [repair EXCEPT !.at = "delete", !.todo = @ \ {target}, !.now = target, !.moved = {}]
                   ELSE [repair EXCEPT !.todo = @ \ {target}, !.skipped = @ + 1]
  BY DEF Reread
<1>2. PICK H : repair \in [at : {"idle", "confirm", "fix", "delete", "done"}, report : H,
                 todo : SUBSET (Refs \X Commits), now : H, removed : Nat, skipped : Nat,
                 moved : SUBSET Refs, back : SUBSET Commits]
  BY DEF RecoverInv, Repairing, Shaped
<1>3. \A t \in repair.todo : Broken(t, repair, readable)
  BY <1>1 DEF RecoverInv, Repairing
<1>4. CASE StillAudited(target)
  <2>1. repair' = [repair EXCEPT !.at = "delete", !.todo = @ \ {target}, !.now = target, !.moved = {}]
    BY <1>1, <1>4
  <2>2. PICK G : G = H \cup {target}
    OBVIOUS
  <2>3. /\ repair' \in [at : {"idle", "confirm", "fix", "delete", "done"}, report : G,
                 todo : SUBSET (Refs \X Commits), now : G, removed : Nat, skipped : Nat,
                 moved : SUBSET Refs, back : SUBSET Commits]
        /\ repair'.at = "delete" /\ repair'.todo \subseteq repair.todo /\ repair'.back = repair.back
        /\ repair'.now = target
    BY <1>2, <2>1, <2>2
  <2>4. Shaped(repair') /\ \A t \in repair.todo : Broken(t, repair', readable)
    BY <1>3, <2>3 DEF Shaped, Broken
  <2>5. Repairing(repair', readable, refs)
    BY <1>4, <2>3, <2>4 DEF Repairing, StillAudited
  <2> QED BY <1>1, <2>3, <2>5 DEF RecoverInv
<1>5. CASE ~StillAudited(target)
  <2>0. PICK n, left : n = repair.skipped + 1 /\ left = repair.todo \ {target}
    OBVIOUS
  <2>1. repair' = [repair EXCEPT !.todo = left, !.skipped = n]
    BY <1>1, <1>5, <2>0
  <2>10. n \in Nat /\ n > 0 /\ left \in SUBSET (Refs \X Commits) /\ left \subseteq repair.todo
    BY <1>2, <2>0
  <2>2. /\ repair' \in [at : {"idle", "confirm", "fix", "delete", "done"}, report : H,
                 todo : SUBSET (Refs \X Commits), now : H, removed : Nat, skipped : Nat,
                 moved : SUBSET Refs, back : SUBSET Commits]
        /\ repair'.at = "fix" /\ repair'.todo \subseteq repair.todo /\ repair'.back = repair.back
        /\ repair'.skipped > 0
    BY <1>1, <1>2, <2>1, <2>10
  <2>3. Shaped(repair') /\ \A t \in repair.todo : Broken(t, repair', readable)
    BY <1>3, <2>2 DEF Shaped, Broken
  <2>4. Repairing(repair', readable, refs)
    BY <2>2, <2>3 DEF Repairing
  <2> QED BY <1>1, <2>2, <2>4 DEF RecoverInv
<1> QED BY <1>4, <1>5

\* Deleting a ref that could not be repaired keeps the invariant.
LEMMA DeleteRefKeeps ==
  ASSUME RecoverInv, DeleteRef
  PROVE  RecoverInv'
<1>1. /\ repair.at = "delete" /\ UNCHANGED readable
      /\ refs' = [refs EXCEPT ![repair.now[1]] = None]
  BY DEF DeleteRef
<1>2. PICK H : repair \in [at : {"idle", "confirm", "fix", "delete", "done"}, report : H,
                 todo : SUBSET (Refs \X Commits), now : H, removed : Nat, skipped : Nat,
                 moved : SUBSET Refs, back : SUBSET Commits]
  BY DEF RecoverInv, Repairing, Shaped
<1>20. PICK n : n = repair.removed + 1
  OBVIOUS
<1>21. repair' = [repair EXCEPT !.at = "fix", !.removed = n] /\ n \in Nat /\ n > 0
  BY <1>2, <1>20 DEF DeleteRef
<1>3. /\ repair' \in [at : {"idle", "confirm", "fix", "delete", "done"}, report : H,
                 todo : SUBSET (Refs \X Commits), now : H, removed : Nat, skipped : Nat,
                 moved : SUBSET Refs, back : SUBSET Commits]
      /\ repair'.at = "fix" /\ repair'.todo = repair.todo /\ repair'.back = repair.back /\ repair'.removed > 0
  BY <1>2, <1>21
<1>4. Shaped(repair') /\ \A t \in repair.todo : Broken(t, repair', readable)
  BY <1>1, <1>3 DEF RecoverInv, Repairing, Shaped, Broken
<1>5. Repairing(repair', readable, refs')
  BY <1>3, <1>4 DEF Repairing
<1>6. refs' \in [Refs -> Option(Commits)]
  BY <1>1 DEF RecoverInv, Option
<1> QED BY <1>1, <1>3, <1>5, <1>6 DEF RecoverInv

\* The end of a recovery keeps the invariant.
LEMMA FinishRecoverKeeps ==
  ASSUME RecoverInv, FinishRecover
  PROVE  RecoverInv'
<1>1. PICK a : a = IF repair.removed > 0 THEN audit ELSE repair.report
  OBVIOUS
<1>2. /\ repair.at = "fix" /\ repair.todo = {} /\ UNCHANGED <<readable, pub, vaultRecords, refs>>
      /\ repair' = [repair EXCEPT !.at = "done", !.report = a]
  BY <1>1 DEF FinishRecover
<1>3. PICK H : repair \in [at : {"idle", "confirm", "fix", "delete", "done"}, report : H,
                 todo : SUBSET (Refs \X Commits), now : H, removed : Nat, skipped : Nat,
                 moved : SUBSET Refs, back : SUBSET Commits]
  BY DEF RecoverInv, Repairing, Shaped
<1>4. PICK G : G = H \cup {a}
  OBVIOUS
<1>5. /\ repair' \in [at : {"idle", "confirm", "fix", "delete", "done"}, report : G,
                 todo : SUBSET (Refs \X Commits), now : G, removed : Nat, skipped : Nat,
                 moved : SUBSET Refs, back : SUBSET Commits]
      /\ repair'.at = "done" /\ repair'.report = a /\ repair'.skipped = repair.skipped
  BY <1>2, <1>3, <1>4
<1>6. Shaped(repair')
  BY <1>5 DEF Shaped
<1>7. Repairing(repair', readable, refs)
  BY <1>5, <1>6 DEF Repairing
<1>8. repair.removed > 0 \/ repair.skipped > 0
  BY <1>2 DEF RecoverInv, Repairing
<1>9. is_clean(a) /\ repair.skipped = 0 => Whole'
  <2>1. SUFFICES ASSUME is_clean(a), repair.skipped = 0 PROVE Whole'
    OBVIOUS
  <2>2. a = audit
    BY <1>1, <1>8, <2>1
  <2>3. Whole
    BY <2>1, <2>2, CleanAudit DEF RecoverInv
  <2> QED BY <1>2, <2>3 DEF Whole, Ancestry
<1> QED BY <1>2, <1>5, <1>7, <1>9 DEF RecoverInv

\* `recover` tells the truth about the project and deletes nothing but what it
\* found broken (recover.rs:4-13), whatever else happens to the project while
\* it waits for its confirmation and between its deletions.
THEOREM RecoveryStaysFaithful == RecoverSpec => RecoveryFaithful
<1>1. RecoverInv /\ [recoverNext]_recoverVars => RecoverInv'
  <2> SUFFICES ASSUME RecoverInv, [recoverNext]_recoverVars PROVE RecoverInv'
    OBVIOUS
  <2>1. CASE UNCHANGED recoverVars
    BY <2>1 DEF recoverVars, RecoverInv, Whole, Ancestry
  <2> QED BY <2>1, AroundKeeps, StartRecoverKeeps, ConfirmKeeps, RereadKeeps, DeleteRefKeeps, FinishRecoverKeeps
          DEF recoverNext
<1>2. RecoverInv => CleanMeansWhole
  BY DEF RecoverInv, CleanMeansWhole, Whole
<1>3. RecoverInv => (DeleteRef =>
        LET r == repair.now[1] IN
        /\ r \notin repair.moved => refs[r] = repair.now[2]
        /\ refs[r] \in readable => refs[r] \in repair.back \/ r \in repair.moved)
  BY DEF RecoverInv, Repairing, Broken, DeleteRef
<1> QED BY <1>1, <1>2, <1>3, RecoverInvInit, PTL DEF RecoverSpec, RecoveryFaithful, DeletesOnlyAudited
===============================================================================
