------------------------------- MODULE Repository -------------------------------
(***************************************************************************)
(* The configuration repository: Repository and RefStore of                *)
(* crates/vaultx-repository with the history and environment services of   *)
(* crates/vaultx-core (history.rs, envs.rs) on top.                        *)
(*                                                                         *)
(* The state is the .vaultx directory.  One process writes it at a time    *)
(* (repo.rs:478 "single-process single-writer assumption"), and every file *)
(* is replaced atomically, but an operation writes several files: `op` is  *)
(* what the running operation has still to write, and it can die or fail   *)
(* between two writes.  An operation that is refused changes nothing.      *)
(*                                                                         *)
(* A manifest binds variables to entries; an entry is opaque but for being *)
(* a secret revision or not.  The policy documents a manifest can also     *)
(* bind are left out: no operation of the program stages one.              *)
(***************************************************************************)
EXTENDS Options, Integers, Sequences

CONSTANTS
  Vars,         \* variable names
  Entries,      \* what a variable can be bound to
  Secrets,      \* the entries that are secret revisions
  Removed,      \* StagedChange::Remove
  Branches,     \* names under refs/heads
  Main,         \* the branch `init` points HEAD at
  Envs,         \* names under refs/environments
  Messages,     \* commit messages the user writes
  MaxCommits    \* bound: commits in the object store

ASSUME EntryAssumption ==
  Secrets \subseteq Entries /\ None \notin Entries /\ Removed \notin Entries /\ Removed # None
ASSUME NoneIsNoId == None \notin Nat
ASSUME RefAssumption == Main \in Branches /\ None \notin Branches \cup Envs
ASSUME BoundAssumption == MaxCommits \in Nat

-------------------------------------------------------------------------------
(* Manifests, commits, the three-way merge and the search for its base     *)

Manifest == [Vars -> Option(Entries)]
StagingIndex == [Vars -> Entries \cup {Removed, None}]
EmptyManifest == [v \in Vars |-> None]
EmptyIndex == [v \in Vars |-> None]

-------------------------------------------------------------------------------
\* The staging index.

is_empty(index) == index = EmptyIndex

apply_onto(index, base) ==
  [v \in Vars |->
     CASE index[v] = None -> base[v]
       [] index[v] = Removed -> None
       [] OTHER -> index[v]]

-------------------------------------------------------------------------------
(***************************************************************************)
(* The object store.  A commit has no timestamp and its signature is       *)
(* deterministic, so its id is a function of its parents, manifest and     *)
(* message, and storing the same commit again finds the old one.  The id   *)
(* of a commit is its place in the order of storing, None one that is not  *)
(* stored.                                                                 *)
(***************************************************************************)
Ids(commits) == DOMAIN commits

Stored(commits, c) == \E i \in Ids(commits) : commits[i] = c

put(commits, c) == IF Stored(commits, c) THEN commits ELSE Append(commits, c)

id_of(commits, c) == CHOOSE i \in Ids(commits) : commits[i] = c

manifest_at(commits, id) == IF id = None THEN EmptyManifest ELSE commits[id].manifest

Elements(s) == {s[k] : k \in DOMAIN s}

ParentSet(commits, id) == Elements(commits[id].parents)

\* The commits a commit is made of, itself and all it descends from, which were
\* stored before it: the least set that holds it and, with a commit, its parents.
ParentClosed(commits, S) ==
  \A i \in S : \A k \in DOMAIN commits[i].parents : commits[i].parents[k] \in S

Lineage(commits, id) ==
  LET closed == {S \in SUBSET (1..id) : id \in S /\ ParentClosed(commits, S)}
  IN  {a \in 1..id : \A S \in closed : a \in S}

-------------------------------------------------------------------------------
(***************************************************************************)
(* merge_base(a, b): breadth first from b, the first commit that is in the *)
(* lineage of a.  A walk is what is left in the queue, what was seen and   *)
(* what was found; every commit enters the queue once per edge at most.    *)
(***************************************************************************)
WalkStep(commits, known, w) ==
  IF w.found # None \/ w.queue = <<>> THEN w
  ELSE LET id == Head(w.queue)
       IN IF id \in w.seen THEN [w EXCEPT !.queue = Tail(@)]
          ELSE IF id \in known THEN [w EXCEPT !.found = id]
          ELSE [w EXCEPT !.queue = Tail(@) \o commits[id].parents,
                         !.seen = @ \cup {id}]

merge_base(commits, a, b) ==
  LET known == Lineage(commits, a)
      longest == 2 * Len(commits) + 1
      walk[n \in 0..longest] ==
        IF n = 0 THEN [queue |-> <<b>>, seen |-> {}, found |-> None]
        ELSE WalkStep(commits, known, walk[n - 1])
  IN walk[longest].found

-------------------------------------------------------------------------------
\* three_way_merge and three_way_merge_with_strategy, per variable: b the
\* base, o ours, t theirs.

Agreed(b, o, t) == o = t \/ o = b \/ t = b

\* The side that changed, or what both have.
resolved(b, o, t) == IF o = b THEN t ELSE o

\* Mutant of SecretConflict: only where both sides have a revision.
SecretConflict_both(b, o, t) == {o, t} \subseteq Secrets

SecretConflict(b, o, t) == {b, o, t} \cap Secrets # {}

conflicts(base, ours, theirs, strategy) ==
  {v \in Vars :
     /\ ~Agreed(base[v], ours[v], theirs[v])
     /\ strategy = None \/ SecretConflict(base[v], ours[v], theirs[v])}

merge_inner(base, ours, theirs, strategy) ==
  [v \in Vars |->
     IF Agreed(base[v], ours[v], theirs[v]) THEN resolved(base[v], ours[v], theirs[v])
     ELSE IF strategy = "ours" THEN ours[v] ELSE theirs[v]]

\* The variables a manifest binds.
Bound(m) == {v \in Vars : m[v] # None}

-------------------------------------------------------------------------------
VARIABLES
  commits,      \* the commit objects, in the order they were stored
  heads,        \* refs/heads
  envs,         \* refs/environments
  protected,    \* the .protection sidecars; a missing one means FALSE
  head,         \* HEAD: the branch it names; no operation detaches it
  index,        \* index.json
  op            \* what the running operation has yet to do, or None

vars == <<commits, heads, envs, protected, head, index, op>>

current_head == heads[head]

-------------------------------------------------------------------------------
Init ==
  /\ commits = <<>>
  /\ heads = [b \in Branches |-> None]
  /\ envs = [e \in Envs |-> None]
  /\ protected = [e \in Envs |-> FALSE]
  /\ head = Main
  /\ index = EmptyIndex
  /\ op = None

stage_change(v, change) ==
  /\ op = None
  /\ index' = [index EXCEPT ![v] = change]
  /\ UNCHANGED <<commits, heads, envs, protected, head, op>>

restore(v) ==
  /\ op = None
  /\ index[v] # None
  /\ index' = [index EXCEPT ![v] = None]
  /\ UNCHANGED <<commits, heads, envs, protected, head, op>>

\* Mutant of store_signed_commit: goes on before the object is written.
store_signed_commit_unwritten(parents, manifest, message, todo) ==
  /\ Len(commits) < MaxCommits
  /\ commits' = commits
  /\ op' = [todo EXCEPT !.id = Len(commits) + 1]

(***************************************************************************)
(* The first half of every operation that makes a commit: check the        *)
(* parents, store the objects, and go on to `todo` with their id.          *)
(***************************************************************************)
store_signed_commit(parents, manifest, message, todo) ==
  LET c == [parents |-> parents, manifest |-> manifest, message |-> message]
  IN /\ Elements(parents) \subseteq Ids(commits)
     /\ Stored(commits, c) \/ Len(commits) < MaxCommits
     /\ commits' = put(commits, c)
     /\ op' = [todo EXCEPT !.id = id_of(commits', c)]

\* Move HEAD onto the new commit; `clears` if the index is to be emptied then.
AdvanceHead(clears) ==
  [next |-> "advance_head", id |-> None, clears |-> clears, target |-> None, guarded |-> FALSE]

\* Move a branch onto the new commit; `guarded` by the protection rule or not.
WriteRef(target, guarded) ==
  [next |-> "write_ref", id |-> None, clears |-> FALSE, target |-> target, guarded |-> guarded]

HeadParents == IF current_head = None THEN <<>> ELSE <<current_head>>

\* Mutant of create_commit: the index is emptied before the branch moves.
create_commit_clearing_first(message) ==
  /\ op = None
  /\ ~is_empty(index)
  /\ store_signed_commit(HeadParents, apply_onto(index, manifest_at(commits, current_head)),
                         <<"commit", message, None>>, AdvanceHead(FALSE))
  /\ index' = EmptyIndex
  /\ UNCHANGED <<heads, envs, protected, head>>

create_commit(message) ==
  /\ op = None
  /\ ~is_empty(index)
  /\ store_signed_commit(HeadParents, apply_onto(index, manifest_at(commits, current_head)),
                         <<"commit", message, None>>, AdvanceHead(TRUE))
  /\ UNCHANGED <<heads, envs, protected, head, index>>

\* Mutant of rollback: moves the branch back.
rollback_rewriting(target) ==
  /\ op = None
  /\ is_empty(index)
  /\ current_head # None
  /\ target # current_head
  /\ heads' = [heads EXCEPT ![head] = target]
  /\ UNCHANGED <<commits, envs, protected, head, index, op>>

\* HistoryService::rollback: to any commit but HEAD, by default its parent.
rollback(target) ==
  /\ op = None
  /\ is_empty(index)
  /\ current_head # None
  /\ target # current_head
  /\ store_signed_commit(HeadParents, manifest_at(commits, target),
                         <<"rollback", target, None>>, AdvanceHead(FALSE))
  /\ UNCHANGED <<heads, envs, protected, head, index>>

advance_head_to ==
  /\ op # None /\ op.next = "advance_head"
  /\ heads' = [heads EXCEPT ![head] = op.id]
  /\ op' = IF op.clears THEN [op EXCEPT !.next = "clear_staging"] ELSE None
  /\ UNCHANGED <<commits, envs, protected, head, index>>

clear_staging ==
  /\ op # None /\ op.next = "clear_staging"
  /\ index' = EmptyIndex
  /\ op' = None
  /\ UNCHANGED <<commits, heads, envs, protected, head>>

create_branch(name) ==
  /\ op = None
  /\ heads[name] = None
  /\ current_head # None
  /\ heads' = [heads EXCEPT ![name] = current_head]
  /\ UNCHANGED <<commits, envs, protected, head, index, op>>

checkout_branch(name) ==
  /\ op = None
  /\ heads[name] # None
  /\ head' = name
  /\ UNCHANGED <<commits, heads, envs, protected, index, op>>

-------------------------------------------------------------------------------
(***************************************************************************)
(* assert_no_protection_weakening: a protected environment counts if its   *)
(* commit is its own merge base with the tip that is merged into.          *)
(***************************************************************************)
Follows(e, tip) == envs[e] # None /\ protected[e] /\ merge_base(commits, envs[e], tip) = envs[e]

Weakens(tip, merged) ==
  \E e \in Envs : Follows(e, tip) /\ ~(Bound(manifest_at(commits, envs[e])) \subseteq Bound(merged))

merge_branch(theirs, target) ==
  LET o == heads[target]
      t == heads[theirs]
      base_commit == merge_base(commits, o, t)
      base == manifest_at(commits, base_commit)
      ours == manifest_at(commits, o)
      incoming == manifest_at(commits, t)
  IN /\ op = None
     /\ o # None /\ t # None /\ o # t
     /\ base_commit # None
     /\ \E strategy \in {None, "ours", "theirs"}, allow_weaker_protection \in BOOLEAN :
          LET merged == merge_inner(base, ours, incoming, strategy)
          IN /\ conflicts(base, ours, incoming, strategy) = {}
             /\ allow_weaker_protection \/ ~Weakens(o, merged)
             /\ store_signed_commit(<<o, t>>, merged, <<"merge", theirs, target>>,
                                    WriteRef(target, ~allow_weaker_protection))
     /\ UNCHANGED <<heads, envs, protected, head, index>>

write_ref ==
  /\ op # None /\ op.next = "write_ref"
  /\ heads' = [heads EXCEPT ![op.target] = op.id]
  /\ op' = None
  /\ UNCHANGED <<commits, envs, protected, head, index>>

\* The operation's process dies or one of its writes fails.
Abort ==
  /\ op # None
  /\ op' = None
  /\ UNCHANGED <<commits, heads, envs, protected, head, index>>

-------------------------------------------------------------------------------
\* The sidecar create_environment writes says what a missing one would say,
\* so dying before that write makes no difference.
create_environment(e) ==
  /\ op = None
  /\ envs[e] = None
  /\ current_head # None
  /\ envs' = [envs EXCEPT ![e] = current_head]
  /\ protected' = [protected EXCEPT ![e] = FALSE]
  /\ UNCHANGED <<commits, heads, head, index, op>>

protect_environment(e, flag) ==
  /\ op = None
  /\ envs[e] # None
  /\ protected' = [protected EXCEPT ![e] = flag]
  /\ UNCHANGED <<commits, heads, envs, head, index, op>>

\* A branch of that name comes before an environment of that name.
PromotionSource(from) ==
  IF from \in Branches /\ heads[from] # None THEN heads[from]
  ELSE IF from \in Envs THEN envs[from] ELSE None

\* The audit event that follows is AuditLog's; when it fails the ref has moved.
promote(from, e, force) ==
  /\ op = None
  /\ PromotionSource(from) # None
  /\ envs[e] # None
  /\ envs[e] = PromotionSource(from) \/ ~protected[e] \/ force
  /\ envs' = [envs EXCEPT ![e] = PromotionSource(from)]
  /\ UNCHANGED <<commits, heads, protected, head, index, op>>

-------------------------------------------------------------------------------
Next ==
  \/ \E v \in Vars : restore(v) \/ \E change \in Entries \cup {Removed} : stage_change(v, change)
  \/ \E message \in Messages : create_commit(message)
  \/ \E id \in Ids(commits) : rollback(id)
  \/ advance_head_to \/ clear_staging \/ write_ref \/ Abort
  \/ \E b \in Branches : create_branch(b) \/ checkout_branch(b)
  \/ \E theirs, target \in Branches : merge_branch(theirs, target)
  \/ \E e \in Envs :
       \/ create_environment(e)
       \/ \E flag \in BOOLEAN : protect_environment(e, flag)
       \/ \E from \in Branches \cup Envs, force \in BOOLEAN : promote(from, e, force)

Spec == Init /\ [][Next]_vars

-------------------------------------------------------------------------------
Commit ==
  [parents : Seq(Nat), manifest : Manifest,
   message : {"commit", "rollback", "merge"} \X (Messages \cup Branches \cup Nat)
                                             \X Option(Branches)]

\* Every file of the .vaultx directory holds what its reader expects: no
\* removal mark in a manifest, no half-made operation without a commit.
TypeOK ==
  /\ commits \in Seq(Commit)
  /\ heads \in [Branches -> Option(Nat)]
  /\ envs \in [Envs -> Option(Nat)]
  /\ protected \in [Envs -> BOOLEAN]
  /\ head \in Branches
  /\ index \in StagingIndex
  /\ op \in Option([next : {"advance_head", "clear_staging", "write_ref"}, id : Nat,
                    clears : BOOLEAN, target : Option(Branches), guarded : BOOLEAN])

(***************************************************************************)
(* history.rs:80 of the repository crate "so history can never gain a      *)
(* dangling reference": wherever an operation dies, every ref points at a  *)
(* stored commit, and so does every parent of every commit, which was      *)
(* stored before it.                                                       *)
(***************************************************************************)
RefsResolve ==
  /\ TypeOK
  /\ \A b \in Branches : heads[b] \in Option(Ids(commits))
  /\ \A e \in Envs : envs[e] \in Option(Ids(commits))
  /\ \A i \in Ids(commits) : \A j \in ParentSet(commits, i) : j \in 1..(i - 1)

(***************************************************************************)
(* repo.rs:509 "no history is rewritten and old commits stay intact": a    *)
(* stored commit stays as it is, and a branch moves only to commits that   *)
(* descend from its old tip, by commit, rollback and merge alike.          *)
(***************************************************************************)
HistoryAppendOnly ==
  [][/\ \A i \in Ids(commits) : i \in Ids(commits') /\ commits'[i] = commits[i]
     /\ \A b \in Branches : heads[b] \in {None, heads'[b]} \/
          (heads'[b] # None /\ heads[b] \in Lineage(commits', heads'[b]))]_vars

(***************************************************************************)
(* repo.rs:261 "the staging index clears only after full success": a       *)
(* staged change leaves the index unreplaced because the user restores it, *)
(* or when the commit HEAD is on has it.                                   *)
(***************************************************************************)
StagedIntentKept ==
  [][\A v \in Vars : index[v] # None /\ index'[v] = None /\ {op, op'} # {None} =>
       LET m == manifest_at(commits', heads'[head']) IN apply_onto(index, m)[v] = m[v]]_vars

(***************************************************************************)
(* merge.rs:29 "Secret revisions are atomic values: they are never picked  *)
(* automatically and remain blocking under every strategy": where a secret *)
(* is bound on either side, a merge gives up a side's binding only if both *)
(* sides' common history had that very binding.                            *)
(***************************************************************************)
SecretsNeverPicked ==
  \A i \in Ids(commits) : commits[i].message[1] = "merge" =>
    LET sides == ParentSet(commits, i)
        shared == {a \in Ids(commits) : \A p \in sides : a \in Lineage(commits, p)}
        at(p, v) == commits[p].manifest[v]
    IN \A v \in Vars : (\E p \in sides : at(p, v) \in Secrets) =>
         \A p \in sides : at(p, v) # at(i, v) => \E a \in shared : at(a, v) = at(p, v)

(***************************************************************************)
(* history.rs:402 of the core crate "every **protected** environment ref   *)
(* pinned on the target branch's lineage must not lose variables in the    *)
(* merged result; otherwise the merge is refused".                         *)
(***************************************************************************)
MergeKeepsProtected ==
  op # None /\ op.next = "write_ref" /\ op.guarded =>
    \A e \in Envs :
      envs[e] # None /\ protected[e] /\ envs[e] \in Lineage(commits, heads[op.target]) =>
        Bound(manifest_at(commits, envs[e])) \subseteq Bound(manifest_at(commits, op.id))
===============================================================================
