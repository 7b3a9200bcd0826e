------------------------------- MODULE Recovery -------------------------------
(***************************************************************************)
(* `vaultx recover`: the audit of refs, history and secret records, and    *)
(* the repair that deletes refs after a confirmation                       *)
(* (crates/vaultx-core/src/recover.rs, cmd_recover of                      *)
(* crates/vaultx-cli/src/cli.rs, RefStore of                               *)
(* crates/vaultx-repository/src/refs.rs).                                  *)
(*                                                                         *)
(* While the command waits for its confirmation, and between two of the    *)
(* refs it repairs, other commands move refs and objects come back or get  *)
(* lost.  A commit is its id; what it declares is constant.                *)
(***************************************************************************)
EXTENDS Options, Naturals, FiniteSets

CONSTANTS
  Commits,
  ParentsOf,         \* commit -> the parents it declares
  Unsigned,          \* commits the device key does not verify
  RevisionsOf,       \* commit -> the secret revisions of its manifest
  AllRevisions,
  BranchRefs, EnvRefs,
  MaxDamage          \* bound on the changes around the command

ASSUME CommitsAreDeclared ==
  /\ IsFiniteSet(Commits) /\ None \notin Commits
  /\ ParentsOf \in [Commits -> SUBSET Commits] /\ RevisionsOf \in [Commits -> SUBSET AllRevisions]

VARIABLES
  readable,      \* commits whose objects can be read
  pub,           \* .vaultx/device.pub can be used
  vaultRecords,  \* revisions that have a record
  refs,          \* ref -> commit or None
  guarded,       \* environments with a protection file
  repair,        \* what the command is doing
  damage         \* changes made so far

recoverVars == <<readable, pub, vaultRecords, refs, guarded, repair, damage>>

Refs == BranchRefs \cup EnvRefs

\* `now` is the ref being deleted; `moved` are the refs that moved since it was
\* read again and `back` the commits that came back since the audit.
Idle ==
  [at |-> "idle", report |-> None, todo |-> {}, now |-> None, removed |-> 0, skipped |-> 0,
   moved |-> {}, back |-> {}]

-------------------------------------------------------------------------------
(* recover.rs: audit *)

ParentFindings(id) == {<<id, "parent", p>> : p \in ParentsOf[id] \ readable}

\* What can be reached in as many steps as there are commits.
Reached(from, next) ==
  LET reached[n \in 0..Cardinality(Commits)] ==
        IF n = 0 THEN from ELSE reached[n - 1] \cup UNION {next[c] : c \in reached[n - 1]}
  IN reached[Cardinality(Commits)]

\* The commits the walk visits: from the tips, through parents that resolve.
Walk(tips) == Reached(tips, [c \in Commits |-> ParentsOf[c] \cap readable])

load_device_public_key == pub

audit ==
  LET broken == {r \in Refs : refs[r] # None /\ refs[r] \notin readable}
      tips == {refs[r] : r \in {r \in Refs : refs[r] # None}} \cap readable
      walked == Walk(tips)
  IN [unresolvable |-> {<<r, refs[r]>> : r \in broken},
      signatures   |-> (IF ~load_device_public_key /\ tips # {} THEN {<<"device key">>} ELSE {})
                         \cup {<<c>> : c \in IF pub THEN walked \cap Unsigned ELSE {}}
                         \cup UNION {ParentFindings(c) : c \in walked},
      missing      |-> (UNION {RevisionsOf[c] : c \in walked}) \ vaultRecords]

is_clean(report) == report.unresolvable = {} /\ report.signatures = {} /\ report.missing = {}

-------------------------------------------------------------------------------
recoverInit ==
  /\ readable = Commits /\ pub = TRUE /\ vaultRecords = AllRevisions
  /\ refs \in [Refs -> Commits] /\ guarded = EnvRefs
  /\ repair = Idle /\ damage = 0

Around(moved, back) ==
  /\ damage < MaxDamage /\ damage' = damage + 1
  /\ repair.at # "done"
  /\ repair' = [repair EXCEPT !.moved = @ \cup moved, !.back = @ \cup back]

\* An object or a record is lost, or comes back with a pull or a backup.
ObjectsChange ==
  /\ \/ \E c \in readable : readable' = readable \ {c} /\ Around({}, {}) /\ UNCHANGED <<pub, vaultRecords>>
     \/ \E c \in Commits \ readable : readable' = readable \cup {c} /\ Around({}, {c}) /\ UNCHANGED <<pub, vaultRecords>>
     \/ \E r \in vaultRecords : vaultRecords' = vaultRecords \ {r} /\ Around({}, {}) /\ UNCHANGED <<readable, pub>>
     \/ pub' = ~pub /\ Around({}, {}) /\ UNCHANGED <<readable, vaultRecords>>
  /\ UNCHANGED <<refs, guarded>>

\* Another command moves a ref, to a commit that resolves.
RefMoves ==
  /\ \E r \in Refs, c \in readable : refs' = [refs EXCEPT ![r] = c] /\ Around({r}, {})
  /\ UNCHANGED <<readable, pub, vaultRecords, guarded>>

\* cmd_recover audits.  With --fix and broken refs it asks for confirmation.
StartRecover(fix) ==
  /\ repair.at = "idle"
  /\ repair' = [repair EXCEPT !.report = audit, !.back = {},
                              !.at = IF fix /\ audit.unresolvable # {} THEN "confirm" ELSE "done"]
  /\ UNCHANGED <<readable, pub, vaultRecords, refs, guarded, damage>>

\* authorize_high_friction_action: typed phrase or consent flag, else refused.
Confirm(yes) ==
  /\ repair.at = "confirm"
  /\ repair' = IF yes THEN [repair EXCEPT !.at = "fix", !.todo = repair.report.unresolvable,
                                          !.report.unresolvable = {}]
               ELSE [repair EXCEPT !.at = "done"]
  /\ UNCHANGED <<readable, pub, vaultRecords, refs, guarded, damage>>

\* Mutant of StillAudited: the ref is not read again.
StillAudited_always(target) == refs[target[1]] # None

StillAudited(target) == refs[target[1]] = target[2]

\* One turn of fix_unresolvable_refs, up to the deletion.
Reread(target) ==
  /\ repair.at = "fix" /\ target \in repair.todo
  /\ repair' = IF StillAudited(target)
               THEN [repair EXCEPT !.at = "delete", !.todo = @ \ {target}, !.now = target, !.moved = {}]
               ELSE [repair EXCEPT !.todo = @ \ {target}, !.skipped = @ + 1]
  /\ UNCHANGED <<readable, pub, vaultRecords, refs, guarded, damage>>

\* delete_ref forced past HEAD, delete_env_ref forced past the protection,
\* whose file goes with the ref.
DeleteRef ==
  /\ repair.at = "delete"
  /\ refs' = [refs EXCEPT ![repair.now[1]] = None]
  /\ guarded' = guarded \ {repair.now[1]}
  /\ repair' = [repair EXCEPT !.at = "fix", !.removed = @ + 1]
  /\ UNCHANGED <<readable, pub, vaultRecords, damage>>

\* The second audit, when something was removed.
FinishRecover ==
  /\ repair.at = "fix" /\ repair.todo = {}
  /\ repair' = [repair EXCEPT !.at = "done", !.report = IF repair.removed > 0 THEN audit ELSE @]
  /\ UNCHANGED <<readable, pub, vaultRecords, refs, guarded, damage>>

recoverNext ==
  \/ ObjectsChange \/ RefMoves
  \/ \E fix \in BOOLEAN : StartRecover(fix)
  \/ \E yes \in BOOLEAN : Confirm(yes)
  \/ \E target \in repair.todo : Reread(target)
  \/ DeleteRef \/ FinishRecover

RecoverSpec == recoverInit /\ [][recoverNext]_recoverVars

-------------------------------------------------------------------------------
Ancestry(tips) == Reached(tips, ParentsOf)

(***************************************************************************)
(* The verdict of `recover`.  A command that ends clean, unless it skipped *)
(* every ref it was to repair, audited a project that is whole: every ref  *)
(* and every ancestor of it resolves and verifies, and every revision      *)
(* their manifests name has its record (recover.rs:4-11).  The state       *)
(* cannot have changed since: the command has ended.                       *)
(***************************************************************************)
CleanMeansWhole ==
  repair.at = "done" /\ is_clean(repair.report) /\ repair.skipped = 0 =>
    LET all == Ancestry({refs[r] : r \in Refs} \ {None}) IN
    /\ all \subseteq readable
    /\ all # {} => pub /\ all \cap Unsigned = {}
    /\ UNION {RevisionsOf[c] : c \in all} \subseteq vaultRecords

(***************************************************************************)
(* recover.rs:13 "`--fix` deletes only refs whose targets are              *)
(* unresolvable": the ref that is deleted still has the target the audit   *)
(* found broken, unless it moved in the moment since it was read again,    *)
(* and that target still does not resolve, unless it came back while the   *)
(* command waited for its confirmation.                                    *)
(***************************************************************************)
DeletesOnlyAudited == [][DeleteRef =>
  LET r == repair.now[1] IN
  /\ r \notin repair.moved => refs[r] = repair.now[2]
  /\ refs[r] \in readable => refs[r] \in repair.back \/ r \in repair.moved]_recoverVars

(***************************************************************************)
(* `recover` tells the truth about the project and deletes nothing else    *)
(* than what it found broken.                                              *)
(***************************************************************************)
RecoveryFaithful == []CleanMeansWhole /\ DeletesOnlyAudited
===============================================================================
