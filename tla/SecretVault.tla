------------------------------ MODULE SecretVault ------------------------------
(***************************************************************************)
(* SecretService of crates/vaultx-core/src/secrets.rs with the root key    *)
(* file of crates/vaultx-keyring and the broker's VaultCredentialSource    *)
(* (crates/vaultx-core/src/broker_source.rs), for one variable in one      *)
(* environment.                                                            *)
(*                                                                         *)
(* The state is root.key, keys/project.json, the revision records and the  *)
(* variable's place in the staging index.  Commands and brokers run at the *)
(* same time without a lock: a command lists the record files, reads them, *)
(* makes sure of the keys and writes one file after another, and may stop  *)
(* in between.  A record file is replaced atomically; root.key is created  *)
(* first and filled then.                                                  *)
(*                                                                         *)
(* A revision's id is its place in the order of publishing.  A key is      *)
(* named after the process that made it: only a published key is used.     *)
(* Readings of the nanosecond clock never repeat and never go back.        *)
(* The files a listing names are read in one step; the entry id revisions  *)
(* share names a directory and decides nothing, so it is left out.         *)
(***************************************************************************)
EXTENDS Options, Integers, Sequences

CONSTANTS
  Procs,          \* commands and brokers at work on one project
  MaxRevisions,   \* bound: readings of the clock, one for each revision
  MaxCommands        \* bound: commands

ASSUME VaultBounds == MaxRevisions \in Nat /\ MaxCommands \in Nat

VARIABLES
  root,       \* root.key: None, "empty" or the process that made the key
  bundle,     \* project.json: None or [root, key], the key wrapped under root
  records,    \* the revision records
  staged,     \* the revision the staging index binds the variable to
  clock,      \* the last reading of the clock
  started,    \* the number of commands so far
  at,         \* what each process does next
  job,        \* the command it runs: [op, kind]
  held,       \* the root key it holds while it makes sure of the keys
  keys,       \* the project key it has cached
  listed,     \* how many record files it has listed
  looked,     \* how many were listed when the broker looked the binding up
  latest,     \* the latest of the records it read: [id, rec], or None
  fresh       \* the revision it makes: its creation time, then its id

vaultFiles == <<root, bundle, records, staged, clock, started>>
procs == <<at, job, held, keys, listed, looked, latest, fresh>>
vaultVars == <<vaultFiles, procs>>

Kinds == {"secret", "brokered"}
Jobs == [op : {"set"}, kind : Kinds]
          \cup [op : {"rotate", "destroy", "reveal", "resolve"}, kind : {None}]
Steps == {"idle", "list", "read", "keys", "fill_root", "read_bundle", "publish_bundle",
          "stamp", "publish", "revoke", "stage", "shred", "decrypt"}

\* dek: the project key its data key is wrapped under; None once shredded.
RevisionRecord == [kind : Kinds, state : {"active", "revoked", "destroyed"},
           created : 1..MaxRevisions, dek : Procs \cup {None}]

\* None is not one of the values it stands beside.
ASSUME NoneIsNoFile ==
  /\ None \notin Procs /\ "empty" \notin Procs /\ None # "empty"
  /\ None \notin [root : Procs, key : Procs]
  /\ None \notin [id : Nat, rec : RevisionRecord]

-------------------------------------------------------------------------------
VaultInit ==
  /\ root = None
  /\ bundle = None
  /\ records = <<>>
  /\ staged = None
  /\ clock = 0
  /\ started = 0
  /\ at = [p \in Procs |-> "idle"]
  /\ job = [p \in Procs |-> None]
  /\ held = [p \in Procs |-> None]
  /\ keys = [p \in Procs |-> None]
  /\ listed = [p \in Procs |-> None]
  /\ looked = [p \in Procs |-> None]
  /\ latest = [p \in Procs |-> None]
  /\ fresh = [p \in Procs |-> None]

Goto(p, step) == at' = [at EXCEPT ![p] = step]

Call(p, j) ==
  /\ at[p] = "idle"
  /\ started < MaxCommands
  /\ started' = started + 1
  /\ Goto(p, "list")
  /\ job' = [job EXCEPT ![p] = j]
  /\ UNCHANGED <<root, bundle, records, staged, clock, held, keys, listed, looked, latest, fresh>>

\* The command is over and what it held is gone, apart from the key cache.
Ended(p) ==
  /\ Goto(p, "idle")
  /\ job' = [job EXCEPT ![p] = None]
  /\ held' = [held EXCEPT ![p] = None]
  /\ listed' = [listed EXCEPT ![p] = None]
  /\ looked' = [looked EXCEPT ![p] = None]
  /\ latest' = [latest EXCEPT ![p] = None]
  /\ fresh' = [fresh EXCEPT ![p] = None]

\* A failing file operation ends the command; a crash or an exit loses the
\* cached keys as well.
Stop(p) ==
  /\ at[p] # "idle" \/ keys[p] # None
  /\ Ended(p)
  /\ \E k \in {keys[p], None} : keys' = [keys EXCEPT ![p] = k]
  /\ UNCHANGED vaultFiles

-------------------------------------------------------------------------------
\* latest_record

ListRecords(p) ==
  /\ at[p] = "list"
  /\ listed' = [listed EXCEPT ![p] = Len(records)]
  /\ Goto(p, "read")
  /\ UNCHANGED <<vaultFiles, job, held, keys, looked, latest, fresh>>

\* The record with the greatest ordering key: none, or one.
pick_latest(rs) == {i \in DOMAIN rs : \A j \in DOMAIN rs : rs[j].created <= rs[i].created}

\* Mutant of Accepts: a destroyed secret is rotated like any other.
AcceptsDestroyed(op, rec) ==
  IF op = "resolve" THEN rec.kind = "brokered" /\ rec.state = "active" ELSE TRUE

\* Whether a command goes on with the latest record.
Accepts(op, rec) ==
  IF op = "resolve" THEN rec.kind = "brokered" /\ rec.state = "active"
                    ELSE rec.state # "destroyed"

\* A new value can be set whatever is there.
ReadForSet(p) ==
  /\ job[p].op = "set"
  /\ listed' = [listed EXCEPT ![p] = None]
  /\ Goto(p, "keys")
  /\ UNCHANGED <<job, held, looked, latest, fresh>>

\* The broker's lookup hands over the name alone: revealing starts again.
ReadForLookup(p) ==
  /\ job[p].op = "resolve"
  /\ job' = [job EXCEPT ![p].op = "reveal"]
  /\ looked' = [looked EXCEPT ![p] = listed[p]]
  /\ listed' = [listed EXCEPT ![p] = None]
  /\ Goto(p, "list")
  /\ UNCHANGED <<held, latest, fresh>>

\* The others keep the copy they read.
ReadForUse(p, i) ==
  /\ job[p].op \in {"rotate", "destroy", "reveal"}
  /\ latest' = [latest EXCEPT ![p] = [id |-> i, rec |-> records[i]]]
  /\ listed' = [listed EXCEPT ![p] = None]
  /\ Goto(p, IF job[p].op = "destroy" THEN "shred" ELSE "keys")
  /\ UNCHANGED <<job, held, looked, fresh>>

ReadRecords(p) ==
  /\ at[p] = "read"
  /\ LET found == {i \in pick_latest(SubSeq(records, 1, listed[p])) :
                     Accepts(job[p].op, records[i])}
     IN \/ ReadForSet(p)
        \/ found # {} /\ ReadForLookup(p)
        \/ \E i \in found : ReadForUse(p, i)
        \/ job[p].op # "set" /\ found = {} /\ Ended(p)
  /\ UNCHANGED <<vaultFiles, keys>>

-------------------------------------------------------------------------------
\* cached_keys and load_or_init_keys

AfterKeys(p) == IF job[p].op = "reveal" THEN "decrypt" ELSE "stamp"

\* The keys are at hand: cache them and go on.
WithKeys(p, k) ==
  /\ keys' = [keys EXCEPT ![p] = k]
  /\ held' = [held EXCEPT ![p] = None]
  /\ Goto(p, AfterKeys(p))
  /\ UNCHANGED <<job, listed, looked, latest, fresh>>

UseCachedKeys(p) ==
  /\ at[p] = "keys"
  /\ keys[p] # None
  /\ WithKeys(p, keys[p])
  /\ UNCHANGED vaultFiles

\* FileKeyStore::obtain creates the file exclusively or else loads it; a file
\* that holds no key is refused.
ObtainRoot(p) ==
  /\ at[p] = "keys"
  /\ keys[p] = None
  /\ \/ /\ root = None
        /\ root' = "empty"
        /\ Goto(p, "fill_root")
        /\ UNCHANGED <<job, held, listed, looked, latest, fresh>>
     \/ /\ root = "empty"
        /\ Ended(p)
        /\ UNCHANGED root
     \/ /\ root \in Procs
        /\ held' = [held EXCEPT ![p] = root]
        /\ Goto(p, "read_bundle")
        /\ UNCHANGED <<root, job, listed, looked, latest, fresh>>
  /\ UNCHANGED <<bundle, records, staged, clock, started, keys>>

FillRoot(p) ==
  /\ at[p] = "fill_root"
  /\ root' = p
  /\ held' = [held EXCEPT ![p] = p]
  /\ Goto(p, "read_bundle")
  /\ UNCHANGED <<bundle, records, staged, clock, started, keys, job, listed, looked, latest, fresh>>

\* read_project_keys: a bundle wrapped under another root key is an error.
Unwrapped(p, b) ==
  IF b.root = held[p] THEN WithKeys(p, b.key) ELSE Ended(p) /\ UNCHANGED keys

ReadBundle(p) ==
  /\ at[p] = "read_bundle"
  /\ IF bundle = None
     THEN Goto(p, "publish_bundle") /\ UNCHANGED <<job, held, keys, listed, looked, latest, fresh>>
     ELSE Unwrapped(p, bundle)
  /\ UNCHANGED vaultFiles

\* publish_file_no_clobber: who comes second adopts the first one's bundle.
PublishBundle(p) ==
  /\ at[p] = "publish_bundle"
  /\ IF bundle = None
     THEN bundle' = [root |-> held[p], key |-> p] /\ WithKeys(p, p)
     ELSE UNCHANGED bundle /\ Unwrapped(p, bundle)
  /\ UNCHANGED <<root, records, staged, clock, started>>

-------------------------------------------------------------------------------
\* write_revision: stamp, publish the new record, revoke the old, stage.

Stamp(p) ==
  /\ at[p] = "stamp"
  /\ clock < MaxRevisions
  /\ clock' = clock + 1
  /\ fresh' = [fresh EXCEPT ![p] = clock + 1]
  /\ Goto(p, "publish")
  /\ UNCHANGED <<root, bundle, records, staged, started, job, held, keys, listed, looked, latest>>

\* A rotation carries the kind over.
Minted(p) ==
  [kind |-> IF job[p].op = "set" THEN job[p].kind ELSE latest[p].rec.kind,
   state |-> "active", created |-> fresh[p], dek |-> keys[p]]

Publish(p) ==
  /\ at[p] = "publish"
  /\ records' = Append(records, Minted(p))
  /\ fresh' = [fresh EXCEPT ![p] = Len(records) + 1]
  /\ Goto(p, IF job[p].op = "rotate" THEN "revoke" ELSE "stage")
  /\ UNCHANGED <<root, bundle, staged, clock, started, job, held, keys, listed, looked, latest>>

\* The copy read at the start of the command is written back, revoked.
RevokeOld(p) ==
  /\ at[p] = "revoke"
  /\ records' = [records EXCEPT ![latest[p].id] = [latest[p].rec EXCEPT !.state = "revoked"]]
  /\ Goto(p, "stage")
  /\ UNCHANGED <<root, bundle, staged, clock, started, job, held, keys, listed, looked, latest, fresh>>

StageBinding(p) ==
  /\ at[p] = "stage"
  /\ staged' = fresh[p]
  /\ Ended(p)
  /\ UNCHANGED <<root, bundle, records, clock, started, keys>>

-------------------------------------------------------------------------------
\* destroy_secret writes its copy back, without the wrapped data key.
Shredded(p) ==
  [latest[p].rec EXCEPT !.state = "destroyed", !.dek = None]

Shred(p) ==
  /\ at[p] = "shred"
  /\ records' = [records EXCEPT ![latest[p].id] = Shredded(p)]
  /\ Ended(p)
  /\ UNCHANGED <<root, bundle, staged, clock, started, keys>>

\* decrypt_record of the copy: the value is returned, or unwrapping fails.
Decrypt(p) ==
  /\ at[p] = "decrypt"
  /\ Ended(p)
  /\ UNCHANGED <<vaultFiles, keys>>

VaultNext ==
  \E p \in Procs :
    \/ \E j \in Jobs : Call(p, j)
    \/ Stop(p)
    \/ ListRecords(p)
    \/ ReadRecords(p)
    \/ UseCachedKeys(p)
    \/ ObtainRoot(p)
    \/ FillRoot(p)
    \/ ReadBundle(p)
    \/ PublishBundle(p)
    \/ Stamp(p)
    \/ Publish(p)
    \/ RevokeOld(p)
    \/ StageBinding(p)
    \/ Shred(p)
    \/ Decrypt(p)

VaultSpec == VaultInit /\ [][VaultNext]_vaultVars

-------------------------------------------------------------------------------
\* Every variable keeps its type.
VaultTypeOK ==
  /\ root \in Procs \cup {None, "empty"}
  /\ bundle \in [root : Procs, key : Procs] \cup {None}
  /\ records \in Seq(RevisionRecord)
  /\ staged \in Nat \cup {None}
  /\ clock \in 0..MaxRevisions
  /\ started \in 0..MaxCommands
  /\ at \in [Procs -> Steps]
  /\ job \in [Procs -> Jobs \cup {None}]
  /\ held \in [Procs -> Procs \cup {None}]
  /\ keys \in [Procs -> Procs \cup {None}]
  /\ listed \in [Procs -> Nat \cup {None}]
  /\ looked \in [Procs -> Nat \cup {None}]
  /\ latest \in [Procs -> [id : Nat, rec : RevisionRecord] \cup {None}]
  /\ fresh \in [Procs -> Nat \cup {None}]

\* Concurrent first commands do not fork the vault (FileKeyStore::obtain,
\* load_or_init_keys): the stored root key opens the stored bundle, and the
\* bundle's project key is the only one in a cache or around a data key.
OneKeyHierarchy ==
  /\ bundle # None => bundle.root = root
  /\ \A p \in Procs : keys[p] # None => bundle # None /\ keys[p] = bundle.key
  /\ \A i \in DOMAIN records :
       records[i].dek # None => bundle # None /\ records[i].dek = bundle.key

\* However rotations overlap and wherever they stop, the revision that
\* counts as the latest is not one a rotation has revoked (write_revision).
LatestNeverRevoked ==
  \A i \in pick_latest(records) : records[i].state # "revoked"

\* The staging index never binds the variable to a revision that has no
\* record, wherever a command stops (write_revision, stage_binding).
StagedResolves == staged # None => staged \in DOMAIN records

\* A destroyed revision stays as it is, unless a rotation that read it before
\* its destruction writes its copy back (destroy_secret, rotate_secret).
DestroyedUnlessStale ==
  [][\A i \in DOMAIN records :
       records[i].state = "destroyed" /\ records'[i] # records[i]
         => \E p \in Procs : /\ at[p] = "revoke"
                             /\ latest[p].id = i
                             /\ latest[p].rec.state # "destroyed"]_vaultVars

\* The broker decrypts a revision that is not brokered only if its record
\* appeared after the lookup had listed the records (resolve, lookup).
PlainOnlyAfterLookup ==
  \A p \in Procs :
    at[p] = "decrypt" /\ looked[p] # None /\ latest[p].rec.kind # "brokered"
      => latest[p].id > looked[p]

\* The vault however its commands overlap and stop: one key hierarchy, a
\* latest revision and a staged binding that can be used, and destructions
\* that hold but for the one race destroy_secret does not close.
VaultSound ==
  []OneKeyHierarchy /\ []LatestNeverRevoked /\ []StagedResolves /\ DestroyedUnlessStale
===============================================================================
