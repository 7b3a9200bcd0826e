----------------------------- MODULE ProjectKeys -----------------------------
(***************************************************************************)
(* The key files of a project and the diagnosis of `vaultx doctor`: the    *)
(* device signing identity (signing_pair of                                *)
(* crates/vaultx-core/src/history.rs), the root wrapping key               *)
(* (crates/vaultx-keyring/src/lib.rs), the wrapped project keys            *)
(* (load_or_init_keys of crates/vaultx-core/src/secrets.rs) and            *)
(* crates/vaultx-core/src/doctor.rs.                                       *)
(*                                                                         *)
(* A command commits or writes a secret; it generates at most one key of   *)
(* each sort, which is named after it.  Files get lost and come back       *)
(* between the commands, and a command may die between two steps.  The     *)
(* race of two first secret writes is the subject of SecretVault.          *)
(***************************************************************************)
EXTENDS Naturals

CONSTANTS
  Commands,
  MaxLosses       \* bound on the changes made around the commands

\* A command gives its name to the keys it makes; the other states of a file are no keys.
ASSUME KeysAreNoMarks == Commands \cap {"missing", "torn", "none"} = {}

VARIABLES
  deviceKey,    \* device.key: "missing", "torn" or whose seed it holds
  devicePub,    \* device.pub: "missing" or whose key it holds
  signers,       \* the keys that have signed commits
  rootKey,      \* root.key: "missing", "torn" or whose key it holds
  wrappedBy,    \* keys/project.json: "missing", "torn" or the root key around it
  projectKey,   \* the project key in it
  sealed,       \* the project keys that seal stored secrets
  around,       \* what else doctor looks at
  step, pair, rootHeld,   \* command -> its step, signing pair and root key
  raced, lost,  \* two commands made a seed; the files that were lost
  losses, report

keyFiles == <<deviceKey, devicePub, signers, rootKey, wrappedBy, projectKey, sealed>>
keyVars == <<keyFiles, around, step, pair, rootHeld, raced, lost, losses, report>>

NoReport == [c \in {} |-> "Pass"]
Healthy == [objects |-> "whole", policies |-> "valid", broker |-> "absent", local |-> "absent",
            remote |-> "none"]

keysInit ==
  /\ deviceKey = "missing" /\ devicePub = "missing" /\ signers = {}
  /\ rootKey = "missing" /\ wrappedBy = "missing" /\ projectKey = "none" /\ sealed = {}
  /\ around = Healthy
  /\ step = [c \in Commands |-> "new"] /\ pair = [c \in Commands |-> "none"]
  /\ rootHeld = [c \in Commands |-> "none"]
  /\ raced = FALSE /\ lost = {} /\ losses = 0 /\ report = NoReport

Continue(c, s) == step' = [step EXCEPT ![c] = s]

-------------------------------------------------------------------------------
(* history.rs: a commit and the device identity *)

load_persisted_pair(c) ==
  /\ pair' = [pair EXCEPT ![c] = deviceKey]
  /\ devicePub' = deviceKey

signing_pair(c) ==
  /\ step[c] = "new"
  /\ \/ deviceKey = "missing" /\ Continue(c, "create") /\ UNCHANGED <<devicePub, pair>>
     \/ deviceKey = "torn" /\ Continue(c, "failed") /\ UNCHANGED <<devicePub, pair>>
     \/ deviceKey \in Commands /\ Continue(c, "sign") /\ load_persisted_pair(c)
  /\ UNCHANGED <<deviceKey, signers, rootKey, wrappedBy, projectKey, sealed, around, rootHeld, raced, lost, losses>>

\* generate_and_persist_pair: write_private_file truncates and then writes.
TruncateSeed(c) ==
  /\ step[c] = "create" /\ Continue(c, "fill")
  /\ raced' = (raced \/ deviceKey # "missing")
  /\ deviceKey' = "torn"
  /\ UNCHANGED <<devicePub, signers, rootKey, wrappedBy, projectKey, sealed, around, pair, rootHeld, lost, losses>>

FillSeed(c) ==
  /\ step[c] = "fill" /\ Continue(c, "publish")
  /\ deviceKey' = c /\ pair' = [pair EXCEPT ![c] = c]
  /\ UNCHANGED <<devicePub, signers, rootKey, wrappedBy, projectKey, sealed, around, rootHeld, raced, lost, losses>>

persist_device_pub(c) ==
  /\ step[c] = "publish" /\ Continue(c, "sign")
  /\ devicePub' = pair[c]
  /\ UNCHANGED <<deviceKey, signers, rootKey, wrappedBy, projectKey, sealed, around, pair, rootHeld, raced, lost, losses>>

SignWithPair(c) ==
  /\ step[c] = "sign" /\ Continue(c, "done")
  /\ signers' = signers \cup {pair[c]}
  /\ UNCHANGED <<deviceKey, devicePub, rootKey, wrappedBy, projectKey, sealed, around, pair, rootHeld, raced, lost, losses>>

-------------------------------------------------------------------------------
(* keyring, secrets.rs: a secret write and the project keys *)

\* obtain creates root.key if it is not there, and then fills it.
obtain(c) ==
  /\ step[c] = "new"
  /\ \/ rootKey = "missing" /\ rootKey' = "torn" /\ Continue(c, "fill_root") /\ UNCHANGED rootHeld
     \/ rootKey = "torn" /\ Continue(c, "failed") /\ UNCHANGED <<rootKey, rootHeld>>
     \/ /\ rootKey \in Commands /\ rootHeld' = [rootHeld EXCEPT ![c] = rootKey]
        /\ Continue(c, "bundle") /\ UNCHANGED rootKey
  /\ UNCHANGED <<deviceKey, devicePub, signers, wrappedBy, projectKey, sealed, around, pair, raced, lost, losses>>

FillRootKey(c) ==
  /\ step[c] = "fill_root" /\ Continue(c, "bundle")
  /\ rootKey' = c /\ rootHeld' = [rootHeld EXCEPT ![c] = c]
  /\ UNCHANGED <<deviceKey, devicePub, signers, wrappedBy, projectKey, sealed, around, pair, raced, lost, losses>>

\* read_project_keys, or a new bundle when there is none; then the secret.
UseBundle(c) ==
  /\ step[c] = "bundle"
  /\ \/ /\ wrappedBy = "missing" /\ wrappedBy' = rootHeld[c] /\ projectKey' = c
        /\ sealed' = sealed \cup {c} /\ Continue(c, "done")
     \/ /\ wrappedBy = rootHeld[c] /\ sealed' = sealed \cup {projectKey} /\ Continue(c, "done")
        /\ UNCHANGED <<wrappedBy, projectKey>>
     \/ /\ wrappedBy \notin {"missing", rootHeld[c]} /\ Continue(c, "failed")
        /\ UNCHANGED <<wrappedBy, projectKey, sealed>>
  /\ UNCHANGED <<deviceKey, devicePub, signers, rootKey, around, pair, rootHeld, raced, lost, losses>>

Dies(c) ==
  /\ step[c] \notin {"new", "done", "failed"} /\ Continue(c, "failed")
  /\ UNCHANGED <<keyFiles, around, pair, rootHeld, raced, lost, losses>>

-------------------------------------------------------------------------------
(* What happens around the commands *)

LoseFile ==
  /\ losses < MaxLosses /\ losses' = losses + 1
  /\ \/ /\ deviceKey \in Commands /\ deviceKey' = "missing" /\ lost' = lost \cup {"device.key"}
        /\ UNCHANGED <<devicePub, rootKey, wrappedBy>>
     \/ /\ devicePub # "missing" /\ devicePub' = "missing" /\ lost' = lost \cup {"device.pub"}
        /\ UNCHANGED <<deviceKey, rootKey, wrappedBy>>
     \/ /\ rootKey \in Commands /\ rootKey' = "missing"
        /\ UNCHANGED <<deviceKey, devicePub, wrappedBy, lost>>
     \/ /\ wrappedBy \in Commands /\ wrappedBy' \in {"missing", "torn"}
        /\ lost' = lost \cup {"project.json"} /\ UNCHANGED <<deviceKey, devicePub, rootKey>>
  /\ UNCHANGED <<signers, projectKey, sealed, around, step, pair, rootHeld, raced>>

\* The operator puts root.key back from a backup.
RestoreRoot ==
  /\ wrappedBy \in Commands /\ rootKey # wrappedBy /\ rootKey' = wrappedBy
  /\ UNCHANGED <<deviceKey, devicePub, signers, wrappedBy, projectKey, sealed, around, step, pair, rootHeld, raced, lost, losses>>

OutsideChange ==
  /\ losses < MaxLosses /\ losses' = losses + 1
  /\ around' \in {[around EXCEPT !.objects = "damaged"], [around EXCEPT !.policies = "invalid"]}
                   \cup {[around EXCEPT !.broker = b] : b \in {"absent", "live", "silent"}}
                   \cup {[around EXCEPT !.local = s] : s \in {"absent", "private", "world writable"}}
                   \cup {[around EXCEPT !.remote = r] : r \in {"none", "json", "garbage"}}
  /\ around' # around
  /\ UNCHANGED <<keyFiles, step, pair, rootHeld, raced, lost>>

-------------------------------------------------------------------------------
(* doctor.rs *)

check_repository_integrity == IF around.objects = "whole" THEN "Pass" ELSE "Fail"

\* A missing key is generated by the first commit.
check_signing_key == IF deviceKey = "torn" THEN "Fail" ELSE "Pass"

\* Whether root.key loads or not, a file-based root key is only a warning.
check_keyring_availability == "Warn"

\* Mutant of check_project_keys: both files are there.
check_project_keys_present ==
  CASE wrappedBy = "missing" -> "Warn" [] rootKey = "missing" -> "Fail" [] OTHER -> "Pass"

\* verify_project_keys loads the root key and unwraps the bundle with it.
check_project_keys ==
  CASE wrappedBy = "missing"                        -> "Warn"
    [] wrappedBy # "missing" /\ rootKey = wrappedBy -> "Pass"
    [] OTHER                                        -> "Fail"

check_policy_validity == IF around.policies = "valid" THEN "Pass" ELSE "Fail"

check_broker_socket == IF around.local = "private" THEN "Pass" ELSE "Warn"

check_remote_config == IF around.remote = "none" THEN "Warn" ELSE "Pass"

check_sync_consistency == IF around.remote = "none" THEN "Pass" ELSE "Warn"

\* The handshake of probe_broker_async; nobody answers on a "silent" socket.
check_broker_connectivity ==
  CASE around.broker = "live"   -> "Pass"
    [] around.broker = "silent" -> "Fail"
    [] around.broker = "absent" -> "Warn"

run_doctor ==
  /\ report' = [repository |-> check_repository_integrity, signing |-> check_signing_key,
                keyring |-> check_keyring_availability, keys |-> check_project_keys,
                policies |-> check_policy_validity, socket |-> check_broker_socket,
                remote |-> check_remote_config, sync |-> check_sync_consistency,
                broker |-> check_broker_connectivity]
  /\ UNCHANGED <<keyFiles, around, step, pair, rootHeld, raced, lost, losses>>

keysNext ==
  \/ run_doctor
  \/ /\ report' = NoReport
     /\ \/ \E c \in Commands :
             \/ signing_pair(c) \/ TruncateSeed(c) \/ FillSeed(c) \/ persist_device_pub(c) \/ SignWithPair(c)
             \/ obtain(c) \/ FillRootKey(c) \/ UseBundle(c) \/ Dies(c)
        \/ LoseFile \/ RestoreRoot \/ OutsideChange

KeysSpec == keysInit /\ [][keysNext]_keyVars

-------------------------------------------------------------------------------
\* What cmd_doctor reports with exit status 0.
NoFailure == report # NoReport /\ \A c \in DOMAIN report : report[c] # "Fail"

(***************************************************************************)
(* A project that doctor passes can be used: the next commit gets its      *)
(* signing pair, the next secret command its project keys, the project     *)
(* keys open every secret that was sealed under them, the rule engine      *)
(* builds and the endpoint answers or is free.  In particular a root key   *)
(* that was lost and silently created anew by a secret write               *)
(* (secrets.rs:655) stays a failure until the old one is put back.  Two    *)
(* cases doctor leaves to the commands: a torn root.key before the first   *)
(* secret, and a lost keys/project.json.                                   *)
(***************************************************************************)
HealthyMeansUsable ==
  NoFailure =>
    /\ deviceKey # "torn"
    /\ wrappedBy # "missing" => rootKey = wrappedBy
    /\ "project.json" \notin lost => sealed \subseteq {projectKey}
    /\ around.objects = "whole" /\ around.policies = "valid" /\ around.broker # "silent"

(***************************************************************************)
(* history.rs:10-13: every commit is signed by the same identity and       *)
(* verifies against device.pub, whatever command died between the seed     *)
(* and device.pub, unless two first commits overlapped or a file was lost. *)
(***************************************************************************)
OneSigningIdentity ==
  ~raced /\ lost \cap {"device.key", "device.pub"} = {} => signers \subseteq {devicePub}

(***************************************************************************)
(* The key files: doctor's verdict can be relied upon, and commits keep    *)
(* one signing identity.                                                   *)
(***************************************************************************)
KeysUsable == HealthyMeansUsable /\ OneSigningIdentity
===============================================================================
