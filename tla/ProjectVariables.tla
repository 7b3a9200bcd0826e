--------------------------- MODULE ProjectVariables ---------------------------
(***************************************************************************)
(* The variables of a project as commands read and change them: config     *)
(* values, `.env` import, staging (config.rs and staging.rs of             *)
(* crates/vaultx-core/src), plaintext export (export.rs and                *)
(* resolve_revision of secrets.rs) and the environment of `vaultx run`     *)
(* (cmd_run of crates/vaultx-cli/src/cli.rs).                              *)
(*                                                                         *)
(* An import and an export go through their variables one by one while     *)
(* other commands run.  A config object is its value and a commit its      *)
(* manifest; how secrets are stored is the subject of SecretVault, which   *)
(* shares no state with this module, and how two writers of the staging    *)
(* file interfere that of Repository.                                      *)
(***************************************************************************)
EXTENDS SecretVault, SequencesExt, FiniteSetsExt

CONSTANTS
  NamesInOrder,       \* the variable names, sorted
  LikelySecretNames,  \* those with a suffix such as _TOKEN
  InvalidNames,       \* what VariableName::parse refuses
  ConfigValues,
  SecretRevisions,
  EnvFiles,           \* sequences of <<name, value>>; "" is a line without a name
  MaxEdits            \* bound on the commands around an import or an export

\* What is no secret: the values set and those of the files.
PlainValues == ConfigValues \cup UNION {{f[i][2] : i \in DOMAIN f} : f \in EnvFiles}
Placeholder == {"none", "error", "foreign", "", "<vaultx:brokered>", "<vaultx:secret>", "<vaultx:destroyed>"}

\* The shape of the inputs.
ASSUME VariablesAreTyped ==
  /\ NamesInOrder \in Seq(ToSet(NamesInOrder))
  /\ "" \notin ToSet(NamesInOrder) /\ InvalidNames \cap ToSet(NamesInOrder) = {}
  /\ SecretRevisions \cap (PlainValues \cup Placeholder) = {}
  /\ \A f \in EnvFiles : f \in Seq((ToSet(NamesInOrder) \cup InvalidNames \cup {""}) \X PlainValues)
  /\ MaxEdits \in Nat

VARIABLES
  index,        \* variable -> staged change
  committed,    \* variable -> entry of HEAD's manifest
  pinned,       \* the same of the commit an environment is pinned to
  revisions,    \* revision -> [name, kind, state]
  importing, exporting,
  childEnv,     \* variable -> value given to the child of `run`
  edits

variableVars == <<index, committed, pinned, revisions, importing, exporting, childEnv, edits>>

VariableNames == ToSet(NamesInOrder)
Unbound == [kind |-> "unbound", of |-> ""]
Removal == [kind |-> "remove", of |-> ""]
Config(value) == [kind |-> "config", of |-> value]
NothingStaged == [n \in VariableNames |-> Unbound]

NoImport == [at |-> "idle", file |-> << >>, todo |-> << >>, head |-> {}, staged |-> {},
             before |-> NothingStaged, added |-> {}, needs_secret |-> {}, existing |-> {},
             invalid |-> {}, touched |-> {}]
NoExport == [at |-> "idle", reveal |-> FALSE, manifest |-> NothingStaged, next |-> 1,
             values |-> [n \in VariableNames |-> "none"], destroyed |-> {}]

variablesInit ==
  /\ index = NothingStaged /\ committed = NothingStaged /\ pinned = NothingStaged
  /\ revisions = [r \in SecretRevisions |-> [name |-> "", kind |-> "", state |-> "none"]]
  /\ importing = NoImport /\ exporting = NoExport
  /\ childEnv = [n \in VariableNames |-> "none"] /\ edits = 0

-------------------------------------------------------------------------------
(* config.rs and staging.rs *)

Stage(n, change) == index' = [index EXCEPT ![n] = change]

apply_onto(base) ==
  [n \in VariableNames |-> CASE index[n] = Unbound -> base[n] [] index[n] = Removal -> Unbound [] OTHER -> index[n]]

resolve_effective_entry(n) ==
  IF index[n] = Unbound THEN committed[n] ELSE IF index[n] = Removal THEN Unbound ELSE index[n]

\* What `vaultx get` prints, or "none" when it refuses.
get_config(n) == LET e == resolve_effective_entry(n) IN IF e.kind = "config" THEN e.of ELSE "none"

\* Another command changes these variables.
Edit(names) ==
  /\ edits < MaxEdits /\ edits' = edits + 1
  /\ importing' = [importing EXCEPT !.touched = @ \cup names]

set_config(n, value) ==
  /\ Stage(n, Config(value)) /\ Edit({n})
  /\ UNCHANGED <<committed, pinned, revisions, exporting, childEnv>>

unset_config(n) ==
  /\ committed[n] # Unbound \/ index[n] # Unbound
  /\ Stage(n, Removal) /\ Edit({n})
  /\ UNCHANGED <<committed, pinned, revisions, exporting, childEnv>>

restore(n) ==
  /\ index[n] # Unbound /\ Stage(n, Unbound) /\ Edit({n})
  /\ UNCHANGED <<committed, pinned, revisions, exporting, childEnv>>

set_secret(n, kind, r) ==
  /\ revisions[r].state = "none"
  /\ revisions' = [revisions EXCEPT ![r] = [name |-> n, kind |-> kind, state |-> "active"]]
  /\ Stage(n, [kind |-> kind, of |-> r]) /\ Edit({n})
  /\ UNCHANGED <<committed, pinned, exporting, childEnv>>

destroy_secret(r) ==
  /\ revisions[r].state = "active"
  /\ revisions' = [revisions EXCEPT ![r].state = "destroyed"]
  /\ Edit({})
  /\ UNCHANGED <<index, committed, pinned, exporting, childEnv>>

commit ==
  /\ index # NothingStaged
  /\ committed' = apply_onto(committed) /\ index' = NothingStaged /\ Edit(VariableNames)
  /\ UNCHANGED <<pinned, revisions, exporting, childEnv>>

\* An environment is pinned to HEAD.
Pin ==
  /\ pinned # committed /\ pinned' = committed /\ Edit({})
  /\ UNCHANGED <<index, committed, revisions, exporting, childEnv>>

\* A pull brings a commit whose secret record is not here.
PullForeign(n) ==
  /\ committed' = [committed EXCEPT ![n] = [kind |-> "secret", of |-> "foreign"]] /\ Edit({})
  /\ UNCHANGED <<index, pinned, revisions, exporting, childEnv>>

-------------------------------------------------------------------------------
(* import_env_pairs *)

\* Duplicate names collapse to the first place and the last value.
WithPair(pairs, line) ==
  IF line[1] = "" THEN pairs
  ELSE IF \A i \in DOMAIN pairs : pairs[i][1] # line[1] THEN Append(pairs, line)
  ELSE [i \in DOMAIN pairs |-> IF pairs[i][1] = line[1] THEN line ELSE pairs[i]]

parse_env_file(lines) ==
  LET parsed[n \in 0..Len(lines)] == IF n = 0 THEN << >> ELSE WithPair(parsed[n - 1], lines[n])
  IN parsed[Len(lines)]

\* The manifest and the index are read once, before the first pair.
StartImport(file) ==
  /\ importing.at = "idle"
  /\ importing' = [NoImport EXCEPT !.at = "pairs", !.file = file, !.todo = parse_env_file(file),
                                   !.head = {n \in VariableNames : committed[n] # Unbound},
                                   !.staged = {n \in VariableNames : index[n] # Unbound},
                                   !.before = index]
  /\ UNCHANGED <<index, committed, pinned, revisions, exporting, childEnv, edits>>

\* Mutant of Exists: only what is committed counts.
Exists_at_head(n) == n \in importing.head

Exists(n) == n \in importing.head \cup importing.staged

ImportPair ==
  /\ importing.at = "pairs" /\ importing.todo # << >>
  /\ LET name == Head(importing.todo)[1]
         value == Head(importing.todo)[2]
         list == IF name \in InvalidNames THEN "invalid"
                 ELSE IF name \in LikelySecretNames THEN "needs_secret"
                 ELSE IF Exists(name) THEN "existing" ELSE "added"
     IN /\ importing' = [importing EXCEPT !.todo = Tail(@), ![list] = @ \cup {name}]
        /\ IF list = "added" THEN Stage(name, Config(value)) ELSE UNCHANGED index
  /\ UNCHANGED <<committed, pinned, revisions, exporting, childEnv, edits>>

EndImport ==
  /\ importing.at = "pairs" /\ importing.todo = << >>
  /\ importing' = [importing EXCEPT !.at = "done"]
  /\ UNCHANGED <<index, committed, pinned, revisions, exporting, childEnv, edits>>

-------------------------------------------------------------------------------
(* export.rs, secrets.rs, cli.rs: what leaves the vault *)

\* cmd_export, past the confirmation when secrets are to be revealed.
StartExport(reveal) ==
  /\ exporting.at = "idle"
  /\ exporting' = [NoExport EXCEPT !.at = "entries", !.reveal = reveal, !.manifest = committed,
                                   !.destroyed = {r \in SecretRevisions : revisions[r].state = "destroyed"}]
  /\ UNCHANGED <<index, committed, pinned, revisions, importing, childEnv, edits>>

resolve_revision(name, r) ==
  IF r \notin SecretRevisions \/ revisions[r].name # name \/ revisions[r].kind = "brokered"
  THEN "error"
  ELSE IF revisions[r].state = "destroyed" THEN "<vaultx:destroyed>" ELSE r

\* What is exported of an entry: a value, a placeholder or the revision whose
\* plaintext it is.
export_value(name, e) ==
  CASE e.kind = "unbound"  -> "none"
    [] e.kind = "config"   -> e.of
    [] e.kind = "brokered" -> "<vaultx:brokered>"
    [] e.kind = "secret"   -> IF exporting.reveal THEN resolve_revision(name, e.of) ELSE "<vaultx:secret>"

ExportEntry ==
  /\ exporting.at = "entries" /\ exporting.next <= Len(NamesInOrder)
  /\ LET name == NamesInOrder[exporting.next]
         value == export_value(name, exporting.manifest[name])
     IN exporting' = IF value = "error" THEN [NoExport EXCEPT !.at = "failed"]
                     ELSE [exporting EXCEPT !.next = @ + 1, !.values[name] = value]
  /\ UNCHANGED <<index, committed, pinned, revisions, importing, childEnv, edits>>

EndExport ==
  /\ exporting.at = "entries" /\ exporting.next > Len(NamesInOrder)
  /\ exporting' = [exporting EXCEPT !.at = "done"]
  /\ UNCHANGED <<index, committed, pinned, revisions, importing, childEnv, edits>>

committed_config_values(manifest) ==
  [n \in VariableNames |-> IF manifest[n].kind = "config" THEN manifest[n].of ELSE "none"]

cmd_run(allow_empty) ==
  LET values == committed_config_values(pinned) IN
  /\ allow_empty \/ \E n \in VariableNames : values[n] # "none"
  /\ childEnv' = values
  /\ UNCHANGED <<index, committed, pinned, revisions, importing, exporting, edits>>

variablesNext ==
  \/ \E n \in VariableNames :
       \/ \E v \in ConfigValues : set_config(n, v)
       \/ unset_config(n) \/ restore(n) \/ PullForeign(n)
       \/ \E kind \in {"secret", "brokered"}, r \in SecretRevisions : set_secret(n, kind, r)
  \/ \E r \in SecretRevisions : destroy_secret(r)
  \/ commit \/ Pin
  \/ (\E file \in EnvFiles : StartImport(file)) \/ ImportPair \/ EndImport
  \/ (\E reveal \in BOOLEAN : StartExport(reveal)) \/ ExportEntry \/ EndExport
  \/ \E allow_empty \in BOOLEAN : cmd_run(allow_empty)

VariablesSpec == variablesInit /\ [][variablesNext]_variableVars

-------------------------------------------------------------------------------
(***************************************************************************)
(* An import stages, for each usable name of its file that was neither     *)
(* committed nor staged when it began, the last value the file gives it,   *)
(* and leaves every other variable as it was (config.rs:234-272), unless   *)
(* another command changed that variable meanwhile.  And `get` answers     *)
(* with what the next commit will hold (config.rs:24-26), also after       *)
(* removals of variables that were never committed.                        *)
(***************************************************************************)
VariablesExact ==
  /\ importing.at = "done" => \A n \in VariableNames \ importing.touched :
       LET given == {i \in DOMAIN importing.file : importing.file[i][1] = n}
           taken == given # {} /\ n \notin LikelySecretNames \cup importing.head \cup importing.staged
       IN /\ index[n] = IF taken THEN Config(importing.file[Max(given)][2]) ELSE importing.before[n]
          /\ n \in importing.added <=> taken
  /\ \A n \in VariableNames : get_config(n) = committed_config_values(apply_onto(committed))[n]

(***************************************************************************)
(* Plaintext leaves the vault only through an export that was asked to     *)
(* reveal, and only that of a plain secret the commit binds to that name,  *)
(* never of one destroyed before the export began; the child of `run` gets *)
(* config values only (secrets.rs:495-499, cli.rs:1645-1650).              *)
(***************************************************************************)
DisclosuresPermitted ==
  \A n \in VariableNames :
    /\ exporting.values[n] \in SecretRevisions =>
         /\ exporting.reveal
         /\ exporting.manifest[n] = [kind |-> "secret", of |-> exporting.values[n]]
         /\ revisions[exporting.values[n]].kind = "secret"
         /\ exporting.values[n] \notin exporting.destroyed
    /\ childEnv[n] \notin SecretRevisions

(***************************************************************************)
(* The variables of a project (config.rs, export.rs, broker_source.rs) are *)
(* imported and shown exactly, and a value is decrypted only where that    *)
(* was asked for: by an export that reveals, or by the broker for what it  *)
(* looked up.                                                              *)
(***************************************************************************)
VariablesFaithful == VariablesExact /\ DisclosuresPermitted /\ PlainOnlyAfterLookup
===============================================================================
