------------------------------ MODULE PolicyPacks ------------------------------
(***************************************************************************)
(* Capability packs: their validation and compilation into a policy        *)
(* document (crates/vaultx-policy-packs), and the directory the `pack`     *)
(* commands keep them in (crates/vaultx-cli/src/cli.rs).                   *)
(*                                                                         *)
(* A pack's path templates are path texts of PathGlob, some of whose       *)
(* segments are placeholders.  A host is the sequence of its labels, a     *)
(* label being known by what it is made of.  A capability is the sequence  *)
(* of its dotted segments.  A file of the directory is a pack, Torn (a     *)
(* copy that was cut short does not parse) or None.                        *)
(***************************************************************************)
EXTENDS Options, PathGlob, SequencesExt

CONSTANTS
  TornPack,
  Packs,              \* the documents a user may add
  Providers,
  Placeholders,       \* well-formed segments {name}
  StrayBraces,        \* segments that use braces in any other way
  BadNames,           \* capability segments outside the grammar
  Underscored,        \* capability -> its segments joined with "_"
  RequestBodyCap, ResponseBodyCap,
  Adders,             \* processes running `pack add`
  MaxAdds             \* bound on the commands run

ASSUME PacksAreTyped ==
  /\ \A p \in Packs : p.request.templates \subseteq [rooted : BOOLEAN, segs : Seq(STRING)]
  /\ Placeholders \cap {"", "..", "*", "**"} = {}

-------------------------------------------------------------------------------
(* schema.rs: PolicyPack::validate. *)

validate_name(name) == name # << >> /\ \A i \in DOMAIN name : name[i] \notin BadNames

UnusableLabels == {"empty", "edge hyphen", "other characters"}

\* The IPv4 metadata address has four numeric labels; the IPv6 one has colons.
validate_pack_host(host) ==
  /\ Len(host) >= 2
  /\ \A i \in DOMAIN host : host[i] \notin UnusableLabels
  /\ Last(host) \notin {"localhost", "local", "internal"}
  /\ \E i \in DOMAIN host : host[i] # "digits"
  /\ Len(host) > 4 \/ \E i \in DOMAIN host : host[i] \notin {"digits", "hex"}

Used(template) == ToSet(template.segs) \cap Placeholders

validate_path_template(template) ==
  validate_pattern(template) /\ ToSet(template.segs) \cap StrayBraces = {}

validate_request(request) ==
  /\ request.hosts # {} /\ \A h \in request.hosts : validate_pack_host(h)
  /\ request.methods # {}
  /\ request.templates # {} /\ \A t \in request.templates : validate_path_template(t)
  /\ request.query # None => "not bare" \notin request.query
  /\ request.variables # None =>
       \A t \in request.templates : Used(t) \subseteq request.variables

validate_credential(injection) == injection # "aws-sigv4"

validate_size_limit(value, max) == value # None => value \in 1..max

validate_constraints(constraints) ==
  /\ validate_size_limit(constraints.body, RequestBodyCap)
  /\ "not a media type" \notin constraints.types

validate_response(response) ==
  response # None =>
    /\ validate_size_limit(response.body, ResponseBodyCap)
    /\ "Not-Lower" \notin response.headers
    /\ "a.b" \notin response.fields

validate_pack(pack) ==
  /\ pack.format = 1
  /\ validate_name(pack.name)
  /\ validate_request(pack.request)
  /\ validate_credential(pack.injection)
  /\ validate_constraints(pack.constraints)
  /\ validate_response(pack.response)

-------------------------------------------------------------------------------
(* compiler.rs *)

policy_name_for(capability) == Underscored[capability]

compile_path_pattern(template) ==
  [template EXCEPT !.segs = [i \in DOMAIN @ |-> IF @[i] \in Placeholders THEN "*" ELSE @[i]]]

\* Compilation and its projection on a policy document, for a valid pack.
compile(pack) ==
  LET response == IF pack.response = None THEN [body |-> None, headers |-> {}, fields |-> {}]
                  ELSE pack.response
  IN [name         |-> policy_name_for(pack.name),
      hosts        |-> pack.request.hosts,
      methods      |-> pack.request.methods,
      patterns     |-> {compile_path_pattern(t) : t \in pack.request.templates},
      body         |-> pack.constraints.body,
      denyHeaders  |-> {"authorization", "proxy-authorization"},
      responseBody |-> response.body,
      redacted     |-> response.headers \cup {"set-cookie"},
      fields       |-> response.fields]

-------------------------------------------------------------------------------
(* loader.rs *)

VARIABLES
  packDir,     \* target -> None, TornPack or a document
  adding,      \* process -> None or [pack, force, saw, copying]
  adds         \* how many commands were run

packVars == <<packDir, adding, adds>>

Targets == Providers \X UNION {ToSet(p.name) : p \in Packs}

load_pack(file) == IF file \notin {None, TornPack} /\ validate_pack(file) THEN file ELSE None

pack_files == {t \in Targets : packDir[t] # None}

\* The packs of the directory, or None when the directory is refused.
load_pack_dir ==
  LET loaded(t) == load_pack(packDir[t]) IN
  IF /\ \A t \in pack_files : loaded(t) # None
     /\ \A t, u \in pack_files : t # u =>
          policy_name_for(loaded(t).name) # policy_name_for(loaded(u).name)
  THEN {loaded(t) : t \in pack_files} ELSE None

-------------------------------------------------------------------------------
(* `pack add` validates, looks at the target, and copies the file there. *)

Target(pack) == <<pack.provider, Last(pack.name)>>

\* Mutant of Replaceable: --force replaces whatever is there.
Replaceable_forced(existing, pack, force) == existing # None => force

Replaceable(existing, pack, force) ==
  existing # None => force /\ existing.name = pack.name

packInit == packDir = [t \in Targets |-> None] /\ adding = [p \in Adders |-> None] /\ adds = 0

cmd_pack_add(p, pack, force) ==
  /\ adding[p] = None /\ adds < MaxAdds /\ adds' = adds + 1
  /\ validate_pack(pack)
  /\ Replaceable(load_pack(packDir[Target(pack)]), pack, force)
  /\ adding' = [adding EXCEPT ![p] = 
       [pack |-> pack, force |-> force, saw |-> packDir[Target(pack)], copying |-> FALSE]]
  /\ UNCHANGED packDir

\* std::fs::copy truncates the target and fills it.
Put(p, file) == packDir' = [packDir EXCEPT ![Target(adding[p].pack)] = file]

Truncate(p) ==
  /\ adding[p] # None /\ ~adding[p].copying
  /\ Put(p, TornPack)
  /\ adding' = [adding EXCEPT ![p].copying = TRUE]
  /\ UNCHANGED adds

Fill(p) ==
  /\ adding[p] # None /\ adding[p].copying
  /\ Put(p, adding[p].pack)
  /\ adding' = [adding EXCEPT ![p] = None]
  /\ UNCHANGED adds

\* The command is killed, or the copy fails half-way.
AddStops(p) ==
  /\ adding[p] # None
  /\ adding' = [adding EXCEPT ![p] = None]
  /\ UNCHANGED <<packDir, adds>>

packNext == \E p \in Adders :
  \/ \E pack \in Packs, force \in BOOLEAN : cmd_pack_add(p, pack, force)
  \/ Truncate(p) \/ Fill(p) \/ AddStops(p)

PackSpec == packInit /\ [][packNext]_packVars

-------------------------------------------------------------------------------
\* What a template stands for: a placeholder is one non-empty segment.
Instance(template, path) ==
  LET segs == Prefix(template.segs) IN
  /\ IF Starred(template.segs) THEN Len(path.segs) >= Len(segs) ELSE Len(path.segs) = Len(segs)
  /\ \A i \in DOMAIN segs : \/ segs[i] \in Placeholders \cup {"*"} /\ path.segs[i] # ""
                            \/ segs[i] = path.segs[i]

(***************************************************************************)
(* What a directory that loads compiles to can be handed to the rule       *)
(* engine and grants what the packs say: policy names are distinct, a path *)
(* matches a compiled pattern just when it is an instance of a template    *)
(* (compiler.rs:198 rewrites placeholders segment by segment), every host  *)
(* is a name, no size exceeds its ceiling, and the headers of compiler.rs: *)
(* 12-14 stay denied and redacted ("packs can add restrictions but never   *)
(* remove defaults").                                                      *)
(***************************************************************************)
PacksGrantTheirTemplates == load_pack_dir # None =>
  /\ \A p, q \in load_pack_dir : p # q => compile(p).name # compile(q).name
  /\ \A p \in load_pack_dir : LET c == compile(p) IN
       /\ \A t \in c.patterns : validate_pattern(t)
       /\ \A path \in {Text(s) : s \in UNION {[1..k -> {"", "v1", "x"}] : k \in 1..3}} :
            (\E t \in c.patterns : path_matches(t, path)) <=> \E t \in p.request.templates : Instance(t, path)
       /\ \A h \in c.hosts : ToSet(h) \subseteq {"digits", "hex"} => Len(h) > 4
       /\ c.body # None => c.body \in 1..RequestBodyCap
       /\ c.responseBody # None => c.responseBody \in 1..ResponseBodyCap
       /\ "set-cookie" \in c.redacted /\ {"authorization", "proxy-authorization"} \subseteq c.denyHeaders

(***************************************************************************)
(* cli.rs:1316-1318 "--force may replace the same capability's bytes, but  *)
(* it can never silently swap one capability for another": a copy takes    *)
(* the place of an intact pack of another capability, or without --force   *)
(* of any intact pack, only when that pack was written after the command   *)
(* looked, which two commands that overlap can bring about.                *)
(***************************************************************************)
CapabilitiesKept == [][\A p \in Adders : Truncate(p) \/ Fill(p) =>
  LET was == load_pack(packDir[Target(adding[p].pack)]) IN
    was # None /\ (was.name # adding[p].pack.name \/ ~adding[p].force) => adding[p].saw # was]_packVars

(***************************************************************************)
(* Packs from the file to the policy: what loads grants what it says, and  *)
(* what is installed is not swapped for another capability.                *)
(***************************************************************************)
PacksFaithful == []PacksGrantTheirTemplates /\ CapabilitiesKept
===============================================================================
