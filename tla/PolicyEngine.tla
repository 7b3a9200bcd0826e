------------------------------ MODULE PolicyEngine ------------------------------
(***************************************************************************)
(* Policy documents, the directory that holds them and the two engines     *)
(* that are built from it: crates/vaultx-policy (model.rs, loader.rs,      *)
(* engine.rs, cedar.rs) and crates/vaultx-core/src/policies.rs.            *)
(*                                                                         *)
(* A document is a record [name, principal, credential, environments,      *)
(* hosts, allow, deny, max_body]; allow and deny are sequences of rules    *)
(* [methods, paths] over the patterns of PathGlob.  A host is given with   *)
(* whether it is a lowercase host name without a port.  A policy file is   *)
(* truncated and then written (std::fs::write), so a process that dies or  *)
(* a reader that comes in between finds it torn.                           *)
(***************************************************************************)
EXTENDS Options, Integers, FiniteSets, Sequences, SequencesExt, PathGlob

CONSTANTS
  Torn,         \* a file cut short
  Files,        \* the *.yaml files, sorted: a sequence of their stems
  Documents,    \* what a command or an editor may write
  Modes,        \* values of VAULTX_POLICY_ENGINE
  AuthRequests, \* what the engine may be asked
  MaxWritten    \* bound on the documents written

\* The shape of the inputs.
ASSUME PoliciesAreTyped ==
  /\ None # Torn /\ Documents \cap {None, Torn} = {} /\ Files \in Seq(STRING)
  /\ \A d \in Documents :
       /\ d.max_body # None => d.max_body \in Nat
       /\ \A rules \in {d.allow, d.deny} : \A i \in 1..Len(rules) : \A p \in rules[i].paths :
            p.segs \in Seq(STRING)
  /\ \A r \in AuthRequests : r.context.body \in Nat /\ r.context.path.segs \in Seq(STRING)

VARIABLES
  files,    \* file -> None, Torn or the document it holds
  saving,   \* the save in progress: None or [file, doc]
  loading,  \* a starting broker: None or [mode, todo, docs]
  engine,   \* None or [mode, docs]: the policies of the running broker
  written      \* history: file -> the documents it has held whole

polVars == <<files, saving, loading, engine, written>>

-------------------------------------------------------------------------------
(* model.rs and loader.rs                                                  *)

is_valid_hostname(host) == host.valid

is_canonical_path(path) ==
  /\ path.rooted
  /\ path.segs = <<"">> \/ \A i \in 1..Len(path.segs) : path.segs[i] \notin {"", ".", ".."}

validate_context(ctx) == is_valid_hostname(ctx.host) /\ is_canonical_path(ctx.path)

validate_rules(rules) ==
  \A i \in 1..Len(rules) : /\ rules[i].methods # {} /\ rules[i].paths # {}
                           /\ \A p \in rules[i].paths : validate_pattern(p)

\* Header names and the response limits are checked for their form as well;
\* no decision below reads them.
validate_policy(doc) ==
  /\ doc.hosts # {} /\ \A h \in doc.hosts : is_valid_hostname(h)
  /\ doc.allow # << >>
  /\ validate_rules(doc.allow) /\ validate_rules(doc.deny)
  /\ doc.max_body # 0
  /\ doc.headers_valid

-------------------------------------------------------------------------------
(* engine.rs: the rule engine over documents in insertion order            *)

is_candidate(doc, r) == doc.principal = r.principal /\ doc.credential = r.resource

rules_match(rules, method, path) ==
  \E i \in 1..Len(rules) : /\ method \in rules[i].methods
                           /\ \E p \in rules[i].paths : path_matches(p, path)

Allow(name) == [allow |-> TRUE, reason |-> "none", policy |-> name]
Deny(reason, name) == [allow |-> FALSE, reason |-> reason, policy |-> name]

\* The first gate that refuses, "Allowed" when none does.
evaluate_gates(doc, ctx) ==
  IF doc.environments # {} /\ ctx.environment \notin doc.environments THEN "EnvironmentDenied"
  ELSE IF ctx.host \notin doc.hosts THEN "NoMatchingAllow"
  ELSE IF ~rules_match(doc.allow, ctx.method, ctx.path) THEN "NoMatchingAllow"
  ELSE IF doc.max_body # None /\ ctx.body > doc.max_body THEN "BodyTooLarge"
  ELSE "Allowed"

\* The positions of a sequence of documents that satisfy a predicate.
Where(docs, P(_)) == {i \in 1..Len(docs) : P(docs[i])}
First(S) == CHOOSE i \in S : \A j \in S : i <= j

\* Mutant: a candidate's deny rules are looked at when its turn comes.
evaluate_in_turn(docs, r) ==
  LET candidates == Where(docs, LAMBDA d : is_candidate(d, r))
      deciding == {i \in candidates : \/ rules_match(docs[i].deny, r.context.method, r.context.path)
                                      \/ evaluate_gates(docs[i], r.context) = "Allowed"}
  IN IF ~validate_context(r.context) THEN Deny("InvalidContext", None)
     ELSE IF candidates = {} THEN Deny("NoMatchingPolicy", None)
     ELSE IF deciding = {}
     THEN Deny(evaluate_gates(docs[First(candidates)], r.context), docs[First(candidates)].name)
     ELSE IF rules_match(docs[First(deciding)].deny, r.context.method, r.context.path)
     THEN Deny("ExplicitDeny", docs[First(deciding)].name)
     ELSE Allow(docs[First(deciding)].name)

\* Every candidate's deny rules first, whatever its gates; then the first
\* candidate that passes its gates; else the first candidate's failure.
evaluate(docs, r) ==
  LET candidates == Where(docs, LAMBDA d : is_candidate(d, r))
      denying == {i \in candidates : rules_match(docs[i].deny, r.context.method, r.context.path)}
      allowing == {i \in candidates : evaluate_gates(docs[i], r.context) = "Allowed"}
  IN IF ~validate_context(r.context) THEN Deny("InvalidContext", None)
     ELSE IF candidates = {} THEN Deny("NoMatchingPolicy", None)
     ELSE IF denying # {} THEN Deny("ExplicitDeny", docs[First(denying)].name)
     ELSE IF allowing # {} THEN Allow(docs[First(allowing)].name)
     ELSE Deny(evaluate_gates(docs[First(candidates)], r.context), docs[First(candidates)].name)

-------------------------------------------------------------------------------
(* cedar.rs: the documents as forbid and permit statements.  A statement   *)
(* is [effect, doc, principal, resource, when]; `when` holds the operands  *)
(* of the condition, which Cedar evaluates.                                *)

\* What path_condition can express: literal text, or a literal prefix and "**".
CedarPattern(pattern) == validate_pattern(pattern) /\ "*" \notin {pattern.segs[i] : i \in 1..Len(pattern.segs)}

\* path == "<prefix>" or path like "<prefix>/*"; path == "<pattern>" else.
path_condition(pattern, path) ==
  IF Starred(pattern.segs)
  THEN LET prefix == Prefix(pattern.segs)
       IN \/ prefix = << >>
          \/ path.segs = prefix
          \/ Len(path.segs) > Len(prefix) /\ IsPrefix(prefix, path.segs)
  ELSE path.segs = pattern.segs

rule_condition(rule, ctx) ==
  ctx.method \in rule.methods /\ \E p \in rule.paths : path_condition(p, ctx.path)

Supported(doc) ==
  \A rules \in {doc.allow, doc.deny} : \A i \in 1..Len(rules) : \A p \in rules[i].paths : CedarPattern(p)

compile_statements(docs) ==
  UNION {{[effect |-> "forbid", doc |-> d, rule |-> i] : i \in 1..Len(docs[d].deny)}
         \cup {[effect |-> "permit", doc |-> d, rule |-> 0]} : d \in 1..Len(docs)}

\* A missing environment is the empty string, which no list contains.
Holds(docs, s, r) ==
  LET doc == docs[s.doc] IN
  /\ doc.principal = r.principal /\ doc.credential = r.resource
  /\ IF s.effect = "forbid" THEN rule_condition(doc.deny[s.rule], r.context)
     ELSE /\ doc.environments # {} => r.context.environment \in doc.environments
          /\ r.context.host \in doc.hosts
          /\ \E i \in 1..Len(doc.allow) : rule_condition(doc.allow[i], r.context)

\* Cedar (external): a request is allowed when a permit holds and no forbid
\* does; the reason names the statements of the deciding effect that hold.
is_authorized(docs, r) ==
  LET holding == {s \in compile_statements(docs) : Holds(docs, s, r)}
      forbids == {s \in holding : s.effect = "forbid"}
  IN IF forbids # {} THEN [allow |-> FALSE, docs |-> {s.doc : s \in forbids}]
     ELSE [allow |-> holding # {}, docs |-> {s.doc : s \in holding}]

\* The body limit is applied to the satisfied permits afterwards.
cedar_evaluate(docs, r) ==
  LET answer == is_authorized(docs, r)
      fitting == {i \in answer.docs : docs[i].max_body = None \/ r.context.body <= docs[i].max_body}
  IN IF ~validate_context(r.context) THEN Deny("InvalidContext", None)
     ELSE IF answer.docs = {} THEN Deny("NoMatchingPolicy", None)
     ELSE IF ~answer.allow THEN Deny("ExplicitDeny", docs[First(answer.docs)].name)
     ELSE IF fitting # {} THEN Allow(docs[First(fitting)].name)
     ELSE Deny("BodyTooLarge", docs[First(answer.docs)].name)

-------------------------------------------------------------------------------
(* policies.rs                                                             *)

FileSet == {Files[i] : i \in 1..Len(Files)}

polInit ==
  /\ files = [f \in FileSet |-> None]
  /\ saving = None /\ loading = None /\ engine = None
  /\ written = [f \in FileSet |-> {}]

\* Bound of the model.
MayWrite == saving = None /\ Cardinality(UNION {{<<f, d>> : d \in written[f]} : f \in FileSet}) < MaxWritten

\* The file is named after the document; the write begins by truncating it.
save_policy_yaml ==
  /\ MayWrite
  /\ \E doc \in Documents :
       /\ doc.name \in FileSet /\ validate_policy(doc)
       /\ saving' = [file |-> doc.name, doc |-> doc]
       /\ files' = [files EXCEPT ![doc.name] = Torn]
  /\ UNCHANGED <<loading, engine, written>>

WriteYaml ==
  /\ saving # None
  /\ files' = [files EXCEPT ![saving.file] = saving.doc]
  /\ written' = [written EXCEPT ![saving.file] = @ \cup {saving.doc}]
  /\ saving' = None
  /\ UNCHANGED <<loading, engine>>

SaverDies == saving # None /\ saving' = None /\ UNCHANGED <<files, loading, engine, written>>

\* The documents are there to be edited: any text under any name.
EditByHand ==
  /\ MayWrite
  /\ \E f \in FileSet, doc \in Documents :
       /\ files[f] # doc
       /\ files' = [files EXCEPT ![f] = doc]
       /\ written' = [written EXCEPT ![f] = @ \cup {doc}]
  /\ UNCHANGED <<saving, loading, engine>>

\* A broker starts: the listing of the directory comes first.
sorted_policy_files == Filtered(Files, {f \in FileSet : files[f] # None})

authorizer_from_mode ==
  /\ loading = None /\ engine = None
  /\ \E mode \in Modes \ {"unknown"} :
       loading' = [mode |-> mode, todo |-> sorted_policy_files, listed |-> sorted_policy_files, docs |-> << >>]
  /\ UNCHANGED <<files, saving, engine, written>>

LoadFails == loading' = None /\ UNCHANGED engine

\* One document that does not parse or validate fails the whole load.
load_policy_file ==
  /\ loading # None /\ loading.todo # << >>
  /\ LET text == files[Head(loading.todo)] IN
     IF text = Torn THEN LoadFails
     ELSE IF ~validate_policy(text) THEN LoadFails
     ELSE loading' = [loading EXCEPT !.todo = Tail(@), !.docs = Append(@, text)] /\ UNCHANGED engine
  /\ UNCHANGED <<files, saving, written>>

DuplicateNames(docs) == \E i, j \in 1..Len(docs) : i # j /\ docs[i].name = docs[j].name

from_documents ==
  /\ loading # None /\ loading.todo = << >>
  /\ IF \/ DuplicateNames(loading.docs)
        \/ loading.mode = "cedar" /\ \E i \in 1..Len(loading.docs) : ~Supported(loading.docs[i])
     THEN LoadFails
     ELSE engine' = [mode |-> loading.mode, docs |-> loading.docs, listed |-> loading.listed]
          /\ loading' = None
  /\ UNCHANGED <<files, saving, written>>

BrokerStops == engine # None /\ engine' = None /\ UNCHANGED <<files, saving, loading, written>>

polNext ==
  \/ save_policy_yaml \/ WriteYaml \/ SaverDies \/ EditByHand
  \/ authorizer_from_mode \/ load_policy_file \/ from_documents \/ BrokerStops

PolicySpec == polInit /\ [][polNext]_polVars

-------------------------------------------------------------------------------
(* Properties                                                              *)

\* A running broker enforces one whole document per policy file there was when
\* it started, never a torn one, never with one of them missing, although
\* files are written while it reads them.
EngineEnforcesWholeFiles ==
  engine # None =>
    /\ Len(engine.docs) = Len(engine.listed)
    /\ \A i \in 1..Len(engine.docs) :
         engine.docs[i] \in written[engine.listed[i]] /\ validate_policy(engine.docs[i])

\* Whether a request is allowed does not depend on the engine that is
\* configured nor on the order of the files, and both engines name the same
\* policy when they allow and when a deny rule decides.
EnginesAgree ==
  engine # None =>
    \A r \in AuthRequests :
      LET native == evaluate(engine.docs, r)
          cedar == cedar_evaluate(engine.docs, r)
      IN /\ evaluate(Reverse(engine.docs), r).allow = native.allow
         /\ (\A i \in 1..Len(engine.docs) : Supported(engine.docs[i])) =>
              /\ native.allow = cedar.allow
              /\ native.allow \/ "ExplicitDeny" \in {native.reason, cedar.reason} => native = cedar

\* A running broker enforces whole files, and decides alike with either engine.
PolicyExact == EngineEnforcesWholeFiles /\ EnginesAgree
===============================================================================
