------------------------------ MODULE ManifestDiff ------------------------------
(***************************************************************************)
(* What changed between two manifests: compute_diff and its rendering      *)
(* (crates/vaultx-repository/src/diff.rs), and the lines the terminal UI   *)
(* shows of it (crates/vaultx-tui/src/mask.rs, redact_entries of data.rs). *)
(*                                                                         *)
(* A manifest binds variables to entries and policy names to objects.  An  *)
(* entry is its kind and what it is bound to: an object, a revision, a     *)
(* provider, or for a brokered one <<credential, revision>>.  A line is    *)
(* its marker and what it shows; the wording and, in the terminal UI, the  *)
(* order of a policy's lines are left out.                                 *)
(***************************************************************************)
EXTENDS Options, FiniteSets, SequencesExt

CONSTANTS
  Subjects,             \* the names, a sequence in their byte order
  PolicySubjects,       \* the lower-case ones, which name policies
  Manifests,            \* what may be compared: [entries, policies]
  Resolved              \* policy object -> its document, None if it does not resolve

VarNames == Filtered(Subjects, ToSet(Subjects) \ PolicySubjects)
PolNames == Filtered(Subjects, PolicySubjects)
EntryKinds == {"config", "secret", "brokered", "dynamic"}

\* The keys of a map are distinct, and an entry is of one of the four kinds.
ASSUME ManifestsAreTyped ==
  /\ Subjects \in Seq(ToSet(Subjects)) /\ IsInjective(Subjects)
  /\ \A m \in Manifests : \A n \in ToSet(VarNames) : m.entries[n] # None =>
       /\ m.entries[n] = [kind |-> m.entries[n].kind, bound |-> m.entries[n].bound]
       /\ m.entries[n].kind \in EntryKinds

-------------------------------------------------------------------------------
(* compute_diff.  A DiffEntry has None where its variant has no such field. *)

DiffEntry(space, name, kind, change, old, new) ==
  [space |-> space, name |-> name, kind |-> kind, change |-> change, old |-> old, new |-> new]

classify_addition(name, entry) ==
  <<DiffEntry("variable", name, entry.kind, "added", None, entry.bound)>>

\* ConfigRemoved alone does not say what was bound.
classify_removal(name, entry) ==
  <<DiffEntry("variable", name, entry.kind, "removed",
              IF entry.kind = "config" THEN None ELSE entry.bound, None)>>

\* Mutant of classify_change: a brokered entry is compared by its credential.
classify_change_by_credential(name, old, new) ==
  IF old.kind # new.kind THEN <<DiffEntry("variable", name, "kind", "changed", old.kind, new.kind)>>
  ELSE IF old.kind = "brokered" /\ old.bound[1] = new.bound[1] THEN << >>
  ELSE IF old.bound # new.bound THEN <<DiffEntry("variable", name, old.kind, "changed", old.bound, new.bound)>>
  ELSE << >>

\* Kind transitions are reported once, without the bindings.
classify_change(name, old, new) ==
  IF old.kind # new.kind THEN <<DiffEntry("variable", name, "kind", "changed", old.kind, new.kind)>>
  ELSE IF old.bound # new.bound THEN <<DiffEntry("variable", name, old.kind, "changed", old.bound, new.bound)>>
  ELSE << >>

VariableDiff(name, old, new) ==
  IF old = None /\ new = None THEN << >>
  ELSE IF old = None THEN classify_addition(name, new)
  ELSE IF new = None THEN classify_removal(name, old)
  ELSE classify_change(name, old, new)

PolicyDiff(name, old, new) ==
  IF old = new THEN << >>
  ELSE IF old = None THEN <<DiffEntry("policy", name, "policy", "added", None, new)>>
  ELSE IF new = None THEN <<DiffEntry("policy", name, "policy", "removed", old, None)>>
  ELSE <<DiffEntry("policy", name, "policy", "changed", old, new)>>

compute_diff(old, new) ==
  FlattenSeq([i \in DOMAIN VarNames |->
                VariableDiff(VarNames[i], old.entries[VarNames[i]], new.entries[VarNames[i]])]
          \o [i \in DOMAIN PolNames |->
                PolicyDiff(PolNames[i], old.policies[PolNames[i]], new.policies[PolNames[i]])])

marker(entry) ==
  CASE entry.change = "added"   -> "+"
    [] entry.change = "removed" -> "-"
    [] OTHER                    -> "~"

\* A rendered line: what `describe` puts after the marker.
Described(entry) == <<marker(entry), entry.kind, entry.name, entry.old, entry.new>>

\* The lines, sorted by subject.
rendered_diff(diff) ==
  LET about(n) == Filtered([i \in DOMAIN diff |-> i], {i \in DOMAIN diff : diff[i].name = n})
      sorted == FlattenSeq([i \in DOMAIN Subjects |-> about(Subjects[i])])
  IN [i \in DOMAIN sorted |-> Described(diff[sorted[i]])]

-------------------------------------------------------------------------------
(* The terminal UI. *)

\* A line: its marker and what it shows.
RedactedLine(sign, shows) == <<sign, shows>>

redact_diff(entry) ==
  IF entry.kind = "kind" THEN {RedactedLine("~", <<entry.name, entry.old, entry.new>>)}
  ELSE IF entry.change = "added" THEN {RedactedLine("+", <<entry.name, entry.new>>)}
  ELSE IF entry.change = "removed" THEN {RedactedLine("-", <<entry.name, entry.old>>)}
  ELSE {RedactedLine(" ", <<entry.name>>), RedactedLine("-", <<entry.old>>), RedactedLine("+", <<entry.new>>)}

rule_lines(rules, verdict) ==
  UNION {{<<verdict, m, p>> : m \in rule.methods, p \in rule.paths} : rule \in rules}

Shown(document) ==
  {<<"host", h>> : h \in document.hosts}
    \cup rule_lines(document.deny, "deny") \cup rule_lines(document.allow, "allow")

policy_delta(old, new) ==
  {RedactedLine("-", l) : l \in Shown(old) \ Shown(new)}
    \cup {RedactedLine("+", l) : l \in Shown(new) \ Shown(old)}

\* A policy change whose two documents resolve is shown by what they allow.
redact_entries(diff) ==
  UNION {LET e == diff[i] IN
           IF e.kind = "policy" /\ e.change = "changed" /\ Resolved[e.old] # None /\ Resolved[e.new] # None
           THEN policy_delta(Resolved[e.old], Resolved[e.new]) ELSE redact_diff(e) : i \in DOMAIN diff}

-------------------------------------------------------------------------------
VARIABLES older, newer, compared

diffVars == <<older, newer, compared>>

NoManifest == [entries |-> [n \in ToSet(VarNames) |-> None], policies |-> [n \in ToSet(PolNames) |-> None]]

diffInit == older = NoManifest /\ newer = NoManifest /\ compared = FALSE

\* diff_staged, diff_commits: the repository compares two manifests it holds.
Compare ==
  /\ ~compared /\ compared' = TRUE
  /\ older' \in Manifests /\ newer' \in Manifests

diffNext == Compare

DiffSpec == diffInit /\ [][diffNext]_diffVars

-------------------------------------------------------------------------------
\* What the diff says became of a binding: what it is bound to now.
Patched(diff, space, name, was) ==
  LET about == {i \in DOMAIN diff : diff[i].space = space /\ diff[i].name = name}
  IN IF about = {} THEN was ELSE diff[CHOOSE i \in about : TRUE].new

(***************************************************************************)
(* diff.rs:321 "Within one variable at most one entry is produced": the    *)
(* diff of two manifests says exactly what changed.  It has one entry for  *)
(* each name that is bound otherwise and none for the others, the older    *)
(* manifest patched with it is the newer one (a change of kind gives the   *)
(* kind), the diff the other way round names the same subjects, rendering  *)
(* loses no entry, and the terminal UI shows as removed what the older     *)
(* manifest had and as added what the newer one has.                       *)
(***************************************************************************)
DiffExact == compared =>
  LET diff == compute_diff(older, newer)
      named == [i \in DOMAIN diff |-> <<diff[i].space, diff[i].name>>]
      back == compute_diff(newer, older)
  IN /\ IsInjective(named)
     /\ \A i \in DOMAIN VarNames : LET n == VarNames[i]
                                       was == older.entries[n]
                                       is == newer.entries[n]
        IN /\ was = is <=> <<"variable", n>> \notin ToSet(named)
           /\ was # is => Patched(diff, "variable", n, None) =
                IF is = None THEN None
                ELSE IF was # None /\ was.kind # is.kind THEN is.kind ELSE is.bound
     /\ \A i \in DOMAIN PolNames : LET n == PolNames[i] IN
          Patched(diff, "policy", n, older.policies[n]) = newer.policies[n]
     /\ [i \in DOMAIN back |-> <<back[i].space, back[i].name>>] = named
     /\ ToSet(rendered_diff(diff)) = {Described(diff[i]) : i \in DOMAIN diff}
     /\ \A i \in DOMAIN diff : LET signs == {l[1] : l \in redact_entries(<<diff[i]>>)} IN
          IF diff[i].change = "added" THEN signs = {"+"}
          ELSE IF diff[i].change = "removed" THEN signs = {"-"}
          ELSE IF diff[i].kind = "policy" THEN signs \subseteq {" ", "+", "-"}
          ELSE signs \in {{"~"}, {" ", "+", "-"}}
===============================================================================
