--------------------------- MODULE BrokerRedaction ---------------------------
(***************************************************************************)
(* What the broker takes out of what it passes on: the secret-shaped       *)
(* tokens in response bodies (scrub_secret_patterns of                     *)
(* crates/vaultx-broker/src/engine.rs) and the parts of a denial that do   *)
(* not fit an audit event (deny of engine.rs,                              *)
(* crates/vaultx-audit/src/event.rs).                                      *)
(*                                                                         *)
(* A body is a sequence of bytes over a small alphabet, with the prefixes  *)
(* and the lengths of the tokens scaled down.  A reason is the sequence of *)
(* the widths of its UTF-8 characters.                                     *)
(***************************************************************************)
EXTENDS Options, Naturals, Sequences, SequencesExt

CONSTANTS
  Upper, Lower, Other,   \* the bytes: "_" and "-" are among Other
  ScrubRules,            \* sequence of [prefix, min, shape]
  TailMin,               \* FINE_GRAINED_PAT_TAIL_MIN
  MaxBody,               \* bound on bodies
  MaxDenyReason, MaxMetadataValue,   \* in bytes
  MaxReason              \* bound on reasons, in characters

\* No prefix begins another, so that one rule at most applies at a position.
ASSUME RulesAreTyped ==
  /\ "_" \notin Upper \cup Lower
  /\ ScrubRules \in Seq([prefix : Seq(Upper \cup Lower \cup Other), min : Nat \ {0}, shape : {"aws", "pat", "run"}])
  /\ \A k, l \in DOMAIN ScrubRules : IsPrefix(ScrubRules[k].prefix, ScrubRules[l].prefix) => k = l
  /\ {TailMin, MaxDenyReason, MaxMetadataValue} \subseteq Nat /\ TailMin # 0

VARIABLES echoed, denial
redactVars == <<echoed, denial>>

NoDenial == [reason |-> << >>, policy |-> None, host |-> "name"]
redactInit == echoed = << >> /\ denial = NoDenial

\* Bodies and denials of any shape, one at a time.
NextByte(b) == denial = NoDenial /\ Len(echoed) < MaxBody /\ echoed' = Append(echoed, b) /\ UNCHANGED denial
NextChar(width) ==
  /\ echoed = << >> /\ Len(denial.reason) < MaxReason
  /\ denial' = [denial EXCEPT !.reason = Append(@, width)] /\ UNCHANGED echoed
Refusal(policy, host) ==
  /\ echoed = << >> /\ denial' = [denial EXCEPT !.policy = policy, !.host = host] /\ UNCHANGED echoed
redactNext ==
  \/ \E b \in Upper \cup Lower \cup Other : NextByte(b)
  \/ \E width \in 1..4 : NextChar(width)
  \/ \E policy \in {None, 1, MaxMetadataValue + 1}, host \in {"name", "address"} : Refusal(policy, host)

RedactSpec == redactInit /\ [][redactNext]_redactVars

-------------------------------------------------------------------------------
(* engine.rs: scrub_secret_patterns *)

Alnum == Upper \cup Lower

\* The length of the longest run of bytes of the set from position i on.
run_length(i, set) ==
  LET ends == {j \in i..Len(echoed) : echoed[j] \notin set}
  IN (IF ends = {} THEN Len(echoed) + 1 ELSE CHOOSE j \in ends : \A k \in ends : j <= k) - i

\* 0 when the bytes do not follow.
aws_key_id_run(i, min) ==
  IF i + min - 1 <= Len(echoed) /\ \A j \in i..(i + min - 1) : echoed[j] \in Upper THEN min ELSE 0

\* Mutant of fine_grained_pat_span: the run ends at the separator.
fine_grained_pat_span_id(i, min) == LET id == run_length(i, Alnum) IN IF id < min THEN 0 ELSE id

fine_grained_pat_span(i, min) ==
  LET id == run_length(i, Alnum)
      tail == IF i + id <= Len(echoed) /\ echoed[i + id] = "_" THEN run_length(i + id + 1, Alnum \cup {"_"}) ELSE 0
  IN IF id < min THEN 0 ELSE IF tail >= TailMin THEN id + 1 + tail ELSE id

\* The length of what a rule matches at position i, 0 for no match.
rule_span(rule, i) ==
  LET after == i + Len(rule.prefix)
      run == CASE rule.shape = "aws" -> aws_key_id_run(after, rule.min)
               [] rule.shape = "pat" -> fine_grained_pat_span(after, rule.min)
               [] rule.shape = "run" -> run_length(after, Alnum)
  IN IF IsPrefix(rule.prefix, SubSeq(echoed, i, Len(echoed))) /\ run >= rule.min
     THEN Len(rule.prefix) + run ELSE 0

\* The first rule that matches decides.
span_at(i) ==
  LET matching == {k \in DOMAIN ScrubRules : rule_span(ScrubRules[k], i) > 0}
  IN IF matching = {} THEN 0 ELSE rule_span(ScrubRules[CHOOSE k \in matching : \A l \in matching : k <= l], i)

\* The output, as the positions of the bytes kept and 0 for "[redacted]".
scrub_secret_patterns ==
  LET scan[i \in 1..(Len(echoed) + 1)] ==
        IF i > Len(echoed) THEN << >>
        ELSE IF span_at(i) > 0 THEN <<0>> \o scan[i + span_at(i)]
        ELSE <<i>> \o scan[i + 1]
  IN scan[1]

-------------------------------------------------------------------------------
(* engine.rs, event.rs: the audit event of a denial *)

bytes_of(reason) ==
  LET upTo[n \in 0..Len(reason)] == IF n = 0 THEN 0 ELSE upTo[n - 1] + reason[n] IN upTo[Len(reason)]

\* The ends of characters, as byte offsets.
char_boundaries(reason) == {bytes_of(SubSeq(reason, 1, n)) : n \in 0..Len(reason)}

\* The bytes of the reason that are kept.
bounded_reason(reason) ==
  LET max == MaxDenyReason IN
  IF bytes_of(reason) <= max THEN bytes_of(reason)
  ELSE LET step[e \in 0..max] == IF e \in char_boundaries(reason) THEN e ELSE step[e - 1]
       IN step[max]

\* try_insert drops a value that is too long.
try_insert(metadata, key, bytes) == IF bytes <= MaxMetadataValue THEN metadata \cup {<<key, bytes>>} ELSE metadata

\* An address literal is no host name of the event grammar.
destination_summary(host) == IF host = "name" THEN host ELSE None

deny_event ==
  LET method == try_insert({}, "http.method", 1)
      reason == try_insert(method, "stage.reason", bytes_of(denial.reason))
  IN [reason |-> bounded_reason(denial.reason),
      metadata |-> IF denial.policy = None THEN reason ELSE try_insert(reason, "policy", denial.policy),
      destination |-> destination_summary(denial.host)]

\* AuditDecision::validate on the way in; the same, SafeDestinationSummary::new
\* and SafeAuditMetadata::from_pairs when the event is read back.
Storable(event) == event.reason <= MaxDenyReason
ReadBack(event) ==
  /\ Storable(event)
  /\ event.destination # None => event.destination = "name"
  /\ \A entry \in event.metadata : entry[2] <= MaxMetadataValue

-------------------------------------------------------------------------------
\* Where a token begins and ends, from the shapes engine.rs:250-278 lists.
AllIn(i, j, set) == \A k \in i..j : echoed[k] \in set
EndsAt(j, set) == j = Len(echoed) \/ echoed[j + 1] \notin set
SecretToken(i, j) == \E r \in DOMAIN ScrubRules :
  LET rule == ScrubRules[r]
      s == i + Len(rule.prefix)
  IN /\ IsPrefix(rule.prefix, SubSeq(echoed, i, Len(echoed)))
     /\ CASE rule.shape = "aws" -> j = s + rule.min - 1 /\ AllIn(s, j, Upper)
          [] rule.shape = "run" -> j >= s + rule.min - 1 /\ AllIn(s, j, Alnum) /\ EndsAt(j, Alnum)
          [] rule.shape = "pat" ->
               \/ j >= s + rule.min - 1 /\ AllIn(s, j, Alnum) /\ EndsAt(j, Alnum)
               \/ \E m \in (s + rule.min)..(j - TailMin) :
                    /\ echoed[m] = "_" /\ AllIn(s, m - 1, Alnum)
                    /\ AllIn(m + 1, j, Alnum \cup {"_"}) /\ EndsAt(j, Alnum \cup {"_"})

(***************************************************************************)
(* Response scrubbing and denials.  Every byte of a token is taken out of  *)
(* a body and nothing else is: a byte is kept exactly if no token covers   *)
(* it, tokens that begin inside a token already taken out aside, and the   *)
(* kept bytes keep their order.  And the event of every denial, however    *)
(* long its reason, is stored and can be read back, with the longest part  *)
(* of the reason that fits whole characters (engine.rs:219-232).           *)
(***************************************************************************)
RedactionExact ==
  LET out == scrub_secret_patterns
      kept == {k \in 1..Len(echoed) : \E n \in DOMAIN out : out[n] = k}
      \* positions the scan looked at: the kept ones and the first of each gap
      starts == kept \cup {k \in 1..Len(echoed) : k \notin kept /\ (k = 1 \/ k - 1 \in kept)}
  IN /\ \A k \in 1..Len(echoed) : k \in kept => \A i \in starts, j \in k..Len(echoed) : i <= k => ~SecretToken(i, j)
     /\ \A k \in 1..Len(echoed) : k \notin kept => \E i \in 1..k, j \in k..Len(echoed) : SecretToken(i, j)
     /\ Storable(deny_event) /\ ReadBack(deny_event)
     /\ deny_event.reason \in char_boundaries(denial.reason)
     /\ \A e \in char_boundaries(denial.reason) : e <= MaxDenyReason => e <= deny_event.reason
===============================================================================
