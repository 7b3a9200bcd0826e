------------------------------- MODULE ReplayCache -------------------------------
(***************************************************************************)
(* ReplayCache of crates/vaultx-broker/src/engine.rs: the one-shot registry*)
(* of (session token, caller request id) pairs.  A pair is a Key.  The     *)
(* cache expires entries lazily, sweeps when it has doubled since the last *)
(* sweep and evicts the oldest entries at its capacity.  `register` reads  *)
(* the clock before it takes the mutex, so the instant t it works with may *)
(* be older than one another call registered with; instants may also tie.  *)
(***************************************************************************)
EXTENDS Integers, Sequences, FiniteSets

CONSTANTS
  Pairs,
  Ttl,            \* REPLAY_TTL, in instants
  Capacity,       \* REPLAY_CACHE_MAX_ENTRIES
  MaxInstant,     \* bound on the clock
  MaxRegistrations  \* bound on the calls of a behaviour

ASSUME LimitsPositive == Ttl \in Nat \ {0} /\ Capacity \in Nat \ {0}
ASSUME BoundsAreNat == MaxInstant \in Nat /\ MaxRegistrations \in Nat

VARIABLES
  now,                  \* the monotonic clock
  entries,              \* key -> registration instant, for the live keys
  order,                \* the same pairs as <<instant, key>>, popped oldest first
  live_at_last_sweep,
  registrations         \* history: every call, its instant and its answer

replayVars == <<now, entries, order, live_at_last_sweep, registrations>>

LiveKeys == DOMAIN entries

\* t.duration_since(registered_at), which is zero when t is the earlier one.
Age(key, t) == IF entries[key] <= t THEN t - entries[key] ELSE 0

-------------------------------------------------------------------------------
ReplayInit ==
  /\ now = 0
  /\ entries = [k \in {} |-> 0]
  /\ order = {}
  /\ live_at_last_sweep = 0
  /\ registrations = <<>>

Tick ==
  /\ now < MaxInstant
  /\ now' = now + 1
  /\ UNCHANGED <<entries, order, live_at_last_sweep, registrations>>

RegisterAnswers(key, t, fresh) ==
  /\ Len(registrations) < MaxRegistrations
  /\ registrations' = Append(registrations, [key |-> key, at |-> t, fresh |-> fresh])
  /\ UNCHANGED now

\* The pair is inside its window: a replay.
RegisterReplay(key, t) ==
  /\ key \in LiveKeys
  /\ Age(key, t) < Ttl
  /\ RegisterAnswers(key, t, FALSE)
  /\ UNCHANGED <<entries, order, live_at_last_sweep>>

\* A stale duplicate is refreshed in place.
RegisterStale(key, t) ==
  /\ key \in LiveKeys
  /\ Age(key, t) >= Ttl
  /\ RegisterAnswers(key, t, TRUE)
  /\ entries' = [entries EXCEPT ![key] = t]
  /\ order' = (order \ {<<entries[key], key>>}) \cup {<<t, key>>}
  /\ UNCHANGED live_at_last_sweep

\* sweep_expired keeps these keys; without a sweep all are kept.
Swept(t) == {k \in LiveKeys : Age(k, t) < Ttl}
SweepDue == Cardinality(LiveKeys) > 2 * live_at_last_sweep
Kept(t) == IF SweepDue THEN Swept(t) ELSE LiveKeys

\* Mutant of OldestFirst: pop_last instead of pop_first.
NewestFirst(victims, kept) ==
  /\ victims \subseteq kept
  /\ Cardinality(kept \ victims) =
       IF Cardinality(kept) < Capacity THEN Cardinality(kept) ELSE Capacity - 1
  /\ \A v \in victims, k \in kept \ victims : entries[v] >= entries[k]

\* evict_oldest until one slot is free: the victims precede the others in
\* `order`; entries of one instant go in the order of their keys, which says
\* nothing about their age.
OldestFirst(victims, kept) ==
  /\ victims \subseteq kept
  /\ Cardinality(kept \ victims) =
       IF Cardinality(kept) < Capacity THEN Cardinality(kept) ELSE Capacity - 1
  /\ \A v \in victims, k \in kept \ victims : entries[v] <= entries[k]

RegisterFresh(key, t) ==
  /\ key \notin LiveKeys
  /\ RegisterAnswers(key, t, TRUE)
  /\ live_at_last_sweep' = IF SweepDue THEN Cardinality(Swept(t)) ELSE live_at_last_sweep
  /\ \E victims \in SUBSET Kept(t) :
       /\ OldestFirst(victims, Kept(t))
       /\ LET stay == Kept(t) \ victims IN
          /\ entries' = [k \in stay \cup {key} |-> IF k = key THEN t ELSE entries[k]]
          /\ order' = {o \in order : o[2] \in stay} \cup {<<t, key>>}

register(key, t) ==
  RegisterReplay(key, t) \/ RegisterStale(key, t) \/ RegisterFresh(key, t)

ReplayNext == Tick \/ \E key \in Pairs, t \in 0..now : register(key, t)

ReplaySpec == ReplayInit /\ [][ReplayNext]_replayVars

-------------------------------------------------------------------------------
(***************************************************************************)
(* engine.rs:117 "Same observations ordered by (instant, key)": the index  *)
(* that eviction pops holds exactly the live entries, so `while            *)
(* entries.len() >= capacity` always makes progress, and the cap holds.    *)
(***************************************************************************)
IndexMirrorsEntries ==
  /\ order = {<<entries[k], k>> : k \in LiveKeys}
  /\ Cardinality(LiveKeys) <= Capacity
  /\ \A k \in LiveKeys : entries[k] <= now

\* The calls before the j-th that were accepted.
AcceptedBefore(j) == {i \in 1..(j - 1) : registrations[i].fresh}

(***************************************************************************)
(* engine.rs:84 "a repeated (session, caller-supplied request id) pair     *)
(* inside this window is denied", engine.rs:88 "At the cap the oldest      *)
(* entry is evicted": a pair is accepted again only when some call since   *)
(* has read an instant a full window later, or when at least Capacity      *)
(* other pairs were accepted at no earlier an instant or since.            *)
(***************************************************************************)
OncePerWindowUnlessFlooded ==
  \A j \in 1..Len(registrations) : registrations[j].fresh =>
    \A i \in AcceptedBefore(j) :
      \/ registrations[i].key # registrations[j].key
      \/ \E m \in (i + 1)..j : registrations[m].fresh /\ registrations[m].at - registrations[i].at >= Ttl
      \/ Capacity <= Cardinality({registrations[m].key : m \in {m \in AcceptedBefore(j) :
                                    m > i \/ registrations[m].at >= registrations[i].at}} \ {registrations[j].key})

(***************************************************************************)
(* engine.rs:134 "Returns `false` when the pair was already registered     *)
(* inside the TTL window": a call is refused only if the same pair was     *)
(* accepted less than a window ago, however often it was refused since.    *)
(***************************************************************************)
NoFalseReplay ==
  \A j \in 1..Len(registrations) : ~registrations[j].fresh =>
    \E i \in AcceptedBefore(j) :
      registrations[i].key = registrations[j].key /\ registrations[j].at - registrations[i].at < Ttl

(***************************************************************************)
(* The replay guard as a whole: it refuses every replay its window and its *)
(* capacity let it see, refuses nothing else, and its index stays true.    *)
(***************************************************************************)
ReplayExact == IndexMirrorsEntries /\ OncePerWindowUnlessFlooded /\ NoFalseReplay
===============================================================================
