------------------------------- MODULE AuditChain -------------------------------
(***************************************************************************)
(* What the audit trail promises (AppendStore of                           *)
(* crates/vaultx-audit/src/store.rs): events are only ever appended, each  *)
(* carries the next sequence number and the hash of the event before it,   *)
(* and verify_chain recomputes both.                                       *)
(*                                                                         *)
(* A hash stands for exactly what it covers: SHA-256 over the whole event  *)
(* (its `prev_hash` included) is the event itself.                         *)
(***************************************************************************)
EXTENDS Options, Naturals, Sequences

CONSTANTS
  Payloads      \* what an event records: actor, action, decision, metadata...

VARIABLE log    \* the stored events, oldest first

hash(event) == event

last_hash(events) ==
  IF events = <<>> THEN None ELSE hash(events[Len(events)])

\* The event `append` stores for a payload, after the events it has read.
stored(events, payload) ==
  [sequence |-> IF events = <<>> THEN 0 ELSE events[Len(events)].sequence + 1,
   prev_hash |-> last_hash(events), payload |-> payload]

verify_chain(events) ==
  \A i \in 1..Len(events) :
    /\ events[i].sequence = i - 1
    /\ events[i].prev_hash = IF i = 1 THEN None ELSE hash(events[i - 1])

-------------------------------------------------------------------------------
ChainInit == log = <<>>

ChainNext == \E payload \in Payloads : log' = Append(log, stored(log, payload))

AppendOnly == ChainInit /\ [][ChainNext]_log
===============================================================================
