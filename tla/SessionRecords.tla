----------------------------- MODULE SessionRecords -----------------------------
(***************************************************************************)
(* Session records and what the methods of InMemorySessionStore do to the  *)
(* map that holds them (crates/vaultx-broker/src/session.rs), as operators *)
(* on that map: SessionStore.tla applies them one lock hold at a time,     *)
(* FileSessionStore.tla to a snapshot loaded from disk, BrokerEngine.tla   *)
(* from the request pipeline.                                              *)
(*                                                                         *)
(* A bearer token is random and is stored as a verifier indexed to one     *)
(* session, so a token is identified with the id of its session; an        *)
(* unknown token is an id that has no record.  The map is a function that  *)
(* is None where there is no record.                                       *)
(*                                                                         *)
(* A delegated session carries SessionConstraints.  `credentials`,         *)
(* `environments`, `hosts` and `methods` are optional sets that are        *)
(* narrowed and checked alike, so they are one field `sets` indexed by     *)
(* SetDims.  `paths` is an optional list of patterns, read as a set.       *)
(* `remaining` is the optional request budget.  None is Rust's None:       *)
(* unrestricted along that dimension.                                      *)
(***************************************************************************)
EXTENDS Options, PathGlob, Integers, FiniteSets

CONSTANTS
  SetDims,        \* the set-valued dimensions
  Names,          \* the values a set-valued dimension distinguishes
  Patterns,       \* path patterns a delegation may name
  Paths,          \* canonical request paths
  SessionIds,     \* ids (and tokens) that can ever be generated
  Agents,
  Environments,
  MaxSecs,        \* the largest u64 number of seconds
  Ttls,           \* time-to-live values a creator may ask for, None included
  Requested       \* the constraints a delegation may ask for

ASSUME PatternsAreTexts == Patterns \subseteq [rooted : BOOLEAN, segs : Seq(STRING)]
ASSUME PathsAreTexts == Paths \subseteq [rooted : BOOLEAN, segs : Seq(STRING)]
ASSUME NoneIsNoValue ==
  /\ None \notin Nat
  /\ \A S \in SUBSET Names : S # None
  /\ \A S \in SUBSET Patterns : S # None

Constraints ==
  [sets : [SetDims -> Option(SUBSET Names)],
   paths : Option(SUBSET Patterns),
   remaining : Option(Nat)]

\* One canonical brokered request, as the constraints see it.
Requests == [names : [SetDims -> Names], path : Paths]

-------------------------------------------------------------------------------
is_unconstrained(c) ==
  /\ \A d \in SetDims : c.sets[d] = None
  /\ c.paths = None
  /\ c.remaining = None

narrow_set(parent, requested) ==
  IF parent = None THEN requested
  ELSE IF requested = None THEN parent
  ELSE parent \cap requested

\* Keeps the requested patterns that some pattern of the parent subsumes.
narrow_paths(parent, requested) ==
  IF parent = None THEN requested
  ELSE IF requested = None THEN parent
  ELSE {c \in requested : \E p \in parent : glob_subsumes(p, c)}

narrow_budget(parent, requested) ==
  IF parent = None THEN requested
  ELSE IF requested = None THEN parent
  ELSE IF parent <= requested THEN parent ELSE requested

narrow(self, requested) ==
  [sets |-> [d \in SetDims |-> narrow_set(self.sets[d], requested.sets[d])],
   paths |-> narrow_paths(self.paths, requested.paths),
   remaining |-> narrow_budget(self.remaining, requested.remaining)]

\* The engine maps every violated dimension to one denial, so only the
\* verdict is kept.  The budget is consulted by consume_budget alone.
check_request(c, q) ==
  /\ \A d \in SetDims : c.sets[d] # None => q.names[d] \in c.sets[d]
  /\ c.paths # None => \E p \in c.paths : path_matches(p, q.path)

-------------------------------------------------------------------------------
ASSUME NoneIsNoSession == None \notin SessionIds
ASSUME MaxSecsIsNat == MaxSecs \in Nat
ASSUME TtlsAreOptional == Ttls \subseteq Option(Nat)
ASSUME RequestedAreConstraints == Requested \subseteq Constraints

Secs == 0..MaxSecs

\* AgentSessionRecord; the token hash is the session id.
Record ==
  [agent : Agents, environment : Environments, revoked : BOOLEAN,
   expires : Option(Secs), parent : Option(SessionIds),
   constraints : Option(Constraints)]

ASSUME NoneIsNoRecord ==
  None \notin Record /\ None \notin Constraints

-------------------------------------------------------------------------------
is_dead(record, now) ==
  \/ record.revoked
  \/ record.expires # None /\ record.expires <= now

\* The sessions the walk up the parent links visits: the least set that holds
\* the parent of s and, with a session, its parent.
ParentClosed(ss, S) ==
  \A x \in S : ss[x] # None => ss[x].parent \in S \cup {None}

Ancestors(ss, s) ==
  {a \in SessionIds :
     \A S \in SUBSET SessionIds :
       ParentClosed(ss, S) /\ ss[s].parent \in S \cup {None} => a \in S}

\* A missing or dead ancestor, or a cycle, fails the walk.
ancestors_live(ss, s, now) ==
  \A a \in Ancestors(ss, s) :
    ss[a] # None /\ ~is_dead(ss[a], now) /\ a \notin Ancestors(ss, a)

Live(ss, s, now) == ~is_dead(ss[s], now) /\ ancestors_live(ss, s, now)

validate(ss, s, now) ==
  IF ss[s] = None THEN "InvalidSession"
  ELSE IF Live(ss, s, now) THEN "ok" ELSE "SessionRevoked"

-------------------------------------------------------------------------------
saturating_add(a, b) == IF a + b <= MaxSecs THEN a + b ELSE MaxSecs

create_impl(ss, s, agent, environment, ttl, now) ==
  [ss EXCEPT ![s] =
     [agent |-> agent, environment |-> environment, revoked |-> FALSE,
      expires |-> IF ttl = None THEN None ELSE saturating_add(now, ttl),
      parent |-> None, constraints |-> None]]

\* What a child of p asking for `requested` would store.
narrowed(ss, p, requested) ==
  IF ss[p].constraints = None THEN requested
  ELSE narrow(ss[p].constraints, requested)

delegate_verdict(ss, p, requested, now) ==
  IF requested.paths # None /\ \E t \in requested.paths : ~validate_pattern(t)
  THEN "InvalidDelegation"
  ELSE IF ss[p] = None THEN "InvalidSession"
  ELSE IF is_dead(ss[p], now) THEN "SessionRevoked"
  ELSE IF is_unconstrained(narrowed(ss, p, requested)) THEN "InvalidDelegation"
  ELSE "ok"

delegate_inner(ss, s, p, requested) ==
  [ss EXCEPT ![s] =
     [agent |-> ss[p].agent, environment |-> ss[p].environment,
      revoked |-> FALSE, expires |-> None, parent |-> p,
      constraints |-> narrowed(ss, p, requested)]]

revoke_in(ss, s) == [ss EXCEPT ![s] = [ss[s] EXCEPT !.revoked = TRUE]]

\* The budget of a session, None when it has none.
Budget(ss, s) ==
  IF ss[s].constraints = None THEN None ELSE ss[s].constraints.remaining

\* Mutant of consume_verdict: no liveness re-check.
consume_verdict_unchecked(ss, s, now) ==
  IF ss[s] = None THEN "InvalidSession"
  ELSE IF Budget(ss, s) = 0 THEN "BudgetExhausted" ELSE "ok"

consume_verdict(ss, s, now) ==
  IF validate(ss, s, now) # "ok" THEN validate(ss, s, now)
  ELSE IF Budget(ss, s) = 0 THEN "BudgetExhausted" ELSE "ok"

\* Mutant of consume_in: the last unit is never written off.
consume_in_keeping_last(ss, s) ==
  LET c == ss[s].constraints
      left == [c EXCEPT !.remaining = IF c.remaining > 1 THEN c.remaining - 1 ELSE c.remaining]
  IN [ss EXCEPT ![s] = [ss[s] EXCEPT !.constraints = left]]

\* One unit less in a budget that is not zero.
consume_in(ss, s) ==
  LET left == [ss[s].constraints EXCEPT !.remaining = ss[s].constraints.remaining - 1]
  IN [ss EXCEPT ![s] = [ss[s] EXCEPT !.constraints = left]]

(***************************************************************************)
(* verify_delegation_chains: every delegated record must be what minting   *)
(* would produce from its parent, and have both halves of its link.        *)
(***************************************************************************)
LinkVerifies(ss, s) ==
  \/ ss[s].parent = None /\ ss[s].constraints = None
  \/ /\ ss[s].parent # None /\ ss[s].constraints # None
     /\ ss[ss[s].parent] # None
     /\ narrowed(ss, ss[s].parent, ss[s].constraints) = ss[s].constraints

verify_delegation_chains(ss) ==
  \A s \in SessionIds : ss[s] # None => LinkVerifies(ss, s)

\* The requests a session may make, its budget aside.
Authority(ss, s) ==
  IF ss[s].constraints = None THEN Requests
  ELSE {q \in Requests : check_request(ss[s].constraints, q)}
===============================================================================
