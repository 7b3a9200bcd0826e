------------------------------ MODULE SessionStore ------------------------------
(***************************************************************************)
(* Agent sessions: the SessionStore trait and InMemorySessionStore of      *)
(* crates/vaultx-broker/src/session.rs.  Every method runs under one mutex *)
(* hold, so it is one atomic step here; FileSessionStore.tla shows that    *)
(* the cross-process file store implements this specification.             *)
(*                                                                         *)
(* Each method reads the wall clock once, and nothing keeps the wall clock *)
(* from being stepped, so `now` is any value.  A method that returns an    *)
(* error changes nothing.                                                  *)
(***************************************************************************)
EXTENDS SessionRecords

VARIABLES
  sessions,   \* InMemoryState.sessions, None where there is no record
  minted,     \* history: the budget a session was delegated with
  spent       \* history: budget units consume_budget granted

vars == <<sessions, minted, spent>>

-------------------------------------------------------------------------------
Init ==
  /\ sessions = [s \in SessionIds |-> None]
  /\ minted = [s \in SessionIds |-> None]
  /\ spent = [s \in SessionIds |-> 0]

Create(s, agent, environment, ttl, now) ==
  /\ sessions[s] = None
  /\ sessions' = create_impl(sessions, s, agent, environment, ttl, now)
  /\ UNCHANGED <<minted, spent>>

\* Only the parent itself must be live: dead ancestors are found when the
\* child is used.
Delegate(s, p, requested, now) ==
  /\ sessions[s] = None
  /\ delegate_verdict(sessions, p, requested, now) = "ok"
  /\ sessions' = delegate_inner(sessions, s, p, requested)
  /\ minted' = [minted EXCEPT ![s] = narrowed(sessions, p, requested).remaining]
  /\ UNCHANGED spent

Revoke(s) ==
  /\ sessions[s] # None
  /\ sessions' = revoke_in(sessions, s)
  /\ UNCHANGED <<minted, spent>>

\* A session without a budget succeeds and changes nothing.
ConsumeBudget(s, now) ==
  /\ consume_verdict(sessions, s, now) = "ok"
  /\ Budget(sessions, s) # None
  /\ sessions' = consume_in(sessions, s)
  /\ spent' = [spent EXCEPT ![s] = @ + 1]
  /\ UNCHANGED minted

Next ==
  \E s \in SessionIds :
    \/ Revoke(s)
    \/ \E now \in Secs :
         \/ \E agent \in Agents, environment \in Environments, ttl \in Ttls :
              Create(s, agent, environment, ttl, now)
         \/ \E p \in SessionIds, requested \in Requested :
              Delegate(s, p, requested, now)
         \/ ConsumeBudget(s, now)

Spec == Init /\ [][Next]_vars

-------------------------------------------------------------------------------
TypeOK ==
  /\ sessions \in [SessionIds -> Option(Record)]
  /\ minted \in [SessionIds -> Option(Nat)]
  /\ spent \in [SessionIds -> Nat]

(***************************************************************************)
(* session.rs:98 "delegation intersects them with the parent's own         *)
(* constraints, which is what makes [...] `child effective authority ⊆     *)
(* parent effective authority` hold transitively across chains": a         *)
(* delegated session acts for the same agent in the same environment as    *)
(* every session it descends from, and can make no request that one of     *)
(* them could not.                                                         *)
(***************************************************************************)
DelegationContainment ==
  \A s \in SessionIds : sessions[s] # None =>
    \A a \in Ancestors(sessions, s) :
      /\ sessions[a] # None
      /\ sessions[a].agent = sessions[s].agent
      /\ sessions[a].environment = sessions[s].environment
      /\ Authority(sessions, s) \subseteq Authority(sessions, a)

(***************************************************************************)
(* session.rs:566 "a revoked or expired ancestor invalidates every         *)
(* descendant at validation time": a session validates at an instant only  *)
(* if every session it descends from validates at that instant, however    *)
(* the chain was built (a child may be minted under a dead chain).         *)
(***************************************************************************)
ChainsDieTogether ==
  \A s \in SessionIds, now \in Secs : validate(sessions, s, now) = "ok" =>
    \A a \in Ancestors(sessions, s) : validate(sessions, a, now) = "ok"

(***************************************************************************)
(* session.rs:423 "at zero the denial is returned instead of a wraparound  *)
(* decrement": what a session was granted and what it has left always add  *)
(* up to the budget it was delegated with.                                 *)
(***************************************************************************)
BudgetConserved ==
  \A s \in SessionIds : sessions[s] # None =>
    IF minted[s] = None THEN Budget(sessions, s) = None /\ spent[s] = 0
    ELSE Budget(sessions, s) + spent[s] = minted[s]

\* The session or one it descends from was revoked.
ChainRevoked(ss, s) ==
  ss[s] # None /\ (ss[s].revoked \/ \E a \in Ancestors(ss, s) : ss[a] # None /\ ss[a].revoked)

(***************************************************************************)
(* session.rs:328 "revoked sessions fail validation forever": once a       *)
(* session or an ancestor is revoked, no later step and no clock makes it  *)
(* validate or spend again.                                                *)
(***************************************************************************)
RevokedForever ==
  [][\A s \in SessionIds : ChainRevoked(sessions, s) =>
       /\ ChainRevoked(sessions', s)
       /\ \A now \in Secs : validate(sessions', s, now) # "ok"
       /\ spent'[s] = spent[s]]_vars

(***************************************************************************)
(* Delegation as a whole (session.rs:98, 328 and 566): authority narrows   *)
(* along a chain, a chain validates only as a whole, and what a revocation *)
(* ended never comes back.                                                 *)
(***************************************************************************)
ChainsContained == []DelegationContainment /\ []ChainsDieTogether /\ RevokedForever
===============================================================================
