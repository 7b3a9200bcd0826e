------------------------------ MODULE BrokerEngine ------------------------------
(***************************************************************************)
(* The request pipeline of crates/vaultx-broker/src/engine.rs, run by many *)
(* calls at once (the IPC and TLS servers run each one on a blocking       *)
(* thread) over the state they share: the session store, the replay cache, *)
(* the upstream service and the audit log.                                 *)
(*                                                                         *)
(* A stage that touches shared state is a step of its own; consecutive     *)
(* stages that only compute are one step.  Each method of the session      *)
(* store is atomic (FileSessionStore.tla) and may fail with an I/O error.  *)
(* The replay cache is the set of pairs it would refuse now, from which a  *)
(* pair may drop at any time (ReplayCache.tla says when).  An audit append *)
(* stores the event, fails before or after storing it, or leaves a torn    *)
(* line after which every append is refused (AuditLog.tla).  The broker    *)
(* may crash at any point: calls in flight and the replay cache are lost.  *)
(***************************************************************************)
EXTENDS SessionRecords, Sequences

CONSTANTS
  Calls,            \* brokered requests submitted in a behaviour
  RequestIds,       \* request ids a caller may supply
  Shapes,           \* what a request asks for and how the pure stages judge it
  InitialSessions,  \* the session store the broker starts with
  MaxForgets        \* bound on how often a pair leaves the replay cache

\* protocol: supported version (stage 1); canonical: the URL parses (stage 3);
\* egress: the literal host may be contacted (stage 4); policy: the authorizer
\* allows the request (stage 5); target: the request as constraints see it.
ASSUME ShapesAreShapes ==
  Shapes \subseteq [protocol : BOOLEAN, canonical : BOOLEAN, egress : BOOLEAN,
                    policy : BOOLEAN, target : Requests]
ASSUME InitialSessionsAreRecords == InitialSessions \in [SessionIds -> Option(Record)]
ASSUME MaxForgetsIsNat == MaxForgets \in Nat

\* The store was built by its own methods, which keep this of every delegated
\* session (SessionStoreProofs.ChainsHold).
ASSUME InitialChainsNarrow ==
  \A s \in SessionIds : InitialSessions[s] # None /\ InitialSessions[s].parent # None =>
    /\ InitialSessions[InitialSessions[s].parent] # None
    /\ Authority(InitialSessions, s) \subseteq
         Authority(InitialSessions, InitialSessions[s].parent)

VARIABLES
  sessions,     \* the session store
  seen,         \* pairs <<token, request id>> inside their replay window
  windows,      \* history: how many replay windows each pair has left
  audit,        \* events stored in the audit log
  auditOk,      \* FALSE once the log has a torn line
  pc,           \* the stage each call is in
  req,          \* the request of each call
  record,       \* the session record a call was authenticated with
  verdict,      \* the decision a call has reached, or None
  response,     \* what was delivered to the caller, or None
  charged,      \* history: calls that passed consume_budget
  executed,     \* history: calls that may have reached the upstream service
  window,       \* history: the replay window each call registered in
  revokedEarly  \* history: calls whose chain was revoked before they were charged

vars == <<sessions, seen, windows, audit, auditOk, pc, req, record, verdict,
          response, charged, executed, window, revokedEarly>>

Key(c) == <<req[c].token, req[c].request_id>>

Revoked(ss, s) ==
  /\ ss[s] # None
  /\ ss[s].revoked \/ \E a \in Ancestors(ss, s) : ss[a] # None /\ ss[a].revoked

BeforeCharge == {"authenticate", "replay", "decide", "charge"}
InFlight == BeforeCharge \cup {"resolve", "send", "audit", "respond"}

-------------------------------------------------------------------------------
Init ==
  /\ sessions = InitialSessions
  /\ seen = {}
  /\ windows = [k \in SessionIds \X RequestIds |-> 0]
  /\ audit = <<>>
  /\ auditOk = TRUE
  /\ pc = [c \in Calls |-> "idle"]
  /\ req = [c \in Calls |-> None]
  /\ record = [c \in Calls |-> None]
  /\ verdict = [c \in Calls |-> None]
  /\ response = [c \in Calls |-> None]
  /\ charged = {}
  /\ executed = {}
  /\ window = [c \in Calls |-> None]
  /\ revokedEarly = {}

Submit(c, token, request_id, shape) ==
  /\ pc[c] = "idle"
  /\ pc' = [pc EXCEPT ![c] = "authenticate"]
  /\ req' = [req EXCEPT ![c] =
               [token |-> token, request_id |-> request_id, shape |-> shape]]
  /\ revokedEarly' = IF Revoked(sessions, token) THEN revokedEarly \cup {c} ELSE revokedEarly
  /\ UNCHANGED <<sessions, seen, windows, audit, auditOk, record, verdict, response,
                 charged, executed, window>>

\* The call moves to the next stage, or to its denial's audit append.
Continue(c, stage) == pc' = [pc EXCEPT ![c] = stage] /\ UNCHANGED verdict

Decide(c, reason) ==
  /\ pc' = [pc EXCEPT ![c] = "audit"]
  /\ verdict' = [verdict EXCEPT ![c] = reason]

\* Stages 1 and 2.  A store failure is reported like an unknown session.
Authenticate(c, now) ==
  /\ pc[c] = "authenticate"
  /\ LET found == validate(sessions, req[c].token, now) IN
     \/ /\ ~req[c].shape.protocol
        /\ Decide(c, "protocol_unsupported")
        /\ UNCHANGED record
     \/ /\ req[c].shape.protocol /\ found = "ok"
        /\ record' = [record EXCEPT ![c] = sessions[req[c].token]]
        /\ Continue(c, "replay")
     \/ /\ req[c].shape.protocol /\ found = "SessionRevoked"
        /\ Decide(c, "session_revoked")
        /\ UNCHANGED record
     \/ /\ req[c].shape.protocol
        /\ Decide(c, "invalid_session")
        /\ UNCHANGED record
  /\ UNCHANGED <<sessions, seen, windows, audit, auditOk, req, response, charged,
                 executed, window, revokedEarly>>

\* Mutant of ReplayGuard: the pair is looked up and not registered.
ReplayGuardReadOnly(c) ==
  /\ pc[c] = "replay"
  /\ \/ /\ req[c].request_id # None /\ Key(c) \in seen
        /\ Decide(c, "replay_detected")
        /\ UNCHANGED window
     \/ /\ req[c].request_id # None => Key(c) \notin seen
        /\ window' = IF req[c].request_id = None THEN window
                     ELSE [window EXCEPT ![c] = windows[Key(c)]]
        /\ Continue(c, "decide")
  /\ UNCHANGED <<sessions, seen, windows, audit, auditOk, req, record, response, charged,
                 executed, revokedEarly>>

\* Stage 2b: only a request id supplied by the caller is registered.
ReplayGuard(c) ==
  /\ pc[c] = "replay"
  /\ \/ /\ req[c].request_id = None
        /\ Continue(c, "decide")
        /\ UNCHANGED <<seen, window>>
     \/ /\ req[c].request_id # None /\ Key(c) \in seen
        /\ Decide(c, "replay_detected")
        /\ UNCHANGED <<seen, window>>
     \/ /\ req[c].request_id # None /\ Key(c) \notin seen
        /\ seen' = seen \cup {Key(c)}
        /\ window' = [window EXCEPT ![c] = windows[Key(c)]]
        /\ Continue(c, "decide")
  /\ UNCHANGED <<sessions, windows, audit, auditOk, req, record, response, charged,
                 executed, revokedEarly>>

\* Mutant of PureStages: the constraint check of stage 5b is missing.
PureStagesUndelegated(c) ==
  LET shape == req[c].shape
  IN IF ~shape.canonical THEN "invalid_destination"
     ELSE IF ~shape.egress THEN "destination_denied"
     ELSE IF ~shape.policy THEN "policy_denied"
     ELSE "ok"

\* Stages 3, 4, 5 and the constraint check of 5b, in that order, on the record
\* read in stage 2.
PureStages(c) ==
  LET shape == req[c].shape
      constraints == record[c].constraints
  IN IF ~shape.canonical THEN "invalid_destination"
     ELSE IF ~shape.egress THEN "destination_denied"
     ELSE IF ~shape.policy THEN "policy_denied"
     ELSE IF constraints # None /\ ~check_request(constraints, shape.target)
          THEN "outside_delegation"
     ELSE "ok"

Judge(c) ==
  /\ pc[c] = "decide"
  /\ IF PureStages(c) = "ok" THEN Continue(c, "charge") ELSE Decide(c, PureStages(c))
  /\ UNCHANGED <<sessions, seen, windows, audit, auditOk, req, record, response,
                 charged, executed, window, revokedEarly>>

\* The budget part of stage 5b, against the store as it is now.
Charge(c, now) ==
  /\ pc[c] = "charge"
  /\ LET s == req[c].token
         answer == consume_verdict(sessions, s, now)
     IN \/ /\ answer = "ok"
           /\ sessions' = IF Budget(sessions, s) = None THEN sessions ELSE consume_in(sessions, s)
           /\ charged' = charged \cup {c}
           /\ Continue(c, "resolve")
        \/ /\ answer = "BudgetExhausted"
           /\ Decide(c, "budget_exhausted")
           /\ UNCHANGED <<sessions, charged>>
        \/ /\ answer = "SessionRevoked"
           /\ Decide(c, "session_revoked")
           /\ UNCHANGED <<sessions, charged>>
        \/ /\ Decide(c, "budget_check_failed")
           /\ UNCHANGED <<sessions, charged>>
  /\ UNCHANGED <<seen, windows, audit, auditOk, req, record, response, executed,
                 window, revokedEarly>>

\* Stages 6 and 7: the vault and the injector may each fail (an unsupported
\* template is an injection failure with a wording of its own).
ResolveAndInject(c) ==
  /\ pc[c] = "resolve"
  /\ \/ Continue(c, "send")
     \/ \E reason \in {"credential_unavailable", "injection_failed"} : Decide(c, reason)
  /\ UNCHANGED <<sessions, seen, windows, audit, auditOk, req, record, response,
                 charged, executed, window, revokedEarly>>

\* Stages 8 and 9.  A transport failure leaves open whether the request arrived.
Execute(c) ==
  /\ pc[c] = "send"
  /\ \/ /\ executed' = executed \cup {c}
        /\ \E reason \in {"allow", "response_too_large", "transport_failure"} : Decide(c, reason)
     \/ /\ Decide(c, "transport_failure")
        /\ UNCHANGED executed
  /\ UNCHANGED <<sessions, seen, windows, audit, auditOk, req, record, response,
                 charged, window, revokedEarly>>

Event(c) == [call |-> c, verdict |-> verdict[c]]

\* Mutant of AuditAppend: the outcome is answered although it was not stored.
AuditAppendLenient(c) ==
  /\ pc[c] = "audit"
  /\ pc' = [pc EXCEPT ![c] = "respond"]
  /\ response' = [response EXCEPT ![c] = verdict[c]]
  /\ \/ auditOk /\ audit' = Append(audit, Event(c)) /\ UNCHANGED auditOk
     \/ UNCHANGED <<audit, auditOk>>
  /\ UNCHANGED <<sessions, seen, windows, req, record, verdict, charged, executed,
                 window, revokedEarly>>

\* Mutant of AuditAppend: a failed append is retried for ever.
AuditAppendRetrying(c) ==
  /\ pc[c] = "audit"
  /\ \/ /\ auditOk
        /\ audit' = Append(audit, Event(c))
        /\ response' = [response EXCEPT ![c] = verdict[c]]
        /\ pc' = [pc EXCEPT ![c] = "respond"]
        /\ UNCHANGED auditOk
     \/ auditOk' = FALSE /\ UNCHANGED <<audit, response, pc>>
  /\ UNCHANGED <<sessions, seen, windows, req, record, verdict, charged, executed,
                 window, revokedEarly>>

\* Stage 10, and the append of `deny`: the outcome is answered only if its
\* event was stored, otherwise the answer is a 500 of its own.
AuditAppend(c) ==
  /\ pc[c] = "audit"
  /\ pc' = [pc EXCEPT ![c] = "respond"]
  /\ \/ /\ auditOk
        /\ audit' = Append(audit, Event(c))
        /\ response' = [response EXCEPT ![c] = verdict[c]]
        /\ UNCHANGED auditOk
     \/ /\ response' = [response EXCEPT ![c] = "audit_write_failed"]
        /\ \/ UNCHANGED <<audit, auditOk>>
           \/ auditOk /\ audit' = Append(audit, Event(c)) /\ UNCHANGED auditOk
           \/ auditOk' = FALSE /\ UNCHANGED audit
  /\ UNCHANGED <<sessions, seen, windows, req, record, verdict, charged, executed,
                 window, revokedEarly>>

Deliver(c) ==
  /\ pc[c] = "respond"
  /\ pc' = [pc EXCEPT ![c] = "done"]
  /\ UNCHANGED <<sessions, seen, windows, audit, auditOk, req, record, verdict, response,
                 charged, executed, window, revokedEarly>>

-------------------------------------------------------------------------------
\* An operator revokes a session while calls are in flight.
RevokeSession(s) ==
  /\ sessions[s] # None
  /\ ~sessions[s].revoked
  /\ sessions' = revoke_in(sessions, s)
  /\ revokedEarly' = revokedEarly \cup
       {c \in Calls : pc[c] \in BeforeCharge /\ Revoked(sessions', req[c].token)}
  /\ UNCHANGED <<seen, windows, audit, auditOk, pc, req, record, verdict, response,
                 charged, executed, window>>

\* A pair leaves the replay cache: its window ended or it was evicted.
Forget(k) ==
  /\ k \in seen
  /\ windows[k] < MaxForgets
  /\ seen' = seen \ {k}
  /\ windows' = [windows EXCEPT ![k] = @ + 1]
  /\ UNCHANGED <<sessions, audit, auditOk, pc, req, record, verdict, response, charged,
                 executed, window, revokedEarly>>

\* The broker process dies and is started again.
Crash ==
  /\ \E c \in Calls : pc[c] \in InFlight
  /\ \A k \in seen : windows[k] < MaxForgets
  /\ pc' = [c \in Calls |-> IF pc[c] \in InFlight THEN "lost" ELSE pc[c]]
  /\ seen' = {}
  /\ windows' = [k \in DOMAIN windows |-> IF k \in seen THEN windows[k] + 1 ELSE windows[k]]
  /\ UNCHANGED <<sessions, audit, auditOk, req, record, verdict, response, charged,
                 executed, window, revokedEarly>>

\* The next stage of a call that has been submitted.
Stage(c) ==
  \/ \E now \in Secs : Authenticate(c, now) \/ Charge(c, now)
  \/ ReplayGuard(c) \/ Judge(c) \/ ResolveAndInject(c) \/ Execute(c)
  \/ AuditAppend(c) \/ Deliver(c)

Next ==
  \/ \E c \in Calls :
       \/ Stage(c)
       \/ \E token \in SessionIds, request_id \in Option(RequestIds), shape \in Shapes :
            Submit(c, token, request_id, shape)
  \/ \E s \in SessionIds : RevokeSession(s)
  \/ \E k \in SessionIds \X RequestIds : Forget(k)
  \/ Crash

Spec == Init /\ [][Next]_vars

\* Every stage returns: stores take bounded time and the transport times out.
FairSpec == Spec /\ \A c \in Calls : WF_vars(Stage(c))

-------------------------------------------------------------------------------
Verdicts ==
  {"protocol_unsupported", "session_revoked", "invalid_session", "replay_detected",
   "invalid_destination", "destination_denied", "policy_denied", "outside_delegation",
   "budget_exhausted", "budget_check_failed", "credential_unavailable",
   "injection_failed", "transport_failure", "response_too_large", "allow"}

TypeOK ==
  /\ sessions \in [SessionIds -> Option(Record)]
  /\ seen \subseteq SessionIds \X RequestIds
  /\ windows \in [SessionIds \X RequestIds -> 0..MaxForgets]
  /\ audit \in Seq([call : Calls, verdict : Verdicts])
  /\ auditOk \in BOOLEAN
  /\ pc \in [Calls -> InFlight \cup {"idle", "done", "lost"}]
  /\ req \in [Calls -> Option([token : SessionIds, request_id : Option(RequestIds),
                              shape : Shapes])]
  /\ record \in [Calls -> Option(Record)]
  /\ verdict \in [Calls -> Option(Verdicts)]
  /\ response \in [Calls -> Option(Verdicts \cup {"audit_write_failed"})]
  /\ charged \subseteq Calls /\ executed \subseteq Calls /\ revokedEarly \subseteq Calls
  /\ window \in [Calls -> Option(0..MaxForgets)]

EventsOf(c) == {i \in 1..Len(audit) : audit[i].call = c}

(***************************************************************************)
(* engine.rs:23 "Every outcome writes exactly one audit event before the   *)
(* response leaves the engine": an answer other than audit_write_failed is *)
(* on record, once and with the outcome the caller is told; no call is on  *)
(* record twice, whatever it was told.                                     *)
(***************************************************************************)
AnsweredMeansAudited ==
  \A c \in Calls :
    /\ Cardinality(EventsOf(c)) <= 1
    /\ response[c] \notin {None, "audit_write_failed"} =>
         \E i \in EventsOf(c) : audit[i].verdict = response[c]

(***************************************************************************)
(* session.rs:741 "a session revoked or orphaned by a dead chain between   *)
(* authentication and this point neither executes nor burns budget": once  *)
(* a revocation of the session or of an ancestor has returned, a call that *)
(* was not charged yet is never charged and never reaches the upstream,    *)
(* even if it was authenticated before.                                    *)
(***************************************************************************)
RevocationStopsCalls == revokedEarly \cap (charged \cup executed) = {}

\* The budget the broker started with.
InitialBudget(s) == Budget(InitialSessions, s)

(***************************************************************************)
(* session.rs:123 "Decremented atomically on each allowed brokered         *)
(* request": concurrent calls, failures and restarts included, a session   *)
(* reaches the upstream no more often than its budget, and what it has     *)
(* left accounts for every call it was charged.                            *)
(***************************************************************************)
ExecutionsWithinBudget ==
  \A s \in SessionIds : sessions[s] # None /\ InitialBudget(s) # None =>
    /\ Budget(sessions, s) + Cardinality({c \in charged : req[c].token = s}) = InitialBudget(s)
    /\ Cardinality({c \in executed : req[c].token = s}) <= InitialBudget(s)

(***************************************************************************)
(* SECURITY.md:70 "denies a repeated (session, caller-supplied request id) *)
(* pair within a 10-minute window before any side effect": two calls with  *)
(* one pair are both charged or executed only in different windows of that *)
(* pair.                                                                   *)
(***************************************************************************)
OneEffectPerWindow ==
  \A c, d \in charged \cup executed :
    c # d /\ req[c].request_id # None /\ Key(c) = Key(d) => window[c] # window[d]

(***************************************************************************)
(* engine.rs:749 "the session's own constraint set can only further narrow *)
(* what this token may touch, never widen it": whatever reaches the        *)
(* upstream was allowed by policy and lies within the authority of the     *)
(* session and of every session it descends from.                          *)
(***************************************************************************)
ExecutedWithinAuthority ==
  \A c \in executed :
    /\ req[c].shape.policy /\ req[c].shape.egress
    /\ \A s \in {req[c].token} \cup Ancestors(sessions, req[c].token) :
         req[c].shape.target \in Authority(sessions, s)

(***************************************************************************)
(* Every submitted call is answered, unless the broker dies under it.      *)
(***************************************************************************)
EveryCallAnswered ==
  \A c \in Calls : pc[c] = "authenticate" ~> pc[c] \in {"done", "lost"}

(***************************************************************************)
(* What reaches the upstream was permitted: within the authority and the   *)
(* budget of its session, whatever ran beside it.                          *)
(***************************************************************************)
ExecutionsPermitted == TypeOK /\ ExecutedWithinAuthority /\ ExecutionsWithinBudget
===============================================================================
