--------------------------- MODULE BrokerEngineProofs ---------------------------
(***************************************************************************)
(* Proofs about BrokerEngine: for any number of calls, sessions, request   *)
(* ids and restarts, what the pipeline promises while calls, revocations   *)
(* and crashes interleave. And about BrokerRedaction, for bodies and       *)
(* reasons of any length: what the pipeline takes out of what it passes    *)
(* on.                                                                     *)
(***************************************************************************)
EXTENDS BrokerEngine, SessionRecordsProofs, FiniteSetTheorems, BrokerRedaction

-------------------------------------------------------------------------------
(* The inductive invariant, by concern.                                    *)

Submitted == [token : SessionIds, request_id : Option(RequestIds), shape : Shapes]

\* Where a call is tells what has been decided about it.
Progress ==
  \A c \in Calls :
    /\ pc[c] # "idle" => req[c] \in Submitted
    /\ pc[c] = "audit" => verdict[c] \in Verdicts
    /\ pc[c] \in {"replay", "decide"} => record[c] \in Record
    /\ pc[c] \in {"resolve", "send"} => c \in charged
    /\ c \in charged \cup revokedEarly => pc[c] # "idle"
    /\ c \in charged => pc[c] \notin BeforeCharge
    /\ c \in executed => c \in charged

\* A call has no event before its append, and one at most afterwards.
EventsInv ==
  \A c \in Calls :
    /\ pc[c] \in {"idle"} \cup (InFlight \ {"respond"}) =>
         EventsOf(c) = {} /\ response[c] = None
    /\ \A i, j \in EventsOf(c) : i = j
    /\ response[c] \notin {None, "audit_write_failed"} =>
         \E i \in EventsOf(c) : audit[i].verdict = response[c]

\* A call that was caught by a revocation has a revoked chain for good.
RevokedInv ==
  \A c \in revokedEarly : c \notin charged /\ Revoked(sessions, req[c].token)

\* Calls past the replay stage that named a request id.
Registered ==
  {c \in Calls : /\ c \in charged \/ pc[c] \in {"decide", "charge"}
                 /\ req[c].request_id # None}

\* A registered call holds its own window of its pair, and the current window
\* only while the cache still refuses the pair.
WindowInv ==
  /\ \A c \in Registered : /\ window[c] \in 0..windows[Key(c)]
                           /\ window[c] = windows[Key(c)] => Key(c) \in seen
  /\ \A c, d \in Registered : c # d /\ Key(c) = Key(d) => window[c] # window[d]

\* The requests a record allows, its budget aside.
RecordAuthority(r) ==
  IF r.constraints = None THEN Requests
  ELSE {q \in Requests : check_request(r.constraints, q)}

\* The store still says of a session what the record read in stage 2 said, and
\* a call past the pure stages is within it.
AuthorityInv ==
  /\ \A s \in SessionIds : sessions[s] # None /\ sessions[s].parent # None =>
       /\ sessions[sessions[s].parent] # None
       /\ Authority(sessions, s) \subseteq Authority(sessions, sessions[s].parent)
  /\ \A c \in Calls :
       /\ pc[c] \in {"replay", "decide"} =>
            /\ sessions[req[c].token] # None
            /\ RecordAuthority(record[c]) = Authority(sessions, req[c].token)
       /\ pc[c] = "charge" \/ c \in charged =>
            /\ sessions[req[c].token] # None
            /\ req[c].shape.policy /\ req[c].shape.egress
            /\ req[c].shape.target \in Authority(sessions, req[c].token)

ChargedTo(s) == {c \in charged : req[c].token = s}

\* What a budget has lost is what its session was charged.
BudgetInv ==
  /\ IsFiniteSet(charged)
  /\ \A s \in SessionIds :
       /\ sessions[s] = None <=> InitialSessions[s] = None
       /\ sessions[s] # None =>
            /\ InitialBudget(s) = None <=> Budget(sessions, s) = None
            /\ InitialBudget(s) # None =>
                 /\ Budget(sessions, s) \in Nat
                 /\ Budget(sessions, s) + Cardinality(ChargedTo(s)) = InitialBudget(s)

IInv ==
  TypeOK /\ Progress /\ EventsInv /\ RevokedInv /\ WindowInv /\ AuthorityInv /\ BudgetInv

-------------------------------------------------------------------------------
(* What the steps do to the session store.                                 *)

\* The store after one allowed request has been written off.
LEMMA ChargeStores ==
  ASSUME NEW ss \in Maps, NEW s \in SessionIds, NEW now \in Secs,
         consume_verdict(ss, s, now) = "ok",
         NEW tt, tt = IF Budget(ss, s) = None THEN ss ELSE consume_in(ss, s)
  PROVE  /\ ss[s] # None /\ ~Revoked(ss, s)
         /\ tt \in Maps
         /\ \A x \in SessionIds : Kept(ss, tt, x)
         /\ \A x \in SessionIds \ {s} : tt[x] = ss[x]
         /\ Budget(ss, s) = None => tt = ss
         /\ Budget(ss, s) # None => /\ Budget(ss, s) \in Nat \ {0}
                                    /\ Budget(tt, s) = Budget(ss, s) - 1
<1>1. ss[s] # None /\ Live(ss, s, now)
  BY DEF consume_verdict, validate
<1>2. ~Revoked(ss, s)
  BY <1>1 DEF Revoked, Live, ancestors_live, is_dead
<1>3. CASE Budget(ss, s) = None
  BY <1>1, <1>2, <1>3 DEF Kept
<1>4. CASE Budget(ss, s) # None
  BY <1>1, <1>2, <1>4, ConsumeType, ConsumeKeeps
<1> QED BY <1>3, <1>4

\* The store after a revocation.
LEMMA RevokeStores ==
  ASSUME NEW ss \in Maps, NEW s \in SessionIds, ss[s] # None
  PROVE  /\ revoke_in(ss, s) \in Maps
         /\ \A x \in SessionIds : Kept(ss, revoke_in(ss, s), x)
         /\ \A x \in SessionIds : revoke_in(ss, s)[x] = None <=> ss[x] = None
         /\ \A x \in SessionIds : ss[x] # None => Budget(revoke_in(ss, s), x) = Budget(ss, x)
<1>1. ss[s] \in Record
  BY DEF Maps, Option
<1>2. [ss[s] EXCEPT !.revoked = TRUE] \in Record
  BY <1>1 DEF Record
<1>3. /\ revoke_in(ss, s) \in Maps
      /\ \A x \in SessionIds : revoke_in(ss, s)[x] = None <=> ss[x] = None
  BY <1>1, <1>2, NoneIsNoRecord DEF Maps, Option, revoke_in
<1>4. \A x \in SessionIds : ss[x] # None => Budget(revoke_in(ss, s), x) = Budget(ss, x)
  BY <1>1 DEF Maps, revoke_in, Budget, Record
<1> QED BY <1>3, <1>4, RevokeKeeps

\* A revoked chain stays revoked while records are kept.
LEMMA RevokedStays ==
  ASSUME NEW ss \in Maps, NEW tt, NEW s \in SessionIds, Revoked(ss, s),
         \A x \in SessionIds : Kept(ss, tt, x)
  PROVE  Revoked(tt, s)
<1>1. Ancestors(ss, s) \subseteq Ancestors(tt, s) /\ Ancestors(ss, s) \subseteq SessionIds
  BY AncestorsKept DEF Revoked, Ancestors
<1> QED BY <1>1 DEF Revoked, Kept

-------------------------------------------------------------------------------
(* Each step keeps each part of the invariant.                             *)

\* A step only adds to the store's records what Kept allows.
LEMMA StepKeepsRecords ==
  ASSUME TypeOK, Progress, [Next]_vars
  PROVE  /\ sessions' \in Maps
         /\ \A x \in SessionIds : Kept(sessions, sessions', x)
<1>1. sessions \in Maps
  BY DEF TypeOK, Maps
<1>2. CASE sessions' = sessions
  BY <1>1, <1>2 DEF Kept
<1>3. ASSUME NEW c \in Calls, NEW now \in Secs, Charge(c, now), sessions' # sessions
      PROVE  /\ sessions' \in Maps
             /\ \A x \in SessionIds : Kept(sessions, sessions', x)
  <2>1. req[c].token \in SessionIds
    BY <1>3 DEF Charge, Progress, Submitted
  <2>2. /\ consume_verdict(sessions, req[c].token, now) = "ok"
        /\ sessions' = IF Budget(sessions, req[c].token) = None THEN sessions
                       ELSE consume_in(sessions, req[c].token)
    BY <1>3 DEF Charge
  <2> QED BY <1>1, <2>1, <2>2, ChargeStores
<1>4. ASSUME NEW s \in SessionIds, RevokeSession(s)
      PROVE  /\ sessions' \in Maps
             /\ \A x \in SessionIds : Kept(sessions, sessions', x)
  BY <1>1, <1>4, RevokeStores DEF RevokeSession
<1>5. CASE UNCHANGED vars
  BY <1>2, <1>5 DEF vars
<1>6. ASSUME NEW c \in Calls, Stage(c)
      PROVE  /\ sessions' \in Maps
             /\ \A x \in SessionIds : Kept(sessions, sessions', x)
  BY <1>2, <1>3, <1>6 DEF Stage, Authenticate, ReplayGuard, Judge, ResolveAndInject, Execute,
                          AuditAppend, Deliver
<1>7. ASSUME NEW c \in Calls, NEW token \in SessionIds, NEW request_id \in Option(RequestIds),
             NEW shape \in Shapes, Submit(c, token, request_id, shape)
      PROVE  sessions' = sessions
  BY <1>7 DEF Submit
<1>8. ASSUME NEW k \in SessionIds \X RequestIds, Forget(k)
      PROVE  sessions' = sessions
  BY <1>8 DEF Forget
<1>9. CASE Crash
  BY <1>2, <1>9 DEF Crash
<1> QED BY <1>2, <1>4, <1>5, <1>6, <1>7, <1>8, <1>9 DEF Next


\* Every step keeps the variables in their sets.
LEMMA TypeStep ==
  ASSUME TypeOK, Progress, [Next]_vars
  PROVE  TypeOK'
<1>1. sessions' \in [SessionIds -> Option(Record)]
  BY StepKeepsRecords DEF Maps
<1> USE DEF TypeOK, Continue, Decide, Verdicts, Option
<1>2. ASSUME NEW c \in Calls, NEW token \in SessionIds, NEW request_id \in Option(RequestIds),
             NEW shape \in Shapes, Submit(c, token, request_id, shape)
      PROVE  TypeOK'
  BY <1>1, <1>2 DEF Submit, InFlight, BeforeCharge
<1>3. ASSUME NEW c \in Calls, NEW now \in Secs, Authenticate(c, now)
      PROVE  TypeOK'
  <2>1. req[c].token \in SessionIds
    BY <1>3 DEF Authenticate, Progress, Submitted
  <2>2. record' \in [Calls -> Option(Record)]
    BY <1>3, <2>1 DEF Authenticate
  <2>3. /\ pc' \in [Calls -> InFlight \cup {"idle", "done", "lost"}]
        /\ verdict' \in [Calls -> Option(Verdicts)]
    BY <1>3 DEF Authenticate, InFlight, BeforeCharge
  <2> QED BY <1>1, <1>3, <2>2, <2>3 DEF Authenticate
<1>4. ASSUME NEW c \in Calls, ReplayGuard(c)
      PROVE  TypeOK'
  <2>1. req[c].request_id # None => Key(c) \in SessionIds \X RequestIds
    BY <1>4 DEF ReplayGuard, Progress, Submitted, Key
  <2>2. /\ seen' \subseteq SessionIds \X RequestIds
        /\ window' \in [Calls -> Option(0..MaxForgets)]
    BY <1>4, <2>1 DEF ReplayGuard
  <2>3. /\ pc' \in [Calls -> InFlight \cup {"idle", "done", "lost"}]
        /\ verdict' \in [Calls -> Option(Verdicts)]
    BY <1>4 DEF ReplayGuard, InFlight, BeforeCharge
  <2> QED BY <1>1, <1>4, <2>2, <2>3 DEF ReplayGuard
<1>5. ASSUME NEW c \in Calls, Judge(c)
      PROVE  TypeOK'
  <2>1. PureStages(c) = "ok" \/ PureStages(c) \in Verdicts
    BY DEF PureStages
  <2> QED BY <1>1, <1>5, <2>1 DEF Judge, InFlight, BeforeCharge
<1>6. ASSUME NEW c \in Calls, NEW now \in Secs, Charge(c, now)
      PROVE  TypeOK'
  <2>1. /\ pc' \in [Calls -> InFlight \cup {"idle", "done", "lost"}]
        /\ verdict' \in [Calls -> Option(Verdicts)]
        /\ charged' \subseteq Calls
    BY <1>6 DEF Charge, InFlight, BeforeCharge
  <2> QED BY <1>1, <1>6, <2>1 DEF Charge
<1>7. ASSUME NEW c \in Calls, ResolveAndInject(c)
      PROVE  TypeOK'
  BY <1>1, <1>7 DEF ResolveAndInject, InFlight, BeforeCharge
<1>8. ASSUME NEW c \in Calls, Execute(c)
      PROVE  TypeOK'
  BY <1>1, <1>8 DEF Execute, InFlight, BeforeCharge
<1>9. ASSUME NEW c \in Calls, AuditAppend(c)
      PROVE  TypeOK'
  <2>1. Event(c) \in [call : Calls, verdict : Verdicts]
    BY <1>9 DEF AuditAppend, Progress, Event
  <2>2. verdict[c] \in Verdicts
    BY <1>9 DEF AuditAppend, Progress
  <2>3. audit' \in Seq([call : Calls, verdict : Verdicts])
    <3>1. audit' = audit \/ audit' = Append(audit, Event(c))
      BY <1>9 DEF AuditAppend
    <3> DEFINE Events == [call : Calls, verdict : Verdicts]
    <3>2. audit \in Seq(Events) /\ Event(c) \in Events
      BY <2>1
    <3> HIDE DEF Events
    <3>3. audit' \in Seq(Events)
      BY <3>1, <3>2
    <3> QED BY <3>3 DEF Events
  <2>4. /\ auditOk' \in BOOLEAN
        /\ response' \in [Calls -> Option(Verdicts \cup {"audit_write_failed"})]
        /\ pc' \in [Calls -> InFlight \cup {"idle", "done", "lost"}]
    BY <1>9, <2>2 DEF AuditAppend, InFlight, BeforeCharge
  <2> QED BY <1>1, <1>9, <2>3, <2>4 DEF AuditAppend
<1>10. ASSUME NEW c \in Calls, Deliver(c)
       PROVE  TypeOK'
  BY <1>1, <1>10 DEF Deliver
<1>11. ASSUME NEW s \in SessionIds, RevokeSession(s)
       PROVE  TypeOK'
  BY <1>1, <1>11 DEF RevokeSession
<1>12. ASSUME NEW k \in SessionIds \X RequestIds, Forget(k)
       PROVE  TypeOK'
  <2>1. windows' \in [SessionIds \X RequestIds -> 0..MaxForgets]
    BY <1>12, MaxForgetsIsNat DEF Forget
  <2> QED BY <1>1, <1>12, <2>1 DEF Forget
<1>13. CASE Crash
  <2>1. windows' \in [SessionIds \X RequestIds -> 0..MaxForgets]
    BY <1>13, MaxForgetsIsNat DEF Crash
  <2>2. pc' \in [Calls -> InFlight \cup {"idle", "done", "lost"}]
    BY <1>13 DEF Crash
  <2> QED BY <1>1, <1>13, <2>1, <2>2 DEF Crash
<1>14. CASE UNCHANGED vars
  BY <1>14 DEF vars
<1> QED
  BY <1>2, <1>3, <1>4, <1>5, <1>6, <1>7, <1>8, <1>9, <1>10, <1>11, <1>12, <1>13, <1>14
  DEF Next, Stage
\* Every step keeps what the stage of a call tells about it.
LEMMA ProgressStep ==
  ASSUME TypeOK, Progress, [Next]_vars
  PROVE  Progress'
<1> USE DEF Progress, Continue, Decide, BeforeCharge
<1>1. pc \in [Calls -> InFlight \cup {"idle", "done", "lost"}]
  BY DEF TypeOK
<1>a. /\ req \in [Calls -> Option(Submitted)] /\ record \in [Calls -> Option(Record)]
      /\ verdict \in [Calls -> Option(Verdicts)]
      /\ charged \subseteq Calls /\ executed \subseteq Calls /\ revokedEarly \subseteq Calls
  BY DEF TypeOK, Submitted
<1>2. ASSUME NEW c \in Calls, NEW token \in SessionIds, NEW request_id \in Option(RequestIds),
             NEW shape \in Shapes, Submit(c, token, request_id, shape)
      PROVE  Progress'
  BY <1>1, <1>a, <1>2 DEF Submit, Submitted
<1>3. ASSUME NEW c \in Calls, NEW now \in Secs, Authenticate(c, now)
      PROVE  Progress'
  <2>1. req[c].token \in SessionIds
    BY <1>3 DEF Authenticate, Submitted
  <2>2. validate(sessions, req[c].token, now) = "ok" => sessions[req[c].token] \in Record
    BY <2>1 DEF validate, TypeOK, Option
  <2> QED BY <1>1, <1>a, <1>3, <2>2 DEF Authenticate, Verdicts
<1>4. ASSUME NEW c \in Calls, ReplayGuard(c)
      PROVE  Progress'
  BY <1>1, <1>a, <1>4 DEF ReplayGuard, Verdicts
<1>5. ASSUME NEW c \in Calls, Judge(c)
      PROVE  Progress'
  <2>1. PureStages(c) = "ok" \/ PureStages(c) \in Verdicts
    BY DEF PureStages, Verdicts
  <2> QED BY <1>1, <1>a, <1>5, <2>1 DEF Judge
<1>6. ASSUME NEW c \in Calls, NEW now \in Secs, Charge(c, now)
      PROVE  Progress'
  BY <1>1, <1>a, <1>6 DEF Charge, Verdicts
<1>7. ASSUME NEW c \in Calls, ResolveAndInject(c)
      PROVE  Progress'
  BY <1>1, <1>a, <1>7 DEF ResolveAndInject, Verdicts
<1>8. ASSUME NEW c \in Calls, Execute(c)
      PROVE  Progress'
  BY <1>1, <1>a, <1>8 DEF Execute, Verdicts
<1>9. ASSUME NEW c \in Calls, AuditAppend(c)
      PROVE  Progress'
  BY <1>1, <1>a, <1>9 DEF AuditAppend
<1>10. ASSUME NEW c \in Calls, Deliver(c)
       PROVE  Progress'
  BY <1>1, <1>a, <1>10 DEF Deliver
<1>11. ASSUME NEW s \in SessionIds, RevokeSession(s)
       PROVE  Progress'
  BY <1>1, <1>a, <1>11 DEF RevokeSession
<1>12. ASSUME NEW k \in SessionIds \X RequestIds, Forget(k)
       PROVE  Progress'
  BY <1>12 DEF Forget
<1>13. CASE Crash
  BY <1>1, <1>a, <1>13 DEF Crash, InFlight
<1>14. CASE UNCHANGED vars
  BY <1>14 DEF vars
<1> QED
  BY <1>2, <1>3, <1>4, <1>5, <1>6, <1>7, <1>8, <1>9, <1>10, <1>11, <1>12, <1>13, <1>14
  DEF Next, Stage

\* Only an append touches the log, and it adds the one event of its call.
LEMMA EventsStep ==
  ASSUME TypeOK, Progress, EventsInv, [Next]_vars
  PROVE  EventsInv'
<1>1. /\ pc \in [Calls -> InFlight \cup {"idle", "done", "lost"}]
      /\ response \in [Calls -> Option(Verdicts \cup {"audit_write_failed"})]
  BY DEF TypeOK
<1>2. ASSUME UNCHANGED <<audit, response>>,
             \A c \in Calls : pc'[c] \in {"idle"} \cup (InFlight \ {"respond"}) =>
                                pc[c] \in {"idle"} \cup (InFlight \ {"respond"})
      PROVE  EventsInv'
  <2>1. \A c \in Calls : EventsOf(c)' = EventsOf(c)
    BY <1>2 DEF EventsOf
  <2> QED BY <1>2, <2>1 DEF EventsInv
<1>3. ASSUME NEW c \in Calls, AuditAppend(c)
      PROVE  EventsInv'
  <2>1. /\ EventsOf(c) = {} /\ response[c] = None
        /\ \A d \in Calls : pc'[d] = IF d = c THEN "respond" ELSE pc[d]
    BY <1>1, <1>3 DEF AuditAppend, EventsInv, InFlight, BeforeCharge
  <2>2. audit \in Seq([call : Calls, verdict : Verdicts])
    BY DEF TypeOK
  <2>3. CASE audit' = Append(audit, Event(c))
    <3>1. /\ EventsOf(c)' = {Len(audit) + 1}
          /\ audit'[Len(audit) + 1] = Event(c)
          /\ \A d \in Calls \ {c} : EventsOf(d)' = EventsOf(d)
          /\ \A i \in 1..Len(audit) : audit'[i] = audit[i]
      <4>1. /\ Len(audit) \in Nat /\ Len(audit') = Len(audit) + 1
            /\ audit'[Len(audit) + 1] = Event(c)
            /\ \A i \in 1..Len(audit) : audit'[i] = audit[i]
        BY <2>2, <2>3
      <4>2. Event(c).call = c
        BY DEF Event
      <4> QED BY <2>1, <4>1, <4>2 DEF EventsOf
    <3>2. \A d \in Calls : response'[d] = IF d # c THEN response[d]
                                           ELSE IF response'[c] = "audit_write_failed"
                                                THEN "audit_write_failed" ELSE Event(c).verdict
      BY <1>1, <1>3 DEF AuditAppend, Event
    <3>3. \A d \in Calls : EventsOf(d) \subseteq 1..Len(audit)
      BY DEF EventsOf
    <3> QED BY <2>1, <3>1, <3>2, <3>3 DEF EventsInv
  <2>4. CASE audit' = audit
    <3>1. \A d \in Calls : EventsOf(d)' = EventsOf(d)
      BY <2>4 DEF EventsOf
    <3>2. \A d \in Calls : response'[d] = IF d = c THEN "audit_write_failed" ELSE response[d]
      <4>1. audit # Append(audit, Event(c))
        BY <2>2
      <4> QED BY <1>1, <1>3, <2>4, <4>1 DEF AuditAppend
    <3> QED BY <2>1, <2>4, <3>1, <3>2 DEF EventsInv
  <2> QED BY <1>3, <2>3, <2>4 DEF AuditAppend
<1>4. ASSUME NEW c \in Calls, NEW token \in SessionIds, NEW request_id \in Option(RequestIds),
             NEW shape \in Shapes, Submit(c, token, request_id, shape)
      PROVE  EventsInv'
  BY <1>1, <1>2, <1>4 DEF Submit
<1>5. ASSUME NEW c \in Calls, Stage(c), ~AuditAppend(c)
      PROVE  EventsInv'
  <2>1. /\ UNCHANGED <<audit, response>>
        /\ pc[c] \in InFlight
        /\ pc[c] = "respond" => pc'[c] = "done"
        /\ \A d \in Calls \ {c} : pc'[d] = pc[d]
    BY <1>1, <1>5 DEF Stage, Authenticate, Charge, ReplayGuard, Judge, ResolveAndInject,
                      Execute, Deliver, Continue, Decide, InFlight, BeforeCharge
  <2>2. "done" \notin {"idle"} \cup InFlight
    BY DEF InFlight, BeforeCharge
  <2> QED BY <1>2, <2>1, <2>2
<1>6. ASSUME NEW s \in SessionIds, RevokeSession(s)
      PROVE  EventsInv'
  BY <1>2, <1>6 DEF RevokeSession
<1>7. ASSUME NEW k \in SessionIds \X RequestIds, Forget(k)
      PROVE  EventsInv'
  BY <1>2, <1>7 DEF Forget
<1>8. CASE Crash
  <2>1. "lost" \notin {"idle"} \cup InFlight
    BY DEF InFlight, BeforeCharge
  <2>2. /\ UNCHANGED <<audit, response>>
        /\ \A c \in Calls : pc'[c] = IF pc[c] \in InFlight THEN "lost" ELSE pc[c]
    BY <1>8 DEF Crash
  <2> QED BY <1>2, <2>1, <2>2
<1>9. CASE UNCHANGED vars
  BY <1>2, <1>9 DEF vars
<1> QED BY <1>3, <1>4, <1>5, <1>6, <1>7, <1>8, <1>9 DEF Next
\* A call caught by a revocation is never charged: the charge re-checks the
\* chain, and a chain that was revoked stays revoked.
LEMMA RevokedStep ==
  ASSUME TypeOK, Progress, RevokedInv, [Next]_vars
  PROVE  RevokedInv'
<1>1. /\ sessions \in Maps
      /\ \A x \in SessionIds : Kept(sessions, sessions', x)
  BY StepKeepsRecords DEF TypeOK, Maps
<1>2. \A c \in revokedEarly : c \in Calls /\ req[c] \in Submitted /\ req[c].token \in SessionIds
  BY DEF TypeOK, Progress, Submitted
<1>3. ASSUME revokedEarly' = revokedEarly, charged' = charged, UNCHANGED req
      PROVE  RevokedInv'
  BY <1>1, <1>2, <1>3, RevokedStays DEF RevokedInv
<1>4. ASSUME NEW c \in Calls, NEW token \in SessionIds, NEW request_id \in Option(RequestIds),
             NEW shape \in Shapes, Submit(c, token, request_id, shape)
      PROVE  RevokedInv'
  <2>1. /\ req'[c].token = token /\ c \notin charged \cup revokedEarly
        /\ \A d \in Calls \ {c} : req'[d] = req[d]
    BY <1>4 DEF Submit, TypeOK, Progress
  <2>2. /\ sessions' = sessions /\ charged' = charged
        /\ revokedEarly' = IF Revoked(sessions, token) THEN revokedEarly \cup {c} ELSE revokedEarly
    BY <1>4 DEF Submit
  <2> QED BY <1>2, <2>1, <2>2 DEF RevokedInv
<1>5. ASSUME NEW c \in Calls, NEW now \in Secs, Charge(c, now)
      PROVE  RevokedInv'
  <2>1. revokedEarly' = revokedEarly /\ UNCHANGED req
    BY <1>5 DEF Charge
  <2>2. CASE charged' = charged
    BY <1>3, <2>1, <2>2
  <2>3. CASE charged' # charged
    <3>1. consume_verdict(sessions, req[c].token, now) = "ok" /\ charged' = charged \cup {c}
      BY <1>5, <2>3 DEF Charge
    <3>2. req[c].token \in SessionIds
      BY <1>5 DEF Charge, Progress, Submitted
    <3>3. ~Revoked(sessions, req[c].token)
      BY <1>1, <3>1, <3>2, ChargeStores
    <3> QED BY <1>1, <1>2, <2>1, <3>1, <3>3, RevokedStays DEF RevokedInv
  <2> QED BY <2>2, <2>3
<1>6. ASSUME NEW c \in Calls, Stage(c)
      PROVE  RevokedInv'
  BY <1>3, <1>5, <1>6 DEF Stage, Authenticate, ReplayGuard, Judge, ResolveAndInject,
                          Execute, AuditAppend, Deliver
<1>7. ASSUME NEW s \in SessionIds, RevokeSession(s)
      PROVE  RevokedInv'
  <2>1. /\ charged' = charged /\ req' = req
        /\ \A c \in revokedEarly' : c \in revokedEarly
             \/ (c \in Calls /\ pc[c] \in BeforeCharge /\ Revoked(sessions', req[c].token))
    BY <1>7 DEF RevokeSession
  <2>2. \A c \in Calls : pc[c] \in BeforeCharge => c \notin charged
    BY DEF Progress
  <2> QED BY <1>1, <1>2, <2>1, <2>2, RevokedStays DEF RevokedInv
<1>8. ASSUME NEW k \in SessionIds \X RequestIds, Forget(k)
      PROVE  RevokedInv'
  BY <1>3, <1>8 DEF Forget
<1>9. CASE Crash
  BY <1>3, <1>9 DEF Crash
<1>10. CASE UNCHANGED vars
  BY <1>3, <1>10 DEF vars
<1> QED BY <1>4, <1>6, <1>7, <1>8, <1>9, <1>10 DEF Next

\* A pair is registered only while the cache does not hold it, and the cache
\* forgets a pair only by ending its window.
LEMMA WindowStep ==
  ASSUME TypeOK, Progress, WindowInv, [Next]_vars
  PROVE  WindowInv'
<1>1. /\ pc \in [Calls -> InFlight \cup {"idle", "done", "lost"}]
      /\ windows \in [SessionIds \X RequestIds -> Nat]
      /\ charged \subseteq Calls /\ window \in [Calls -> Option(0..MaxForgets)]
  BY MaxForgetsIsNat DEF TypeOK
<1>2. \A c \in Registered : c \in Calls /\ Key(c) \in SessionIds \X RequestIds
  BY DEF Registered, Progress, BeforeCharge, Submitted, Option, Key
\* Fewer registered calls, and nothing else changed.
<1>3. ASSUME UNCHANGED <<req, seen, windows, window>>, Registered' \subseteq Registered
      PROVE  WindowInv'
  <2>1. \A c \in Calls : Key(c)' = Key(c)
    BY <1>3 DEF Key
  <2> QED BY <1>2, <1>3, <2>1 DEF WindowInv
\* The pairs in G lose their window.
<1>4. ASSUME NEW G, UNCHANGED <<req, window>>, Registered' \subseteq Registered,
             seen' = seen \ G, G \subseteq seen,
             \A k \in SessionIds \X RequestIds :
               windows'[k] = IF k \in G THEN windows[k] + 1 ELSE windows[k]
      PROVE  WindowInv'
  <2>1. \A c \in Calls : Key(c)' = Key(c)
    BY <1>4 DEF Key
  <2>2. ASSUME NEW c \in Registered'
        PROVE  /\ window'[c] \in 0..windows'[Key(c)']
               /\ window'[c] = windows'[Key(c)'] => Key(c)' \in seen'
    <3>1. /\ c \in Registered /\ Key(c)' = Key(c) /\ window'[c] = window[c]
          /\ Key(c) \in SessionIds \X RequestIds
      BY <1>2, <1>4, <2>1, <2>2
    <3>2. /\ window[c] \in 0..windows[Key(c)] /\ windows[Key(c)] \in Nat
          /\ window[c] = windows[Key(c)] => Key(c) \in seen
      BY <1>1, <3>1 DEF WindowInv
    <3> QED BY <1>4, <3>1, <3>2
  <2> QED BY <1>2, <1>4, <2>1, <2>2 DEF WindowInv
<1>5. ASSUME NEW c \in Calls, ReplayGuard(c)
      PROVE  WindowInv'
  <2>1. /\ UNCHANGED <<req, windows, charged>> /\ c \notin charged
        /\ \A d \in Calls : Key(d)' = Key(d)
        /\ \A d \in Calls \ {c} : pc'[d] = pc[d]
    BY <1>1, <1>5 DEF ReplayGuard, Continue, Decide, Key, Progress, BeforeCharge
  <2>2. \A d \in Calls \ {c} : d \in Registered' <=> d \in Registered
    BY <2>1 DEF Registered
  <2>3. CASE req[c].request_id = None \/ Key(c) \in seen
    <3>1. UNCHANGED <<seen, window>>
      BY <1>5, <2>3 DEF ReplayGuard
    <3>2. c \notin Registered'
      BY <1>1, <1>5, <2>1, <2>3 DEF ReplayGuard, Registered, Decide
    <3>3. Registered' \subseteq Calls
      BY DEF Registered
    <3> QED BY <1>3, <2>1, <2>2, <3>1, <3>2, <3>3
  <2>4. CASE req[c].request_id # None /\ Key(c) \notin seen
    <3>1. /\ seen' = seen \cup {Key(c)} /\ window' = [window EXCEPT ![c] = windows[Key(c)]]
      BY <1>5, <2>4 DEF ReplayGuard
    <3>2. Key(c) \in SessionIds \X RequestIds
      BY <1>5, <2>4 DEF ReplayGuard, Progress, Submitted, Option, Key
    <3>3. /\ window'[c] = windows[Key(c)] /\ windows[Key(c)] \in Nat
          /\ \A d \in Calls \ {c} : window'[d] = window[d]
      BY <1>1, <3>1, <3>2
    <3>4. \A d \in Registered : Key(d) = Key(c) => window[d] # windows[Key(c)]
      BY <2>4 DEF WindowInv
    <3>5. Registered' \subseteq Calls
      BY DEF Registered
    <3>6. \A d \in Registered' : /\ window'[d] \in 0..windows'[Key(d)']
                                 /\ window'[d] = windows'[Key(d)'] => Key(d)' \in seen'
      BY <2>1, <2>2, <3>1, <3>3, <3>5 DEF WindowInv
    <3>7. \A d, e \in Registered' : d # e /\ Key(d)' = Key(e)' => window'[d] # window'[e]
      BY <2>1, <2>2, <3>3, <3>4, <3>5 DEF WindowInv
    <3> QED BY <3>6, <3>7 DEF WindowInv
  <2> QED BY <2>3, <2>4
<1>6. ASSUME NEW c \in Calls, NEW token \in SessionIds, NEW request_id \in Option(RequestIds),
             NEW shape \in Shapes, Submit(c, token, request_id, shape)
      PROVE  WindowInv'
  <2>1. /\ UNCHANGED <<seen, windows, window, charged>> /\ c \notin charged
        /\ pc'[c] = "authenticate"
        /\ \A d \in Calls \ {c} : pc'[d] = pc[d] /\ req'[d] = req[d]
    BY <1>1, <1>6 DEF Submit, Progress, TypeOK
  <2>2. /\ c \notin Registered' /\ Registered' \subseteq Calls
        /\ \A d \in Calls \ {c} : /\ d \in Registered' <=> d \in Registered
                                  /\ Key(d)' = Key(d)
    BY <2>1 DEF Registered, Key
  <2> QED BY <2>1, <2>2 DEF WindowInv
<1>7. ASSUME NEW c \in Calls, Stage(c), ~ReplayGuard(c)
      PROVE  WindowInv'
  <2>1. /\ UNCHANGED <<req, seen, windows, window>>
        /\ \A d \in Calls \ {c} : pc'[d] = pc[d] /\ (d \in charged' => d \in charged)
        /\ pc'[c] \in {"decide", "charge"} => pc[c] \in {"decide", "charge"}
        /\ c \in charged' => c \in charged \/ pc[c] \in {"decide", "charge"}
    BY <1>1, <1>7 DEF Stage, Authenticate, Charge, Judge, ResolveAndInject, Execute,
                      AuditAppend, Deliver, Continue, Decide
  <2>2. Registered' \subseteq Registered
    BY <2>1 DEF Registered
  <2> QED BY <1>3, <2>1, <2>2
<1>8. ASSUME NEW s \in SessionIds, RevokeSession(s)
      PROVE  WindowInv'
  BY <1>3, <1>8 DEF RevokeSession, Registered
<1>9. ASSUME NEW k \in SessionIds \X RequestIds, Forget(k)
      PROVE  WindowInv'
  <2>1. Registered' = Registered
    BY <1>9 DEF Forget, Registered
  <2>2. /\ UNCHANGED <<req, window>> /\ seen' = seen \ {k} /\ {k} \subseteq seen
        /\ \A x \in SessionIds \X RequestIds :
             windows'[x] = IF x \in {k} THEN windows[x] + 1 ELSE windows[x]
    BY <1>1, <1>9 DEF Forget
  <2> QED BY <1>4, <2>1, <2>2
<1>10. CASE Crash
  <2>1. Registered' \subseteq Registered
    BY <1>1, <1>10 DEF Crash, Registered, InFlight, BeforeCharge
  <2>2. /\ UNCHANGED <<req, window>> /\ seen' = seen \ seen /\ seen \subseteq seen
        /\ \A x \in SessionIds \X RequestIds :
             windows'[x] = IF x \in seen THEN windows[x] + 1 ELSE windows[x]
    BY <1>1, <1>10 DEF Crash
  <2> QED BY <1>4, <2>1, <2>2
<1>11. CASE UNCHANGED vars
  BY <1>3, <1>11 DEF vars, Registered
<1> QED BY <1>5, <1>6, <1>7, <1>8, <1>9, <1>10, <1>11 DEF Next
\* No step widens or drops the authority a call was judged by, and only calls
\* that passed the pure stages get past them.
LEMMA AuthorityStep ==
  ASSUME TypeOK, Progress, AuthorityInv, [Next]_vars
  PROVE  AuthorityInv'
<1>1. /\ sessions \in Maps
      /\ \A x \in SessionIds : Kept(sessions, sessions', x)
  BY StepKeepsRecords DEF TypeOK, Maps
<1>2. /\ pc \in [Calls -> InFlight \cup {"idle", "done", "lost"}]
      /\ charged \subseteq Calls
      /\ record \in [Calls -> Option(Record)]
      /\ req \in [Calls -> Option(Submitted)]
  BY DEF TypeOK, Submitted
<1>3. \A c \in Calls : pc[c] # "idle" => req[c].token \in SessionIds
  BY DEF Progress, Submitted
<1> DEFINE Contained == \A s \in SessionIds : sessions[s] # None /\ sessions[s].parent # None =>
             /\ sessions[sessions[s].parent] # None
             /\ Authority(sessions, s) \subseteq Authority(sessions, sessions[s].parent)
           Judged(c) ==
             /\ pc[c] \in {"replay", "decide"} =>
                  /\ sessions[req[c].token] # None
                  /\ RecordAuthority(record[c]) = Authority(sessions, req[c].token)
             /\ pc[c] = "charge" \/ c \in charged =>
                  /\ sessions[req[c].token] # None
                  /\ req[c].shape.policy /\ req[c].shape.egress
                  /\ req[c].shape.target \in Authority(sessions, req[c].token)
<1>4. Contained'
  <2> SUFFICES ASSUME NEW s \in SessionIds, sessions'[s] # None, sessions'[s].parent # None
               PROVE  /\ sessions'[sessions'[s].parent] # None
                      /\ Authority(sessions, s)' \subseteq Authority(sessions', sessions'[s].parent)
    OBVIOUS
  <2>1. sessions[s] # None
    <3>1. \A x \in SessionIds : sessions[x] = None => sessions'[x] = None
      <4>1. ASSUME NEW c \in Calls, NEW now \in Secs, Charge(c, now), sessions' # sessions
            PROVE  \A x \in SessionIds : sessions[x] = None => sessions'[x] = None
        <5>1. req[c].token \in SessionIds
          BY <1>3, <4>1 DEF Charge
        <5>2. /\ consume_verdict(sessions, req[c].token, now) = "ok"
              /\ sessions' = IF Budget(sessions, req[c].token) = None THEN sessions
                             ELSE consume_in(sessions, req[c].token)
          BY <4>1 DEF Charge
        <5> QED BY <1>1, <5>1, <5>2, ChargeStores
      <4>2. ASSUME NEW x \in SessionIds, RevokeSession(x)
            PROVE  \A y \in SessionIds : sessions[y] = None => sessions'[y] = None
        BY <1>1, <4>2, RevokeStores DEF RevokeSession
      <4> QED BY <4>1, <4>2 DEF Next, Stage, Submit, Authenticate, ReplayGuard, Judge,
                 ResolveAndInject, Execute, AuditAppend, Deliver, Forget, Crash, vars
    <3> QED BY <3>1
  <2>2. /\ sessions'[s].parent = sessions[s].parent
        /\ Authority(sessions', s) = Authority(sessions, s)
    BY <1>1, <2>1 DEF Kept
  <2>3. sessions[s].parent \in SessionIds
    <3>1. sessions[s] \in Record
      BY <1>1, <2>1 DEF Maps, Option
    <3> QED BY <2>2, <3>1 DEF Record, Option
  <2>4. /\ sessions[sessions[s].parent] # None
        /\ Authority(sessions, s) \subseteq Authority(sessions, sessions[s].parent)
    BY <2>1, <2>2 DEF AuthorityInv
  <2>5. /\ sessions'[sessions[s].parent] # None
        /\ Authority(sessions', sessions[s].parent) = Authority(sessions, sessions[s].parent)
    BY <1>1, <2>3, <2>4 DEF Kept
  <2> QED BY <2>2, <2>4, <2>5
\* A call that moves to no stage it has to be judged for.
<1>5. ASSUME NEW c \in Calls, UNCHANGED <<req[c], record[c]>>, req[c].token \in SessionIds,
             pc'[c] \in {"replay", "decide"} => pc[c] \in {"replay", "decide"},
             pc'[c] = "charge" \/ c \in charged' => pc[c] = "charge" \/ c \in charged
      PROVE  Judged(c)'
  <2>1. Judged(c)
    BY DEF AuthorityInv
  <2>2. sessions[req[c].token] # None =>
          /\ sessions'[req[c].token] # None
          /\ Authority(sessions', req[c].token) = Authority(sessions, req[c].token)
    BY <1>1, <1>5 DEF Kept
  <2> QED BY <1>5, <2>1, <2>2
<1>6. \A c \in Calls : c \in charged => pc[c] # "idle"
  BY DEF Progress
\* The calls that a step does not move.
<1>7. ASSUME NEW c \in Calls, UNCHANGED <<req[c], record[c]>>,
             pc'[c] \in {pc[c], "lost", "done", "authenticate", "audit"},
             c \in charged' <=> c \in charged
      PROVE  Judged(c)'
  <2>1. CASE pc[c] # "idle"
    BY <1>3, <1>5, <1>7, <2>1
  <2>2. CASE pc[c] = "idle"
    BY <1>6, <1>7, <2>2
  <2> QED BY <2>1, <2>2
<1>8. \A c \in Calls : Judged(c)'
  <2>1. ASSUME NEW c \in Calls, NEW token \in SessionIds, NEW request_id \in Option(RequestIds),
               NEW shape \in Shapes, Submit(c, token, request_id, shape)
        PROVE  \A d \in Calls : Judged(d)'
    <3>1. /\ pc'[c] = "authenticate" /\ c \notin charged' /\ UNCHANGED <<record, charged>>
          /\ \A d \in Calls \ {c} : pc'[d] = pc[d] /\ req'[d] = req[d]
      BY <1>2, <1>6, <2>1 DEF Submit
    <3>2. Judged(c)'
      BY <3>1
    <3>3. \A d \in Calls \ {c} : Judged(d)'
      BY <1>7, <3>1
    <3> QED BY <3>2, <3>3
  <2>2. ASSUME NEW c \in Calls, Stage(c)
        PROVE  \A d \in Calls : Judged(d)'
    <3>1. /\ UNCHANGED req
          /\ \A d \in Calls \ {c} : /\ pc'[d] = pc[d] /\ record'[d] = record[d]
                                    /\ d \in charged' <=> d \in charged
      BY <1>2, <2>2 DEF Stage, Authenticate, Charge, ReplayGuard, Judge, ResolveAndInject,
                        Execute, AuditAppend, Deliver, Continue, Decide
    <3>2. \A d \in Calls \ {c} : Judged(d)'
      BY <1>7, <3>1
    <3>3. ASSUME NEW now \in Secs, Authenticate(c, now)
          PROVE  Judged(c)'
      <4>1. charged' = charged /\ sessions' = sessions /\ c \notin charged
        BY <3>3 DEF Authenticate, Progress, BeforeCharge
      <4>2. CASE pc'[c] = "replay"
        <5>1. /\ validate(sessions, req[c].token, now) = "ok"
              /\ record'[c] = sessions[req[c].token]
          BY <1>2, <3>3, <4>2 DEF Authenticate, Decide
        <5>2. sessions[req[c].token] # None
          BY <5>1 DEF validate
        <5> QED BY <3>1, <4>1, <4>2, <5>1, <5>2 DEF RecordAuthority, Authority
      <4>3. CASE pc'[c] # "replay"
        BY <1>2, <3>3, <4>1, <4>3 DEF Authenticate, Decide, Continue
      <4> QED BY <4>2, <4>3
    <3>4. ASSUME Judge(c)
          PROVE  Judged(c)'
      <4>1. /\ UNCHANGED <<req, record, charged, sessions>> /\ c \notin charged
            /\ pc[c] = "decide" /\ pc'[c] \in {"charge", "audit"}
            /\ pc'[c] = "charge" => PureStages(c) = "ok"
        BY <1>2, <3>4 DEF Judge, Continue, Decide, Progress, BeforeCharge
      <4>2. /\ sessions[req[c].token] # None
            /\ RecordAuthority(record[c]) = Authority(sessions, req[c].token)
        BY <4>1 DEF AuthorityInv
      <4>3. req[c] \in Submitted /\ req[c].shape.target \in Requests
        BY <4>1, ShapesAreShapes DEF Progress, Submitted
      <4>4. PureStages(c) = "ok" =>
              /\ req[c].shape.policy /\ req[c].shape.egress
              /\ req[c].shape.target \in RecordAuthority(record[c])
        BY <4>3 DEF PureStages, RecordAuthority
      <4> QED BY <4>1, <4>2, <4>4
    <3>5. ASSUME ~Judge(c), \A now \in Secs : ~Authenticate(c, now)
          PROVE  Judged(c)'
      <4>1. /\ record'[c] = record[c] /\ req'[c] = req[c] /\ pc[c] # "idle"
            /\ pc'[c] \in {"replay", "decide"} => pc[c] \in {"replay", "decide"}
            /\ pc'[c] = "charge" \/ c \in charged' => pc[c] = "charge" \/ c \in charged
        BY <1>2, <2>2, <3>5 DEF Stage, Charge, ReplayGuard, ResolveAndInject, Execute,
                                AuditAppend, Deliver, Continue, Decide
      <4> QED BY <1>3, <1>5, <4>1
    <3> QED BY <3>2, <3>3, <3>4, <3>5
  <2>3. ASSUME UNCHANGED <<req, record, charged>>,
               \A c \in Calls : pc'[c] \in {pc[c], "lost"}
        PROVE  \A d \in Calls : Judged(d)'
    BY <1>7, <2>3
  <2>4. ASSUME NEW s \in SessionIds, RevokeSession(s)
        PROVE  \A d \in Calls : Judged(d)'
    BY <2>3, <2>4 DEF RevokeSession
  <2>5. ASSUME NEW k \in SessionIds \X RequestIds, Forget(k)
        PROVE  \A d \in Calls : Judged(d)'
    BY <2>3, <2>5 DEF Forget
  <2>6. CASE Crash
    BY <2>3, <2>6 DEF Crash
  <2>7. CASE UNCHANGED vars
    BY <2>3, <2>7 DEF vars
  <2> QED BY <2>1, <2>2, <2>4, <2>5, <2>6, <2>7 DEF Next
<1> QED BY <1>4, <1>8 DEF AuthorityInv
\* One more charge is one unit less, and nothing else touches a budget.
LEMMA BudgetStep ==
  ASSUME TypeOK, Progress, BudgetInv, [Next]_vars
  PROVE  BudgetInv'
<1>1. sessions \in Maps /\ charged \subseteq Calls
  BY DEF TypeOK, Maps
<1>2. \A c \in Calls : pc[c] # "idle" => req[c].token \in SessionIds
  BY DEF Progress, Submitted
<1>3. \A s \in SessionIds : IsFiniteSet(ChargedTo(s)) /\ Cardinality(ChargedTo(s)) \in Nat
  <2>1. \A s \in SessionIds : ChargedTo(s) \subseteq charged
    BY DEF ChargedTo
  <2> QED BY <2>1, FS_Subset, FS_CardinalityType DEF BudgetInv
\* A step that charges nothing and leaves the budgets alone.
<1>4. ASSUME charged' = charged, \A c \in charged : req'[c] = req[c],
             \A s \in SessionIds : /\ sessions'[s] = None <=> sessions[s] = None
                                   /\ sessions[s] # None => Budget(sessions', s) = Budget(sessions, s)
      PROVE  BudgetInv'
  <2>1. \A s \in SessionIds : ChargedTo(s)' = ChargedTo(s)
    BY <1>4 DEF ChargedTo
  <2> QED BY <1>4, <2>1 DEF BudgetInv
<1>5. ASSUME NEW c \in Calls, NEW now \in Secs, Charge(c, now)
      PROVE  BudgetInv'
  <2>1. req[c].token \in SessionIds /\ c \notin charged /\ req' = req
    BY <1>2, <1>5 DEF Charge, Progress, BeforeCharge
  <2> PICK t \in SessionIds : t = req[c].token
    BY <2>1
  <2>2. CASE charged' = charged
    <3>1. sessions' = sessions
      BY <1>5, <2>1, <2>2 DEF Charge
    <3> QED BY <1>4, <2>1, <2>2, <3>1
  <2>3. CASE charged' # charged
    <3>1. /\ consume_verdict(sessions, t, now) = "ok" /\ charged' = charged \cup {c}
          /\ sessions' = IF Budget(sessions, t) = None THEN sessions ELSE consume_in(sessions, t)
      BY <1>5, <2>3 DEF Charge
    <3>2. /\ sessions[t] # None /\ \A x \in SessionIds : Kept(sessions, sessions', x)
          /\ \A x \in SessionIds \ {t} : sessions'[x] = sessions[x]
          /\ Budget(sessions, t) = None => sessions' = sessions
          /\ Budget(sessions, t) # None => /\ Budget(sessions, t) \in Nat \ {0}
                                           /\ Budget(sessions', t) = Budget(sessions, t) - 1
      BY <1>1, <2>1, <3>1, ChargeStores
    <3>3. sessions'[t] # None
      BY <2>1, <3>2 DEF Kept
    <3>4. /\ ChargedTo(t)' = ChargedTo(t) \cup {c} /\ c \notin ChargedTo(t)
          /\ \A s \in SessionIds \ {t} : ChargedTo(s)' = ChargedTo(s)
      BY <2>1, <3>1 DEF ChargedTo
    <3>5. IsFiniteSet(charged')
      BY <3>1, FS_AddElement DEF BudgetInv
    <3>6. Cardinality(ChargedTo(t)') = Cardinality(ChargedTo(t)) + 1
      BY <1>3, <2>1, <3>4, FS_AddElement
    <3>7. \A s \in SessionIds \ {t} : Budget(sessions', s) = Budget(sessions, s)
      BY <3>2 DEF Budget
    <3>8. ASSUME NEW s \in SessionIds
          PROVE  /\ sessions'[s] = None <=> InitialSessions[s] = None
                 /\ sessions'[s] # None =>
                      /\ InitialBudget(s) = None <=> Budget(sessions', s) = None
                      /\ InitialBudget(s) # None =>
                           /\ Budget(sessions', s) \in Nat
                           /\ Budget(sessions', s) + Cardinality(ChargedTo(s)') = InitialBudget(s)
      <4>1. /\ sessions[s] = None <=> InitialSessions[s] = None
            /\ sessions[s] # None =>
                 /\ InitialBudget(s) = None <=> Budget(sessions, s) = None
                 /\ InitialBudget(s) # None =>
                      /\ Budget(sessions, s) \in Nat
                      /\ Budget(sessions, s) + Cardinality(ChargedTo(s)) = InitialBudget(s)
        BY DEF BudgetInv
      <4>2. CASE s # t
        BY <3>2, <3>4, <3>7, <4>1, <4>2
      <4>3. CASE s = t /\ Budget(sessions, t) = None
        BY <3>2, <4>1, <4>3
      <4>4. CASE s = t /\ Budget(sessions, t) # None
        <5>1. /\ Budget(sessions', t) \in Nat /\ Budget(sessions', t) # None
              /\ Budget(sessions', t) = Budget(sessions, t) - 1
          BY <3>2, <4>4, NoneIsNoValue
        <5>2. /\ Budget(sessions, t) \in Nat /\ Cardinality(ChargedTo(t)) \in Nat
              /\ InitialBudget(t) # None
              /\ Budget(sessions, t) + Cardinality(ChargedTo(t)) = InitialBudget(t)
          BY <1>3, <2>1, <3>2, <4>1, <4>4
        <5>3. Budget(sessions', t) + Cardinality(ChargedTo(t)') = InitialBudget(t)
          BY <3>6, <5>1, <5>2
        <5>4. s = t
          BY <4>4
        <5>5. InitialSessions[t] # None
          BY <3>2, <4>1, <5>4
        <5> QED BY <3>3, <5>1, <5>2, <5>3, <5>4, <5>5
      <4> QED BY <4>2, <4>3, <4>4
    <3> QED BY <3>5, <3>8 DEF BudgetInv, InitialBudget
  <2> QED BY <2>2, <2>3
<1>6. ASSUME NEW s \in SessionIds, RevokeSession(s)
      PROVE  BudgetInv'
  BY <1>1, <1>4, <1>6, RevokeStores DEF RevokeSession
<1>7. ASSUME NEW c \in Calls, NEW token \in SessionIds, NEW request_id \in Option(RequestIds),
             NEW shape \in Shapes, Submit(c, token, request_id, shape)
      PROVE  BudgetInv'
  <2>1. c \notin charged
    BY <1>7 DEF Submit, Progress
  <2>2. \A d \in charged : req'[d] = req[d]
    BY <1>1, <1>7, <2>1 DEF Submit, TypeOK
  <2> QED BY <1>4, <1>7, <2>2 DEF Submit
<1>8. CASE UNCHANGED <<sessions, charged, req>>
  BY <1>4, <1>8
<1>9. ASSUME NEW c \in Calls, Stage(c)
      PROVE  BudgetInv'
  BY <1>5, <1>8, <1>9 DEF Stage, Authenticate, ReplayGuard, Judge, ResolveAndInject,
                          Execute, AuditAppend, Deliver
<1> QED BY <1>6, <1>7, <1>8, <1>9 DEF Next, Forget, Crash, vars

-------------------------------------------------------------------------------
(* The theorems.                                                           *)

\* Every part of the invariant holds at the start.
LEMMA InitHolds == Init => IInv
<1> SUFFICES ASSUME Init PROVE IInv
  OBVIOUS
<1>1. TypeOK
  <2>1. 0 \in 0..MaxForgets
    BY MaxForgetsIsNat
  <2>2. audit \in Seq([call : Calls, verdict : Verdicts])
    BY DEF Init
  <2> QED BY <2>1, <2>2, InitialSessionsAreRecords DEF Init, TypeOK, Option
<1>2. Progress
  BY DEF Init, Progress, BeforeCharge
<1>3. EventsInv
  <2>1. \A c \in Calls : EventsOf(c) = {} /\ response[c] = None
    BY DEF Init, EventsOf
  <2> QED BY <2>1 DEF EventsInv
<1>4. RevokedInv /\ WindowInv
  BY DEF Init, RevokedInv, WindowInv, Registered
<1>5. AuthorityInv
  BY InitialChainsNarrow DEF Init, AuthorityInv
<1>6. BudgetInv
  <2>1. \A s \in SessionIds : InitialSessions[s] # None /\ InitialBudget(s) # None =>
          InitialBudget(s) \in Nat
    <3>1. \A s \in SessionIds : InitialSessions[s] # None => InitialSessions[s] \in Record
      BY InitialSessionsAreRecords DEF Option
    <3> QED BY <3>1 DEF InitialBudget, Budget, Record, Option, Constraints
  <2>2. \A s \in SessionIds : ChargedTo(s) = {}
    BY DEF Init, ChargedTo
  <2> QED BY <2>1, <2>2, FS_EmptySet DEF Init, BudgetInv, InitialBudget
<1> QED BY <1>1, <1>2, <1>3, <1>4, <1>5, <1>6 DEF IInv

\* The inductive invariant holds of every behaviour: stages of any number of
\* calls, revocations, forgotten pairs and crashes in any order.
THEOREM PipelineInvariant == Spec => []IInv
<1>1. Init => IInv
  BY InitHolds
<1>2. IInv /\ [Next]_vars => IInv'
  BY TypeStep, ProgressStep, EventsStep, RevokedStep, WindowStep, AuthorityStep, BudgetStep
  DEF IInv
<1> QED BY <1>1, <1>2, PTL DEF Spec

\* Every outcome but a failed append is on record once, as the caller is told.
THEOREM AnswersAreAudited == Spec => []AnsweredMeansAudited
<1>1. IInv => AnsweredMeansAudited
  <2> SUFFICES ASSUME EventsInv, NEW c \in Calls
               PROVE  Cardinality(EventsOf(c)) <= 1
    BY DEF IInv, EventsInv, AnsweredMeansAudited
  <2>1. CASE EventsOf(c) = {}
    BY <2>1, FS_EmptySet
  <2>2. CASE EventsOf(c) # {}
    <3>1. PICK i \in EventsOf(c) : EventsOf(c) = {i}
      BY <2>2 DEF EventsInv
    <3> QED BY <3>1, FS_Singleton
  <2> QED BY <2>1, <2>2
<1> QED BY <1>1, PipelineInvariant, PTL

\* A call overtaken by a revocation is neither charged nor executed.
THEOREM RevocationStops == Spec => []RevocationStopsCalls
<1>1. IInv => RevocationStopsCalls
  BY DEF IInv, TypeOK, Progress, RevokedInv, RevocationStopsCalls
<1> QED BY <1>1, PipelineInvariant, PTL

\* A request id has one effect in each of its replay windows.
THEOREM OneEffect == Spec => []OneEffectPerWindow
<1>1. IInv => OneEffectPerWindow
  <2> SUFFICES ASSUME IInv, NEW c \in charged \cup executed, NEW d \in charged \cup executed,
                      c # d, req[c].request_id # None, Key(c) = Key(d)
               PROVE  window[c] # window[d]
    BY DEF OneEffectPerWindow
  <2>1. c \in Calls /\ d \in Calls /\ c \in charged /\ d \in charged
    BY DEF IInv, TypeOK, Progress
  <2>2. req[d].request_id = req[c].request_id
    BY DEF Key
  <2>3. c \in Registered /\ d \in Registered
    BY <2>1, <2>2 DEF Registered
  <2> QED BY <2>3 DEF IInv, WindowInv
<1> QED BY <1>1, PipelineInvariant, PTL

\* What reaches the upstream is within the authority of the whole chain and
\* within the budget.
THEOREM ExecutionsArePermitted == Spec => []ExecutionsPermitted
<1>1. IInv => ExecutedWithinAuthority
  <2> SUFFICES ASSUME IInv, NEW c \in executed
               PROVE  /\ req[c].shape.policy /\ req[c].shape.egress
                      /\ \A s \in {req[c].token} \cup Ancestors(sessions, req[c].token) :
                           req[c].shape.target \in Authority(sessions, s)
    BY DEF ExecutedWithinAuthority
  <2> DEFINE t == req[c].token
             q == req[c].shape.target
             S == {s \in SessionIds : sessions[s] # None /\ q \in Authority(sessions, s)}
  <2>1. c \in Calls /\ c \in charged /\ t \in SessionIds
    BY DEF IInv, TypeOK, Progress, Submitted
  <2>2. /\ sessions[t] # None /\ q \in Authority(sessions, t)
        /\ req[c].shape.policy /\ req[c].shape.egress
    BY <2>1 DEF IInv, AuthorityInv
  <2>3. \A s \in S : sessions[s].parent \in S \cup {None}
    <3> TAKE s \in S
    <3>1. sessions[s] \in Record
      BY DEF IInv, TypeOK, Option
    <3>2. sessions[s].parent # None => sessions[s].parent \in SessionIds
      BY <3>1 DEF Record, Option
    <3> QED BY <3>2 DEF IInv, AuthorityInv
  <2>4. Ancestors(sessions, t) \subseteq S
    <3>1. ParentClosed(sessions, S) /\ S \in SUBSET SessionIds
      BY <2>3 DEF ParentClosed
    <3>2. sessions[t].parent \in S \cup {None}
      BY <2>1, <2>2, <2>3
    <3> HIDE DEF S
    <3> QED BY <3>1, <3>2, AncestorsWithin
  <2> QED BY <2>2, <2>4
<1>2. IInv => ExecutionsWithinBudget
  <2> SUFFICES ASSUME IInv, NEW s \in SessionIds, sessions[s] # None, InitialBudget(s) # None
               PROVE  /\ Budget(sessions, s) + Cardinality({c \in charged : req[c].token = s})
                           = InitialBudget(s)
                      /\ Cardinality({c \in executed : req[c].token = s}) <= InitialBudget(s)
    BY DEF ExecutionsWithinBudget
  <2> DEFINE E == {c \in executed : req[c].token = s}
  <2>1. /\ IsFiniteSet(charged) /\ Budget(sessions, s) \in Nat
        /\ Budget(sessions, s) + Cardinality(ChargedTo(s)) = InitialBudget(s)
    BY DEF IInv, BudgetInv
  <2>2. E \subseteq ChargedTo(s) /\ ChargedTo(s) \subseteq charged
    BY DEF IInv, TypeOK, Progress, ChargedTo
  <2>3. IsFiniteSet(ChargedTo(s))
    BY <2>1, <2>2, FS_Subset
  <2>4. /\ Cardinality(E) \in Nat /\ Cardinality(ChargedTo(s)) \in Nat
        /\ Cardinality(E) <= Cardinality(ChargedTo(s))
    BY <2>2, <2>3, FS_Subset, FS_CardinalityType
  <2> QED BY <2>1, <2>4 DEF ChargedTo
<1>3. IInv => TypeOK
  BY DEF IInv
<1> QED BY <1>1, <1>2, <1>3, PipelineInvariant, PTL DEF ExecutionsPermitted

-------------------------------------------------------------------------------
(* Response scrubbing.                                                     *)

\* The r bytes from position i on, and no more, are of the set.
Runs(i, r, n, set) ==
  /\ i + r <= n + 1
  /\ \A k \in i..(i + r - 1) : echoed[k] \in set
  /\ i + r <= n => echoed[i + r] \notin set

\* run_length is the length of the longest run.
LEMMA RunIs ==
  ASSUME NEW n \in Nat, n = Len(echoed), NEW i \in 1..(n + 1), NEW set
  PROVE  \E r \in Nat : r = run_length(i, set) /\ Runs(i, r, n, set)
<1> DEFINE ends == {j \in i..Len(echoed) : echoed[j] \notin set}
<1>1. CASE ends = {}
  <2>1. run_length(i, set) = (n + 1) - i
    BY <1>1 DEF run_length
  <2>2. PICK r \in Nat : r = (n + 1) - i
    OBVIOUS
  <2>3. \A k \in i..(i + r - 1) : echoed[k] \in set
    BY <1>1, <2>2
  <2> QED BY <2>1, <2>2, <2>3 DEF Runs
<1>2. CASE ends # {}
  <2>1. ends \in SUBSET Nat
    OBVIOUS
  <2>2. \E j \in ends : \A k \in ends : j <= k
    <3> HIDE DEF ends
    <3> QED BY <1>2, <2>1, LeastNumber
  <2>3. PICK e : e = CHOOSE j \in ends : \A k \in ends : j <= k
    OBVIOUS
  <2>4. e \in ends /\ \A k \in ends : e <= k
    <3> HIDE DEF ends
    <3> QED BY <2>2, <2>3
  <2>5. run_length(i, set) = e - i
    BY <1>2, <2>3 DEF run_length
  <2>6. PICK r \in Nat : r = e - i
    BY <2>4
  <2>7. i + r = e /\ e <= n /\ echoed[e] \notin set
    BY <2>4, <2>6
  <2>8. \A k \in i..(i + r - 1) : echoed[k] \in set
    BY <2>4, <2>7
  <2> QED BY <2>5, <2>6, <2>7, <2>8 DEF Runs
<1> QED BY <1>1, <1>2

Rules == [prefix : Seq(Upper \cup Lower \cup Other), min : Nat \ {0}, shape : {"aws", "pat", "run"}]

\* The rule's prefix stands at position i.
PrefixAt(rule, i) == IsPrefix(rule.prefix, SubSeq(echoed, i, Len(echoed)))

\* The rule's token that begins at position i ends at position j.
RuleToken(rule, i, j) ==
  LET s == i + Len(rule.prefix)
  IN /\ IsPrefix(rule.prefix, SubSeq(echoed, i, Len(echoed)))
     /\ CASE rule.shape = "aws" -> j = s + rule.min - 1 /\ AllIn(s, j, Upper)
          [] rule.shape = "run" -> j >= s + rule.min - 1 /\ AllIn(s, j, Alnum) /\ EndsAt(j, Alnum)
          [] rule.shape = "pat" ->
               \/ j >= s + rule.min - 1 /\ AllIn(s, j, Alnum) /\ EndsAt(j, Alnum)
               \/ \E m \in (s + rule.min)..(j - TailMin) :
                    /\ echoed[m] = "_" /\ AllIn(s, m - 1, Alnum)
                    /\ AllIn(m + 1, j, Alnum \cup {"_"}) /\ EndsAt(j, Alnum \cup {"_"})

\* A prefix that stands at i fits into the body.
LEMMA PrefixFits ==
  ASSUME NEW n \in Nat, n = Len(echoed), echoed \in Seq(Upper \cup Lower \cup Other),
         NEW rule \in Rules, NEW i \in 1..n, PrefixAt(rule, i)
  PROVE  \E p \in Nat : /\ p = Len(rule.prefix) /\ i + p <= n + 1
                        /\ \A k \in 1..p : rule.prefix[k] = echoed[i + k - 1]
<1>1. PICK w \in Seq(Upper \cup Lower \cup Other) : w = rule.prefix
  BY DEF Rules
<1>2. PICK p \in Nat : p = Len(w)
  OBVIOUS
<1>3. PICK t : t = SubSeq(echoed, i, n)
  OBVIOUS
<1>4. Len(t) = n - i + 1 /\ \A k \in 1..(n - i + 1) : t[k] = echoed[i + k - 1]
  BY <1>3
<1>5. t \in Seq(Upper \cup Lower \cup Other)
  BY <1>3
<1>6. p <= Len(t) /\ SubSeq(w, 1, p) = SubSeq(t, 1, p)
  BY <1>1, <1>2, <1>3 DEF PrefixAt, IsPrefix
<1>7. \A k \in 1..p : SubSeq(w, 1, p)[k] = w[k]
  BY <1>2
<1>8. \A k \in 1..p : SubSeq(t, 1, p)[k] = t[k]
  BY <1>2, <1>4, <1>5, <1>6
<1>9. \A k \in 1..p : w[k] = echoed[i + k - 1]
  <2> SUFFICES ASSUME NEW k \in 1..p PROVE w[k] = echoed[i + k - 1]
    OBVIOUS
  <2>1. w[k] = t[k]
    BY <1>6, <1>7, <1>8
  <2>2. k \in 1..(n - i + 1)
    BY <1>4, <1>6
  <2> QED BY <1>4, <2>1, <2>2
<1> QED BY <1>1, <1>2, <1>4, <1>6, <1>9

\* What RulesAreTyped says of a rule.
LEMMA RuleIsTyped == ASSUME NEW k \in DOMAIN ScrubRules PROVE ScrubRules[k] \in Rules
<1>1. PICK R : R = Rules
  OBVIOUS
<1>2. ScrubRules \in Seq(R)
  BY <1>1, RulesAreTyped, Zenon DEF Rules
<1> QED BY <1>1, <1>2

\* At most one rule applies at a position.
LEMMA OneRule ==
  ASSUME echoed \in Seq(Upper \cup Lower \cup Other), NEW n \in Nat, n = Len(echoed), NEW i \in 1..n,
         NEW k \in DOMAIN ScrubRules, NEW l \in DOMAIN ScrubRules,
         PrefixAt(ScrubRules[k], i), PrefixAt(ScrubRules[l], i)
  PROVE  k = l
<1>0. ScrubRules[k] \in Rules /\ ScrubRules[l] \in Rules
  BY RuleIsTyped
<1>1. PICK v \in Seq(Upper \cup Lower \cup Other), w \in Seq(Upper \cup Lower \cup Other) :
        v = ScrubRules[k].prefix /\ w = ScrubRules[l].prefix
  BY <1>0 DEF Rules
<1>2. PICK p \in Nat : p = Len(v) /\ \A x \in 1..p : v[x] = echoed[i + x - 1]
  <2>1. \E h \in Nat : /\ h = Len(ScrubRules[k].prefix) /\ i + h <= n + 1
                      /\ \A x \in 1..h : ScrubRules[k].prefix[x] = echoed[i + x - 1]
    BY <1>0, PrefixFits, Zenon
  <2> QED BY <1>1, <2>1, Zenon
<1>3. PICK q \in Nat : q = Len(w) /\ \A x \in 1..q : w[x] = echoed[i + x - 1]
  <2>1. \E h \in Nat : /\ h = Len(ScrubRules[l].prefix) /\ i + h <= n + 1
                      /\ \A x \in 1..h : ScrubRules[l].prefix[x] = echoed[i + x - 1]
    BY <1>0, PrefixFits, Zenon
  <2> QED BY <1>1, <2>1, Zenon
<1>4. ASSUME NEW a \in Seq(Upper \cup Lower \cup Other), NEW b \in Seq(Upper \cup Lower \cup Other),
             NEW c \in Nat, NEW d \in Nat, c = Len(a), d = Len(b), c <= d,
             \A x \in 1..c : a[x] = b[x]
      PROVE  IsPrefix(a, b)
  <2>1. PICK e, f : e = SubSeq(a, 1, c) /\ f = SubSeq(b, 1, c)
    OBVIOUS
  <2>2. e \in Seq(Upper \cup Lower \cup Other) /\ Len(e) = c /\ \A x \in 1..c : e[x] = a[x]
    BY <1>4, <2>1
  <2>3. f \in Seq(Upper \cup Lower \cup Other) /\ Len(f) = c /\ \A x \in 1..c : f[x] = b[x]
    BY <1>4, <2>1
  <2>4. e = f
    BY <1>4, <2>2, <2>3, SeqEqual
  <2> QED BY <1>4, <2>1, <2>4 DEF IsPrefix
<1>5. CASE p <= q
  <2>1. \A x \in 1..p : v[x] = w[x]
    BY <1>2, <1>3, <1>5
  <2>2. IsPrefix(v, w)
    BY <1>2, <1>3, <1>4, <1>5, <2>1
  <2> QED BY <1>1, <2>2, RulesAreTyped
<1>6. CASE q <= p
  <2>1. \A x \in 1..q : w[x] = v[x]
    BY <1>2, <1>3, <1>6
  <2>2. IsPrefix(w, v)
    BY <1>2, <1>3, <1>4, <1>6, <2>1
  <2> QED BY <1>1, <2>2, RulesAreTyped
<1> QED BY <1>5, <1>6

\* What a rule takes out at a position is the longest of its tokens that begin
\* there, and it takes nothing out when there is none.
LongestToken(rule, i, n, s) ==
  /\ i + s <= n + 1
  /\ s = 0 => \A j \in i..n : ~RuleToken(rule, i, j)
  /\ s # 0 => RuleToken(rule, i, i + s - 1) /\ \A j \in i..n : RuleToken(rule, i, j) => j <= i + s - 1

\* The length of the rule's prefix.
PrefixLength(rule, p) == p = Len(rule.prefix)

\* What a rule of shape "aws" matches is the token it describes.
LEMMA AwsSpan ==
  ASSUME NEW n \in Nat, n = Len(echoed), NEW i \in 1..n, NEW rule \in Rules, rule.shape = "aws",
         PrefixAt(rule, i), NEW p \in Nat, PrefixLength(rule, p), i + p <= n + 1
  PROVE  \E s \in Nat : s = rule_span(rule, i) /\ LongestToken(rule, i, n, s)
<1>0. PICK min \in Nat : min = rule.min /\ min # 0
  BY DEF Rules
<1>1. PICK a \in Nat : a = i + p
  OBVIOUS
<1>10. min >= 1 /\ a \in 1..(n + 1) /\ a >= i
  BY <1>0, <1>1
<1>2. PICK run : run = aws_key_id_run(a, min)
  OBVIOUS
<1>3. \A j : RuleToken(rule, i, j) <=> (j = a + min - 1 /\ AllIn(a, j, Upper))
  BY <1>0, <1>1 DEF RuleToken, PrefixAt, PrefixLength
<1>4. rule_span(rule, i) = IF run >= min THEN p + run ELSE 0
  BY <1>0, <1>1, <1>2 DEF rule_span, PrefixAt, PrefixLength
<1>5. CASE a + min - 1 <= n /\ AllIn(a, a + min - 1, Upper)
  <2>1. run = min
    BY <1>2, <1>5 DEF aws_key_id_run, AllIn
  <2>2. PICK s \in Nat : s = p + min
    OBVIOUS
  <2>3. s = rule_span(rule, i) /\ i + s - 1 = a + min - 1 /\ s # 0 /\ i + s <= n + 1
    BY <1>1, <1>4, <1>5, <1>10, <2>1, <2>2
  <2>4. RuleToken(rule, i, i + s - 1) /\ \A j \in i..n : RuleToken(rule, i, j) => j <= i + s - 1
    BY <1>3, <1>5, <2>3
  <2> QED BY <2>3, <2>4 DEF LongestToken
<1>6. CASE ~(a + min - 1 <= n /\ AllIn(a, a + min - 1, Upper))
  <2>1. run = 0
    BY <1>2, <1>6 DEF aws_key_id_run, AllIn
  <2>2. rule_span(rule, i) = 0
    BY <1>10, <1>4, <2>1
  <2>3. \A j \in i..n : ~RuleToken(rule, i, j)
    BY <1>3, <1>6
  <2> QED BY <2>2, <2>3 DEF LongestToken
<1> QED BY <1>5, <1>6

\* The end of a run of bytes of a set that begins at position a.
LEMMA RunEnds ==
  ASSUME NEW n \in Nat, n = Len(echoed), NEW a \in 1..(n + 1), NEW set, NEW r \in Nat, Runs(a, r, n, set),
         NEW j \in Nat, j <= n, a <= j + 1
  PROVE  AllIn(a, j, set) /\ EndsAt(j, set) <=> j = a + r - 1
<1>0. /\ a + r <= n + 1 /\ \A k \in a..(a + r - 1) : echoed[k] \in set
      /\ a + r <= n => echoed[a + r] \notin set
  BY DEF Runs
<1>1. CASE j = a + r - 1
  BY <1>0, <1>1 DEF AllIn, EndsAt
<1>2. CASE j < a + r - 1
  <2>1. j + 1 \in a..(a + r - 1)
    BY <1>0, <1>2
  <2>2. j # n /\ echoed[j + 1] \in set
    BY <1>0, <1>2, <2>1
  <2> QED BY <1>2, <2>2 DEF EndsAt
<1>3. CASE j > a + r - 1
  <2>1. a + r \in a..j /\ a + r <= n
    BY <1>0, <1>3
  <2>2. echoed[a + r] \notin set
    BY <1>0, <2>1
  <2> QED BY <1>3, <2>1, <2>2 DEF AllIn
<1> QED BY <1>1, <1>2, <1>3

\* What a rule of shape "run" matches is the token it describes.
LEMMA RunSpan ==
  ASSUME NEW n \in Nat, n = Len(echoed), NEW i \in 1..n, NEW rule \in Rules, rule.shape = "run",
         PrefixAt(rule, i), NEW p \in Nat, PrefixLength(rule, p), i + p <= n + 1
  PROVE  \E s \in Nat : s = rule_span(rule, i) /\ LongestToken(rule, i, n, s)
<1>0. PICK min \in Nat : min = rule.min /\ min # 0
  BY DEF Rules
<1>1. PICK a \in Nat : a = i + p
  OBVIOUS
<1>10. min >= 1 /\ a \in 1..(n + 1) /\ a >= i
  BY <1>0, <1>1
<1>2. PICK r \in Nat : r = run_length(a, Alnum) /\ Runs(a, r, n, Alnum)
  BY <1>10, RunIs
<1>3. \A j : RuleToken(rule, i, j) <=> (j >= a + min - 1 /\ AllIn(a, j, Alnum) /\ EndsAt(j, Alnum))
  BY <1>0, <1>1 DEF RuleToken, PrefixAt, PrefixLength
<1>4. rule_span(rule, i) = IF r >= min THEN p + r ELSE 0
  BY <1>0, <1>1, <1>2 DEF rule_span, PrefixAt, PrefixLength
<1>5. \A j \in i..n : RuleToken(rule, i, j) <=> (j >= a + min - 1 /\ j = a + r - 1)
  <2> SUFFICES ASSUME NEW j \in i..n, j >= a + min - 1
               PROVE  AllIn(a, j, Alnum) /\ EndsAt(j, Alnum) <=> j = a + r - 1
    BY <1>3
  <2>1. j \in Nat /\ j <= n /\ a <= j + 1 /\ a \in 1..(n + 1)
    BY <1>10
  <2>2. AllIn(a, j, Alnum) /\ EndsAt(j, Alnum) <=> j = a + r - 1
    BY <1>2, <2>1, RunEnds
  <2> QED BY <2>2
<1>6. CASE r >= min
  <2>1. PICK s \in Nat : s = p + r
    OBVIOUS
  <2>2. s = rule_span(rule, i) /\ i + s - 1 = a + r - 1 /\ s # 0 /\ i + s <= n + 1 /\ i + s - 1 \in i..n
    <3>1. s = rule_span(rule, i)
      BY <1>4, <1>6, <2>1
    <3>2. a + r <= n + 1
      BY <1>2 DEF Runs
    <3>3. i + s - 1 = a + r - 1 /\ s # 0 /\ i + s <= n + 1 /\ i + s - 1 \in i..n
      BY <1>1, <1>6, <1>10, <2>1, <3>2
    <3> QED BY <3>1, <3>3
  <2>3. RuleToken(rule, i, i + s - 1) /\ \A j \in i..n : RuleToken(rule, i, j) => j <= i + s - 1
    BY <1>5, <1>6, <1>10, <2>2
  <2> QED BY <2>2, <2>3 DEF LongestToken
<1>7. CASE ~(r >= min)
  <2>1. rule_span(rule, i) = 0
    BY <1>4, <1>7
  <2>2. \A j \in i..n : ~RuleToken(rule, i, j)
    BY <1>5, <1>7, <1>10
  <2> QED BY <2>1, <2>2 DEF LongestToken
<1> QED BY <1>6, <1>7

\* The byte that divides a fine-grained token.
Separator(k) == echoed[k] = "_"

\* What a rule of shape "pat" matches is the longest token it describes,
\* with the tail behind the separator when that is long enough.
LEMMA PatSpan ==
  ASSUME NEW n \in Nat, n = Len(echoed), NEW i \in 1..n, NEW rule \in Rules, rule.shape = "pat",
         PrefixAt(rule, i), NEW p \in Nat, PrefixLength(rule, p), i + p <= n + 1
  PROVE  \E s \in Nat : s = rule_span(rule, i) /\ LongestToken(rule, i, n, s)
<1>0. PICK min \in Nat, least \in Nat : min = rule.min /\ min # 0 /\ least = TailMin /\ least # 0
  BY RulesAreTyped DEF Rules
<1>1. PICK a \in Nat : a = i + p
  OBVIOUS
<1>2. min >= 1 /\ least >= 1 /\ a \in 1..(n + 1) /\ a >= i
  BY <1>0, <1>1
<1>3. PICK word \in Nat : word = run_length(a, Alnum) /\ Runs(a, word, n, Alnum)
  BY <1>2, RunIs
<1>4. a + word <= n + 1 /\ \A k : Separator(k) => echoed[k] \notin Alnum
  BY <1>3, RulesAreTyped DEF Runs, Alnum, Separator
<1> DEFINE Rest == Alnum \cup {"_"}
           Long(j) == /\ a + word <= j - least /\ word >= min /\ Separator(a + word)
                      /\ AllIn(a + word + 1, j, Rest) /\ EndsAt(j, Rest)
<1>5. ASSUME NEW j \in i..n
      PROVE  RuleToken(rule, i, j) <=> (word >= min /\ j = a + word - 1) \/ Long(j)
  <2>1. RuleToken(rule, i, j) <=>
          \/ j >= a + min - 1 /\ AllIn(a, j, Alnum) /\ EndsAt(j, Alnum)
          \/ \E m \in (a + min)..(j - least) :
               /\ Separator(m) /\ AllIn(a, m - 1, Alnum)
               /\ AllIn(m + 1, j, Rest) /\ EndsAt(j, Rest)
    BY <1>0, <1>1 DEF RuleToken, PrefixAt, PrefixLength, Separator
  <2>2. j >= a + min - 1 => (AllIn(a, j, Alnum) /\ EndsAt(j, Alnum) <=> j = a + word - 1)
    <3> SUFFICES ASSUME j >= a + min - 1 PROVE AllIn(a, j, Alnum) /\ EndsAt(j, Alnum) <=> j = a + word - 1
      OBVIOUS
    <3>1. j \in Nat /\ j <= n /\ a <= j + 1
      BY <1>2
    <3> QED BY <1>2, <1>3, <3>1, RunEnds
  <2>3. \A m \in (a + min)..(j - least) : Separator(m) /\ AllIn(a, m - 1, Alnum) <=> m = a + word /\ Separator(a + word)
    <3> SUFFICES ASSUME NEW m \in (a + min)..(j - least), Separator(m)
                 PROVE  AllIn(a, m - 1, Alnum) <=> m = a + word
      BY <1>4
    <3>1. PICK k \in Nat : k = m - 1 /\ k <= n /\ a <= k + 1 /\ k + 1 = m /\ k # n
      BY <1>2
    <3>2. EndsAt(k, Alnum)
      BY <1>4, <3>1 DEF EndsAt, Separator
    <3>3. AllIn(a, k, Alnum) /\ EndsAt(k, Alnum) <=> k = a + word - 1
      BY <1>2, <1>3, <3>1, RunEnds
    <3>4. k = a + word - 1 <=> m = a + word
      BY <3>1
    <3> QED BY <3>1, <3>2, <3>3, <3>4
  <2>4. (\E m \in (a + min)..(j - least) :
           /\ Separator(m) /\ AllIn(a, m - 1, Alnum)
           /\ AllIn(m + 1, j, Rest) /\ EndsAt(j, Rest)) <=> Long(j)
    <3>1. ASSUME NEW m \in (a + min)..(j - least), Separator(m), AllIn(a, m - 1, Alnum),
                 AllIn(m + 1, j, Rest), EndsAt(j, Rest)
          PROVE  Long(j)
      <4>1. m = a + word /\ Separator(a + word)
        BY <2>3, <3>1
      <4>2. a + word <= j - least /\ word >= min
        <5>1. m = a + word
          BY <4>1
        <5> QED BY <1>2, <5>1
      <4> QED BY <3>1, <4>1, <4>2
    <3>2. ASSUME Long(j)
          PROVE  \E m \in (a + min)..(j - least) :
                   /\ Separator(m) /\ AllIn(a, m - 1, Alnum)
                   /\ AllIn(m + 1, j, Rest) /\ EndsAt(j, Rest)
      <4>1. PICK m \in Nat : m = a + word
        OBVIOUS
      <4>2. m \in (a + min)..(j - least)
        <5>1. a + word <= j - least /\ word >= min
          BY <3>2
        <5> QED BY <1>2, <4>1, <5>1
      <4>3. Separator(m) /\ AllIn(a, m - 1, Alnum)
        BY <2>3, <3>2, <4>1, <4>2
      <4> QED BY <3>2, <4>1, <4>2, <4>3
    <3> QED BY <3>1, <3>2
  <2>5. (j >= a + min - 1 /\ j = a + word - 1) <=> (word >= min /\ j = a + word - 1)
    BY <1>2
  <2> HIDE DEF Long, Rest
  <2> QED BY <2>1, <2>2, <2>4, <2>5
<1> HIDE DEF Rest
<1>6. CASE a + word <= n /\ Separator(a + word)
  <2>1. PICK b \in Nat : b = a + word + 1 /\ b \in 1..(n + 1)
    BY <1>2, <1>6
  <2>2. PICK t \in Nat : t = run_length(b, Rest) /\ Runs(b, t, n, Rest)
    BY <2>1, RunIs
  <2>3. b + t <= n + 1
    BY <2>2 DEF Runs
  <2>4. \A j \in i..n : Long(j) <=> (word >= min /\ t >= least /\ j = b + t - 1)
    <3> SUFFICES ASSUME NEW j \in i..n PROVE Long(j) <=> (word >= min /\ t >= least /\ j = b + t - 1)
      OBVIOUS
    <3>1. CASE a + word <= j - least
      <4>1. j \in Nat /\ j <= n /\ b <= j + 1
        BY <1>2, <2>1, <3>1
      <4>2. AllIn(b, j, Rest) /\ EndsAt(j, Rest) <=> j = b + t - 1
        BY <2>1, <2>2, <4>1, RunEnds
      <4>3. j = b + t - 1 => t >= least
        BY <1>2, <2>1, <3>1
      <4> QED BY <1>6, <2>1, <3>1, <4>2, <4>3
    <3>2. CASE ~(a + word <= j - least)
      <4>1. j = b + t - 1 => ~(t >= least)
        BY <1>2, <2>1, <3>2
      <4> QED BY <3>2, <4>1
    <3> QED BY <3>1, <3>2
  <2> HIDE DEF Long
  <2>5. fine_grained_pat_span(a, min) = IF word < min THEN 0 ELSE IF t >= least THEN word + 1 + t ELSE word
    BY <1>0, <1>3, <1>6, <2>1, <2>2 DEF fine_grained_pat_span, Separator, Rest
  <2>6. CASE word >= min /\ t >= least
    <3>0. PICK run \in Nat : run = word + 1 + t
      OBVIOUS
    <3>10. PICK s \in Nat : s = p + run
      OBVIOUS
    <3>11. word >= min
      BY <2>6
    <3>12. run >= min
      BY <3>0, <3>11
    <3>1. s = p + run /\ run >= min /\ run = word + 1 + t
      BY <3>0, <3>10, <3>12
    <3>2. fine_grained_pat_span(a, min) = run
      BY <2>5, <2>6, <3>1
    <3>3. rule_span(rule, i) = s
      BY <1>0, <1>1, <3>1, <3>2 DEF rule_span, PrefixAt, PrefixLength
    <3>4. i + s - 1 = b + t - 1 /\ s # 0 /\ i + s <= n + 1 /\ i + s - 1 \in i..n /\ a + word - 1 <= b + t - 1
      <4>1. b = a + word + 1
        BY <2>1
      <4>2. i + s - 1 = b + t - 1 /\ s >= 1 /\ a + word - 1 <= b + t - 1
        BY <1>1, <3>0, <3>10, <4>1
      <4> QED BY <2>3, <4>2
    <3>5. RuleToken(rule, i, i + s - 1) /\ \A j \in i..n : RuleToken(rule, i, j) => j <= i + s - 1
      BY <1>5, <2>4, <2>6, <3>4
    <3> QED BY <3>3, <3>4, <3>5 DEF LongestToken
  <2>7. CASE word >= min /\ ~(t >= least)
    <3>1. PICK s \in Nat : s = p + word
      OBVIOUS
    <3>2. fine_grained_pat_span(a, min) = word
      BY <2>5, <2>7
    <3>3. rule_span(rule, i) = s
      BY <1>0, <1>1, <2>7, <3>1, <3>2 DEF rule_span, PrefixAt, PrefixLength
    <3>4. i + s - 1 = a + word - 1 /\ s # 0 /\ i + s <= n + 1 /\ i + s - 1 \in i..n
      BY <1>1, <1>2, <1>4, <2>7, <3>1
    <3>5. RuleToken(rule, i, i + s - 1) /\ \A j \in i..n : RuleToken(rule, i, j) => j <= i + s - 1
      BY <1>5, <2>4, <2>7, <3>4
    <3> QED BY <3>3, <3>4, <3>5 DEF LongestToken
  <2>8. CASE ~(word >= min)
    <3>1. fine_grained_pat_span(a, min) = 0
      BY <2>5, <2>8
    <3>2. rule_span(rule, i) = 0
      BY <1>0, <1>1, <1>2, <3>1 DEF rule_span, PrefixAt, PrefixLength
    <3>3. \A j \in i..n : ~RuleToken(rule, i, j)
      BY <1>5, <2>4, <2>8
    <3> QED BY <3>2, <3>3 DEF LongestToken
  <2> QED BY <2>6, <2>7, <2>8
<1>7. CASE ~(a + word <= n /\ Separator(a + word))
  <2>1. \A j \in i..n : ~Long(j)
    <3> SUFFICES ASSUME NEW j \in i..n, Long(j) PROVE FALSE
      OBVIOUS
    <3>1. a + word <= j - least /\ Separator(a + word)
      OBVIOUS
    <3>2. a + word <= j - least
      BY <3>1
    <3>3. a + word <= n
      BY <1>2, <3>2
    <3> QED BY <1>7, <3>1, <3>3
  <2> HIDE DEF Long
  <2>2. fine_grained_pat_span(a, min) = IF word < min THEN 0 ELSE word
    <3>1. ~(0 >= TailMin)
      BY <1>0, <1>2
    <3>2. fine_grained_pat_span(a, min) =
            IF word < min THEN 0 ELSE IF 0 >= TailMin THEN word + 1 + 0 ELSE word
      BY <1>3, <1>7, Zenon DEF fine_grained_pat_span, Separator
    <3> QED BY <3>1, <3>2
  <2>3. CASE word >= min
    <3>1. PICK s \in Nat : s = p + word
      OBVIOUS
    <3>2. fine_grained_pat_span(a, min) = word
      BY <2>2, <2>3
    <3>3. rule_span(rule, i) = s
      BY <1>0, <1>1, <2>3, <3>1, <3>2 DEF rule_span, PrefixAt, PrefixLength
    <3>4. i + s - 1 = a + word - 1 /\ s # 0 /\ i + s <= n + 1 /\ i + s - 1 \in i..n
      BY <1>1, <1>2, <1>4, <2>3, <3>1
    <3>5. RuleToken(rule, i, i + s - 1) /\ \A j \in i..n : RuleToken(rule, i, j) => j <= i + s - 1
      BY <1>5, <2>1, <2>3, <3>4
    <3> QED BY <3>3, <3>4, <3>5 DEF LongestToken
  <2>4. CASE ~(word >= min)
    <3>1. fine_grained_pat_span(a, min) = 0
      BY <2>2, <2>4
    <3>2. rule_span(rule, i) = 0
      BY <1>0, <1>1, <1>2, <3>1 DEF rule_span, PrefixAt, PrefixLength
    <3>3. \A j \in i..n : ~RuleToken(rule, i, j)
      BY <1>5, <2>1, <2>4
    <3> QED BY <3>2, <3>3 DEF LongestToken
  <2> QED BY <2>3, <2>4
<1> QED BY <1>6, <1>7

\* Whatever its shape, a rule takes out its longest token.
LEMMA RuleSpan ==
  ASSUME NEW n \in Nat, n = Len(echoed), echoed \in Seq(Upper \cup Lower \cup Other),
         NEW i \in 1..n, NEW rule \in Rules
  PROVE  \E s \in Nat : s = rule_span(rule, i) /\ LongestToken(rule, i, n, s)
<1>1. CASE PrefixAt(rule, i)
  <2>1. PICK p \in Nat : PrefixLength(rule, p) /\ i + p <= n + 1
    BY <1>1, PrefixFits DEF PrefixLength
  <2>2. rule.shape \in {"aws", "pat", "run"}
    BY DEF Rules
  <2> QED BY <1>1, <2>1, <2>2, AwsSpan, RunSpan, PatSpan
<1>2. CASE ~PrefixAt(rule, i)
  <2>1. rule_span(rule, i) = 0
    BY <1>2 DEF rule_span, PrefixAt
  <2>2. \A j : ~RuleToken(rule, i, j)
    BY <1>2 DEF RuleToken, PrefixAt
  <2> QED BY <2>1, <2>2 DEF LongestToken
<1> QED BY <1>1, <1>2

\* What is taken out at a position is the longest token that begins there.
Spans(i, n, s) ==
  /\ i + s <= n + 1
  /\ s = 0 => \A j \in i..n : ~SecretToken(i, j)
  /\ s # 0 => SecretToken(i, i + s - 1) /\ \A j \in i..n : SecretToken(i, j) => j <= i + s - 1

\* span_at finds the longest token that begins at a position, or none.
LEMMA SpanIs ==
  ASSUME NEW n \in Nat, n = Len(echoed), echoed \in Seq(Upper \cup Lower \cup Other), NEW i \in 1..n
  PROVE  \E s \in Nat : s = span_at(i) /\ Spans(i, n, s)
<1>1. \A j : SecretToken(i, j) <=> \E k \in DOMAIN ScrubRules : RuleToken(ScrubRules[k], i, j)
  BY DEF SecretToken, RuleToken
<1>2. \A k \in DOMAIN ScrubRules :
        \E s \in Nat : s = rule_span(ScrubRules[k], i) /\ LongestToken(ScrubRules[k], i, n, s)
  BY RuleIsTyped, RuleSpan
<1> DEFINE matching == {k \in DOMAIN ScrubRules : rule_span(ScrubRules[k], i) > 0}
<1>3. CASE matching = {}
  <2>1. span_at(i) = 0
    BY <1>3 DEF span_at
  <2>2. ASSUME NEW k \in DOMAIN ScrubRules, NEW j \in i..n
        PROVE  ~RuleToken(ScrubRules[k], i, j)
    <3>1. PICK s \in Nat : s = rule_span(ScrubRules[k], i) /\ LongestToken(ScrubRules[k], i, n, s)
      BY <1>2
    <3>2. ~(rule_span(ScrubRules[k], i) > 0)
      BY <1>3
    <3>3. s = 0
      BY <3>1, <3>2
    <3> QED BY <3>1, <3>3 DEF LongestToken
  <2>3. \A j \in i..n : ~SecretToken(i, j)
    BY <1>1, <2>2
  <2> QED BY <2>1, <2>3 DEF Spans
<1>4. CASE matching # {}
  <2>1. matching \in SUBSET Nat
    <3>1. \A k \in DOMAIN ScrubRules : k \in Nat
      <4>1. PICK R : ScrubRules \in Seq(R)
        BY RulesAreTyped
      <4> QED BY <4>1
    <3> QED BY <3>1
  <2>2. \E k \in matching : \A l \in matching : k <= l
    <3> HIDE DEF matching
    <3> QED BY <1>4, <2>1, LeastNumber
  <2>3. PICK k : k = CHOOSE m \in matching : \A l \in matching : m <= l
    OBVIOUS
  <2>4. k \in matching
    <3> HIDE DEF matching
    <3> QED BY <2>2, <2>3
  <2>5. k \in DOMAIN ScrubRules /\ rule_span(ScrubRules[k], i) > 0
    BY <2>4
  <2>6. span_at(i) = rule_span(ScrubRules[k], i)
    BY <1>4, <2>3, Zenon DEF span_at
  <2>7. PICK s \in Nat : s = rule_span(ScrubRules[k], i) /\ LongestToken(ScrubRules[k], i, n, s)
    BY <1>2, <2>5
  <2>8. s # 0
    BY <2>5, <2>7
  <2>9. /\ i + s <= n + 1 /\ RuleToken(ScrubRules[k], i, i + s - 1)
        /\ \A j \in i..n : RuleToken(ScrubRules[k], i, j) => j <= i + s - 1
    BY <2>7, <2>8 DEF LongestToken
  <2>10. \A j : SecretToken(i, j) <=> RuleToken(ScrubRules[k], i, j)
    <3>1. PrefixAt(ScrubRules[k], i)
      BY <2>9 DEF RuleToken, PrefixAt
    <3>2. \A l \in DOMAIN ScrubRules : \A j : RuleToken(ScrubRules[l], i, j) => PrefixAt(ScrubRules[l], i)
      BY DEF RuleToken, PrefixAt
    <3>3. \A l \in DOMAIN ScrubRules : PrefixAt(ScrubRules[l], i) => l = k
      BY <2>5, <3>1, OneRule
    <3> QED BY <1>1, <2>5, <3>2, <3>3
  <2>11. Spans(i, n, s)
    BY <2>8, <2>9, <2>10 DEF Spans
  <2> QED BY <2>6, <2>7, <2>11
<1> QED BY <1>3, <1>4

-------------------------------------------------------------------------------
\* What the scan puts out from position i on.
ScanStep(f, i) ==
  IF i > Len(echoed) THEN << >>
  ELSE IF span_at(i) > 0 THEN <<0>> \o f[i + span_at(i)]
  ELSE <<i>> \o f[i + 1]

\* The scan of the body from position m on.
Scanning(f, m) ==
  f = [i \in m..(Len(echoed) + 1) |->
        IF i > Len(echoed) THEN << >>
        ELSE IF span_at(i) > 0 THEN <<0>> \o f[i + span_at(i)]
        ELSE <<i>> \o f[i + 1]]

\* What the equation says step by step.
LEMMA ScanningSteps ==
  ASSUME NEW f, NEW m, Scanning(f, m)
  PROVE  \A i \in m..(Len(echoed) + 1) : f[i] = ScanStep(f, i)
  BY Zenon DEF Scanning, ScanStep

\* The equation has a solution.
LEMMA ScanningExists ==
  ASSUME echoed \in Seq(Upper \cup Lower \cup Other)
  PROVE  \E f : Scanning(f, 1)
<1>0. PICK n \in Nat : n = Len(echoed)
  OBVIOUS
<1> DEFINE Bad == {d \in 0..n : ~ \E f : Scanning(f, (n + 1) - d)}
<1>1. CASE Bad # {}
  <2>1. PICK d \in Bad : \A k \in Bad : d <= k
    <3>1. Bad \in SUBSET Nat
      OBVIOUS
    <3> HIDE DEF Bad
    <3> QED BY <1>1, <3>1, LeastNumber
  <2>2. PICK m \in Nat : m = (n + 1) - d /\ m \in 1..(n + 1)
    BY <2>1
  <2>3. CASE d = 0
    <3>1. PICK f : f = [i \in m..(Len(echoed) + 1) |-> << >>]
      OBVIOUS
    <3>2. \A i \in m..(Len(echoed) + 1) : i > Len(echoed)
      BY <1>0, <2>2, <2>3
    <3>3. Scanning(f, m)
      BY <3>1, <3>2, Zenon DEF Scanning
    <3> QED BY <2>1, <2>2, <3>3
  <2>4. CASE d # 0
    <3>1. d - 1 \in 0..n /\ d - 1 \notin Bad /\ (n + 1) - (d - 1) = m + 1
      BY <2>1, <2>2, <2>4
    <3>2. PICK f : Scanning(f, m + 1)
      BY <3>1
    <3>3. PICK g : g = [i \in m..(Len(echoed) + 1) |-> IF i = m THEN ScanStep(f, m) ELSE f[i]]
      OBVIOUS
    <3>4. m \in 1..n
      BY <2>1, <2>2, <2>4
    <3>5. PICK u \in 1..(n + 1) : u > m /\ (span_at(m) > 0 => u = m + span_at(m)) /\ (~(span_at(m) > 0) => u = m + 1)
      <4>1. PICK s \in Nat : s = span_at(m) /\ m + s <= n + 1
        BY <1>0, <3>4, SpanIs DEF Spans
      <4>2. CASE s > 0
        BY <3>4, <4>1, <4>2
      <4>3. CASE ~(s > 0)
        BY <3>4, <4>1, <4>3
      <4> QED BY <4>2, <4>3
    <3>6. \A i \in (m + 1)..(n + 1) : g[i] = f[i] /\ f[i] = ScanStep(f, i)
      <4>1. \A i \in (m + 1)..(Len(echoed) + 1) : f[i] = ScanStep(f, i)
        BY <3>2, ScanningSteps
      <4>2. \A i \in (m + 1)..(n + 1) : g[i] = f[i]
        BY <1>0, <2>2, <3>3
      <4> QED BY <1>0, <4>1, <4>2
    <3>7. g[m] = ScanStep(f, m) /\ g = [i \in m..(Len(echoed) + 1) |-> g[i]]
      BY <1>0, <2>2, <3>3
    <3>8. ScanStep(g, m) = ScanStep(f, m)
      <4>1. g[u] = f[u]
        BY <3>5, <3>6
      <4> QED BY <3>5, <4>1 DEF ScanStep
    <3>9. ASSUME NEW i \in (m + 1)..(n + 1)
          PROVE  ScanStep(g, i) = ScanStep(f, i)
      <4>1. CASE i = n + 1
        <5>1. i > Len(echoed)
          BY <1>0, <4>1
        <5> QED BY <5>1 DEF ScanStep
      <4>2. CASE i # n + 1
        <5>1. i \in 1..n
          BY <2>2, <4>2
        <5>2. PICK s \in Nat : s = span_at(i) /\ i + s <= n + 1
          BY <1>0, <5>1, SpanIs DEF Spans
        <5>3. i + 1 \in (m + 1)..(n + 1) /\ i + s \in (m + 1)..(n + 1)
          BY <5>1, <5>2
        <5>4. g[i + 1] = f[i + 1] /\ g[i + s] = f[i + s]
          BY <3>6, <5>3
        <5> QED BY <5>2, <5>4 DEF ScanStep
      <4> QED BY <4>1, <4>2
    <3>10. \A i \in m..(Len(echoed) + 1) : g[i] = ScanStep(g, i)
      <4> SUFFICES ASSUME NEW i \in m..(Len(echoed) + 1) PROVE g[i] = ScanStep(g, i)
        OBVIOUS
      <4>1. i = m \/ i \in (m + 1)..(n + 1)
        BY <1>0, <2>2
      <4> QED BY <3>6, <3>7, <3>8, <3>9, <4>1
    <3>11. Scanning(g, m)
      BY <3>7, <3>10, Zenon DEF Scanning, ScanStep
    <3> QED BY <2>1, <2>2, <3>11
  <2> QED BY <2>3, <2>4
<1>2. CASE Bad = {}
  <2>1. n \in 0..n /\ (n + 1) - n = 1
    OBVIOUS
  <2> QED BY <1>2, <2>1
<1> QED BY <1>1, <1>2

\* The position k is in the output.
In(out, k) == \E m \in DOMAIN out : out[m] = k

\* One more item at the front.
LEMMA InFront ==
  ASSUME NEW T, NEW x \in T, NEW t \in Seq(T)
  PROVE  <<x>> \o t \in Seq(T) /\ \A k : In(<<x>> \o t, k) <=> k = x \/ In(t, k)
<1>1. PICK one : one = <<x>> /\ one \in Seq(T) /\ Len(one) = 1 /\ one[1] = x
  <2>1. <<x>> \in Seq(T) /\ Len(<<x>>) = 1 /\ <<x>>[1] = x
    OBVIOUS
  <2> QED BY <2>1, Zenon
<1>2. PICK n \in Nat : n = Len(t) /\ DOMAIN t = 1..n
  OBVIOUS
<1>3. PICK out : out = one \o t
  OBVIOUS
<1>4. /\ out \in Seq(T) /\ Len(out) = n + 1
      /\ \A i \in 1..(n + 1) : out[i] = IF i <= 1 THEN one[i] ELSE t[i - 1]
  <2>2. /\ out \in Seq(T) /\ Len(out) = Len(one) + Len(t)
        /\ \A i \in 1..(Len(one) + Len(t)) : out[i] = IF i <= Len(one) THEN one[i] ELSE t[i - Len(one)]
    BY <1>1, <1>3, ConcatProperties
  <2>3. Len(one) + Len(t) = n + 1
    BY <1>1, <1>2
  <2> QED BY <1>1, <2>2, <2>3
<1>5. DOMAIN out = 1..(n + 1) /\ out[1] = x /\ \A i \in 1..n : out[i + 1] = t[i]
  <2>1. DOMAIN out = 1..(n + 1)
    BY <1>4
  <2>2. out[1] = one[1]
    BY <1>4
  <2>3. ASSUME NEW i \in 1..n PROVE out[i + 1] = t[i]
    <3>1. i + 1 \in 1..(n + 1) /\ ~(i + 1 <= 1) /\ (i + 1) - 1 = i
      OBVIOUS
    <3> QED BY <1>4, <3>1
  <2> QED BY <1>1, <2>1, <2>2, <2>3
<1>6. ASSUME NEW k
      PROVE  In(out, k) <=> k = x \/ In(t, k)
  <2>1. ASSUME NEW m \in 1..(n + 1), out[m] = k PROVE k = x \/ In(t, k)
    <3>1. CASE m = 1
      BY <1>5, <2>1, <3>1
    <3>2. CASE m # 1
      <4>1. m - 1 \in 1..n /\ (m - 1) + 1 = m
        BY <3>2
      <4>2. out[(m - 1) + 1] = t[m - 1]
        BY <1>5, <4>1
      <4>3. t[m - 1] = k
        BY <2>1, <4>1, <4>2
      <4> QED BY <1>2, <4>1, <4>3 DEF In
    <3> QED BY <3>1, <3>2
  <2>2. ASSUME k = x PROVE In(out, k)
    <3>1. 1 \in 1..(n + 1)
      OBVIOUS
    <3> QED BY <1>5, <2>2, <3>1 DEF In
  <2>3. ASSUME NEW m \in 1..n, t[m] = k PROVE In(out, k)
    <3>1. m + 1 \in 1..(n + 1)
      OBVIOUS
    <3> QED BY <1>5, <2>3, <3>1 DEF In
  <2> QED BY <1>2, <1>5, <2>1, <2>2, <2>3 DEF In
<1> QED BY <1>1, <1>3, <1>4, <1>6

\* A position the scan looked at, as far as the output tells.
Start(out, i, q) == In(out, q) \/ q = i \/ In(out, q - 1)

\* The output from position i on has the positions that no token covers.
Scrubbed(out, i, n) ==
  /\ out \in Seq(Nat)
  /\ \A k \in Nat : In(out, k) => k = 0 \/ k \in i..n
  /\ \A k \in i..n : In(out, k) => \A q \in i..k : Start(out, i, q) => \A j \in k..n : ~SecretToken(q, j)
  /\ \A k \in i..n : ~In(out, k) => \E q \in i..k, j \in k..n : SecretToken(q, j)

\* A byte where no token begins is kept.
LEMMA KeptByte ==
  ASSUME NEW n \in Nat, NEW i \in 1..n, NEW t, Scrubbed(t, i + 1, n), \A j \in i..n : ~SecretToken(i, j)
  PROVE  Scrubbed(<<i>> \o t, i, n)
<1>1. t \in Seq(Nat) /\ i \in Nat
  BY DEF Scrubbed
<1>2. PICK out : out = <<i>> \o t
  OBVIOUS
<1>3. out \in Seq(Nat) /\ \A k : In(out, k) <=> k = i \/ In(t, k)
  BY <1>1, <1>2, InFront
<1>4. \A k \in Nat : In(out, k) => k = 0 \/ k \in i..n
  BY <1>3 DEF Scrubbed
<1>5. ASSUME NEW k \in i..n, In(out, k), NEW q \in i..k, Start(out, i, q), NEW j \in k..n
      PROVE  ~SecretToken(q, j)
  <2>1. CASE q = i
    <3>1. j \in i..n
      OBVIOUS
    <3> QED BY <2>1, <3>1
  <2>2. CASE q # i
    <3>1. q \in (i + 1)..k /\ k \in (i + 1)..n /\ k # i
      BY <2>2
    <3>2. In(t, k)
      BY <1>3, <1>5, <3>1
    <3>3. Start(t, i + 1, q)
      <4>1. In(out, q) \/ In(out, q - 1)
        BY <1>5, <2>2 DEF Start
      <4>2. In(t, q) \/ q - 1 = i \/ In(t, q - 1)
        BY <1>3, <2>2, <4>1
      <4>3. q - 1 = i => q = i + 1
        BY <3>1
      <4> QED BY <4>2, <4>3 DEF Start
    <3> QED BY <3>1, <3>2, <3>3 DEF Scrubbed
  <2> QED BY <2>1, <2>2
<1>6. ASSUME NEW k \in i..n, ~In(out, k)
      PROVE  \E q \in i..k, j \in k..n : SecretToken(q, j)
  <2>1. k # i /\ ~In(t, k)
    BY <1>3, <1>6
  <2>2. k \in (i + 1)..n
    BY <2>1
  <2>3. PICK q \in (i + 1)..k, j \in k..n : SecretToken(q, j)
    BY <2>1, <2>2 DEF Scrubbed
  <2>4. q \in i..k
    OBVIOUS
  <2> QED BY <2>3, <2>4
<1> QED BY <1>2, <1>3, <1>4, <1>5, <1>6 DEF Scrubbed

\* A token is taken out whole.
LEMMA TakenToken ==
  ASSUME NEW n \in Nat, NEW i \in 1..n, NEW s \in Nat, s # 0, Spans(i, n, s), NEW t, Scrubbed(t, i + s, n)
  PROVE  Scrubbed(<<0>> \o t, i, n)
<1>1. t \in Seq(Nat) /\ 0 \in Nat
  BY DEF Scrubbed
<1>2. PICK out : out = <<0>> \o t
  OBVIOUS
<1>3. out \in Seq(Nat) /\ \A k : In(out, k) <=> k = 0 \/ In(t, k)
  BY <1>1, <1>2, InFront
<1>4. /\ i + s <= n + 1 /\ s >= 1 /\ SecretToken(i, i + s - 1)
      /\ \A j \in i..n : SecretToken(i, j) => j <= i + s - 1
  BY DEF Spans
<1>5. PICK u \in Nat : u = i + s /\ u > i /\ u <= n + 1
  BY <1>4
<1>6. /\ \A k \in Nat : In(t, k) => k = 0 \/ k \in u..n
      /\ \A k \in u..n : In(t, k) => \A q \in u..k : Start(t, u, q) => \A j \in k..n : ~SecretToken(q, j)
      /\ \A k \in u..n : ~In(t, k) => \E q \in u..k, j \in k..n : SecretToken(q, j)
  BY <1>5 DEF Scrubbed
<1>7. \A k \in Nat : In(out, k) => k = 0 \/ k \in i..n
  BY <1>3, <1>5, <1>6
<1>8. ASSUME NEW k \in i..n, In(out, k), NEW q \in i..k, Start(out, i, q), NEW j \in k..n
      PROVE  ~SecretToken(q, j)
  <2>1. k # 0 /\ k \in Nat
    OBVIOUS
  <2>2. In(t, k)
    BY <1>3, <1>8, <2>1
  <2>3. k \in u..n
    BY <1>6, <2>1, <2>2
  <2>4. CASE q = i
    <3>1. j \in i..n /\ ~(j <= i + s - 1)
      BY <1>5, <2>3
    <3> QED BY <1>4, <2>4, <3>1
  <2>5. CASE q # i
    <3>1. q # 0 /\ q - 1 # 0 /\ q \in Nat /\ q - 1 \in Nat
      BY <2>5
    <3>2. In(t, q) \/ In(t, q - 1)
      BY <1>3, <1>8, <2>5, <3>1 DEF Start
    <3>3. q \in u..n \/ q - 1 \in u..n
      BY <1>6, <3>1, <3>2
    <3>4. q \in u..k
      BY <1>5, <3>3
    <3>5. Start(t, u, q)
      BY <3>2 DEF Start
    <3> QED BY <1>6, <2>2, <2>3, <3>4, <3>5
  <2> QED BY <2>4, <2>5
<1>9. ASSUME NEW k \in i..n, ~In(out, k)
      PROVE  \E q \in i..k, j \in k..n : SecretToken(q, j)
  <2>1. ~In(t, k)
    BY <1>3, <1>9
  <2>2. CASE k \in u..n
    <3>1. PICK q \in u..k, j \in k..n : SecretToken(q, j)
      BY <1>6, <2>1, <2>2
    <3>2. q \in i..k
      BY <1>5
    <3> QED BY <3>1, <3>2
  <2>3. CASE k \notin u..n
    <3>1. i + s - 1 \in k..n /\ i \in i..k
      BY <1>4, <1>5, <2>3
    <3> QED BY <1>4, <3>1
  <2> QED BY <2>2, <2>3
<1> QED BY <1>2, <1>3, <1>7, <1>8, <1>9 DEF Scrubbed

\* The scan takes out the tokens and nothing else.
LEMMA ScanScrubs ==
  ASSUME echoed \in Seq(Upper \cup Lower \cup Other), NEW f, Scanning(f, 1)
  PROVE  Scrubbed(f[1], 1, Len(echoed))
<1>0. PICK n \in Nat : n = Len(echoed)
  OBVIOUS
<1>1. \A i \in 1..(n + 1) : f[i] = ScanStep(f, i)
  BY <1>0, ScanningSteps
<1> DEFINE Bad == {d \in 0..n : ~Scrubbed(f[(n + 1) - d], (n + 1) - d, n)}
<1>2. CASE Bad # {}
  <2>1. PICK d \in Bad : \A k \in Bad : d <= k
    <3>1. Bad \in SUBSET Nat
      OBVIOUS
    <3> HIDE DEF Bad
    <3> QED BY <1>2, <3>1, LeastNumber
  <2>2. PICK i \in 1..(n + 1) : i = (n + 1) - d
    BY <2>1
  <2>3. ~Scrubbed(f[i], i, n) /\ \A k \in (i + 1)..(n + 1) : Scrubbed(f[k], k, n)
    <3>1. ~Scrubbed(f[i], i, n)
      BY <2>1, <2>2
    <3>2. ASSUME NEW k \in (i + 1)..(n + 1) PROVE Scrubbed(f[k], k, n)
      <4>1. (n + 1) - k \in 0..n /\ (n + 1) - k < d /\ (n + 1) - ((n + 1) - k) = k
        <5>1. d \in 0..n
          BY <2>1
        <5> QED BY <2>2, <5>1
      <4>2. (n + 1) - k \notin Bad
        <5>1. d \in Nat /\ (n + 1) - k \in Nat
          BY <2>1, <4>1
        <5> HIDE DEF Bad
        <5> QED BY <2>1, <4>1, <5>1
      <4>3. Scrubbed(f[(n + 1) - ((n + 1) - k)], (n + 1) - ((n + 1) - k), n)
        BY <4>1, <4>2
      <4> QED BY <4>1, <4>3
    <3> QED BY <3>1, <3>2
  <2>4. CASE i = n + 1
    <3>1. i > Len(echoed)
      BY <1>0, <2>4
    <3>2. f[i] = << >>
      BY <1>1, <3>1 DEF ScanStep
    <3>3. << >> \in Seq(Nat) /\ \A k : ~In(<< >>, k)
      BY DEF In
    <3>4. i..n = {}
      BY <2>4
    <3>5. Scrubbed(<< >>, i, n)
      BY <3>3, <3>4 DEF Scrubbed
    <3> QED BY <2>3, <3>2, <3>5
  <2>5. CASE i # n + 1
    <3>1. i \in 1..n /\ ~(i > Len(echoed))
      BY <1>0, <2>5
    <3>2. PICK s \in Nat : s = span_at(i) /\ Spans(i, n, s)
      BY <1>0, <3>1, SpanIs
    <3>3. CASE s > 0
      <4>1. f[i] = <<0>> \o f[i + s]
        BY <1>1, <3>1, <3>2, <3>3 DEF ScanStep
      <4>2. i + s \in (i + 1)..(n + 1) /\ s # 0
        BY <3>2, <3>3 DEF Spans
      <4>3. Scrubbed(f[i + s], i + s, n)
        BY <2>3, <4>2
      <4>4. Scrubbed(<<0>> \o f[i + s], i, n)
        BY <3>1, <3>2, <4>2, <4>3, TakenToken
      <4> QED BY <2>3, <4>1, <4>4
    <3>4. CASE ~(s > 0)
      <4>1. f[i] = <<i>> \o f[i + 1]
        BY <1>1, <3>1, <3>2, <3>4 DEF ScanStep
      <4>2. i + 1 \in (i + 1)..(n + 1) /\ s = 0
        BY <3>1, <3>4
      <4>3. Scrubbed(f[i + 1], i + 1, n) /\ \A j \in i..n : ~SecretToken(i, j)
        BY <2>3, <3>2, <4>2 DEF Spans
      <4>4. Scrubbed(<<i>> \o f[i + 1], i, n)
        BY <3>1, <4>3, KeptByte
      <4> QED BY <2>3, <4>1, <4>4
    <3> QED BY <3>3, <3>4
  <2> QED BY <2>4, <2>5
<1>3. CASE Bad = {}
  <2>1. n \in 0..n /\ (n + 1) - n = 1
    OBVIOUS
  <2>2. Scrubbed(f[(n + 1) - n], (n + 1) - n, n)
    BY <1>3, <2>1
  <2> QED BY <1>0, <2>1, <2>2
<1> QED BY <1>2, <1>3

\* What scrub_secret_patterns computes.
LEMMA ScrubIs ==
  ASSUME echoed \in Seq(Upper \cup Lower \cup Other)
  PROVE  Scrubbed(scrub_secret_patterns, 1, Len(echoed))
<1>1. \E f : Scanning(f, 1)
  BY ScanningExists
<1>2. PICK f : f = CHOOSE g : Scanning(g, 1)
  OBVIOUS
<1>3. Scanning(f, 1)
  BY <1>1, <1>2, Zenon
<1>4. scrub_secret_patterns = f[1]
  BY <1>2, Zenon DEF scrub_secret_patterns, Scanning
<1> QED BY <1>3, <1>4, ScanScrubs

-------------------------------------------------------------------------------
(* The event of a denial.                                                  *)

\* The bytes of the first k characters, for each k up to n.
Totalling(f, n, r) == f = [k \in 0..n |-> IF k = 0 THEN 0 ELSE f[k - 1] + r[k]]

\* What the equation says step by step.
LEMMA TotallingSteps ==
  ASSUME NEW f, NEW n \in Nat, NEW r, Totalling(f, n, r)
  PROVE  f[0] = 0 /\ \A k \in 1..n : f[k] = f[k - 1] + r[k]
<1>1. \A k \in 0..n : f[k] = IF k = 0 THEN 0 ELSE f[k - 1] + r[k]
  BY Zenon DEF Totalling
<1> QED BY <1>1

\* The equation has a solution for every n.
LEMMA TotallingExists ==
  ASSUME NEW n \in Nat, NEW r
  PROVE  \E f : Totalling(f, n, r)
<1> DEFINE Bad == {m \in Nat : ~ \E f : Totalling(f, m, r)}
<1>1. SUFFICES ASSUME Bad # {} PROVE FALSE
  OBVIOUS
<1>2. PICK m \in Bad : \A k \in Bad : m <= k
  <2>1. Bad \in SUBSET Nat
    OBVIOUS
  <2> HIDE DEF Bad
  <2> QED BY <1>1, <2>1, LeastNumber
<1>3. m # 0
  <2>1. SUFFICES ASSUME m = 0 PROVE FALSE
    OBVIOUS
  <2>2. PICK f : f = [k \in 0..0 |-> 0]
    OBVIOUS
  <2>3. Totalling(f, 0, r)
    BY <2>2 DEF Totalling
  <2> QED BY <1>2, <2>1, <2>3
<1>4. m \in Nat /\ m - 1 \in Nat /\ 0 \in 0..(m - 1) /\ m - 1 \in 0..(m - 1)
  BY <1>2, <1>3
<1>5. PICK f : Totalling(f, m - 1, r)
  BY <1>2, <1>4
<1>6. PICK g : g = [k \in 0..m |-> IF k = m THEN f[m - 1] + r[m] ELSE f[k]]
  OBVIOUS
<1>7. f[0] = 0 /\ \A k \in 1..(m - 1) : f[k] = f[k - 1] + r[k]
  BY <1>4, <1>5, TotallingSteps
<1>8. /\ \A k \in 0..(m - 1) : g[k] = f[k]
      /\ g[m] = f[m - 1] + r[m] /\ g = [k \in 0..m |-> g[k]]
  BY <1>4, <1>6
<1>9. \A k \in 0..m : g[k] = IF k = 0 THEN 0 ELSE g[k - 1] + r[k]
  <2> SUFFICES ASSUME NEW k \in 0..m PROVE g[k] = IF k = 0 THEN 0 ELSE g[k - 1] + r[k]
    OBVIOUS
  <2>1. CASE k = 0
    <3>1. g[0] = 0
      BY <1>4, <1>7, <1>8, Zenon
    <3> QED BY <2>1, <3>1
  <2>2. CASE k = m
    <3>1. g[m - 1] = f[m - 1]
      BY <1>4, <1>8, Zenon
    <3> QED BY <1>3, <1>8, <2>2, <3>1
  <2>3. CASE k # 0 /\ k # m
    <3>1. k \in 1..(m - 1) /\ k - 1 \in 0..(m - 1) /\ k \in 0..(m - 1)
      BY <1>4, <2>3
    <3>2. g[k] = f[k] /\ g[k - 1] = f[k - 1]
      BY <1>8, <3>1
    <3> QED BY <1>7, <2>3, <3>1, <3>2
  <2> QED BY <2>1, <2>2, <2>3
<1>10. Totalling(g, m, r)
  BY <1>8, <1>9, Zenon DEF Totalling
<1> QED BY <1>2, <1>10

\* What bytes_of computes.
LEMMA BytesAre ==
  ASSUME NEW r, NEW n \in Nat, n = Len(r)
  PROVE  \E f : f[0] = 0 /\ (\A k \in 1..n : f[k] = f[k - 1] + r[k]) /\ bytes_of(r) = f[n]
<1>1. \E f : Totalling(f, Len(r), r)
  BY TotallingExists
<1>2. PICK f : f = CHOOSE g : Totalling(g, Len(r), r)
  OBVIOUS
<1>3. Totalling(f, Len(r), r)
  BY <1>1, <1>2, Zenon
<1>4. bytes_of(r) = f[Len(r)]
  BY <1>2, Zenon DEF bytes_of, Totalling
<1> QED BY <1>3, <1>4, TotallingSteps

\* The ends of characters are numbers that grow from 0 to the length of the reason.
LEMMA BoundariesAre ==
  ASSUME NEW r \in Seq(1..4)
  PROVE  /\ char_boundaries(r) \subseteq Nat /\ 0 \in char_boundaries(r)
         /\ bytes_of(r) \in char_boundaries(r)
         /\ \A e \in char_boundaries(r) : e <= bytes_of(r)
<1>1. PICK n \in Nat : n = Len(r)
  OBVIOUS
<1>2. PICK f : f[0] = 0 /\ (\A k \in 1..n : f[k] = f[k - 1] + r[k]) /\ bytes_of(r) = f[n]
  BY <1>1, BytesAre
<1>3. \A k \in 1..n : r[k] \in Nat
  BY <1>1
<1>4. ASSUME NEW m \in 0..n, NEW g, g[0] = 0, \A k \in 1..m : g[k] = g[k - 1] + r[k]
      PROVE  \A k \in 0..m : g[k] = f[k] /\ f[k] \in Nat
  <2> DEFINE Bad == {k \in 0..m : ~(g[k] = f[k] /\ f[k] \in Nat)}
  <2>1. SUFFICES ASSUME Bad # {} PROVE FALSE
    OBVIOUS
  <2>2. PICK k \in Bad : \A l \in Bad : k <= l
    <3>1. Bad \in SUBSET Nat
      OBVIOUS
    <3> HIDE DEF Bad
    <3> QED BY <2>1, <3>1, LeastNumber
  <2>3. k \in 0..m /\ ~(g[k] = f[k] /\ f[k] \in Nat)
    BY <2>2
  <2>4. k # 0
    BY <1>2, <1>4, <2>3
  <2>5. k - 1 \in 0..m /\ k \in 1..m /\ k \in 1..n /\ k - 1 < k
    BY <2>3, <2>4
  <2>6. k - 1 \notin Bad
    <3>1. k \in Nat
      BY <2>3
    <3> HIDE DEF Bad
    <3> QED BY <2>2, <2>5, <3>1
  <2>7. g[k - 1] = f[k - 1] /\ f[k - 1] \in Nat
    BY <2>5, <2>6
  <2>8. g[k] = g[k - 1] + r[k] /\ f[k] = f[k - 1] + r[k] /\ r[k] \in Nat
    BY <1>2, <1>3, <1>4, <2>5
  <2>9. PICK x \in Nat, y \in Nat : x = f[k - 1] /\ y = r[k]
    BY <2>7, <2>8
  <2> QED BY <2>3, <2>7, <2>8, <2>9
<1>5. \A k \in 0..n : f[k] \in Nat
  <2>1. n \in 0..n
    OBVIOUS
  <2> QED BY <1>2, <1>4, <2>1, Zenon
<1>6. \A k \in 0..n : f[k] <= f[n]
  <2> DEFINE Bad == {d \in 0..n : ~(f[n - d] <= f[n])}
  <2>1. CASE Bad # {}
    <3>1. PICK d \in Bad : \A l \in Bad : d <= l
      <4>1. Bad \in SUBSET Nat
        OBVIOUS
      <4> HIDE DEF Bad
      <4> QED BY <2>1, <4>1, LeastNumber
    <3>2. d \in 0..n /\ ~(f[n - d] <= f[n])
      BY <3>1
    <3>3. d # 0
      <4>1. SUFFICES ASSUME d = 0 PROVE FALSE
        OBVIOUS
      <4>2. n - d = n /\ n \in 0..n
        BY <4>1
      <4>3. PICK x \in Nat : x = f[n]
        BY <1>5, <4>2
      <4> QED BY <3>2, <4>2, <4>3
    <3>4. PICK k \in 0..n : k = n - d /\ k + 1 \in 1..n /\ n - (d - 1) = k + 1 /\ (k + 1) - 1 = k /\ d - 1 \in 0..n
      BY <3>2, <3>3
    <3>5. d - 1 \notin Bad
      <4>1. d \in Nat /\ d - 1 < d
        BY <3>2
      <4> HIDE DEF Bad
      <4> QED BY <3>1, <3>4, <4>1
    <3>6. f[k + 1] <= f[n]
      BY <3>4, <3>5
    <3>7. f[k + 1] = f[k] + r[k + 1]
      BY <1>2, <3>4
    <3>8. PICK x \in Nat, y \in Nat, z \in Nat : x = f[k] /\ y = r[k + 1] /\ z = f[n]
      <4>1. n \in 0..n
        OBVIOUS
      <4> QED BY <1>3, <1>5, <3>4, <4>1
    <3>9. x + y <= z
      BY <3>6, <3>7, <3>8
    <3>10. x <= z
      BY <3>9
    <3> QED BY <3>2, <3>4, <3>8, <3>10
  <2>2. CASE Bad = {}
    <3> SUFFICES ASSUME NEW k \in 0..n PROVE f[k] <= f[n]
      OBVIOUS
    <3>1. n - k \in 0..n /\ n - (n - k) = k
      OBVIOUS
    <3>2. f[n - (n - k)] <= f[n]
      BY <2>2, <3>1
    <3> QED BY <3>1, <3>2
  <2> QED BY <2>1, <2>2
<1>7. \A m \in 0..n : bytes_of(SubSeq(r, 1, m)) = f[m]
  <2> SUFFICES ASSUME NEW m \in 0..n PROVE bytes_of(SubSeq(r, 1, m)) = f[m]
    OBVIOUS
  <2>1. PICK t : t = SubSeq(r, 1, m)
    OBVIOUS
  <2>2. m \in Nat /\ Len(t) = m /\ \A k \in 1..m : t[k] = r[k]
    BY <1>1, <2>1
  <2>3. PICK g : g[0] = 0 /\ (\A k \in 1..m : g[k] = g[k - 1] + t[k]) /\ bytes_of(t) = g[m]
    BY <2>2, BytesAre
  <2>4. \A k \in 1..m : g[k] = g[k - 1] + r[k]
    BY <2>2, <2>3
  <2>5. g[m] = f[m]
    <3>1. m \in 0..m
      BY <2>2
    <3> QED BY <1>4, <2>3, <2>4, <3>1
  <2> QED BY <2>1, <2>3, <2>5
<1>8. char_boundaries(r) = {f[m] : m \in 0..n}
  BY <1>1, <1>7 DEF char_boundaries
<1>9. 0 \in 0..n /\ n \in 0..n
  OBVIOUS
<1> QED BY <1>2, <1>5, <1>6, <1>8, <1>9

\* The walk back to the end of a character.
Stepping(f, m, ends) == f = [e \in 0..m |-> IF e \in ends THEN e ELSE f[e - 1]]

\* What the equation says step by step.
LEMMA SteppingSteps ==
  ASSUME NEW f, NEW m \in Nat, NEW ends, Stepping(f, m, ends)
  PROVE  \A e \in 0..m : f[e] = IF e \in ends THEN e ELSE f[e - 1]
  BY Zenon DEF Stepping

\* The walk ends, at the last end of a character up to m.
LEMMA SteppingIs ==
  ASSUME NEW f, NEW m \in Nat, NEW ends \in SUBSET Nat, 0 \in ends, Stepping(f, m, ends)
  PROVE  f[m] \in ends /\ f[m] <= m /\ \A e \in ends : e <= m => e <= f[m]
<1> DEFINE Good(e) == f[e] \in ends /\ f[e] <= e /\ \A d \in ends : d <= e => d <= f[e]
           Bad == {e \in 0..m : ~Good(e)}
<1>1. \A e \in 0..m : f[e] = IF e \in ends THEN e ELSE f[e - 1]
  BY SteppingSteps
<1>2. CASE Bad # {}
  <2>1. PICK e \in Bad : \A d \in Bad : e <= d
    <3>1. Bad \in SUBSET Nat
      OBVIOUS
    <3> HIDE DEF Bad
    <3> QED BY <1>2, <3>1, LeastNumber
  <2>2. e \in 0..m /\ e \in Nat /\ ~Good(e)
    BY <2>1
  <2>3. e \notin ends
    <3>1. SUFFICES ASSUME e \in ends PROVE FALSE
      OBVIOUS
    <3>2. f[e] = e
      BY <1>1, <2>2, <3>1
    <3> QED BY <2>2, <3>1, <3>2
  <2>4. e # 0 /\ e - 1 \in 0..m /\ e - 1 < e
    BY <2>2, <2>3
  <2>5. e - 1 \notin Bad
    <3> HIDE DEF Bad
    <3> QED BY <2>1, <2>2, <2>4
  <2>6. Good(e - 1)
    BY <2>4, <2>5
  <2>7. PICK v \in Nat : v = f[e] /\ v = f[e - 1]
    BY <1>1, <2>2, <2>3, <2>6
  <2>8. v \in ends /\ v <= e - 1 /\ \A d \in ends : d <= e - 1 => d <= v
    BY <2>6, <2>7
  <2>9. \A d \in ends : d <= e => d <= e - 1
    BY <2>2, <2>3
  <2>10. v <= e /\ \A d \in ends : d <= e => d <= v
    BY <2>2, <2>8, <2>9
  <2> QED BY <2>2, <2>7, <2>8, <2>10
<1>3. CASE Bad = {}
  BY <1>3
<1> QED BY <1>2, <1>3

\* The equation has a solution for every m.
LEMMA SteppingExists ==
  ASSUME NEW m \in Nat, NEW ends \in SUBSET Nat, 0 \in ends
  PROVE  \E f : Stepping(f, m, ends)
<1> DEFINE Bad == {l \in Nat : ~ \E f : Stepping(f, l, ends)}
<1>1. SUFFICES ASSUME Bad # {} PROVE FALSE
  OBVIOUS
<1>2. PICK l \in Bad : \A k \in Bad : l <= k
  <2>1. Bad \in SUBSET Nat
    OBVIOUS
  <2> HIDE DEF Bad
  <2> QED BY <1>1, <2>1, LeastNumber
<1>3. l # 0
  <2>1. SUFFICES ASSUME l = 0 PROVE FALSE
    OBVIOUS
  <2>2. PICK f : f = [e \in 0..0 |-> 0]
    OBVIOUS
  <2>3. Stepping(f, 0, ends)
    BY <2>2 DEF Stepping
  <2> QED BY <1>2, <2>1, <2>3
<1>4. l \in Nat /\ l - 1 \in Nat /\ 0 \in 0..(l - 1) /\ l - 1 \in 0..(l - 1)
  BY <1>2, <1>3
<1>5. PICK f : Stepping(f, l - 1, ends)
  BY <1>2, <1>4
<1>6. PICK g : g = [e \in 0..l |-> IF e = l THEN (IF l \in ends THEN l ELSE f[l - 1]) ELSE f[e]]
  OBVIOUS
<1>7. \A e \in 0..(l - 1) : f[e] = IF e \in ends THEN e ELSE f[e - 1]
  BY <1>4, <1>5, SteppingSteps
<1>8. /\ \A e \in 0..(l - 1) : g[e] = f[e]
      /\ g[l] = (IF l \in ends THEN l ELSE f[l - 1]) /\ g = [e \in 0..l |-> g[e]]
  BY <1>4, <1>6
<1>9. \A e \in 0..l : g[e] = IF e \in ends THEN e ELSE g[e - 1]
  <2> SUFFICES ASSUME NEW e \in 0..l PROVE g[e] = IF e \in ends THEN e ELSE g[e - 1]
    OBVIOUS
  <2>1. CASE e = l
    <3>1. g[l - 1] = f[l - 1]
      BY <1>4, <1>8, Zenon
    <3> QED BY <1>8, <2>1, <3>1
  <2>2. CASE e = 0
    <3>1. g[0] = f[0] /\ f[0] = IF 0 \in ends THEN 0 ELSE f[0 - 1]
      BY <1>4, <1>7, <1>8, Zenon
    <3> QED BY <2>2, <3>1
  <2>3. CASE e # 0 /\ e # l
    <3>1. e - 1 \in 0..(l - 1) /\ e \in 0..(l - 1)
      BY <1>4, <2>3
    <3>2. g[e] = f[e] /\ g[e - 1] = f[e - 1] /\ f[e] = IF e \in ends THEN e ELSE f[e - 1]
      BY <1>7, <1>8, <3>1, Zenon
    <3> QED BY <3>2
  <2> QED BY <2>1, <2>2, <2>3
<1>10. Stepping(g, l, ends)
  BY <1>8, <1>9, Zenon DEF Stepping
<1> QED BY <1>2, <1>10

\* A kept part of a reason ends with a character, fits, and is the longest that does.
LEMMA BoundedReasonIs ==
  ASSUME NEW r \in Seq(1..4)
  PROVE  /\ bounded_reason(r) \in char_boundaries(r) /\ bounded_reason(r) <= MaxDenyReason
         /\ \A e \in char_boundaries(r) : e <= MaxDenyReason => e <= bounded_reason(r)
<1>1. PICK ends : ends = char_boundaries(r)
  OBVIOUS
<1>2. /\ ends \in SUBSET Nat /\ 0 \in ends /\ bytes_of(r) \in ends
      /\ \A e \in ends : e <= bytes_of(r)
  BY <1>1, BoundariesAre
<1>3. PICK max \in Nat : max = MaxDenyReason
  BY RulesAreTyped
<1>4. PICK b \in Nat : b = bytes_of(r)
  BY <1>2
<1>5. CASE b <= max
  <2>1. bounded_reason(r) = b
    BY <1>3, <1>4, <1>5 DEF bounded_reason
  <2> QED BY <1>1, <1>2, <1>3, <1>4, <1>5, <2>1
<1>6. CASE ~(b <= max)
  <2>1. \E f : Stepping(f, max, ends)
    BY <1>2, SteppingExists
  <2>2. PICK f : f = CHOOSE g : Stepping(g, max, ends)
    OBVIOUS
  <2>3. Stepping(f, max, ends)
    BY <2>1, <2>2, Zenon
  <2>4. bounded_reason(r) = f[max]
    <3>1. ~(bytes_of(r) <= MaxDenyReason)
      BY <1>3, <1>4, <1>6
    <3> QED BY <1>1, <1>3, <2>2, <3>1, Zenon DEF bounded_reason, Stepping
  <2>5. f[max] \in ends /\ f[max] <= max /\ \A e \in ends : e <= max => e <= f[max]
    BY <1>2, <2>3, SteppingIs
  <2> QED BY <1>1, <1>3, <2>4, <2>5, Zenon
<1> QED BY <1>5, <1>6

\* What a denial holds.
RedactInv ==
  /\ echoed \in Seq(Upper \cup Lower \cup Other)
  /\ \E P, H : denial \in [reason : Seq(1..4), policy : P, host : H]

\* The inductive part holds at first.
LEMMA RedactInvInit == redactInit => RedactInv
<1> SUFFICES ASSUME redactInit PROVE RedactInv
  OBVIOUS
<1>1. denial \in [reason : Seq(1..4), policy : {None}, host : {"name"}] /\ echoed = << >>
  BY DEF redactInit, NoDenial
<1>2. << >> \in Seq(Upper \cup Lower \cup Other)
  OBVIOUS
<1> QED BY <1>1, <1>2, Zenon DEF RedactInv

\* Bodies and denials keep their shape while they grow.
LEMMA RedactInvStep ==
  ASSUME RedactInv, [redactNext]_redactVars
  PROVE  RedactInv'
<1>1. CASE UNCHANGED redactVars
  BY <1>1 DEF RedactInv, redactVars
<1>2. ASSUME NEW b \in Upper \cup Lower \cup Other, NextByte(b) PROVE RedactInv'
  <2>1. PICK S : S = Upper \cup Lower \cup Other
    OBVIOUS
  <2>2. echoed \in Seq(S) /\ b \in S
    BY <1>2, <2>1 DEF RedactInv
  <2>3. Append(echoed, b) \in Seq(S)
    BY <2>2
  <2> QED BY <1>2, <2>1, <2>3 DEF NextByte, RedactInv
<1>3. ASSUME NEW width \in 1..4, NextChar(width) PROVE RedactInv'
  <2>1. PICK P, H : denial \in [reason : Seq(1..4), policy : P, host : H]
    BY DEF RedactInv
  <2>2. Append(denial.reason, width) \in Seq(1..4)
    BY <1>3, <2>1
  <2>3. denial' \in [reason : Seq(1..4), policy : P, host : H] /\ echoed' = echoed
    BY <1>3, <2>1, <2>2 DEF NextChar
  <2> QED BY <2>3 DEF RedactInv
<1>4. ASSUME NEW policy, NEW host, Refusal(policy, host) PROVE RedactInv'
  <2>1. PICK P, H : denial \in [reason : Seq(1..4), policy : P, host : H]
    BY DEF RedactInv
  <2>2. denial' \in [reason : Seq(1..4), policy : P \cup {policy}, host : H \cup {host}] /\ echoed' = echoed
    BY <1>4, <2>1 DEF Refusal
  <2> QED BY <2>2 DEF RedactInv
<1> QED BY <1>1, <1>2, <1>3, <1>4 DEF redactNext

\* The event of a denial is stored and can be read back.
LEMMA DenialStored ==
  ASSUME denial.reason \in Seq(1..4)
  PROVE  /\ Storable(deny_event) /\ ReadBack(deny_event)
         /\ deny_event.reason \in char_boundaries(denial.reason)
         /\ \A e \in char_boundaries(denial.reason) : e <= MaxDenyReason => e <= deny_event.reason
<1>1. PICK kept : kept = bounded_reason(denial.reason)
  OBVIOUS
<1>2. /\ kept \in char_boundaries(denial.reason) /\ kept <= MaxDenyReason
      /\ \A e \in char_boundaries(denial.reason) : e <= MaxDenyReason => e <= kept
  BY <1>1, BoundedReasonIs
<1>3. deny_event.reason = kept
  BY <1>1, Zenon DEF deny_event
<1>4. \A metadata, key, bytes : (\A entry \in metadata : entry[2] <= MaxMetadataValue)
        => \A entry \in try_insert(metadata, key, bytes) : entry[2] <= MaxMetadataValue
  <2> SUFFICES ASSUME NEW metadata, NEW key, NEW bytes, \A entry \in metadata : entry[2] <= MaxMetadataValue,
                      NEW entry \in try_insert(metadata, key, bytes)
               PROVE  entry[2] <= MaxMetadataValue
    OBVIOUS
  <2> QED BY DEF try_insert
<1>5. \A entry \in deny_event.metadata : entry[2] <= MaxMetadataValue
  <2> DEFINE method == try_insert({}, "http.method", 1)
             reason == try_insert(method, "stage.reason", bytes_of(denial.reason))
  <2>1. \A entry \in method : entry[2] <= MaxMetadataValue
    BY <1>4, Zenon
  <2>2. \A entry \in reason : entry[2] <= MaxMetadataValue
    <3> HIDE DEF method
    <3> QED BY <1>4, <2>1, Zenon DEF reason
  <2>3. \A entry \in try_insert(reason, "policy", denial.policy) : entry[2] <= MaxMetadataValue
    <3> HIDE DEF reason
    <3> QED BY <1>4, <2>2, Zenon
  <2>4. deny_event.metadata = IF denial.policy = None THEN reason ELSE try_insert(reason, "policy", denial.policy)
    BY Zenon DEF deny_event
  <2> HIDE DEF reason
  <2> QED BY <2>2, <2>3, <2>4, Zenon
<1>6. deny_event.destination # None => deny_event.destination = "name"
  BY DEF deny_event, destination_summary
<1> HIDE DEF deny_event
<1> QED BY <1>2, <1>3, <1>5, <1>6, Zenon DEF Storable, ReadBack

\* The property of every state of that shape.
LEMMA RedactionIs == RedactInv => RedactionExact
<1> SUFFICES ASSUME RedactInv PROVE RedactionExact
  OBVIOUS
<1>1. PICK n \in Nat : n = Len(echoed)
  BY DEF RedactInv
<1>2. PICK out : out = scrub_secret_patterns
  OBVIOUS
<1>3. Scrubbed(out, 1, n)
  BY <1>1, <1>2, ScrubIs DEF RedactInv
<1> DEFINE kept == {k \in 1..n : \E m \in DOMAIN out : out[m] = k}
           starts == kept \cup {k \in 1..n : k \notin kept /\ (k = 1 \/ k - 1 \in kept)}
<1>4. \A k \in 1..n : k \in kept <=> In(out, k)
  BY DEF In
<1>5. \A i \in starts : i \in 1..n /\ Start(out, 1, i)
  BY <1>4 DEF Start
<1>6. \A k \in 1..n : k \in kept => \A i \in starts, j \in k..n : i <= k => ~SecretToken(i, j)
  <2> SUFFICES ASSUME NEW k \in 1..n, k \in kept, NEW i \in starts, NEW j \in k..n, i <= k
               PROVE  ~SecretToken(i, j)
    OBVIOUS
  <2>1. i \in 1..k /\ Start(out, 1, i) /\ In(out, k)
    BY <1>4, <1>5
  <2> QED BY <1>3, <2>1, Zenon DEF Scrubbed
<1>7. \A k \in 1..n : k \notin kept => \E i \in 1..k, j \in k..n : SecretToken(i, j)
  BY <1>3, <1>4, Zenon DEF Scrubbed
<1>8. /\ Storable(deny_event) /\ ReadBack(deny_event)
      /\ deny_event.reason \in char_boundaries(denial.reason)
      /\ \A e \in char_boundaries(denial.reason) : e <= MaxDenyReason => e <= deny_event.reason
  BY DenialStored DEF RedactInv
<1> QED BY <1>1, <1>2, <1>6, <1>7, <1>8, Zenon DEF RedactionExact

\* Response scrubbing and denials (engine.rs:219-278): for every body, every
\* list of rules of which no prefix begins another, and every denial, exactly
\* the bytes of tokens are taken out, and the event is stored with the longest
\* part of its reason that fits.
THEOREM RedactionStaysExact == RedactSpec => []RedactionExact
<1>1. RedactInv /\ [redactNext]_redactVars => RedactInv'
  BY RedactInvStep
<1> QED BY RedactInvInit, <1>1, RedactionIs, PTL DEF RedactSpec
===============================================================================
