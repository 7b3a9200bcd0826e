--------------------------- MODULE SessionStoreProofs ---------------------------
(***************************************************************************)
(* Theorems about SessionStore for every choice of its constants: the type *)
(* invariant, the containment of delegated authority along chains of any   *)
(* length, the conservation of budgets and the finality of revocation.     *)
(* Each rests on the lemmas of SessionRecordsProofs about the operators.   *)
(*                                                                         *)
(* Then the components that judge and carry a call by rules of their own:  *)
(* the policy rule engine, the installed packs, the loop of the MCP server *)
(* and the outbound transport. And the diff of two manifests, and the      *)
(* terminal UI with the text buffer of its policy editor.                  *)
(***************************************************************************)
EXTENDS SessionStore, SessionRecordsProofs, TLAPS, PolicyEngine, PolicyPacks,
        McpServer, OutboundTransport, ManifestDiff, TextBuffer,
        FiniteSetTheorems

-------------------------------------------------------------------------------
(* The type invariant.                                                     *)

\* The store always holds well-formed records: no operation leaves a record
\* half built or a budget below zero.
THEOREM TypeCorrect == Spec => []TypeOK
<1>1. Init => TypeOK
  BY DEF Init, TypeOK, Option
<1>2. TypeOK /\ [Next]_vars => TypeOK'
  <2> SUFFICES ASSUME TypeOK, [Next]_vars PROVE TypeOK'
    OBVIOUS
  <2> USE DEF TypeOK
  <2>1. ASSUME NEW s \in SessionIds, Revoke(s) PROVE TypeOK'
    BY <2>1 DEF Revoke, revoke_in, Record, Option
  <2>2. ASSUME NEW s \in SessionIds, NEW now \in Secs, NEW agent \in Agents,
               NEW environment \in Environments, NEW ttl \in Ttls,
               Create(s, agent, environment, ttl, now)
        PROVE  TypeOK'
    BY <2>2, CreateType DEF Create, Maps
  <2>3. ASSUME NEW s \in SessionIds, NEW now \in Secs, NEW p \in SessionIds,
               NEW requested \in Requested, Delegate(s, p, requested, now)
        PROVE  TypeOK'
    <3>1. sessions[p] # None
      BY <2>3 DEF Delegate, delegate_verdict
    <3>2. narrowed(sessions, p, requested).remaining \in Option(Nat)
      BY <3>1, DelegateType DEF Constraints, Maps
    <3> QED BY <2>3, <3>1, <3>2, DelegateType DEF Delegate, Maps
  <2>4. ASSUME NEW s \in SessionIds, NEW now \in Secs, ConsumeBudget(s, now)
        PROVE  TypeOK'
    BY <2>4, ConsumeType DEF ConsumeBudget, Maps
  <2>5. CASE UNCHANGED vars
    BY <2>5 DEF vars
  <2> QED BY <2>1, <2>2, <2>3, <2>4, <2>5 DEF Next
<1> QED BY <1>1, <1>2, PTL DEF Spec

-------------------------------------------------------------------------------
(* What every step does to the map of records.                             *)

\* One step of the store, seen from its records.
LEMMA StepKeeps ==
  ASSUME TypeOK, [Next]_vars
  PROVE  \A x \in SessionIds : Kept(sessions, sessions', x)
<1> USE DEF TypeOK, Maps
<1>1. ASSUME NEW s \in SessionIds, Revoke(s)
      PROVE  \A x \in SessionIds : Kept(sessions, sessions', x)
  BY <1>1, RevokeKeeps DEF Revoke
<1>2. ASSUME NEW s \in SessionIds, NEW now, NEW agent, NEW environment, NEW ttl,
             Create(s, agent, environment, ttl, now)
      PROVE  \A x \in SessionIds : Kept(sessions, sessions', x)
  BY <1>2, NewRecordKeepsOthers DEF Create, create_impl
<1>3. ASSUME NEW s \in SessionIds, NEW p, NEW requested, NEW now,
             Delegate(s, p, requested, now)
      PROVE  \A x \in SessionIds : Kept(sessions, sessions', x)
  BY <1>3, NewRecordKeepsOthers DEF Delegate, delegate_inner
<1>4. ASSUME NEW s \in SessionIds, NEW now \in Secs, ConsumeBudget(s, now)
      PROVE  \A x \in SessionIds : Kept(sessions, sessions', x)
  BY <1>4, ConsumeType, ConsumeKeeps DEF ConsumeBudget
<1>5. CASE UNCHANGED vars
  BY <1>5 DEF vars, Kept
<1> QED BY <1>1, <1>2, <1>3, <1>4, <1>5 DEF Next

-------------------------------------------------------------------------------
(* Containment along delegation chains.                                    *)

\* Every link of every chain is contained.
Links == \A s \in SessionIds : Linked(sessions, s)

\* Every step keeps each link of each chain contained: old links because steps
\* keep records, a new link because delegate_inner narrows.
LEMMA LinksInductive ==
  ASSUME TypeOK, TypeOK', Links, [Next]_vars
  PROVE  Links'
<1> USE DEF TypeOK, Maps
<1>1. \A x \in SessionIds : Kept(sessions, sessions', x)
  BY StepKeeps
<1>2. ASSUME NEW x \in SessionIds, sessions[x] # None
      PROVE  Linked(sessions', x)
  <2>1. Linked(sessions, x) /\ Kept(sessions, sessions', x)
    BY <1>1 DEF Links
  <2>2. CASE sessions[x].parent = None
    BY <1>2, <2>1, <2>2 DEF Linked, Kept
  <2>3. CASE sessions[x].parent # None
    <3>1. sessions[x].parent \in SessionIds
      BY <1>2, <2>3 DEF Option, Record
    <3>2. Kept(sessions, sessions', sessions[x].parent)
      BY <1>1, <3>1
    <3> QED BY <1>2, <2>1, <2>3, <3>2 DEF Linked, Kept
  <2> QED BY <2>2, <2>3
<1>3. ASSUME NEW x \in SessionIds, sessions[x] = None
      PROVE  Linked(sessions', x)
  <2>1. ASSUME NEW s \in SessionIds, Revoke(s) PROVE Linked(sessions', x)
    BY <1>3, <2>1 DEF Revoke, revoke_in, Linked
  <2>2. ASSUME NEW s \in SessionIds, NEW now, NEW agent, NEW environment, NEW ttl,
               Create(s, agent, environment, ttl, now)
        PROVE  Linked(sessions', x)
    BY <1>3, <2>2 DEF Create, create_impl, Linked
  <2>3. ASSUME NEW s \in SessionIds, NEW p \in SessionIds, NEW requested \in Requested,
               NEW now, Delegate(s, p, requested, now)
        PROVE  Linked(sessions', x)
    <3>1. sessions[p] # None /\ sessions[s] = None /\ p # s
      BY <2>3 DEF Delegate, delegate_verdict
    <3>2. CASE x # s
      BY <1>3, <2>3, <3>2 DEF Delegate, delegate_inner, Linked
    <3>3. CASE x = s
      <4> DEFINE child == narrowed(sessions, p, requested)
      <4>1. /\ sessions'[p] = sessions[p]
            /\ sessions'[x] = [agent |-> sessions[p].agent,
                              environment |-> sessions[p].environment,
                              revoked |-> FALSE, expires |-> None, parent |-> p,
                              constraints |-> child]
        BY <2>3, <3>1, <3>3 DEF Delegate, delegate_inner
      <4>2. child \in Constraints /\ child # None
        BY <3>1, DelegateType, NoneIsNoRecord
      <4>3. sessions[p] \in Record
        BY <3>1 DEF Option
      <4>4. ASSUME NEW q \in Requests, check_request(child, q)
            PROVE  sessions[p].constraints # None => check_request(sessions[p].constraints, q)
        BY <4>3, <4>4, NarrowContained, RequestedAreConstraints
           DEF narrowed, Record, Option
      <4> HIDE DEF child
      <4>5. Authority(sessions', x) = {q \in Requests : check_request(child, q)}
        BY <4>1, <4>2 DEF Authority
      <4>6. Authority(sessions', x) \subseteq Authority(sessions', p)
        BY <4>1, <4>4, <4>5 DEF Authority
      <4> QED BY <3>1, <4>1, <4>6 DEF Linked
    <3> QED BY <3>2, <3>3
  <2>4. ASSUME NEW s \in SessionIds, NEW now \in Secs, ConsumeBudget(s, now)
        PROVE  Linked(sessions', x)
    <3>1. sessions[s] # None
      BY <2>4, ConsumeType, NoneIsNoRecord DEF ConsumeBudget
    <3>2. sessions'[x] = None
      BY <1>3, <2>4, <3>1 DEF ConsumeBudget, consume_in
    <3> QED BY <3>2 DEF Linked
  <2>5. CASE UNCHANGED vars
    BY <1>3, <2>5 DEF vars, Linked
  <2> QED BY <2>1, <2>2, <2>3, <2>4, <2>5 DEF Next
<1> QED BY <1>2, <1>3 DEF Links

\* Links that are each contained make chains of any length contained.
LEMMA LinksContain ==
  ASSUME TypeOK, Links
  PROVE  DelegationContainment
<1> SUFFICES ASSUME NEW s \in SessionIds, sessions[s] # None
             PROVE  \A a \in Ancestors(sessions, s) :
                      /\ sessions[a] # None
                      /\ sessions[a].agent = sessions[s].agent
                      /\ sessions[a].environment = sessions[s].environment
                      /\ Authority(sessions, s) \subseteq Authority(sessions, a)
  BY DEF DelegationContainment
<1> DEFINE Above(a) == /\ sessions[a] # None
                       /\ sessions[a].agent = sessions[s].agent
                       /\ sessions[a].environment = sessions[s].environment
                       /\ Authority(sessions, s) \subseteq Authority(sessions, a)
           T == {a \in SessionIds : Above(a)}
<1>1. ASSUME NEW x \in SessionIds, Above(x)
      PROVE  sessions[x].parent \in T \cup {None}
  <2>1. CASE sessions[x].parent = None
    BY <2>1
  <2>2. CASE sessions[x].parent # None
    <3>1. sessions[x].parent \in SessionIds
      BY <1>1, <2>2 DEF TypeOK, Option, Record
    <3>2. Linked(sessions, x)
      BY DEF Links
    <3> QED BY <1>1, <2>2, <3>1, <3>2 DEF Linked
  <2> QED BY <2>1, <2>2
<1>2. ParentClosed(sessions, T)
  BY <1>1 DEF ParentClosed
<1>3. sessions[s].parent \in T \cup {None}
  BY <1>1
<1>4. Ancestors(sessions, s) \subseteq T
  BY <1>2, <1>3, AncestorsWithin
<1> QED BY <1>4

\* session.rs:98: along delegation chains of any length, a session acts for
\* the agent and environment of its ancestors and can make no request that
\* one of them could not make.
THEOREM ContainmentHolds == Spec => []DelegationContainment
<1>1. Init => Links
  BY DEF Init, Links, Linked
<1>2. TypeOK /\ TypeOK' /\ Links /\ [Next]_vars => Links'
  BY LinksInductive
<1>3. TypeOK /\ Links => DelegationContainment
  BY LinksContain
<1> QED BY <1>1, <1>2, <1>3, TypeCorrect, PTL DEF Spec

-------------------------------------------------------------------------------
(* Revocation.                                                             *)

\* validate refuses a session when it or an ancestor is revoked.
LEMMA RevokedNotLive ==
  ASSUME NEW ss, NEW s \in SessionIds, NEW now, ChainRevoked(ss, s)
  PROVE  validate(ss, s, now) # "ok"
BY DEF ChainRevoked, validate, Live, ancestors_live, is_dead

\* session.rs:328: once a session or a session it descends from is revoked, no
\* step and no clock lets it validate or spend budget again.
THEOREM RevocationIsFinal == Spec => RevokedForever
<1>1. ASSUME TypeOK, [Next]_vars, NEW s \in SessionIds, ChainRevoked(sessions, s)
      PROVE  /\ ChainRevoked(sessions', s)
             /\ \A now \in Secs : validate(sessions', s, now) # "ok"
             /\ spent'[s] = spent[s]
  <2>1. \A x \in SessionIds : Kept(sessions, sessions', x)
    BY <1>1, StepKeeps
  <2>2. Ancestors(sessions, s) \subseteq Ancestors(sessions', s)
    BY <1>1, <2>1, AncestorsKept DEF ChainRevoked
  <2>3. Ancestors(sessions, s) \subseteq SessionIds
    BY DEF Ancestors
  <2>4. ChainRevoked(sessions', s)
    BY <1>1, <2>1, <2>2, <2>3 DEF ChainRevoked, Kept
  <2>5. \A now \in Secs : validate(sessions', s, now) # "ok"
    BY <2>4, RevokedNotLive
  <2>6. ASSUME NEW x \in SessionIds, NEW now \in Secs, ConsumeBudget(x, now)
        PROVE  spent'[s] = spent[s]
    <3>1. validate(sessions, x, now) = "ok"
      BY <2>6 DEF ConsumeBudget, consume_verdict
    <3>2. x # s
      BY <1>1, <3>1, RevokedNotLive
    <3> QED BY <1>1, <2>6, <3>2 DEF ConsumeBudget, TypeOK
  <2>7. spent'[s] = spent[s]
    BY <1>1, <2>6 DEF Next, Revoke, Create, Delegate, vars
  <2> QED BY <2>4, <2>5, <2>7
<1>2. TypeOK /\ [Next]_vars =>
        [\A s \in SessionIds : ChainRevoked(sessions, s) =>
           /\ ChainRevoked(sessions', s)
           /\ \A now \in Secs : validate(sessions', s, now) # "ok"
           /\ spent'[s] = spent[s]]_vars
  BY <1>1
<1> QED BY <1>2, TypeCorrect, PTL DEF Spec, RevokedForever

\* session.rs:566: a session validates only when all it descends from does.
THEOREM ChainsDie == Spec => []ChainsDieTogether
<1>1. TypeOK => ChainsDieTogether
  <2> SUFFICES ASSUME NEW s \in SessionIds, NEW now \in Secs,
                      validate(sessions, s, now) = "ok",
                      NEW a \in Ancestors(sessions, s)
               PROVE  validate(sessions, a, now) = "ok"
    BY DEF ChainsDieTogether
  <2>1. sessions[s] # None /\ ancestors_live(sessions, s, now)
    BY DEF validate, Live
  <2>2. sessions[a] # None /\ ~is_dead(sessions[a], now)
    BY <2>1 DEF ancestors_live
  <2>3. Ancestors(sessions, a) \subseteq Ancestors(sessions, s)
    <3> SUFFICES ASSUME NEW b \in Ancestors(sessions, a), NEW S \in SUBSET SessionIds,
                        ParentClosed(sessions, S), sessions[s].parent \in S \cup {None}
                 PROVE  b \in S
      BY DEF Ancestors
    <3>1. a \in S
      BY DEF Ancestors
    <3>2. sessions[a].parent \in S \cup {None}
      BY <2>2, <3>1 DEF ParentClosed
    <3> QED BY <3>2 DEF Ancestors
  <2>4. ancestors_live(sessions, a, now)
    BY <2>1, <2>3 DEF ancestors_live
  <2> QED BY <2>2, <2>4 DEF validate, Live
<1> QED BY <1>1, TypeCorrect, PTL

-------------------------------------------------------------------------------
(* Budgets.                                                                *)

\* BudgetConserved, and that a session without a record has no history.
Accounts(s) ==
  /\ sessions[s] = None => minted[s] = None
  /\ minted[s] = None => spent[s] = 0
  /\ sessions[s] # None =>
       IF minted[s] = None THEN Budget(sessions, s) = None
       ELSE Budget(sessions, s) \in Nat /\ Budget(sessions, s) + spent[s] = minted[s]

\* session.rs:423: what a session was granted and what it has left add up to
\* the budget it was delegated with; nothing wraps, nothing is lost.
THEOREM BudgetsAreConserved == Spec => []BudgetConserved
<1> DEFINE AInv == \A s \in SessionIds : Accounts(s)
<1>1. Init => AInv
  BY DEF Init, Accounts
<1>2. TypeOK /\ AInv /\ [Next]_vars => AInv'
  <2> SUFFICES ASSUME TypeOK, AInv, [Next]_vars, NEW x \in SessionIds
               PROVE  Accounts(x)'
    OBVIOUS
  <2> USE DEF TypeOK, Maps
  <2>0. Accounts(x)
    OBVIOUS
  <2>1. ASSUME NEW s \in SessionIds, Revoke(s) PROVE Accounts(x)'
    <3>1. sessions[s] \in Record
      BY <2>1 DEF Revoke, Option
    <3>2. sessions'[s] \in Record /\ sessions'[s].constraints = sessions[s].constraints
      BY <2>1, <3>1 DEF Revoke, revoke_in, Record
    <3>3. x # s => sessions'[x] = sessions[x]
      BY <2>1 DEF Revoke, revoke_in
    <3>4. sessions[s] # None /\ sessions'[s] # None
      BY <3>1, <3>2, NoneIsNoRecord
    <3> QED BY <2>0, <2>1, <3>2, <3>3, <3>4 DEF Revoke, Accounts, Budget
  <2>2. ASSUME NEW s \in SessionIds, NEW now, NEW agent, NEW environment, NEW ttl,
               Create(s, agent, environment, ttl, now)
        PROVE  Accounts(x)'
    BY <2>0, <2>2 DEF Create, create_impl, Accounts, Budget
  <2>3. ASSUME NEW s \in SessionIds, NEW p \in SessionIds, NEW requested \in Requested,
               NEW now, Delegate(s, p, requested, now)
        PROVE  Accounts(x)'
    <3> DEFINE child == narrowed(sessions, p, requested)
    <3>1. sessions[p] # None /\ sessions[s] = None
      BY <2>3 DEF Delegate, delegate_verdict
    <3>2. child \in Constraints /\ child # None
      BY <3>1, DelegateType, NoneIsNoRecord
    <3>3. child.remaining \in Option(Nat)
      BY <3>2 DEF Constraints
    <3>4. /\ sessions'[s].constraints = child
          /\ x # s => sessions'[x] = sessions[x]
          /\ minted' = [minted EXCEPT ![s] = child.remaining]
          /\ spent' = spent
      BY <2>3 DEF Delegate, delegate_inner
    <3> HIDE DEF child
    <3>5. CASE x # s
      BY <2>0, <3>4, <3>5 DEF Accounts, Budget
    <3>6. CASE x = s
      <4>1. spent[s] = 0 /\ spent'[s] = 0 /\ minted'[s] = child.remaining
        BY <2>0, <3>1, <3>4, <3>6 DEF Accounts
      <4>2. sessions'[s] # None
        BY <2>3, <3>1, DelegateType, NoneIsNoRecord DEF Delegate
      <4>3. Budget(sessions', s) = child.remaining
        BY <3>2, <3>4 DEF Budget
      <4> QED BY <3>3, <3>6, <4>1, <4>2, <4>3 DEF Accounts, Option
    <3> QED BY <3>5, <3>6
  <2>4. ASSUME NEW s \in SessionIds, NEW now \in Secs, ConsumeBudget(s, now)
        PROVE  Accounts(x)'
    <3>1. /\ sessions[s] \in Record /\ sessions[s].constraints \in Constraints
          /\ Budget(sessions, s) \in Nat \ {0}
      BY <2>4, ConsumeType DEF ConsumeBudget
    <3>2. /\ Kept(sessions, sessions', s)
          /\ \A y \in SessionIds \ {s} : sessions'[y] = sessions[y]
          /\ Budget(sessions', s) = Budget(sessions, s) - 1
      BY <2>4, <3>1, ConsumeKeeps DEF ConsumeBudget
    <3>3. sessions[s] # None /\ sessions'[s] # None
      BY <3>1, <3>2, NoneIsNoRecord DEF Kept
    <3>4. CASE x # s
      BY <2>0, <2>4, <3>2, <3>4 DEF ConsumeBudget, Accounts, Budget
    <3>5. CASE x = s
      <4>1. minted[s] # None /\ Budget(sessions, s) + spent[s] = minted[s]
        BY <2>0, <3>1, <3>3, <3>5, NoneIsNoValue DEF Accounts
      <4>2. minted' = minted /\ spent'[s] = spent[s] + 1 /\ spent[s] \in Nat
        BY <2>4 DEF ConsumeBudget
      <4> QED BY <3>1, <3>2, <3>3, <3>5, <4>1, <4>2 DEF Accounts
    <3> QED BY <3>4, <3>5
  <2>5. CASE UNCHANGED vars
    BY <2>0, <2>5 DEF vars, Accounts, Budget
  <2> QED BY <2>1, <2>2, <2>3, <2>4, <2>5 DEF Next
<1>3. AInv => BudgetConserved
  BY DEF Accounts, BudgetConserved
<1> QED BY <1>1, <1>2, <1>3, TypeCorrect, PTL DEF Spec

(***************************************************************************)
(* session.rs:98, 328 and 566: whatever sequence of calls built and ended  *)
(* the sessions, their chains contain, expire and revoke as they must.     *)
(***************************************************************************)
THEOREM ChainsHold == Spec => ChainsContained
BY ContainmentHolds, ChainsDie, RevocationIsFinal, PTL DEF ChainsContained

-------------------------------------------------------------------------------
(* The two engines.                                                        *)

\* A pattern Cedar can express matches the same paths in both.
LEMMA PathAgree ==
  ASSUME NEW pattern, NEW path, pattern.segs \in Seq(STRING), path.segs \in Seq(STRING),
         CedarPattern(pattern)
  PROVE  path_matches(pattern, path) <=> path_condition(pattern, path)
<1>1. PICK segs, text, prefix : segs = pattern.segs /\ text = path.segs /\ prefix = Prefix(segs)
  OBVIOUS
<1>2. segs \in Seq(STRING) /\ text \in Seq(STRING) /\ \A i \in 1..Len(segs) : segs[i] # "*"
  BY <1>1 DEF CedarPattern
<1>3. /\ prefix \in Seq(STRING) /\ Len(prefix) <= Len(segs)
      /\ \A i \in 1..Len(prefix) : prefix[i] = segs[i]
      /\ ~Starred(segs) => prefix = segs
  <2>1. CASE Starred(segs)
    <3>1. prefix = SubSeq(segs, 1, Len(segs) - 1) /\ Len(segs) >= 1
      BY <1>1, <1>2, <2>1 DEF Prefix, Starred
    <3>2. PICK k : k = Len(segs) - 1 /\ k \in Nat
      BY <1>2, <3>1
    <3>3. prefix = SubSeq(segs, 1, k) /\ k <= Len(segs)
      BY <1>2, <3>1, <3>2
    <3> QED BY <1>2, <2>1, <3>2, <3>3
  <2>2. CASE ~Starred(segs)
    BY <1>1, <1>2, <2>2 DEF Prefix
  <2> QED BY <2>1, <2>2
<1>4. path_matches(pattern, path) <=>
        /\ IF Starred(segs) THEN Len(text) >= Len(prefix) ELSE Len(text) = Len(prefix)
        /\ \A i \in 1..Len(prefix) : prefix[i] = text[i]
  <2>1. path_matches(pattern, path) <=> match_segments(segs, text)
    BY <1>1 DEF path_matches, CedarPattern
  <2>2. \A i \in 1..Len(prefix) : segment_matches(prefix[i], text[i]) <=> prefix[i] = text[i]
    <3> SUFFICES ASSUME NEW i \in 1..Len(prefix) PROVE segment_matches(prefix[i], text[i]) <=> prefix[i] = text[i]
      OBVIOUS
    <3>1. prefix[i] # "*"
      <4>1. Len(prefix) \in Nat /\ Len(segs) \in Nat /\ Len(prefix) <= Len(segs)
        BY <1>2, <1>3
      <4>2. i \in 1..Len(segs)
        BY <4>1
      <4>3. prefix[i] = segs[i]
        BY <1>3
      <4> QED BY <1>2, <4>2, <4>3
    <3> QED BY <3>1, Zenon DEF segment_matches
  <2> QED BY <1>1, <2>1, <2>2 DEF match_segments
<1>5. CASE ~Starred(segs)
  <2>1. path_condition(pattern, path) <=> text = segs
    BY <1>1, <1>5 DEF path_condition
  <2>2. path_matches(pattern, path) <=> Len(text) = Len(segs) /\ \A i \in 1..Len(segs) : segs[i] = text[i]
    BY <1>3, <1>4, <1>5
  <2> QED BY <1>2, <2>1, <2>2
<1>6. CASE Starred(segs)
  <2>1. path_condition(pattern, path) <=>
          prefix = << >> \/ text = prefix \/ (Len(text) > Len(prefix) /\ IsPrefix(prefix, text))
    BY <1>1, <1>6 DEF path_condition
  <2>2. path_matches(pattern, path) <=> Len(text) >= Len(prefix) /\ \A i \in 1..Len(prefix) : prefix[i] = text[i]
    BY <1>4, <1>6
  <2>3. Len(text) > Len(prefix) =>
          (IsPrefix(prefix, text) <=> \A i \in 1..Len(prefix) : prefix[i] = text[i])
    <3>1. SUFFICES ASSUME Len(text) > Len(prefix)
                   PROVE  IsPrefix(prefix, text) <=> \A i \in 1..Len(prefix) : prefix[i] = text[i]
      OBVIOUS
    <3>2. PICK a, b : a = SubSeq(prefix, 1, Len(prefix)) /\ b = SubSeq(text, 1, Len(prefix))
      OBVIOUS
    <3>3. /\ a \in Seq(STRING) /\ Len(a) = Len(prefix) /\ \A i \in 1..Len(prefix) : a[i] = prefix[i]
          /\ b \in Seq(STRING) /\ Len(b) = Len(prefix) /\ \A i \in 1..Len(prefix) : b[i] = text[i]
      BY <1>2, <1>3, <3>1, <3>2
    <3>4. IsPrefix(prefix, text) <=> a = b
      BY <1>2, <1>3, <3>1, <3>2 DEF IsPrefix
    <3>5. a = b <=> \A i \in 1..Len(prefix) : a[i] = b[i]
      BY <3>3, SeqEqual
    <3> QED BY <3>3, <3>4, <3>5
  <2>4. Len(text) = Len(prefix) => (text = prefix <=> \A i \in 1..Len(prefix) : prefix[i] = text[i])
    BY <1>2, <1>3, SeqEqual
  <2>5. prefix = << >> <=> Len(prefix) = 0
    BY <1>3
  <2> QED BY <1>2, <1>3, <2>1, <2>2, <2>3, <2>4, <2>5
<1> QED BY <1>5, <1>6

\* So do the rules over such patterns.
LEMMA RulesAgree ==
  ASSUME NEW rules, NEW ctx, ctx.path.segs \in Seq(STRING),
         \A i \in 1..Len(rules) : \A p \in rules[i].paths : p.segs \in Seq(STRING) /\ CedarPattern(p)
  PROVE  rules_match(rules, ctx.method, ctx.path) <=> \E i \in 1..Len(rules) : rule_condition(rules[i], ctx)
<1>1. \A i \in 1..Len(rules) : \A p \in rules[i].paths :
        path_matches(p, ctx.path) <=> path_condition(p, ctx.path)
  BY PathAgree
<1> QED BY <1>1 DEF rules_match, rule_condition

\* What decides about a request, of a sequence of documents.
Candidates(docs, r) == {i \in 1..Len(docs) : is_candidate(docs[i], r)}
Denying(docs, r) == {i \in Candidates(docs, r) : rules_match(docs[i].deny, r.context.method, r.context.path)}
Allowing(docs, r) == {i \in Candidates(docs, r) : evaluate_gates(docs[i], r.context) = "Allowed"}

\* The candidates that pass the gates before the body limit.
Permitting(docs, r) ==
  {i \in Candidates(docs, r) :
     /\ docs[i].environments # {} => r.context.environment \in docs[i].environments
     /\ r.context.host \in docs[i].hosts
     /\ rules_match(docs[i].allow, r.context.method, r.context.path)}

\* The rule engine, in these terms.
LEMMA EvaluateIs ==
  ASSUME NEW docs, NEW r
  PROVE  evaluate(docs, r) =
           IF ~validate_context(r.context) THEN Deny("InvalidContext", None)
           ELSE IF Candidates(docs, r) = {} THEN Deny("NoMatchingPolicy", None)
           ELSE IF Denying(docs, r) # {} THEN Deny("ExplicitDeny", docs[First(Denying(docs, r))].name)
           ELSE IF Allowing(docs, r) # {} THEN Allow(docs[First(Allowing(docs, r))].name)
           ELSE Deny(evaluate_gates(docs[First(Candidates(docs, r))], r.context),
                     docs[First(Candidates(docs, r))].name)
  BY Zenon DEF evaluate, Where, Candidates, Denying, Allowing

\* Documents the running engine may hold.
Loaded(docs) == docs \in Seq(Documents)

\* Cedar, in the same terms.
LEMMA CedarIs ==
  ASSUME NEW docs, Loaded(docs), NEW r \in AuthRequests, \A i \in 1..Len(docs) : Supported(docs[i])
  PROVE  cedar_evaluate(docs, r) =
           IF ~validate_context(r.context) THEN Deny("InvalidContext", None)
           ELSE IF Denying(docs, r) # {} THEN Deny("ExplicitDeny", docs[First(Denying(docs, r))].name)
           ELSE IF Permitting(docs, r) = {} THEN Deny("NoMatchingPolicy", None)
           ELSE IF Allowing(docs, r) # {} THEN Allow(docs[First(Allowing(docs, r))].name)
           ELSE Deny("BodyTooLarge", docs[First(Permitting(docs, r))].name)
<1>1. \A i \in 1..Len(docs) :
        /\ docs[i] \in Documents
        /\ rules_match(docs[i].deny, r.context.method, r.context.path)
             <=> \E k \in 1..Len(docs[i].deny) : rule_condition(docs[i].deny[k], r.context)
        /\ rules_match(docs[i].allow, r.context.method, r.context.path)
             <=> \E k \in 1..Len(docs[i].allow) : rule_condition(docs[i].allow[k], r.context)
  <2> SUFFICES ASSUME NEW i \in 1..Len(docs)
               PROVE  /\ docs[i] \in Documents
                      /\ \A rules \in {docs[i].deny, docs[i].allow} :
                           rules_match(rules, r.context.method, r.context.path)
                             <=> \E k \in 1..Len(rules) : rule_condition(rules[k], r.context)
    OBVIOUS
  <2>1. docs[i] \in Documents
    BY DEF Loaded
  <2>2. ASSUME NEW rules \in {docs[i].deny, docs[i].allow}
        PROVE  \A k \in 1..Len(rules) : \A p \in rules[k].paths : p.segs \in Seq(STRING) /\ CedarPattern(p)
    BY <2>1, <2>2, PoliciesAreTyped DEF Supported
  <2>3. r.context.path.segs \in Seq(STRING)
    BY PoliciesAreTyped
  <2> QED BY <2>1, <2>2, <2>3, RulesAgree
<1>2. PICK holding : holding = {s \in compile_statements(docs) : Holds(docs, s, r)}
  OBVIOUS
<1>3. PICK forbids : forbids = {s \in holding : s.effect = "forbid"}
  OBVIOUS
<1>4. \A i \in 1..Len(docs) : \A k \in 1..Len(docs[i].deny) :
        is_candidate(docs[i], r) /\ rule_condition(docs[i].deny[k], r.context)
          => [effect |-> "forbid", doc |-> i, rule |-> k] \in forbids
  <2> SUFFICES ASSUME NEW i \in 1..Len(docs), NEW k \in 1..Len(docs[i].deny), is_candidate(docs[i], r),
                      rule_condition(docs[i].deny[k], r.context)
               PROVE  [effect |-> "forbid", doc |-> i, rule |-> k] \in forbids
    OBVIOUS
  <2>1. PICK s : s = [effect |-> "forbid", doc |-> i, rule |-> k]
    OBVIOUS
  <2>2. s \in compile_statements(docs) /\ s.effect = "forbid" /\ s.doc = i /\ s.rule = k
    BY <2>1 DEF compile_statements
  <2>3. Holds(docs, s, r)
    BY <2>2 DEF Holds, is_candidate
  <2> QED BY <1>2, <1>3, <2>1, <2>2, <2>3
<1>5. \A s \in holding : /\ s.doc \in Candidates(docs, r) /\ Holds(docs, s, r)
                         /\ s.effect = "forbid" => s.rule \in 1..Len(docs[s.doc].deny)
                         /\ s.effect \in {"forbid", "permit"}
  BY <1>2 DEF compile_statements, Holds, Candidates, is_candidate
<1>6. {s.doc : s \in forbids} = Denying(docs, r)
  <2>1. ASSUME NEW s \in forbids PROVE s.doc \in Denying(docs, r)
    <3>1. s \in holding /\ s.effect = "forbid"
      BY <1>3, <2>1
    <3>2. s.doc \in Candidates(docs, r) /\ s.rule \in 1..Len(docs[s.doc].deny) /\ Holds(docs, s, r)
      BY <1>5, <3>1
    <3>3. rule_condition(docs[s.doc].deny[s.rule], r.context) /\ s.doc \in 1..Len(docs)
      BY <3>1, <3>2 DEF Holds, Candidates
    <3> QED BY <1>1, <3>2, <3>3 DEF Denying
  <2>2. ASSUME NEW i \in Denying(docs, r) PROVE i \in {s.doc : s \in forbids}
    <3>1. i \in 1..Len(docs) /\ is_candidate(docs[i], r) /\ rules_match(docs[i].deny, r.context.method, r.context.path)
      BY <2>2 DEF Denying, Candidates
    <3>2. PICK k \in 1..Len(docs[i].deny) : rule_condition(docs[i].deny[k], r.context)
      BY <1>1, <3>1
    <3>3. [effect |-> "forbid", doc |-> i, rule |-> k] \in forbids
      BY <1>4, <3>1, <3>2
    <3> QED BY <3>3
  <2> QED BY <2>1, <2>2
<1>7. forbids = {} => {s.doc : s \in holding} = Permitting(docs, r)
  <2> SUFFICES ASSUME forbids = {} PROVE {s.doc : s \in holding} = Permitting(docs, r)
    OBVIOUS
  <2>1. ASSUME NEW s \in holding PROVE s.doc \in Permitting(docs, r)
    <3>1. s.effect = "permit" /\ s.doc \in Candidates(docs, r) /\ Holds(docs, s, r)
      BY <1>3, <1>5, <2>1
    <3>2. s.doc \in 1..Len(docs)
      BY <3>1 DEF Candidates
    <3> QED BY <1>1, <3>1, <3>2 DEF Permitting, Holds
  <2>2. ASSUME NEW i \in Permitting(docs, r) PROVE i \in {s.doc : s \in holding}
    <3>1. i \in 1..Len(docs) /\ is_candidate(docs[i], r)
      BY <2>2 DEF Permitting, Candidates
    <3>2. PICK s : s = [effect |-> "permit", doc |-> i, rule |-> 0]
      OBVIOUS
    <3>3. s \in compile_statements(docs) /\ s.effect = "permit" /\ s.doc = i
      BY <3>1, <3>2 DEF compile_statements
    <3>4. Holds(docs, s, r)
      BY <1>1, <2>2, <3>1, <3>3 DEF Holds, Permitting, is_candidate
    <3> QED BY <1>2, <3>3, <3>4
  <2> QED BY <2>1, <2>2
<1>8. {i \in Permitting(docs, r) : docs[i].max_body = None \/ r.context.body <= docs[i].max_body} = Allowing(docs, r)
  <2>1. \A i \in Candidates(docs, r) : docs[i].max_body # None => docs[i].max_body \in Nat
    BY <1>1, PoliciesAreTyped DEF Candidates
  <2>2. r.context.body \in Nat
    BY PoliciesAreTyped
  <2> QED BY <2>1, <2>2 DEF Permitting, Allowing, evaluate_gates
<1>9. PICK answer : answer = is_authorized(docs, r)
  OBVIOUS
<1>10. CASE forbids # {}
  <2>1. answer = [allow |-> FALSE, docs |-> Denying(docs, r)]
    BY <1>2, <1>3, <1>6, <1>9, <1>10 DEF is_authorized
  <2>2. Denying(docs, r) # {}
    BY <1>6, <1>10
  <2> QED BY <1>9, <2>1, <2>2 DEF cedar_evaluate
<1>11. CASE forbids = {}
  <2>1. PICK b \in BOOLEAN : b = (holding # {})
    OBVIOUS
  <2>2. answer = [allow |-> b, docs |-> Permitting(docs, r)]
    BY <1>2, <1>3, <1>7, <1>9, <1>11, <2>1 DEF is_authorized
  <2>3. Denying(docs, r) = {} /\ (b = TRUE <=> Permitting(docs, r) # {})
    BY <1>6, <1>7, <1>11, <2>1
  <2>4. PICK fitting :
          fitting = {i \in answer.docs : docs[i].max_body = None \/ r.context.body <= docs[i].max_body}
    OBVIOUS
  <2>5. answer.docs = Permitting(docs, r) /\ answer.allow = b
    BY <2>2
  <2>6. fitting = Allowing(docs, r)
    BY <1>8, <2>4, <2>5
  <2>7. cedar_evaluate(docs, r) =
          IF ~validate_context(r.context) THEN Deny("InvalidContext", None)
          ELSE IF answer.docs = {} THEN Deny("NoMatchingPolicy", None)
          ELSE IF ~answer.allow THEN Deny("ExplicitDeny", docs[First(answer.docs)].name)
          ELSE IF fitting # {} THEN Allow(docs[First(fitting)].name)
          ELSE Deny("BodyTooLarge", docs[First(answer.docs)].name)
    BY <1>9, <2>4, Zenon DEF cedar_evaluate
  <2>8. CASE Permitting(docs, r) = {}
    BY <2>3, <2>5, <2>7, <2>8
  <2>9. CASE Permitting(docs, r) # {}
    <3>1. b = TRUE
      BY <2>3, <2>9
    <3> QED BY <2>3, <2>5, <2>6, <2>7, <2>9, <3>1
  <2> QED BY <2>8, <2>9
<1> QED BY <1>10, <1>11

\* The order of the documents does not decide whether a request is allowed.
LEMMA OrderIrrelevant ==
  ASSUME NEW docs, Loaded(docs), NEW r
  PROVE  evaluate(Reverse(docs), r).allow = evaluate(docs, r).allow
<1>1. PICK back, n : back = Reverse(docs) /\ n = Len(docs)
  OBVIOUS
<1>2. n \in Nat /\ Len(back) = n /\ \A i \in 1..n : back[i] = docs[(n - i) + 1]
  BY <1>1 DEF Loaded, Reverse
<1>3. \A i \in 1..n : (n - i) + 1 \in 1..n /\ (n - ((n - i) + 1)) + 1 = i
  BY <1>2
<1>4. \A i \in 1..n : docs[i] = back[(n - i) + 1]
  BY <1>2, <1>3
<1>5. Candidates(back, r) = {} <=> Candidates(docs, r) = {}
  BY <1>1, <1>2, <1>3, <1>4 DEF Candidates
<1>6. Denying(back, r) = {} <=> Denying(docs, r) = {}
  BY <1>1, <1>2, <1>3, <1>4 DEF Denying, Candidates
<1>7. Allowing(back, r) = {} <=> Allowing(docs, r) = {}
  BY <1>1, <1>2, <1>3, <1>4 DEF Allowing, Candidates
<1>8. \A name, reason : Deny(reason, name).allow = FALSE /\ Allow(name).allow = TRUE
  BY DEF Deny, Allow
<1> QED BY <1>1, <1>5, <1>6, <1>7, <1>8, EvaluateIs

\* The two engines decide alike.
LEMMA AgreeAlways ==
  ASSUME NEW docs, Loaded(docs), NEW r \in AuthRequests
  PROVE  LET native == evaluate(docs, r)
             cedar == cedar_evaluate(docs, r)
         IN /\ evaluate(Reverse(docs), r).allow = native.allow
            /\ (\A i \in 1..Len(docs) : Supported(docs[i])) =>
                 /\ native.allow = cedar.allow
                 /\ native.allow \/ "ExplicitDeny" \in {native.reason, cedar.reason} => native = cedar
<1>1. PICK native, cedar : native = evaluate(docs, r) /\ cedar = cedar_evaluate(docs, r)
  OBVIOUS
<1>2. evaluate(Reverse(docs), r).allow = native.allow
  BY <1>1, OrderIrrelevant
<1>3. SUFFICES ASSUME \A i \in 1..Len(docs) : Supported(docs[i])
               PROVE  /\ native.allow = cedar.allow
                      /\ native.allow \/ "ExplicitDeny" \in {native.reason, cedar.reason} => native = cedar
  BY <1>1, <1>2
<1>4. /\ Denying(docs, r) # {} => Candidates(docs, r) # {}
      /\ Allowing(docs, r) # {} => Permitting(docs, r) # {}
      /\ Permitting(docs, r) # {} => Candidates(docs, r) # {}
  BY DEF Denying, Allowing, Permitting, evaluate_gates
<1>5. PICK gate : gate = evaluate_gates(docs[First(Candidates(docs, r))], r.context)
  OBVIOUS
<1>6. gate # "ExplicitDeny"
  BY <1>5 DEF evaluate_gates
<1>7. native = IF ~validate_context(r.context) THEN Deny("InvalidContext", None)
               ELSE IF Candidates(docs, r) = {} THEN Deny("NoMatchingPolicy", None)
               ELSE IF Denying(docs, r) # {} THEN Deny("ExplicitDeny", docs[First(Denying(docs, r))].name)
               ELSE IF Allowing(docs, r) # {} THEN Allow(docs[First(Allowing(docs, r))].name)
               ELSE Deny(gate, docs[First(Candidates(docs, r))].name)
  BY <1>1, <1>5, EvaluateIs
<1>8. cedar = IF ~validate_context(r.context) THEN Deny("InvalidContext", None)
              ELSE IF Denying(docs, r) # {} THEN Deny("ExplicitDeny", docs[First(Denying(docs, r))].name)
              ELSE IF Permitting(docs, r) = {} THEN Deny("NoMatchingPolicy", None)
              ELSE IF Allowing(docs, r) # {} THEN Allow(docs[First(Allowing(docs, r))].name)
              ELSE Deny("BodyTooLarge", docs[First(Permitting(docs, r))].name)
  BY <1>1, <1>3, CedarIs
<1>9. \A name, reason : /\ Deny(reason, name).allow = FALSE /\ Deny(reason, name).reason = reason
                        /\ Allow(name).allow = TRUE
  BY DEF Deny, Allow
<1>10. CASE ~validate_context(r.context)
  BY <1>7, <1>8, <1>9, <1>10
<1>11. CASE validate_context(r.context) /\ Denying(docs, r) # {}
  BY <1>4, <1>7, <1>8, <1>9, <1>11
<1>12. CASE validate_context(r.context) /\ Denying(docs, r) = {} /\ Allowing(docs, r) # {}
  BY <1>4, <1>7, <1>8, <1>9, <1>12
<1>13. CASE validate_context(r.context) /\ Denying(docs, r) = {} /\ Allowing(docs, r) = {}
  <2>1. native.allow = FALSE /\ native.reason # "ExplicitDeny"
    BY <1>6, <1>7, <1>9, <1>13
  <2>2. cedar.allow = FALSE /\ cedar.reason # "ExplicitDeny"
    BY <1>8, <1>9, <1>13
  <2> QED BY <2>1, <2>2
<1> QED BY <1>10, <1>11, <1>12, <1>13

-------------------------------------------------------------------------------
(* The directory and the broker that loads it.                             *)

\* The documents read so far, one for each of the first files listed.
ReadFrom(docs, listed, w) ==
  \A i \in 1..Len(docs) : docs[i] \in w[listed[i]] /\ validate_policy(docs[i])

\* What is still to read is the rest of the files listed, and none of those
\* has gone.
Loading(l, w, held) ==
  /\ l \in [mode : Modes, todo : Seq(FileSet), listed : Seq(FileSet), docs : Seq(Documents)]
  /\ Len(l.docs) + Len(l.todo) = Len(l.listed)
  /\ \A i \in 1..Len(l.todo) : l.todo[i] = l.listed[Len(l.docs) + i]
  /\ \A i \in 1..Len(l.listed) : held[l.listed[i]] # None
  /\ ReadFrom(l.docs, l.listed, w)

Judging(e, w) ==
  /\ e \in [mode : Modes, docs : Seq(Documents), listed : Seq(FileSet)]
  /\ Len(e.docs) = Len(e.listed)
  /\ ReadFrom(e.docs, e.listed, w)

PolicyInv ==
  /\ files \in [FileSet -> Documents \cup {None, Torn}] /\ written \in [FileSet -> SUBSET Documents]
  /\ \A f \in FileSet : files[f] \in written[f] \cup {None, Torn}
  /\ saving = None \/ saving \in [file : FileSet, doc : Documents]
  /\ loading = None \/ Loading(loading, written, files)
  /\ engine = None \/ Judging(engine, written)

\* A file is written over, which takes nothing away from its history.
LEMMA WritingKeeps ==
  ASSUME PolicyInv, NEW f \in FileSet, NEW file \in Documents \cup {Torn}, NEW more \in SUBSET Documents,
         files' = [files EXCEPT ![f] = file], written' = [written EXCEPT ![f] = @ \cup more],
         file = Torn \/ file \in more, UNCHANGED <<loading, engine>>,
         saving' = None \/ saving' \in [file : FileSet, doc : Documents]
  PROVE  PolicyInv'
<1>1. /\ files' \in [FileSet -> Documents \cup {None, Torn}] /\ written' \in [FileSet -> SUBSET Documents]
      /\ \A g \in FileSet : written[g] \subseteq written'[g] /\ (files[g] # None => files'[g] # None)
  BY PoliciesAreTyped DEF PolicyInv
<1>2. \A g \in FileSet : files'[g] \in written'[g] \cup {None, Torn}
  BY <1>1 DEF PolicyInv
<1>3. \A docs, listed : docs \in Seq(Documents) /\ listed \in Seq(FileSet) /\ Len(docs) <= Len(listed)
                          /\ ReadFrom(docs, listed, written) => ReadFrom(docs, listed, written')
  <2> SUFFICES ASSUME NEW docs \in Seq(Documents), NEW listed \in Seq(FileSet), Len(docs) <= Len(listed),
                      ReadFrom(docs, listed, written), NEW i \in 1..Len(docs)
               PROVE  docs[i] \in written'[listed[i]] /\ validate_policy(docs[i])
    BY DEF ReadFrom
  <2>1. listed[i] \in FileSet
    OBVIOUS
  <2> QED BY <1>1, <2>1 DEF ReadFrom
<1>4. loading = None \/ Loading(loading, written', files')
  <2>1. SUFFICES ASSUME Loading(loading, written, files) PROVE Loading(loading, written', files')
    BY DEF PolicyInv
  <2>2. \A i \in 1..Len(loading.listed) : files'[loading.listed[i]] # None
    BY <1>1, <2>1 DEF Loading
  <2>3. ReadFrom(loading.docs, loading.listed, written')
    <3>1. /\ loading.docs \in Seq(Documents) /\ loading.listed \in Seq(FileSet)
          /\ Len(loading.docs) <= Len(loading.listed) /\ ReadFrom(loading.docs, loading.listed, written)
      BY <2>1 DEF Loading
    <3> QED BY <1>3, <3>1
  <2> QED BY <2>1, <2>2, <2>3 DEF Loading
<1>5. engine = None \/ Judging(engine, written')
  <2>1. SUFFICES ASSUME Judging(engine, written) PROVE Judging(engine, written')
    BY DEF PolicyInv
  <2>2. /\ engine.docs \in Seq(Documents) /\ engine.listed \in Seq(FileSet)
        /\ Len(engine.docs) <= Len(engine.listed) /\ ReadFrom(engine.docs, engine.listed, written)
    BY <2>1 DEF Judging
  <2> QED BY <1>3, <2>1, <2>2 DEF Judging
<1> QED BY <1>1, <1>2, <1>4, <1>5 DEF PolicyInv

\* A broker starts.
LEMMA StartKeeps ==
  ASSUME PolicyInv, authorizer_from_mode
  PROVE  PolicyInv'
<1>1. PICK mode \in Modes :
        loading' = [mode |-> mode, todo |-> sorted_policy_files, listed |-> sorted_policy_files, docs |-> << >>]
  BY DEF authorizer_from_mode
<1>2. sorted_policy_files \in Seq({f \in FileSet : files[f] # None})
  <2>1. Files \in Seq(FileSet)
    BY PoliciesAreTyped DEF FileSet
  <2>2. sorted_policy_files \in Seq(FileSet \cap {f \in FileSet : files[f] # None})
    BY <2>1, FilteredIs DEF sorted_policy_files
  <2>3. FileSet \cap {f \in FileSet : files[f] # None} = {f \in FileSet : files[f] # None}
    OBVIOUS
  <2> QED BY <2>2, <2>3
<1>3. PICK list : list = sorted_policy_files
  OBVIOUS
<1>4. list \in Seq(FileSet) /\ \A i \in 1..Len(list) : files[list[i]] # None
  BY <1>2, <1>3
<1>5. Loading(loading', written, files)
  BY <1>1, <1>3, <1>4 DEF Loading, ReadFrom
<1> QED BY <1>5 DEF PolicyInv, authorizer_from_mode

\* It reads the next file.
LEMMA LoadKeeps ==
  ASSUME PolicyInv, load_policy_file
  PROVE  PolicyInv'
<1>1. UNCHANGED <<files, saving, written, engine>>
  BY DEF load_policy_file, LoadFails
<1>2. CASE loading' = None
  BY <1>1, <1>2 DEF PolicyInv
<1>3. CASE loading' # None
  <2>1. PICK text : text = files[Head(loading.todo)]
    OBVIOUS
  <2>2. /\ loading # None /\ loading.todo # << >> /\ text # Torn /\ validate_policy(text)
        /\ loading' = [loading EXCEPT !.todo = Tail(@), !.docs = Append(@, text)]
    BY <1>3, <2>1 DEF load_policy_file, LoadFails
  <2>3. Loading(loading, written, files)
    BY <2>2 DEF PolicyInv
  <2>4. PICK todo, docs, listed : todo = loading.todo /\ docs = loading.docs /\ listed = loading.listed
    OBVIOUS
  <2>5. /\ todo \in Seq(FileSet) /\ docs \in Seq(Documents) /\ listed \in Seq(FileSet)
        /\ Len(docs) + Len(todo) = Len(listed) /\ todo # << >>
        /\ \A i \in 1..Len(todo) : todo[i] = listed[Len(docs) + i]
        /\ \A i \in 1..Len(listed) : files[listed[i]] # None
        /\ ReadFrom(docs, listed, written)
    BY <2>2, <2>3, <2>4 DEF Loading
  <2>6. Head(todo) = todo[1] /\ 1 \in 1..Len(todo) /\ Len(docs) + 1 \in 1..Len(listed)
    BY <2>5
  <2>7. Head(todo) = listed[Len(docs) + 1] /\ Head(todo) \in FileSet
    BY <2>5, <2>6
  <2>8. text \in written[listed[Len(docs) + 1]] /\ text \in Documents
    BY <2>1, <2>2, <2>4, <2>5, <2>6, <2>7 DEF PolicyInv
  <2>9. PICK read, rest : read = Append(docs, text) /\ rest = Tail(todo)
    OBVIOUS
  <2>10. /\ read \in Seq(Documents) /\ rest \in Seq(FileSet) /\ Len(read) = Len(docs) + 1
         /\ Len(read) + Len(rest) = Len(listed)
         /\ \A i \in 1..Len(docs) : read[i] = docs[i]
         /\ read[Len(docs) + 1] = text
         /\ \A i \in 1..Len(rest) : rest[i] = todo[i + 1]
    BY <2>5, <2>8, <2>9
  <2>11. \A i \in 1..Len(rest) : rest[i] = listed[Len(read) + i]
    BY <2>5, <2>10
  <2>12. ReadFrom(read, listed, written)
    <3> SUFFICES ASSUME NEW i \in 1..Len(read) PROVE read[i] \in written[listed[i]] /\ validate_policy(read[i])
      BY DEF ReadFrom
    <3>1. CASE i \in 1..Len(docs)
      BY <2>5, <2>10, <3>1 DEF ReadFrom
    <3>2. CASE i = Len(docs) + 1
      BY <2>2, <2>8, <2>10, <3>2
    <3> QED BY <2>5, <2>10, <3>1, <3>2
  <2>13. loading' = [loading EXCEPT !.todo = rest, !.docs = read]
    BY <2>2, <2>4, <2>9
  <2>14. /\ loading' \in [mode : Modes, todo : Seq(FileSet), listed : Seq(FileSet), docs : Seq(Documents)]
         /\ loading'.todo = rest /\ loading'.docs = read /\ loading'.listed = listed
    BY <2>3, <2>4, <2>10, <2>13 DEF Loading
  <2>15. Loading(loading', written, files)
    BY <2>5, <2>10, <2>11, <2>12, <2>14 DEF Loading
  <2> QED BY <1>1, <2>15 DEF PolicyInv
<1> QED BY <1>2, <1>3

\* The engine is built.
LEMMA BuildKeeps ==
  ASSUME PolicyInv, from_documents
  PROVE  PolicyInv'
<1>1. UNCHANGED <<files, saving, written>> /\ loading' = None /\ loading # None /\ loading.todo = << >>
  BY DEF from_documents, LoadFails
<1>2. \/ engine' = engine
      \/ engine' = [mode |-> loading.mode, docs |-> loading.docs, listed |-> loading.listed]
  BY DEF from_documents, LoadFails
<1>3. Loading(loading, written, files)
  BY <1>1 DEF PolicyInv
<1>4. CASE engine' = [mode |-> loading.mode, docs |-> loading.docs, listed |-> loading.listed]
  <2>1. Judging(engine', written)
    BY <1>1, <1>3, <1>4 DEF Judging, Loading
  <2> QED BY <1>1, <2>1 DEF PolicyInv
<1>5. CASE engine' = engine
  BY <1>1, <1>5 DEF PolicyInv
<1> QED BY <1>2, <1>4, <1>5

\* A running broker enforces, for each policy file there was when it started,
\* one whole and valid document that file has held, and decides alike with
\* either engine and in whatever order the files are read: for every set of
\* documents and requests, whatever is written while it loads.
THEOREM PolicyStaysExact == PolicySpec => []PolicyExact
<1>1. polInit => PolicyInv
  BY DEF polInit, PolicyInv
<1>2. PolicyInv /\ [polNext]_polVars => PolicyInv'
  <2> SUFFICES ASSUME PolicyInv, [polNext]_polVars PROVE PolicyInv'
    OBVIOUS
  <2>1. CASE save_policy_yaml
    <3>1. PICK doc \in Documents : /\ doc.name \in FileSet /\ saving' = [file |-> doc.name, doc |-> doc]
                                   /\ files' = [files EXCEPT ![doc.name] = Torn]
      BY <2>1 DEF save_policy_yaml
    <3>2. written' = [written EXCEPT ![doc.name] = @ \cup {}] /\ UNCHANGED <<loading, engine>>
      BY <2>1 DEF save_policy_yaml, PolicyInv
    <3>3. PICK f, none : f = doc.name /\ none = {}
      OBVIOUS
    <3>4. /\ f \in FileSet /\ none \in SUBSET Documents /\ files' = [files EXCEPT ![f] = Torn]
          /\ written' = [written EXCEPT ![f] = @ \cup none]
      BY <3>1, <3>2, <3>3
    <3>5. saving' \in [file : FileSet, doc : Documents] /\ Torn \in Documents \cup {Torn}
      BY <3>1
    <3> QED BY <3>2, <3>4, <3>5, WritingKeeps
  <2>2. CASE WriteYaml
    <3>1. saving \in [file : FileSet, doc : Documents]
      BY <2>2 DEF WriteYaml, PolicyInv
    <3>2. /\ files' = [files EXCEPT ![saving.file] = saving.doc]
          /\ written' = [written EXCEPT ![saving.file] = @ \cup {saving.doc}]
          /\ saving' = None /\ UNCHANGED <<loading, engine>>
      BY <2>2 DEF WriteYaml
    <3>3. saving.file \in FileSet /\ saving.doc \in Documents
      BY <3>1
    <3>4. PICK f, d, more : f = saving.file /\ d = saving.doc /\ more = {d}
      OBVIOUS
    <3>5. /\ f \in FileSet /\ d \in Documents \cup {Torn} /\ more \in SUBSET Documents /\ d \in more
          /\ files' = [files EXCEPT ![f] = d] /\ written' = [written EXCEPT ![f] = @ \cup more]
      BY <3>2, <3>3, <3>4
    <3> QED BY <3>2, <3>5, WritingKeeps
  <2>3. CASE EditByHand
    <3>1. PICK f \in FileSet, doc \in Documents : /\ files' = [files EXCEPT ![f] = doc]
                                                  /\ written' = [written EXCEPT ![f] = @ \cup {doc}]
      BY <2>3 DEF EditByHand
    <3>2. UNCHANGED <<loading, engine>> /\ (saving' = None \/ saving' \in [file : FileSet, doc : Documents])
      BY <2>3 DEF EditByHand, PolicyInv
    <3> QED BY <3>1, <3>2, WritingKeeps
  <2>4. CASE SaverDies \/ BrokerStops \/ UNCHANGED polVars
    BY <2>4 DEF SaverDies, BrokerStops, polVars, PolicyInv
  <2> QED BY <2>1, <2>2, <2>3, <2>4, StartKeeps, LoadKeeps, BuildKeeps DEF polNext
<1>3. PolicyInv => PolicyExact
  <2> SUFFICES ASSUME PolicyInv, engine # None PROVE PolicyExact
    BY DEF PolicyExact, EngineEnforcesWholeFiles, EnginesAgree
  <2>1. Judging(engine, written)
    BY DEF PolicyInv
  <2>2. EngineEnforcesWholeFiles
    BY <2>1 DEF EngineEnforcesWholeFiles, Judging, ReadFrom
  <2>3. Loaded(engine.docs)
    BY <2>1 DEF Judging, Loaded
  <2>4. EnginesAgree
    BY <2>3, AgreeAlways DEF EnginesAgree
  <2> QED BY <2>2, <2>4 DEF PolicyExact
<1> QED BY <1>1, <1>2, <1>3, PTL DEF PolicySpec

-------------------------------------------------------------------------------
(* Capability packs.                                                       *)

\* What becomes of a segment of a template.
Blanked(seg) == IF seg \in Placeholders THEN "*" ELSE seg

\* Compilation rewrites a template segment by segment.
LEMMA CompiledPath ==
  ASSUME NEW Segs, NEW t \in [rooted : BOOLEAN, segs : Seq(Segs)]
  PROVE  \E c \in Seq(Segs \cup {"*"}) :
           /\ compile_path_pattern(t).segs = c /\ compile_path_pattern(t).rooted = t.rooted
           /\ Len(c) = Len(t.segs) /\ \A i \in 1..Len(t.segs) : c[i] = Blanked(t.segs[i])
<1>1. PICK s \in Seq(Segs) : s = t.segs
  OBVIOUS
<1>2. PICK c : c = [i \in DOMAIN s |-> IF s[i] \in Placeholders THEN "*" ELSE s[i]]
  OBVIOUS
<1>3. compile_path_pattern(t) = [t EXCEPT !.segs = c]
  BY <1>1, <1>2 DEF compile_path_pattern
<1>4. PICK n \in Nat : n = Len(s) /\ DOMAIN s = 1..n
  OBVIOUS
<1>5. c \in [1..n -> Segs \cup {"*"}] /\ \A i \in 1..n : c[i] = Blanked(s[i])
  <2>1. \A i \in 1..n : s[i] \in Segs
    BY <1>4
  <2>2. \A i \in 1..n : c[i] = Blanked(s[i])
    BY <1>2, <1>4, Zenon DEF Blanked
  <2>3. \A i \in 1..n : Blanked(s[i]) \in Segs \cup {"*"}
    BY <2>1 DEF Blanked
  <2>4. c = [i \in 1..n |-> Blanked(s[i])]
    BY <1>2, <1>4, Zenon DEF Blanked
  <2> QED BY <2>2, <2>3, <2>4
<1>6. c \in Seq(Segs \cup {"*"}) /\ Len(c) = n
  BY <1>5, SeqDef
<1>7. compile_path_pattern(t).segs = c /\ compile_path_pattern(t).rooted = t.rooted
  BY <1>3
<1> QED BY <1>1, <1>4, <1>5, <1>6, <1>7

\* A compiled pattern is valid, and matches the instances of its template.
LEMMA CompiledMatches ==
  ASSUME NEW Segs, NEW t \in [rooted : BOOLEAN, segs : Seq(Segs)], validate_pattern(t), NEW path
  PROVE  /\ validate_pattern(compile_path_pattern(t))
         /\ path_matches(compile_path_pattern(t), path) <=> Instance(t, path)
<1>1. PICK c \in Seq(Segs \cup {"*"}) :
           /\ compile_path_pattern(t).segs = c /\ compile_path_pattern(t).rooted = t.rooted
           /\ Len(c) = Len(t.segs) /\ \A i \in 1..Len(t.segs) : c[i] = Blanked(t.segs[i])
  BY CompiledPath
<1>2. PICK s \in Seq(Segs) : s = t.segs
  OBVIOUS
<1>3. PICK n \in Nat : n = Len(s) /\ n = Len(c)
  BY <1>1, <1>2
<1>4. \A i \in 1..n : /\ c[i] = Blanked(s[i]) /\ s[i] \notin {"", ".."}
                      /\ s[i] = "**" => i = n
  BY <1>1, <1>2, <1>3 DEF validate_pattern
<1>5. \A i \in 1..n : c[i] \notin {"", ".."} /\ (c[i] = "**" <=> s[i] = "**")
  BY <1>4, PacksAreTyped DEF Blanked
<1>6. validate_pattern(compile_path_pattern(t))
  BY <1>1, <1>3, <1>4, <1>5 DEF validate_pattern
<1>7. Starred(c) <=> Starred(s)
  <2>1. (c # << >> <=> n # 0) /\ (s # << >> <=> n # 0)
    BY <1>3, EmptySeq
  <2>2. CASE n = 0
    BY <2>1, <2>2 DEF Starred
  <2>3. CASE n # 0
    <3>1. n \in 1..n
      BY <2>3
    <3>2. c[n] = "**" <=> s[n] = "**"
      BY <1>5, <3>1
    <3> QED BY <1>3, <2>1, <2>3, <3>2, Zenon DEF Starred
  <2> QED BY <2>2, <2>3
<1>8. PICK m \in Nat : m = Len(Prefix(s)) /\ m = Len(Prefix(c)) /\ m <= n /\ DOMAIN Prefix(s) = 1..m
                       /\ \A i \in 1..m : Prefix(s)[i] = s[i] /\ Prefix(c)[i] = c[i]
  <2>1. CASE Starred(s)
    <3>1. s # << >> /\ n # 0
      BY <1>3, <2>1, EmptySeq DEF Starred
    <3>2. Prefix(s) = SubSeq(s, 1, n - 1) /\ Prefix(c) = SubSeq(c, 1, n - 1)
      BY <1>3, <1>7, <2>1 DEF Prefix
    <3>3. n - 1 \in Nat /\ n - 1 <= n
      BY <3>1
    <3>4. /\ Len(Prefix(s)) = n - 1 /\ Len(Prefix(c)) = n - 1 /\ DOMAIN Prefix(s) = 1..(n - 1)
          /\ \A i \in 1..(n - 1) : Prefix(s)[i] = s[i] /\ Prefix(c)[i] = c[i]
      BY <1>3, <3>2, <3>3
    <3> QED BY <3>3, <3>4
  <2>2. CASE ~Starred(s)
    <3>1. Prefix(s) = s /\ Prefix(c) = c
      BY <1>7, <2>2 DEF Prefix
    <3>2. DOMAIN s = 1..n
      BY <1>3, LenProperties
    <3> QED BY <1>3, <3>1, <3>2
  <2> QED BY <2>1, <2>2
<1>9. \A i \in 1..m : segment_matches(Prefix(c)[i], path.segs[i]) <=>
                        \/ Prefix(s)[i] \in Placeholders \cup {"*"} /\ path.segs[i] # ""
                        \/ Prefix(s)[i] = path.segs[i]
  <2> SUFFICES ASSUME NEW i \in 1..m
               PROVE  segment_matches(Prefix(c)[i], path.segs[i]) <=>
                        \/ Prefix(s)[i] \in Placeholders \cup {"*"} /\ path.segs[i] # ""
                        \/ Prefix(s)[i] = path.segs[i]
    OBVIOUS
  <2>1. PICK a, b, x : a = Prefix(s)[i] /\ b = Prefix(c)[i] /\ x = path.segs[i]
    OBVIOUS
  <2>2. b = Blanked(a) /\ a # ""
    <3>1. i \in 1..n /\ a = s[i] /\ b = c[i]
      BY <1>3, <1>8, <2>1
    <3> QED BY <1>4, <3>1
  <2>3. segment_matches(b, x) <=> (a \in Placeholders \cup {"*"} /\ x # "") \/ a = x
    <3>1. CASE a \in Placeholders \cup {"*"}
      <4>1. b = "*"
        BY <2>2, <3>1 DEF Blanked
      <4>2. segment_matches(b, x) <=> x # ""
        BY <4>1 DEF segment_matches
      <4> QED BY <2>2, <3>1, <4>2
    <3>2. CASE a \notin Placeholders \cup {"*"}
      <4>1. b = a /\ b # "*"
        BY <2>2, <3>2 DEF Blanked
      <4>2. segment_matches(b, x) <=> a = x
        BY <4>1 DEF segment_matches
      <4> QED BY <3>2, <4>2
    <3> QED BY <3>1, <3>2
  <2> QED BY <2>1, <2>3
<1>10. match_segments(c, path.segs) <=> Instance(t, path)
  BY <1>2, <1>7, <1>8, <1>9 DEF match_segments, Instance
<1> QED BY <1>1, <1>6, <1>10 DEF path_matches

\* A file is a document, and a command that runs had leave to copy its own.
PackInv ==
  /\ packDir \in [Targets -> Packs \cup {None, TornPack}]
  /\ \A p \in Adders : adding[p] # None =>
       /\ \E F : adding[p] \in [pack : Packs, force : BOOLEAN, saw : F, copying : BOOLEAN]
       /\ Replaceable(load_pack(adding[p].saw), adding[p].pack, adding[p].force)
  /\ DOMAIN adding = Adders

\* What loads grants what its packs say.
LEMMA LoadedPacksGrant == PackInv => PacksGrantTheirTemplates
<1> SUFFICES ASSUME PackInv, load_pack_dir # None
             PROVE  PacksGrantTheirTemplates
  BY DEF PacksGrantTheirTemplates
<1> DEFINE Parsed(t) == load_pack(packDir[t])
<1>1. /\ load_pack_dir = {Parsed(t) : t \in pack_files}
      /\ \A t \in pack_files : Parsed(t) # None
      /\ \A t, u \in pack_files : t # u => policy_name_for(Parsed(t).name) # policy_name_for(Parsed(u).name)
  BY DEF load_pack_dir
<1>2. \A t \in pack_files : Parsed(t) \in Packs /\ validate_pack(Parsed(t))
  <2> SUFFICES ASSUME NEW t \in pack_files PROVE Parsed(t) \in Packs /\ validate_pack(Parsed(t))
    OBVIOUS
  <2>1. packDir[t] \in Packs \cup {None, TornPack} /\ Parsed(t) # None
    BY <1>1 DEF pack_files, PackInv
  <2>2. packDir[t] \notin {None, TornPack} /\ validate_pack(packDir[t]) /\ Parsed(t) = packDir[t]
    BY <2>1 DEF load_pack
  <2> QED BY <2>1, <2>2
<1> HIDE DEF Parsed
<1>3. \A p : compile(p).name = policy_name_for(p.name)
  BY DEF compile
<1>4. ASSUME NEW p \in load_pack_dir, NEW q \in load_pack_dir, p # q
      PROVE  compile(p).name # compile(q).name
  <2>1. PICK t \in pack_files, u \in pack_files : p = Parsed(t) /\ q = Parsed(u)
    BY <1>1
  <2> QED BY <1>1, <1>3, <1>4, <2>1
<1>5. ASSUME NEW p \in load_pack_dir
      PROVE  /\ \A t \in compile(p).patterns : validate_pattern(t)
             /\ \A path : (\E t \in compile(p).patterns : path_matches(t, path))
                            <=> \E t \in p.request.templates : Instance(t, path)
             /\ \A h \in compile(p).hosts : ToSet(h) \subseteq {"digits", "hex"} => Len(h) > 4
             /\ compile(p).body # None => compile(p).body \in 1..RequestBodyCap
             /\ compile(p).responseBody # None => compile(p).responseBody \in 1..ResponseBodyCap
             /\ "set-cookie" \in compile(p).redacted
             /\ {"authorization", "proxy-authorization"} \subseteq compile(p).denyHeaders
  <2>1. p \in Packs /\ validate_pack(p)
    BY <1>1, <1>2
  <2>2. PICK rules : rules = IF p.response = None THEN [body |-> None, headers |-> {}, fields |-> {}]
                                   ELSE p.response
    OBVIOUS
  <2>3. /\ compile(p).patterns = {compile_path_pattern(t) : t \in p.request.templates}
        /\ compile(p).hosts = p.request.hosts /\ compile(p).body = p.constraints.body
        /\ compile(p).responseBody = rules.body /\ compile(p).redacted = rules.headers \cup {"set-cookie"}
        /\ compile(p).denyHeaders = {"authorization", "proxy-authorization"}
    BY <2>2 DEF compile
  <2>4. \A t \in p.request.templates : t \in [rooted : BOOLEAN, segs : Seq(STRING)] /\ validate_pattern(t)
    <3>1. \A t \in p.request.templates : validate_pattern(t)
      BY <2>1 DEF validate_pack, validate_request, validate_path_template
    <3> QED BY <2>1, <3>1, PacksAreTyped
  <2>5. \A t \in p.request.templates :
          /\ validate_pattern(compile_path_pattern(t))
          /\ \A path : path_matches(compile_path_pattern(t), path) <=> Instance(t, path)
    <3>1. PICK Segs : Segs = STRING
      OBVIOUS
    <3>2. \A t \in p.request.templates : t \in [rooted : BOOLEAN, segs : Seq(Segs)] /\ validate_pattern(t)
      BY <2>4, <3>1
    <3> QED BY <3>1, <3>2, CompiledMatches
  <2>6. ASSUME NEW path
        PROVE  (\E t \in compile(p).patterns : path_matches(t, path))
                 <=> \E t \in p.request.templates : Instance(t, path)
    BY <2>3, <2>5
  <2>7. \A h \in compile(p).hosts : ToSet(h) \subseteq {"digits", "hex"} => Len(h) > 4
    <3> SUFFICES ASSUME NEW h \in p.request.hosts, ToSet(h) \subseteq {"digits", "hex"} PROVE Len(h) > 4
      BY <2>3
    <3>1. Len(h) > 4 \/ \E i \in DOMAIN h : h[i] \notin {"digits", "hex"}
      BY <2>1 DEF validate_pack, validate_request, validate_pack_host
    <3>2. \A i \in DOMAIN h : h[i] \in ToSet(h)
      BY DEF ToSet
    <3> QED BY <3>1, <3>2
  <2>8. compile(p).body # None => compile(p).body \in 1..RequestBodyCap
    BY <2>1, <2>3 DEF validate_pack, validate_constraints, validate_size_limit
  <2>9. rules.body # None => rules.body \in 1..ResponseBodyCap
    <3>1. CASE p.response = None
      <4>1. rules = [body |-> None, headers |-> {}, fields |-> {}]
        BY <2>2, <3>1
      <4> QED BY <4>1
    <3>2. CASE p.response # None
      BY <2>1, <2>2, <3>2 DEF validate_pack, validate_response, validate_size_limit
    <3> QED BY <3>1, <3>2
  <2> QED BY <2>3, <2>5, <2>6, <2>7, <2>8, <2>9, Zenon
<1> QED BY <1>4, <1>5 DEF PacksGrantTheirTemplates

\* What a command copies takes no pack it did not see.
LEMMA CopyKeepsCapabilities ==
  ASSUME PackInv, NEW p \in Adders, Truncate(p) \/ Fill(p),
         NEW was, was = load_pack(packDir[Target(adding[p].pack)]), was # None,
         was.name # adding[p].pack.name \/ ~adding[p].force
  PROVE  adding[p].saw # was
<1> SUFFICES ASSUME adding[p].saw = was PROVE FALSE
  OBVIOUS
<1>1. adding[p] # None
  BY DEF Truncate, Fill
<1>2. Replaceable(load_pack(was), adding[p].pack, adding[p].force)
  BY <1>1 DEF PackInv
<1>3. load_pack(was) = was
  BY DEF load_pack
<1> QED BY <1>2, <1>3 DEF Replaceable

\* Every command on packs keeps the invariant.
LEMMA PackStepKeeps == PackInv /\ [packNext]_packVars => PackInv'
<1> SUFFICES ASSUME PackInv, [packNext]_packVars PROVE PackInv'
  OBVIOUS
<1> DEFINE Granted(a) == a # None =>
             /\ \E F : a \in [pack : Packs, force : BOOLEAN, saw : F, copying : BOOLEAN]
             /\ Replaceable(load_pack(a.saw), a.pack, a.force)
<1>1. /\ packDir \in [Targets -> Packs \cup {None, TornPack}]
      /\ DOMAIN adding = Adders /\ \A p \in Adders : Granted(adding[p])
  BY DEF PackInv
<1>2. CASE UNCHANGED packVars
  BY <1>2 DEF PackInv, packVars
<1>3. ASSUME NEW p \in Adders, NEW pack \in Packs, NEW force \in BOOLEAN, cmd_pack_add(p, pack, force)
      PROVE  PackInv'
  <2>1. PICK a, saw : saw = packDir[Target(pack)]
                   /\ a = [pack |-> pack, force |-> force, saw |-> saw, copying |-> FALSE]
    OBVIOUS
  <2>2. /\ a \in [pack : Packs, force : BOOLEAN, saw : {saw}, copying : BOOLEAN]
        /\ a.saw = saw /\ a.pack = pack /\ a.force = force
    BY <2>1
  <2>3. adding' = [adding EXCEPT ![p] = a] /\ packDir' = packDir /\ Replaceable(load_pack(saw), pack, force)
    BY <1>3, <2>1 DEF cmd_pack_add
  <2>4. Granted(a)
    BY <2>2, <2>3
  <2>5. DOMAIN adding' = Adders /\ \A q \in Adders : adding'[q] = IF q = p THEN a ELSE adding[q]
    BY <1>1, <2>3
  <2> HIDE DEF Granted
  <2>6. \A q \in Adders : Granted(adding'[q])
    BY <1>1, <2>4, <2>5
  <2> USE DEF Granted
  <2> QED BY <1>1, <2>3, <2>5, <2>6 DEF PackInv
<1>4. ASSUME NEW p \in Adders, Truncate(p)
      PROVE  PackInv'
  <2>1. PICK F, a : a = adding[p] /\ a \in [pack : Packs, force : BOOLEAN, saw : F, copying : BOOLEAN]
    BY <1>1, <1>4 DEF Truncate
  <2>2. PICK b : b = [a EXCEPT !.copying = TRUE]
    OBVIOUS
  <2>3. /\ b \in [pack : Packs, force : BOOLEAN, saw : F, copying : BOOLEAN]
        /\ b.saw = a.saw /\ b.pack = a.pack /\ b.force = a.force
    BY <2>1, <2>2
  <2>4. adding' = [adding EXCEPT ![p] = b] /\ packDir' = [packDir EXCEPT ![Target(a.pack)] = TornPack]
    BY <1>4, <2>1, <2>2 DEF Truncate, Put
  <2>5. Granted(b)
    BY <1>1, <1>4, <2>1, <2>3 DEF Truncate
  <2>6. DOMAIN adding' = Adders /\ \A q \in Adders : adding'[q] = IF q = p THEN b ELSE adding[q]
    BY <1>1, <2>4
  <2>7. packDir' \in [Targets -> Packs \cup {None, TornPack}]
    BY <1>1, <2>4
  <2> HIDE DEF Granted
  <2>8. \A q \in Adders : Granted(adding'[q])
    BY <1>1, <2>5, <2>6
  <2> USE DEF Granted
  <2> QED BY <2>6, <2>7, <2>8 DEF PackInv
<1>5. ASSUME NEW p \in Adders, Fill(p) \/ AddStops(p)
      PROVE  PackInv'
  <2>1. PICK a : a = adding[p] /\ a # None /\ a.pack \in Packs
    <3>1. adding[p] # None
      BY <1>5 DEF Fill, AddStops
    <3>2. PICK F : adding[p] \in [pack : Packs, force : BOOLEAN, saw : F, copying : BOOLEAN]
      BY <1>1, <3>1
    <3> QED BY <3>1, <3>2
  <2>2. /\ adding' = [adding EXCEPT ![p] = None]
        /\ packDir' = packDir \/ packDir' = [packDir EXCEPT ![Target(a.pack)] = a.pack]
    BY <1>5, <2>1 DEF Fill, AddStops, Put
  <2>3. DOMAIN adding' = Adders /\ \A q \in Adders : adding'[q] = IF q = p THEN None ELSE adding[q]
    BY <1>1, <2>2
  <2>4. packDir' \in [Targets -> Packs \cup {None, TornPack}]
    BY <1>1, <2>1, <2>2
  <2>5. Granted(None)
    OBVIOUS
  <2> HIDE DEF Granted
  <2>6. \A q \in Adders : Granted(adding'[q])
    BY <1>1, <2>3, <2>5
  <2> USE DEF Granted
  <2> QED BY <2>3, <2>4, <2>6 DEF PackInv
<1> QED BY <1>2, <1>3, <1>4, <1>5 DEF packNext

(***************************************************************************)
(* For every set of packs, processes that add them in any interleaving and *)
(* copies cut short anywhere: a directory that loads compiles to policies  *)
(* that grant exactly the instances of the packs' templates, and a copy    *)
(* replaces an intact pack of another capability only when it was written  *)
(* behind the command's back.                                              *)
(***************************************************************************)
THEOREM PacksStayFaithful == PackSpec => PacksFaithful
<1>1. packInit => PackInv
  <2> SUFFICES ASSUME packInit PROVE PackInv
    OBVIOUS
  <2>1. packDir = [t \in Targets |-> None] /\ adding = [p \in Adders |-> None]
    BY DEF packInit
  <2> QED BY <2>1 DEF PackInv
<1>2. PackInv /\ [packNext]_packVars => PackInv'
  BY PackStepKeeps
<1>3. PackInv => PacksGrantTheirTemplates
  BY LoadedPacksGrant
<1>4. PackInv => \A p \in Adders : Truncate(p) \/ Fill(p) =>
        LET was == load_pack(packDir[Target(adding[p].pack)]) IN
          was # None /\ (was.name # adding[p].pack.name \/ ~adding[p].force) => adding[p].saw # was
  BY CopyKeepsCapabilities
<1> QED BY <1>1, <1>2, <1>3, <1>4, PTL DEF PackSpec, PacksFaithful, CapabilitiesKept

-------------------------------------------------------------------------------
(* The loop of the MCP server.                                             *)

\* A capability request is sent for an installed policy.
Announced(d) == d.hint # None => PackPolicies[d.hint] \in d.known

\* The outcome of a request: no parse error, and at most one request sent on.
Handled(r) == r.code # ParseError /\ (r.dials = << >> \/ \E d : r.dials = <<d>> /\ Announced(d))

\* A parse error has a code of its own.
LEMMA CodesDiffer == ParseError \notin {0, ToolFailure, InvalidParams, MethodNotFound, UnknownCapability}
  BY DEF ParseError, ToolFailure, InvalidParams, MethodNotFound, UnknownCapability

\* An outcome that sends nothing on is well-formed.
LEMMA ResultHandled ==
  ASSUME NEW code \in {0, ToolFailure, InvalidParams, MethodNotFound, UnknownCapability}
  PROVE  Handled(Result(code))
<1>1. Result(code).code = code /\ Result(code).dials = << >>
  BY DEF Result
<1> QED BY <1>1, CodesDiffer DEF Handled

\* What is sent through the broker carries only a hint that is installed.
LEMMA SentHandled ==
  ASSUME NEW bad, NEW hint, hint # None => PackPolicies[hint] \in installed
  PROVE  \A r \in send_via_broker(bad, hint) : Handled(r)
<1> SUFFICES ASSUME NEW r \in send_via_broker(bad, hint) PROVE Handled(r)
  OBVIOUS
<1>1. CASE r = Result(InvalidParams)
  BY <1>1, ResultHandled
<1>2. CASE \E code \in {0, ToolFailure} : r = [code |-> code, dials |-> <<[hint |-> hint, known |-> installed]>>]
  <2>1. PICK code \in {0, ToolFailure} : r = [code |-> code, dials |-> <<[hint |-> hint, known |-> installed]>>]
    BY <1>2
  <2>2. PICK d : d = [hint |-> hint, known |-> installed]
    OBVIOUS
  <2>3. Announced(d)
    BY <2>2 DEF Announced
  <2>4. r.code = code /\ r.dials = <<d>>
    BY <2>1, <2>2
  <2> QED BY <2>1, <2>3, <2>4, CodesDiffer DEF Handled
<1> QED BY <1>1, <1>2 DEF send_via_broker

\* Every outcome of a request is well-formed.
LEMMA RequestHandled ==
  ASSUME NEW request
  PROVE  \A r \in handle_request(request) : Handled(r)
<1> DEFINE Plain == {Result(0), Result(ToolFailure), Result(InvalidParams), Result(MethodNotFound), Result(UnknownCapability)}
<1>1. \A r \in Plain : Handled(r)
  BY ResultHandled
<1> HIDE DEF Plain
<1>2. \A r \in capability_request(request.call) : Handled(r)
  <2>1. PICK call : call = request.call
    OBVIOUS
  <2>2. CASE /\ call.capability \in DOMAIN PackPolicies /\ PackPolicies[call.capability] \in installed
             /\ "capability" \notin call.bad /\ "params" \notin call.bad
    <3>1. \A r \in send_via_broker(call.bad, call.capability) : Handled(r)
      BY <2>2, SentHandled
    <3>2. capability_request(call) = send_via_broker(call.bad, call.capability) \cup {Result(ToolFailure)}
      BY <2>2 DEF capability_request
    <3> QED BY <1>1, <2>1, <3>1, <3>2 DEF Plain
  <2>3. CASE ~(/\ call.capability \in DOMAIN PackPolicies /\ PackPolicies[call.capability] \in installed
               /\ "capability" \notin call.bad /\ "params" \notin call.bad)
    <3>1. capability_request(call) \subseteq Plain
      BY <2>3 DEF capability_request, Plain
    <3> QED BY <1>1, <2>1, <3>1
  <2> QED BY <2>2, <2>3
<1>3. \A r \in send_via_broker(request.call.bad, None) : Handled(r)
  BY SentHandled
<1>4. \A r \in call_tool(request.call) : Handled(r)
  <2>1. call_tool(request.call) \subseteq
          Plain \cup capability_request(request.call) \cup send_via_broker(request.call.bad, None)
    BY DEF call_tool, Plain
  <2> QED BY <1>1, <1>2, <1>3, <2>1
<1>5. handle_request(request) \subseteq Plain \cup call_tool(request.call)
  BY DEF handle_request, Plain
<1> QED BY <1>1, <1>4, <1>5

\* The answer to a line is the one that is owed.
Answered(h, owed) ==
  /\ \/ owed = << >> /\ h.lines = << >>
     \/ \E a : h.lines = <<a>> /\ owed = <<a.id>> /\ (a.id = None <=> a.code = ParseError)
  /\ h.dials = << >> \/ \E d : h.dials = <<d>> /\ Announced(d)

\* The answer to a line that cannot be parsed is the one that is owed.
LEMMA ErrorAnswered == Answered(error_line, <<None>>)
<1>1. PICK a : a = [id |-> None, code |-> ParseError]
  OBVIOUS
<1>2. a.id = None /\ a.code = ParseError
  BY <1>1
<1>3. error_line.lines = <<a>> /\ error_line.dials = << >>
  BY <1>1 DEF error_line
<1> QED BY <1>2, <1>3 DEF Answered

\* Every line of bearable length gets the answer it is owed.
LEMMA LineAnswered ==
  ASSUME NEW l \in InputLines, ~(l.length > MaxLineBytes)
  PROVE  \A h \in handle_line(l.parsed) : Answered(h, OwedId(l))
<1> SUFFICES ASSUME NEW h \in handle_line(l.parsed) PROVE Answered(h, OwedId(l))
  OBVIOUS
<1>1. PICK parsed : parsed = l.parsed
  OBVIOUS
<1>2. parsed.kind \in {"blank", "malformed", "request"}
  BY <1>1, LinesAreTyped
<1>3. CASE parsed.kind = "malformed"
  <2>1. h = error_line /\ OwedId(l) = <<None>>
    BY <1>1, <1>3 DEF handle_line, OwedId
  <2> QED BY <2>1, ErrorAnswered
<1>4. CASE parsed.kind = "blank" \/ (parsed.kind = "request" /\ parsed.id = None)
  <2>1. h = [lines |-> << >>, dials |-> << >>] /\ OwedId(l) = << >>
    BY <1>1, <1>4 DEF handle_line, OwedId
  <2>2. h.lines = << >> /\ h.dials = << >>
    BY <2>1
  <2> QED BY <2>1, <2>2 DEF Answered
<1>5. CASE parsed.kind = "request" /\ parsed.id # None
  <2>1. PICK r \in handle_request(parsed) : h = [lines |-> <<[id |-> parsed.id, code |-> r.code]>>, dials |-> r.dials]
    BY <1>1, <1>5 DEF handle_line
  <2>2. Handled(r)
    BY <2>1, RequestHandled
  <2>3. PICK a : a = [id |-> parsed.id, code |-> r.code]
    OBVIOUS
  <2>4. a.id = parsed.id /\ a.code = r.code /\ h.lines = <<a>> /\ h.dials = r.dials
    BY <2>1, <2>3
  <2>5. OwedId(l) = <<a.id>>
    BY <1>1, <1>5, <2>4 DEF OwedId
  <2>6. a.id = None <=> a.code = ParseError
    BY <1>5, <2>2, <2>4 DEF Handled
  <2> QED BY <2>2, <2>4, <2>5, <2>6 DEF Answered, Handled
<1> QED BY <1>2, <1>3, <1>4, <1>5

-------------------------------------------------------------------------------
\* What has been read of the first line: how much is kept of it, and whether it
\* is too long already.
Reading(input, rest, kept, over) ==
  IF input = << >> THEN rest = 0 /\ kept = 0 /\ over = FALSE
  ELSE \E n \in Nat : /\ rest \in Nat /\ n + rest = Bytes(input) /\ n <= Head(input).length
                      /\ over \in BOOLEAN /\ (over <=> n > MaxLineBytes)
                      /\ kept = IF over THEN 0 ELSE n

McpInv ==
  /\ stdin \in Seq(InputLines) /\ served \in Seq(InputLines)
  /\ Reading(stdin, unread, line, oversize)
  /\ \E R : stdout \in Seq(R)
  /\ \E D : dialled \in Seq(D)
  /\ OneAnswerEach

\* Nothing is read yet of what comes next.
LEMMA ReadingStarts ==
  ASSUME NEW input \in Seq(InputLines)
  PROVE  Reading(input, Bytes(input), 0, FALSE)
<1>1. CASE input = << >>
  BY <1>1 DEF Reading, Bytes
<1>2. CASE input # << >>
  <2>1. PICK n \in Nat, b \in Nat : n = Head(input).length /\ b = Bytes(input)
    <3>1. Head(input) \in InputLines
      BY <1>2
    <3> QED BY <1>2, <3>1, LinesAreTyped DEF Bytes
  <2>2. 0 + b = b /\ 0 <= n /\ ~(0 > MaxLineBytes)
    BY <2>1, LinesAreTyped
  <2> QED BY <1>2, <2>1, <2>2 DEF Reading
<1> QED BY <1>1, <1>2

\* The ids that are owed, and those that were given.
Owed(lines) == [i \in DOMAIN lines |-> OwedId(lines[i])]
Given(out) == [i \in DOMAIN out |-> out[i].id]

\* A line that is answered as it should be.
LEMMA AnswerKeeps ==
  ASSUME McpInv, NEW l \in InputLines, NEW h, Answered(h, OwedId(l)),
         stdout' = stdout \o h.lines, dialled' = dialled \o h.dials, served' = Append(served, l)
  PROVE  /\ (\E R : stdout' \in Seq(R)) /\ (\E D : dialled' \in Seq(D)) /\ served' \in Seq(InputLines)
         /\ OneAnswerEach'
<1>1. PICK R, D : stdout \in Seq(R) /\ dialled \in Seq(D)
  BY DEF McpInv
<1>2. PICK n \in Nat, m \in Nat, k \in Nat : n = Len(stdout) /\ m = Len(dialled) /\ k = Len(served)
  BY <1>1 DEF McpInv
<1>3. /\ served \in Seq(InputLines) /\ Given(stdout) = FlattenSeq(Owed(served)) /\ m <= k
      /\ \A i \in 1..n : stdout[i].id = None <=> stdout[i].code = ParseError
      /\ \A i \in 1..m : Announced(dialled[i])
  <2>1. served \in Seq(InputLines) /\ OneAnswerEach
    BY DEF McpInv
  <2>2. Given(stdout) = FlattenSeq(Owed(served))
    BY <2>1, Zenon DEF OneAnswerEach, Owed, Given
  <2>3. DOMAIN stdout = 1..n /\ DOMAIN dialled = 1..m
    BY <1>1, <1>2
  <2> QED BY <1>2, <2>1, <2>2, <2>3 DEF OneAnswerEach, Announced
<1>4. PICK X, Y : /\ X = {q.parsed.id : q \in InputLines} \cup {None}
                  /\ Y = {OwedId(served[i]) : i \in 1..k} \cup {OwedId(l)}
  OBVIOUS
<1>5. /\ served' \in Seq(InputLines) /\ Len(served') = k + 1 /\ served'[k + 1] = l
      /\ \A i \in 1..k : served'[i] = served[i]
  BY <1>2, <1>3
<1>6. Owed(served) \in Seq(Y) /\ Owed(served') = Append(Owed(served), OwedId(l))
  <2>1. Owed(served) = [i \in 1..k |-> OwedId(served[i])] /\ Owed(served') = [i \in 1..(k + 1) |-> OwedId(served'[i])]
    BY <1>2, <1>3, <1>5 DEF Owed
  <2>2. Owed(served) \in [1..k -> Y]
    BY <1>4, <2>1
  <2>3. Owed(served) \in Seq(Y) /\ Len(Owed(served)) = k
    BY <2>2, SeqDef
  <2>4. PICK a : a = Append(Owed(served), OwedId(l))
    OBVIOUS
  <2>5. a \in Seq(Y) /\ Len(a) = k + 1 /\ a[k + 1] = OwedId(l) /\ \A i \in 1..k : a[i] = OwedId(served[i])
    BY <1>4, <2>1, <2>3, <2>4
  <2>6. Owed(served') \in [1..(k + 1) -> Y]
    BY <1>4, <1>5, <2>1
  <2>7. Owed(served') \in Seq(Y) /\ Len(Owed(served')) = k + 1
    BY <2>6, SeqDef
  <2>8. \A i \in 1..(k + 1) : Owed(served')[i] = a[i]
    BY <1>5, <2>1, <2>5
  <2> QED BY <2>3, <2>4, <2>5, <2>7, <2>8, SeqEqual
<1>7. \A y \in Y : y \in Seq(X)
  <2>1. \A q \in InputLines : OwedId(q) \in Seq(X)
    <3> SUFFICES ASSUME NEW q \in InputLines PROVE OwedId(q) \in Seq(X)
      OBVIOUS
    <3>1. q.parsed.id \in X /\ None \in X
      BY <1>4
    <3>2. << >> \in Seq(X) /\ <<None>> \in Seq(X) /\ <<q.parsed.id>> \in Seq(X)
      BY <3>1
    <3> QED BY <3>2 DEF OwedId
  <2>2. \A i \in 1..k : served[i] \in InputLines
    BY <1>2, <1>3
  <2> QED BY <1>4, <2>1, <2>2
<1>8. /\ FlattenSeq(Owed(served)) \in Seq(X)
      /\ FlattenSeq(Owed(served')) = FlattenSeq(Owed(served)) \o OwedId(l)
  <2>1. OwedId(l) \in Y
    BY <1>4
  <2>2. PICK before, owed : before = Owed(served) /\ owed = OwedId(l)
    OBVIOUS
  <2>3. before \in Seq(Y) /\ owed \in Y /\ Owed(served') = Append(before, owed)
    BY <1>6, <2>1, <2>2
  <2>4. FlattenSeq(before) \in Seq(X) /\ FlattenSeq(Append(before, owed)) = FlattenSeq(before) \o owed
    BY <1>7, <2>3, FlattenAppend
  <2> QED BY <2>2, <2>3, <2>4
<1>9. Given(stdout) = [i \in 1..n |-> stdout[i].id]
  BY <1>1, <1>2 DEF Given
<1>10. /\ \E S : stdout' \in Seq(S)
       /\ Given(stdout') = FlattenSeq(Owed(served'))
       /\ \A i \in DOMAIN stdout' : stdout'[i].id = None <=> stdout'[i].code = ParseError
  <2>1. CASE OwedId(l) = << >> /\ h.lines = << >>
    <3>1. stdout' = stdout
      BY <1>1, <2>1
    <3>2. FlattenSeq(Owed(served')) = FlattenSeq(Owed(served))
      BY <1>8, <2>1
    <3> QED BY <1>1, <1>2, <1>3, <3>1, <3>2
  <2>2. CASE \E a : h.lines = <<a>> /\ OwedId(l) = <<a.id>> /\ (a.id = None <=> a.code = ParseError)
    <3>1. PICK a : h.lines = <<a>> /\ OwedId(l) = <<a.id>> /\ (a.id = None <=> a.code = ParseError)
      BY <2>2
    <3>2. PICK S : S = R \cup {a}
      OBVIOUS
    <3>3. /\ stdout' \in Seq(S) /\ Len(stdout') = n + 1 /\ stdout'[n + 1] = a
          /\ \A i \in 1..n : stdout'[i] = stdout[i]
      <4>1. stdout \in Seq(S) /\ <<a>> \in Seq(S) /\ Len(<<a>>) = 1 /\ <<a>>[1] = a
        BY <1>1, <3>2
      <4> QED BY <1>2, <3>1, <4>1
    <3>4. DOMAIN stdout' = 1..(n + 1) /\ Given(stdout') = [i \in 1..(n + 1) |-> stdout'[i].id]
      BY <3>3 DEF Given
    <3>5. PICK old, new : old = FlattenSeq(Owed(served)) /\ new = old \o <<a.id>>
      OBVIOUS
    <3>6. a.id \in X
      <4>1. <<a.id>> \in Seq(X)
        BY <1>4, <1>7, <3>1
      <4>2. <<a.id>>[1] \in X
        BY <4>1
      <4> QED BY <4>2
    <3>7. old \in Seq(X) /\ old = [i \in 1..n |-> stdout[i].id]
      BY <1>3, <1>8, <1>9, <3>5
    <3>8. Len(old) = n /\ \A i \in 1..n : old[i] = stdout[i].id
      BY <3>7
    <3>9. /\ new \in Seq(X) /\ Len(new) = n + 1 /\ new[n + 1] = a.id
          /\ \A i \in 1..n : new[i] = old[i]
      <4>1. PICK x : x = a.id /\ x \in X
        BY <3>6
      <4>2. new = old \o <<x>> /\ old \in Seq(X)
        BY <3>5, <3>7, <4>1
      <4>3. <<x>> \in Seq(X) /\ Len(<<x>>) = 1 /\ <<x>>[1] = x
        BY <4>1
      <4>4. PICK one : one = <<x>>
        OBVIOUS
      <4>5. new \in Seq(X) /\ Len(new) = n + 1 /\ \A i \in 1..(n + 1) : new[i] = IF i <= n THEN old[i] ELSE one[i - n]
        BY <3>8, <4>2, <4>3, <4>4, ConcatProperties
      <4>6. new[n + 1] = x
        BY <4>3, <4>4, <4>5
      <4> QED BY <4>1, <4>5, <4>6
    <3>10. \A i \in 1..(n + 1) : stdout'[i].id = new[i]
      <4> SUFFICES ASSUME NEW i \in 1..(n + 1) PROVE stdout'[i].id = new[i]
        OBVIOUS
      <4>1. CASE i = n + 1
        <5>1. stdout'[i] = a /\ new[i] = a.id
          BY <3>3, <3>9, <4>1
        <5> QED BY <5>1
      <4>2. CASE i # n + 1
        <5>1. i \in 1..n
          BY <4>2
        <5>2. stdout'[i] = stdout[i] /\ new[i] = old[i] /\ old[i] = stdout[i].id
          BY <3>3, <3>8, <3>9, <5>1
        <5> QED BY <5>2
      <4> QED BY <4>1, <4>2
    <3>11. Given(stdout') \in [1..(n + 1) -> X]
      BY <3>4, <3>9, <3>10
    <3>12. Given(stdout') \in Seq(X) /\ Len(Given(stdout')) = n + 1
      BY <3>11, SeqDef
    <3>13. Given(stdout') = new
      <4>1. \A i \in 1..(n + 1) : Given(stdout')[i] = new[i]
        BY <3>4, <3>10
      <4>2. PICK out : out = Given(stdout')
        OBVIOUS
      <4>3. out \in Seq(X) /\ new \in Seq(X) /\ Len(out) = Len(new) /\ \A i \in 1..Len(out) : out[i] = new[i]
        BY <3>9, <3>12, <4>1, <4>2
      <4> QED BY <4>2, <4>3, SeqEqual
    <3>14. \A i \in 1..(n + 1) : stdout'[i].id = None <=> stdout'[i].code = ParseError
      <4> SUFFICES ASSUME NEW i \in 1..(n + 1) PROVE stdout'[i].id = None <=> stdout'[i].code = ParseError
        OBVIOUS
      <4>1. CASE i = n + 1
        <5>1. stdout'[i] = a
          BY <3>3, <4>1
        <5> QED BY <3>1, <5>1
      <4>2. CASE i # n + 1
        <5>1. i \in 1..n
          BY <4>2
        <5>2. stdout'[i] = stdout[i]
          BY <3>3, <5>1
        <5> QED BY <1>3, <5>1, <5>2
      <4> QED BY <4>1, <4>2
    <3> QED BY <1>8, <3>1, <3>3, <3>4, <3>5, <3>13, <3>14
  <2> QED BY <2>1, <2>2 DEF Answered
<1>11. /\ \E S : dialled' \in Seq(S)
       /\ Len(dialled') <= k + 1
       /\ \A i \in DOMAIN dialled' : Announced(dialled'[i])
  <2>1. CASE h.dials = << >>
    <3>1. dialled' = dialled
      BY <1>1, <2>1
    <3> QED BY <1>1, <1>2, <1>3, <3>1
  <2>2. CASE \E d : h.dials = <<d>> /\ Announced(d)
    <3>1. PICK d : h.dials = <<d>> /\ Announced(d)
      BY <2>2
    <3>2. PICK S : S = D \cup {d}
      OBVIOUS
    <3>3. /\ dialled' \in Seq(S) /\ Len(dialled') = m + 1 /\ dialled'[m + 1] = d
          /\ \A i \in 1..m : dialled'[i] = dialled[i]
      <4>1. dialled \in Seq(S) /\ <<d>> \in Seq(S) /\ Len(<<d>>) = 1 /\ <<d>>[1] = d
        BY <1>1, <3>2
      <4> QED BY <1>2, <3>1, <4>1
    <3>4. DOMAIN dialled' = 1..(m + 1) /\ m + 1 <= k + 1
      BY <1>3, <3>3
    <3>5. \A i \in 1..(m + 1) : Announced(dialled'[i])
      BY <1>3, <3>1, <3>3
    <3> QED BY <3>3, <3>4, <3>5
  <2> QED BY <2>1, <2>2 DEF Answered
<1> QED BY <1>5, <1>10, <1>11 DEF OneAnswerEach, Given, Owed, Announced

\* One turn of the loop over the input.
LEMMA ReadKeeps ==
  ASSUME McpInv, NEW take \in 1..unread, read_line_bounded(take)
  PROVE  McpInv'
<1>1. PICK first : first = Head(stdin)
  OBVIOUS
<1>2. stdin # << >> /\ stdin \in Seq(InputLines) /\ first \in InputLines /\ Tail(stdin) \in Seq(InputLines)
  BY <1>1 DEF McpInv, read_line_bounded
<1>3. PICK length \in Nat, ended \in BOOLEAN, max \in Nat :
        length = first.length /\ ended = first.ended /\ max = MaxLineBytes
  BY <1>2, LinesAreTyped
<1>4. PICK n \in Nat, u \in Nat :
        /\ u = unread /\ n + u = length + (IF ended THEN 1 ELSE 0) /\ n <= length
        /\ oversize \in BOOLEAN /\ (oversize <=> n > max) /\ line = (IF oversize THEN 0 ELSE n)
  <2>1. Reading(stdin, unread, line, oversize)
    BY DEF McpInv
  <2> QED BY <1>1, <1>2, <1>3, <2>1 DEF Reading, Bytes
<1>5. take \in Nat /\ take >= 1 /\ take <= u
  BY <1>4
<1>6. PICK content \in Nat : content = IF take = unread /\ first.ended THEN take - 1 ELSE take
  <2>1. take \in Nat /\ take - 1 \in Nat
    BY <1>5
  <2>2. CASE take = unread /\ first.ended
    BY <2>1, <2>2
  <2>3. CASE ~(take = unread /\ first.ended)
    BY <2>1, <2>3
  <2> QED BY <2>2, <2>3
<1>7. PICK too_long \in BOOLEAN : too_long = (oversize \/ line + content > MaxLineBytes)
  <2>1. PICK b \in BOOLEAN : b <=> (oversize \/ line + content > MaxLineBytes)
    OBVIOUS
  <2> QED BY <1>4, <2>1, Zenon
<1>8. too_long <=> n + content > max
  <2>1. CASE oversize
    <3>1. too_long
      BY <1>7, <2>1, Zenon
    <3>2. n + content > max
      BY <1>4, <2>1
    <3> QED BY <3>1, <3>2
  <2>2. CASE ~oversize
    <3>1. too_long <=> line + content > MaxLineBytes
      BY <1>7, <2>2, Zenon
    <3>2. line = n
      BY <1>4, <2>2
    <3> QED BY <1>3, <3>1, <3>2
  <2> QED BY <1>4, <2>1, <2>2
<1>9. installed' = installed
  BY DEF read_line_bounded
<1>10. CASE take = unread
  <2>1. content = IF ended THEN take - 1 ELSE take
    BY <1>3, <1>6, <1>10
  <2>2. n + content = length
    BY <1>4, <1>5, <1>10, <2>1
  <2>3. too_long <=> first.length > MaxLineBytes
    BY <1>3, <1>8, <2>2
  <2>4. PICK rest : rest = Tail(stdin)
    OBVIOUS
  <2>5. /\ stdin' = rest /\ unread' = Bytes(rest) /\ line' = 0 /\ oversize' = FALSE
        /\ served' = Append(served, first)
    BY <1>1, <1>10, <2>4 DEF read_line_bounded, Terminated
  <2>6. \E h \in IF too_long THEN {error_line} ELSE handle_line(first.parsed) :
          stdout' = stdout \o h.lines /\ dialled' = dialled \o h.dials
    BY <1>1, <1>6, <1>7, <1>10 DEF read_line_bounded, Terminated
  <2>7. PICK h : /\ h \in IF too_long THEN {error_line} ELSE handle_line(first.parsed)
                 /\ stdout' = stdout \o h.lines /\ dialled' = dialled \o h.dials
    BY <2>6
  <2>8. Answered(h, OwedId(first))
    <3>1. CASE too_long
      <4>1. h = error_line /\ OwedId(first) = <<None>>
        BY <2>3, <2>7, <3>1 DEF OwedId
      <4> QED BY <4>1, ErrorAnswered
    <3>2. CASE ~too_long
      <4>1. h \in handle_line(first.parsed) /\ ~(first.length > MaxLineBytes)
        BY <2>3, <2>7, <3>2
      <4> QED BY <1>2, <4>1, LineAnswered
    <3> QED BY <3>1, <3>2
  <2>9. /\ (\E R : stdout' \in Seq(R)) /\ (\E D : dialled' \in Seq(D)) /\ served' \in Seq(InputLines)
        /\ OneAnswerEach'
    BY <1>2, <2>5, <2>7, <2>8, AnswerKeeps
  <2>10. stdin' \in Seq(InputLines) /\ Reading(stdin', unread', line', oversize')
    BY <1>2, <2>4, <2>5, ReadingStarts
  <2> QED BY <2>9, <2>10 DEF McpInv
<1>11. CASE take # unread
  <2>1. content = take /\ take < u
    BY <1>4, <1>5, <1>6, <1>11
  <2>2. /\ stdin' = stdin /\ unread' = unread - take /\ served' = served /\ stdout' = stdout /\ dialled' = dialled
    BY <1>11 DEF read_line_bounded, Terminated
  <2>3. line' = (IF too_long THEN 0 ELSE line + content) /\ oversize' = too_long
    BY <1>1, <1>6, <1>7, <1>11 DEF read_line_bounded, Terminated
  <2>4. PICK m \in Nat, v \in Nat : m = n + take /\ v = u - take
    BY <1>5, <2>1
  <2>5. m + v = n + u /\ m <= length
    BY <1>4, <1>5, <2>1, <2>4
  <2>6. (too_long <=> m > max) /\ line' = (IF too_long THEN 0 ELSE m)
    BY <1>4, <1>7, <1>8, <2>1, <2>3, <2>4
  <2>7. unread' = v /\ m + v = Bytes(stdin)
    BY <1>1, <1>2, <1>3, <1>4, <2>2, <2>4, <2>5 DEF Bytes
  <2>8. Reading(stdin', unread', line', oversize')
    <3>1. /\ m \in Nat /\ unread' \in Nat /\ m + unread' = Bytes(stdin') /\ m <= Head(stdin').length
          /\ oversize' \in BOOLEAN /\ (oversize' <=> m > MaxLineBytes)
          /\ line' = IF oversize' THEN 0 ELSE m
      BY <1>1, <1>3, <2>2, <2>3, <2>4, <2>5, <2>6, <2>7
    <3>2. stdin' # << >>
      BY <1>2, <2>2
    <3> QED BY <3>1, <3>2 DEF Reading
  <2>9. OneAnswerEach'
    BY <2>2 DEF McpInv, OneAnswerEach
  <2> QED BY <2>2, <2>8, <2>9 DEF McpInv
<1> QED BY <1>10, <1>11

\* What a client may write is a sequence of lines.
LEMMA InputIsLines == ASSUME NEW input \in BoundedSeq(InputLines, MaxInput) PROVE input \in Seq(InputLines)
<1>1. PICK m \in 0..MaxInput : input \in [1..m -> InputLines]
  BY DEF BoundedSeq, SeqOf
<1>2. m \in Nat
  BY <1>1, LinesAreTyped
<1> QED BY <1>1, <1>2, SeqDef

(***************************************************************************)
(* However the input of the MCP server is cut into chunks, and whatever    *)
(* happens to the policies meanwhile, it writes the answers owed to the    *)
(* lines it has read, in their order, one parse error for a line that is   *)
(* too long, and passes on a capability request only for an installed      *)
(* pack: OneAnswerEach, for every input, chunking and length limit.        *)
(***************************************************************************)
THEOREM OneAnswerStays == McpSpec => []OneAnswerEach
<1>1. mcpInit => McpInv
  <2> SUFFICES ASSUME mcpInit PROVE McpInv
    OBVIOUS
  <2>1. /\ stdin = << >> /\ unread = 0 /\ line = 0 /\ oversize = FALSE
        /\ served = << >> /\ stdout = << >> /\ dialled = << >>
    BY DEF mcpInit
  <2>2. Reading(stdin, unread, line, oversize)
    BY <2>1 DEF Reading
  <2>3. Owed(served) = << >> /\ Given(stdout) = << >>
    BY <2>1 DEF Owed, Given
  <2>4. FlattenSeq(Owed(served)) = << >>
    <3>1. Len(Owed(served)) = 0
      BY <2>3
    <3>2. FlattenSeq(Owed(served)) = Owed(served)
      BY <3>1, Zenon DEF FlattenSeq
    <3> QED BY <2>3, <3>2
  <2>5. Len(dialled) <= Len(served)
    BY <2>1
  <2>6. DOMAIN stdout = {} /\ DOMAIN dialled = {}
    BY <2>1
  <2>7. OneAnswerEach
    BY <2>3, <2>4, <2>5, <2>6 DEF OneAnswerEach, Owed, Given
  <2>8. (\E R : stdout \in Seq(R)) /\ (\E D : dialled \in Seq(D))
    BY <2>1
  <2> QED BY <2>1, <2>2, <2>7, <2>8 DEF McpInv
<1>2. McpInv /\ [mcpNext]_mcpVars => McpInv'
  <2> SUFFICES ASSUME McpInv, [mcpNext]_mcpVars PROVE McpInv'
    OBVIOUS
  <2>1. CASE \E input \in BoundedSeq(InputLines, MaxInput) : ClientWrites(input)
    <3>1. PICK input \in BoundedSeq(InputLines, MaxInput) : ClientWrites(input)
      BY <2>1
    <3>2. input \in Seq(InputLines)
      BY InputIsLines
    <3>3. /\ stdin = << >> /\ stdin' = input /\ unread' = Bytes(input) /\ line' = line /\ oversize' = oversize
          /\ served' = served /\ stdout' = stdout /\ dialled' = dialled
      BY <3>1 DEF ClientWrites
    <3>4. line = 0 /\ oversize = FALSE
      BY <3>3 DEF McpInv, Reading
    <3>5. Reading(stdin', unread', line', oversize')
      BY <3>2, <3>3, <3>4, ReadingStarts
    <3>6. OneAnswerEach'
      BY <3>3 DEF McpInv, OneAnswerEach
    <3> QED BY <3>2, <3>3, <3>5, <3>6 DEF McpInv
  <2>2. CASE \E take \in 1..unread : read_line_bounded(take)
    BY <2>2, ReadKeeps
  <2>3. CASE \/ UNCHANGED mcpVars
             \/ \E names : PoliciesChange(names)
    <3>1. /\ stdin' = stdin /\ unread' = unread /\ line' = line /\ oversize' = oversize
          /\ served' = served /\ stdout' = stdout /\ dialled' = dialled
      BY <2>3 DEF mcpVars, PoliciesChange
    <3>2. OneAnswerEach'
      BY <3>1 DEF McpInv, OneAnswerEach
    <3> QED BY <3>1, <3>2 DEF McpInv
  <2> QED BY <2>1, <2>2, <2>3 DEF mcpNext
<1>3. McpInv => OneAnswerEach
  BY DEF McpInv
<1> QED BY <1>1, <1>2, <1>3, PTL DEF McpSpec

-------------------------------------------------------------------------------
(* The exchange with the world outside.                                    *)

\* The credential is under its name, and nothing else is.
CarriedOnce(pairs, name) ==
  \E k \in 1..Len(pairs) : {i \in 1..Len(pairs) : pairs[i].name = name} = {k} /\ pairs[k].value = Secret

\* What replaces every pair of a name by the credential.
LEMMA ReplacedOnce ==
  ASSUME NEW X, NEW pairs \in Seq(X), NEW name, NEW last, last.name = name, last.value = Secret
  PROVE  CarriedOnce(Append(Filtered(pairs, {h \in ToSet(pairs) : h.name # name}), last), name)
<1>1. PICK others, all : /\ others = Filtered(pairs, {h \in ToSet(pairs) : h.name # name})
                         /\ all = Append(others, last)
  OBVIOUS
<1>2. others \in Seq(X \cap {h \in ToSet(pairs) : h.name # name})
  BY <1>1, FilteredIs
<1>3. PICK n : n = Len(others) /\ n \in Nat
  BY <1>2
<1>4. \A i \in 1..n : others[i].name # name
  BY <1>2, <1>3
<1>5. Len(all) = n + 1 /\ all[n + 1] = last /\ \A i \in 1..n : all[i] = others[i]
  BY <1>1, <1>2, <1>3
<1>6. {i \in 1..Len(all) : all[i].name = name} = {n + 1}
  BY <1>3, <1>4, <1>5
<1>7. n + 1 \in 1..Len(all) /\ all[n + 1].value = Secret
  BY <1>3, <1>5
<1>8. CarriedOnce(all, name)
  BY <1>6, <1>7 DEF CarriedOnce
<1> QED BY <1>1, <1>8

\* The headers of the caller, filtered, are a sequence.
LEMMA FilteredHeaders ==
  ASSUME NEW X, NEW hs \in Seq(X)
  PROVE  \E Y : filter_request_headers(hs) \in Seq(Y)
<1>1. PICK ok : ok = Filtered(hs, {h \in ToSet(hs) : h.name \notin SENSITIVE_REQUEST_HEADERS /\ h.clean})
  OBVIOUS
<1>2. ok \in Seq(X \cap {h \in ToSet(hs) : h.name \notin SENSITIVE_REQUEST_HEADERS /\ h.clean})
  BY <1>1, FilteredIs
<1>3. PICK n \in Nat : n = Len(ok)
  BY <1>2
<1>4. PICK Y : Y = {[ok[i] EXCEPT !.spelled = "lower"] : i \in 1..n}
  OBVIOUS
<1>5. PICK f : f = [i \in 1..n |-> [ok[i] EXCEPT !.spelled = "lower"]]
  OBVIOUS
<1>6. f \in [1..n -> Y]
  BY <1>4, <1>5
<1>7. f \in Seq(Y)
  BY <1>6, SeqDef
<1>8. filter_request_headers(hs) = f
  BY <1>1, <1>3, <1>5 DEF filter_request_headers
<1> QED BY <1>7, <1>8

\* Nothing that is allowed is internal, unless that is configured.
Permitted(ip) ==
  IF ip.form \in {"v4", "mapped", "nat64"}
  THEN /\ ip.octets \notin {<<169, 254, 169, 254>>, <<169, 254, 170, 2>>}
       /\ Internal(ip.octets) => AllowPrivate
  ELSE ip.form # "fd00:ec2::254" /\ (ip.form # "2000::/3" => AllowPrivate)

\* Whatever is in a block is classified as something else than global.
LEMMA ClassifiedInternal ==
  ASSUME NEW o \in [1..4 -> 0..255], Internal(o)
  PROVE  classify_v4(o) # "Global"
<1>1. PICK a, b, c : a = o[1] /\ b = o[2] /\ c = o[3] /\ a \in 0..255 /\ b \in 0..255 /\ c \in 0..255
  OBVIOUS
<1>2. \/ a = 0
      \/ a = 10
      \/ a = 100 /\ 64 <= b /\ b <= 127
      \/ a = 127
      \/ a = 169 /\ b = 254
      \/ a = 172 /\ 16 <= b /\ b <= 31
      \/ a = 192 /\ b = 0 /\ c = 0
      \/ a = 192 /\ b = 168
      \/ a = 198 /\ (b = 18 \/ b = 19)
      \/ 224 <= a /\ a <= 239
  <2>1. Between(o, <<0, 0, 0>>, <<0, 255, 255>>) => a = 0
    BY <1>1 DEF Between, AtMost
  <2>2. Between(o, <<10, 0, 0>>, <<10, 255, 255>>) => a = 10
    BY <1>1 DEF Between, AtMost
  <2>3. Between(o, <<100, 64, 0>>, <<100, 127, 255>>) => a = 100 /\ 64 <= b /\ b <= 127
    BY <1>1 DEF Between, AtMost
  <2>4. Between(o, <<127, 0, 0>>, <<127, 255, 255>>) => a = 127
    BY <1>1 DEF Between, AtMost
  <2>5. Between(o, <<169, 254, 0>>, <<169, 254, 255>>) => a = 169 /\ b = 254
    BY <1>1 DEF Between, AtMost
  <2>6. Between(o, <<172, 16, 0>>, <<172, 31, 255>>) => a = 172 /\ 16 <= b /\ b <= 31
    BY <1>1 DEF Between, AtMost
  <2>7. Between(o, <<192, 0, 0>>, <<192, 0, 0>>) => a = 192 /\ b = 0 /\ c = 0
    BY <1>1 DEF Between, AtMost
  <2>8. Between(o, <<192, 168, 0>>, <<192, 168, 255>>) => a = 192 /\ b = 168
    BY <1>1 DEF Between, AtMost
  <2>9. Between(o, <<198, 18, 0>>, <<198, 19, 255>>) => a = 198 /\ (b = 18 \/ b = 19)
    BY <1>1 DEF Between, AtMost
  <2>10. Between(o, <<224, 0, 0>>, <<239, 255, 255>>) => 224 <= a /\ a <= 239
    BY <1>1 DEF Between, AtMost
  <2> QED BY <2>1, <2>2, <2>3, <2>4, <2>5, <2>6, <2>7, <2>8, <2>9, <2>10 DEF Internal
<1>3. (64 <= b /\ b <= 127 => b \div 64 = 1) /\ (224 <= a /\ a <= 239 => a \div 16 = 14)
  BY <1>1
<1>4. 16 <= b /\ b <= 31 => b \in 16..31
  BY <1>1
<1> QED BY <1>1, <1>2, <1>3, <1>4 DEF classify_v4

\* An address egress is allowed to is no internal one.
LEMMA AllowedPermitted ==
  ASSUME NEW ip \in Address, is_egress_allowed(classify_ip(ip))
  PROVE  Permitted(ip)
<1>0. AllowPrivate \in BOOLEAN /\ ip.octets \in [1..4 -> 0..255]
  BY OutboundIsTyped DEF Address
<1>1. CASE ip.form \in {"v4", "mapped", "nat64"}
  <2>1. PICK class : class = classify_v4(ip.octets)
    OBVIOUS
  <2>2. is_egress_allowed(class)
    BY <1>1, <2>1 DEF classify_ip
  <2>3. class # "MetadataService" /\ (class # "Global" => AllowPrivate)
    BY <1>0, <2>2 DEF is_egress_allowed
  <2>4. ip.octets \notin {<<169, 254, 169, 254>>, <<169, 254, 170, 2>>}
    BY <2>1, <2>3 DEF classify_v4
  <2>5. Internal(ip.octets) => AllowPrivate
    BY <1>0, <2>1, <2>3, ClassifiedInternal
  <2> QED BY <1>1, <2>4, <2>5 DEF Permitted
<1>2. CASE ip.form \notin {"v4", "mapped", "nat64"}
  <2>1. \/ ip.form = "2000::/3"
        \/ ip.form \in {"::1", "::", "fe80::/10", "fc00::/7", "ff00::/8"}
        \/ ip.form = "fd00:ec2::254"
    BY <1>2 DEF Address
  <2>2. ip.form = "fd00:ec2::254" => FALSE
    BY <1>0 DEF is_egress_allowed, classify_ip
  <2>3. ip.form \in {"::1", "::", "fe80::/10", "fc00::/7", "ff00::/8"} => AllowPrivate
    BY <1>0 DEF is_egress_allowed, classify_ip
  <2> QED BY <1>2, <2>1, <2>2, <2>3 DEF Permitted
<1> QED BY <1>1, <1>2

-------------------------------------------------------------------------------
\* The longest answer of the resolver.
LEMMA LongestIs ==
  LongestAnswer \in Nat /\ LongestAnswer >= 1 /\ \A ips \in Resolutions : Len(ips) \in Nat /\ Len(ips) <= LongestAnswer
<1>1. \A ips \in Resolutions : Len(ips) \in Nat
  BY OutboundIsTyped
<1>2. PICK m \in {Len(ips) : ips \in Resolutions} : m >= 1 /\ \A ips \in Resolutions : Len(ips) <= m
  BY OutboundIsTyped
<1>3. LongestAnswer \in {Len(ips) : ips \in Resolutions} /\ \A ips \in Resolutions : Len(ips) <= LongestAnswer
  BY <1>2, Zenon DEF LongestAnswer
<1> QED BY <1>1, <1>2, <1>3

\* One more hop has one more answer to spend.
LEMMA BudgetGrows ==
  ASSUME NEW L \in Nat, NEW h \in Nat, NEW max \in Nat, h <= max
  PROVE  /\ (h + 1) * L = h * L + L /\ h * L \in Nat
         /\ (h + 1) * L <= (max + 1) * L
<1>1. (h + 1) * L = h * L + L /\ h * L \in Nat
  OBVIOUS
<1>2. PICK d \in Nat : max = h + d
  <2>1. max - h \in Nat /\ max = h + (max - h)
    OBVIOUS
  <2> QED BY <2>1
<1>3. (max + 1) * L = (h + 1) * L + d * L /\ d * L \in Nat
  BY <1>2
<1>4. (h + 1) * L \in Nat
  BY <1>1
<1> QED BY <1>1, <1>3, <1>4

\* What may be sent: to the origin asked for, with the credential once.
Prepared(url, hs, h) ==
  LET c == req.credential IN
  /\ Origin(url) = Origin(parse(req.url))
  /\ IF c.template = "query_parameter" THEN h = 0 => CarriedOnce(url.query, Place(c))
     ELSE CarriedOnce(hs, Place(c))

\* What is left to dial has been checked.
Checked(ips) == ips \in Seq(Address) /\ \A i \in 1..Len(ips) : is_egress_allowed(classify_ip(ips[i]))

\* Connections attempted and still to be attempted, against the hops made.
Bounded(p, n, rest, h) ==
  LET L == LongestAnswer IN
  /\ p = "new" => n = 0
  /\ p = "resolve" => n <= h * L
  /\ p = "dial" => n + Len(rest) <= (h + 1) * L
  /\ p = "answered" => n <= (h + 1) * L
  /\ n <= (MaxHops + 1) * L

OutboundInv ==
  /\ req \in Outbound /\ hop \in Nat /\ hop <= MaxHops /\ dials \in Nat
  /\ phase \in {"new", "resolve", "dial", "answered", "done"}
  /\ phase = "new" => method = req.method /\ hop = 0
  /\ phase \in {"resolve", "dial", "answered"} => Prepared(target, headers, hop)
  /\ Checked(left)
  /\ \A w \in wire : w.addr \in Address /\ is_egress_allowed(classify_ip(w.addr)) /\ Prepared(w.url, w.headers, w.hop)
  /\ method = "GET" /\ req.method # "GET" => body = 0
  /\ Bounded(phase, dials, left, hop)

\* The invariant holds before the request is prepared.
LEMMA OutboundInvInit == outInit => OutboundInv
<1> SUFFICES ASSUME outInit PROVE OutboundInv
  OBVIOUS
<1>1. Checked(left) /\ dials = 0 /\ hop = 0 /\ phase = "new"
  BY DEF outInit, Checked
<1>2. (MaxHops + 1) * LongestAnswer >= 0
  BY OutboundIsTyped, LongestIs, BudgetGrows
<1>3. Bounded(phase, dials, left, hop)
  BY <1>1, <1>2 DEF Bounded
<1>4. hop \in Nat /\ hop <= MaxHops /\ dials \in Nat
  BY <1>1, OutboundIsTyped
<1> QED BY <1>1, <1>3, <1>4 DEF outInit, OutboundInv

\* The call ends, whatever the result.
LEMMA FinishKeeps ==
  ASSUME OutboundInv, NEW result, Finish(result), UNCHANGED <<req, wire, dials, method, body, hop>>
  PROVE  OutboundInv'
<1>1. phase' = "done" /\ Checked(left')
  BY DEF Finish, Checked
<1>2. Bounded(phase', dials, left', hop)
  BY <1>1 DEF OutboundInv, Bounded
<1> QED BY <1>1, <1>2 DEF OutboundInv, Prepared

\* Preparing the request keeps the invariant.
LEMMA PrepareKeeps ==
  ASSUME OutboundInv, Prepare
  PROVE  OutboundInv'
<1>0. phase = "new" /\ UNCHANGED <<req, method, hop, wire, dials>>
  BY DEF Prepare
<1>1. CASE \E result : Finish(result) /\ UNCHANGED <<target, headers, body>>
  BY <1>0, <1>1, FinishKeeps
<1>2. CASE ~ \E result : Finish(result) /\ UNCHANGED <<target, headers, body>>
  <2>1. PICK url, c : url = parse(req.url) /\ c = req.credential
    OBVIOUS
  <2>2. /\ InjectionFlaw(c) = "none"
        /\ target' = IF c.template = "query_parameter"
                     THEN [url EXCEPT !.query = append_query_parameter(@, Place(c))] ELSE url
        /\ headers' = IF c.template = "query_parameter" THEN filter_request_headers(req.headers)
                      ELSE replace_header(filter_request_headers(req.headers), Place(c))
        /\ body' = req.body
        /\ phase' = "resolve" /\ UNCHANGED <<left, response, outcome>>
    BY <1>2, <2>1 DEF Prepare
  <2>3. /\ req.headers \in Seq(ToSet(req.headers)) /\ url.query \in Seq(ToSet(url.query))
        /\ Origin(url) = Origin(parse(req.url))
    BY <2>1, OutboundIsTyped DEF OutboundInv, parse
  <2>6. Bounded(phase', dials, left, hop)
    <3>1. hop * LongestAnswer \in Nat /\ dials = 0 /\ dials <= (MaxHops + 1) * LongestAnswer
      BY <1>0, OutboundIsTyped, LongestIs, BudgetGrows DEF OutboundInv, Bounded
    <3>2. dials <= hop * LongestAnswer
      BY <3>1
    <3> QED BY <2>2, <3>1, <3>2 DEF Bounded
  <2>7. ~(method' = "GET" /\ req'.method # "GET")
    BY <1>0 DEF OutboundInv
  <2>8. SUFFICES Prepared(target', headers', hop)
    BY <1>0, <2>2, <2>6, <2>7 DEF OutboundInv, Prepared
  <2>4. CASE c.template = "query_parameter"
    <3>1. PICK query : query = append_query_parameter(url.query, Place(c))
      OBVIOUS
    <3>2. PICK last : last = [name |-> Place(c), spelled |-> "plain", value |-> Secret]
      OBVIOUS
    <3>3. CarriedOnce(query, Place(c))
      <4>1. last.name = Place(c) /\ last.value = Secret
        BY <3>2
      <4> QED BY <2>3, <3>1, <3>2, <4>1, ReplacedOnce DEF append_query_parameter
    <3>4. target' = [url EXCEPT !.query = query]
      BY <2>2, <2>4, <3>1
    <3>5. target'.query = query /\ Origin(target') = Origin(url)
      BY <2>1, <3>4 DEF parse, Origin
    <3> QED BY <2>1, <2>3, <2>4, <3>3, <3>5 DEF Prepared
  <2>5. CASE c.template # "query_parameter"
    <3>1. PICK hs, Y : hs = filter_request_headers(req.headers) /\ hs \in Seq(Y)
      BY <2>3, FilteredHeaders
    <3>2. PICK last : last = [name |-> Place(c), spelled |-> "lower", value |-> Secret, clean |-> TRUE]
      OBVIOUS
    <3>3. CarriedOnce(headers', Place(c))
      <4>1. last.name = Place(c) /\ last.value = Secret
        BY <3>2
      <4>2. headers' = Append(Filtered(hs, {h \in ToSet(hs) : h.name # Place(c)}), last)
        BY <2>2, <2>5, <3>1, <3>2 DEF replace_header
      <4> QED BY <3>1, <4>1, <4>2, ReplacedOnce
    <3>4. target' = url
      BY <2>2, <2>5
    <3> QED BY <2>1, <2>3, <2>5, <3>3, <3>4 DEF Prepared
  <2> QED BY <2>4, <2>5
<1> QED BY <1>1, <1>2

\* Resolving and checking the addresses keeps the invariant.
LEMMA ResolveKeeps ==
  ASSUME OutboundInv, validate_resolution
  PROVE  OutboundInv'
<1>0. phase = "resolve" /\ UNCHANGED <<req, target, headers, method, body, hop, wire, dials>>
  BY DEF validate_resolution
<1>1. CASE \E result : Finish(result)
  BY <1>0, <1>1, FinishKeeps
<1>2. CASE ~ \E result : Finish(result)
  <2>1. PICK ips \in Resolutions \cup {<<Literals[h]>> : h \in DOMAIN Literals \cap {target.host}} :
          recheck_resolved(ips) /\ phase' = "dial" /\ left' = ips /\ UNCHANGED <<response, outcome>>
    BY <1>2 DEF validate_resolution
  <2>2. ips \in Seq(Address) /\ Len(ips) <= LongestAnswer
    <3>1. CASE ips \in Resolutions
      BY <3>1, OutboundIsTyped, LongestIs
    <3>2. CASE ips \in {<<Literals[h]>> : h \in DOMAIN Literals \cap {target.host}}
      <4>1. PICK a \in Address : ips = <<a>>
        BY <3>2, OutboundIsTyped
      <4> QED BY <4>1, LongestIs
    <3> QED BY <2>1, <3>1, <3>2
  <2>3. Checked(left')
    BY <2>1, <2>2 DEF Checked, recheck_resolved
  <2>4. (hop + 1) * LongestAnswer = hop * LongestAnswer + LongestAnswer /\ hop * LongestAnswer \in Nat
    BY OutboundIsTyped, LongestIs, BudgetGrows DEF OutboundInv
  <2>5. dials \in Nat /\ dials <= hop * LongestAnswer /\ dials <= (MaxHops + 1) * LongestAnswer
    BY <1>0 DEF OutboundInv, Bounded
  <2>6. dials + Len(left') <= (hop + 1) * LongestAnswer
    BY <2>1, <2>2, <2>4, <2>5, LongestIs
  <2>7. Bounded(phase', dials, left', hop)
    BY <2>1, <2>5, <2>6 DEF Bounded
  <2> QED BY <1>0, <2>1, <2>3, <2>7 DEF OutboundInv, Prepared
<1> QED BY <1>1, <1>2

\* What one exchange puts on the wire.
LEMMA SentPermitted ==
  ASSUME OutboundInv, phase = "dial", left # << >>
  PROVE  /\ Sent.addr \in Address /\ is_egress_allowed(classify_ip(Sent.addr))
         /\ Prepared(Sent.url, Sent.headers, Sent.hop)
<1>1. Sent.addr = left[1] /\ Sent.url = target /\ Sent.headers = headers /\ Sent.hop = hop
  BY DEF Sent
<1>2. left[1] \in Address /\ 1 \in 1..Len(left)
  BY DEF OutboundInv, Checked
<1> QED BY <1>1, <1>2 DEF OutboundInv, Checked

\* One connection fewer to attempt.
LEMMA DialCounts ==
  ASSUME OutboundInv, phase = "dial", left # << >>
  PROVE  /\ dials + 1 <= (MaxHops + 1) * LongestAnswer /\ dials + 1 <= (hop + 1) * LongestAnswer
         /\ dials + 1 + (Len(left) - 1) <= (hop + 1) * LongestAnswer
<1>1. PICK L, b, m : L = LongestAnswer /\ b = (hop + 1) * L /\ m = (MaxHops + 1) * L
  OBVIOUS
<1>2. b <= m /\ b \in Int /\ m \in Int
  BY <1>1, OutboundIsTyped, LongestIs, BudgetGrows DEF OutboundInv
<1>3. dials \in Nat /\ Len(left) \in Nat /\ Len(left) >= 1 /\ dials + Len(left) <= b
  BY <1>1 DEF OutboundInv, Bounded, Checked
<1>4. dials + 1 <= b /\ dials + 1 <= m /\ dials + 1 + (Len(left) - 1) <= b
  BY <1>2, <1>3
<1> QED BY <1>1, <1>4

\* A connection that fails keeps the invariant.
LEMMA DispatchFailsKeeps ==
  ASSUME OutboundInv, DispatchFails
  PROVE  OutboundInv'
<1>1. /\ phase = "dial" /\ left # << >> /\ dials' = dials + 1
      /\ UNCHANGED <<req, target, headers, method, body, hop>>
      /\ wire' \subseteq wire \cup {Sent}
  BY DEF DispatchFails
<1>2. \A w \in wire' : w.addr \in Address /\ is_egress_allowed(classify_ip(w.addr)) /\ Prepared(w.url, w.headers, w.hop)
  BY <1>1, SentPermitted DEF OutboundInv
<1>3. dials' \in Nat /\ \A w \in wire' : Prepared(w.url, w.headers, w.hop)'
  BY <1>1, <1>2 DEF OutboundInv, Prepared
<1>4. CASE Len(left) > 1
  <2>1. left' = Tail(left) /\ UNCHANGED <<phase, response, outcome>>
    BY <1>4 DEF DispatchFails
  <2>2. Checked(left') /\ Len(left') = Len(left) - 1
    BY <1>1, <2>1 DEF OutboundInv, Checked
  <2>3. Bounded(phase', dials', left', hop)
    BY <1>1, <2>1, <2>2, DialCounts DEF Bounded
  <2> QED BY <1>1, <1>2, <1>3, <2>1, <2>2, <2>3 DEF OutboundInv, Prepared
<1>5. CASE ~(Len(left) > 1)
  <2>1. phase' = "done" /\ left' = << >>
    BY <1>5 DEF DispatchFails, Finish
  <2>2. Checked(left')
    BY <2>1 DEF Checked
  <2>3. Bounded(phase', dials', left', hop)
    BY <1>1, <2>1, DialCounts DEF Bounded
  <2> QED BY <1>1, <1>2, <1>3, <2>1, <2>2, <2>3 DEF OutboundInv, Prepared
<1> QED BY <1>4, <1>5

\* Sending the request keeps the invariant.
LEMMA DispatchKeeps ==
  ASSUME OutboundInv, Dispatch
  PROVE  OutboundInv'
<1>1. /\ phase = "dial" /\ left # << >> /\ dials' = dials + 1
      /\ UNCHANGED <<req, target, headers, method, body, hop>>
      /\ wire' = wire \cup {Sent} /\ phase' = "answered" /\ left' = << >>
  BY DEF Dispatch
<1>2. \A w \in wire' : w.addr \in Address /\ is_egress_allowed(classify_ip(w.addr)) /\ Prepared(w.url, w.headers, w.hop)
  BY <1>1, SentPermitted DEF OutboundInv
<1>3. dials' \in Nat /\ \A w \in wire' : Prepared(w.url, w.headers, w.hop)'
  BY <1>1, <1>2 DEF OutboundInv, Prepared
<1>4. Checked(left')
  BY <1>1 DEF Checked
<1>5. Bounded(phase', dials', left', hop)
  BY <1>1, DialCounts DEF Bounded
<1> QED BY <1>1, <1>2, <1>3, <1>4, <1>5 DEF OutboundInv, Prepared

\* Following or refusing a redirect keeps the invariant.
LEMMA RedirectKeeps ==
  ASSUME OutboundInv, evaluate_redirect
  PROVE  OutboundInv'
<1>0. phase = "answered" /\ UNCHANGED <<req, headers, wire, dials>>
  BY DEF evaluate_redirect
<1>1. CASE \E result : Finish(result) /\ UNCHANGED <<target, method, body, hop>>
  BY <1>0, <1>1, FinishKeeps
<1>2. CASE ~ \E result : Finish(result) /\ UNCHANGED <<target, method, body, hop>>
  <2>1. PICK initial, joined : initial = parse(req.url) /\ joined = Join(initial, response.location)
    OBVIOUS
  <2>2. /\ ~HopsSpent /\ authorize_redirect(initial, parse(joined))
        /\ target' = parse(joined) /\ hop' = hop + 1
        /\ (method' = "GET" /\ body' = 0) \/ UNCHANGED <<method, body>>
        /\ phase' = "resolve" /\ UNCHANGED left
    BY <1>2, <2>1 DEF evaluate_redirect
  <2>3. hop' \in Nat /\ hop' <= MaxHops /\ hop' # 0
    BY <2>2, OutboundIsTyped DEF HopsSpent, OutboundInv
  <2>4. Prepared(target', headers, hop')
    BY <1>0, <2>1, <2>2, <2>3 DEF OutboundInv, Prepared, authorize_redirect
  <2>5. Bounded(phase', dials, left, hop')
    BY <1>0, <2>2 DEF OutboundInv, Bounded
  <2>6. method' = "GET" /\ req.method # "GET" => body' = 0
    BY <2>2 DEF OutboundInv
  <2> QED BY <1>0, <2>2, <2>3, <2>4, <2>5, <2>6 DEF OutboundInv, Prepared
<1> QED BY <1>1, <1>2

\* Whatever the resolver and the peers answer, over every hop of every
\* exchange: what is sent goes to a permitted address of the origin the agent
\* asked for, carries the credential once, and the exchange stays in its budget.
THEOREM OutboundStaysPermitted == OutboundSpec => []OutboundPermitted
<1>1. OutboundInv /\ [outNext]_outVars => OutboundInv'
  <2> SUFFICES ASSUME OutboundInv, [outNext]_outVars PROVE OutboundInv'
    OBVIOUS
  <2>1. CASE read_capped
    BY <2>1, FinishKeeps DEF read_capped
  <2>2. CASE UNCHANGED outVars
    BY <2>2 DEF outVars, OutboundInv, Prepared
  <2> QED BY <2>1, <2>2, PrepareKeeps, ResolveKeeps, DispatchFailsKeeps, DispatchKeeps, RedirectKeeps DEF outNext
<1>2. OutboundInv => OutboundPermitted
  <2> SUFFICES ASSUME OutboundInv PROVE OutboundPermitted
    OBVIOUS
  <2>1. DialsPermitted
    BY AllowedPermitted DEF OutboundInv, DialsPermitted, Permitted
  <2>2. CredentialStaysAtOrigin
    BY DEF OutboundInv, CredentialStaysAtOrigin, Prepared
  <2>3. OneCredential
    <3> SUFFICES ASSUME NEW w \in wire, NEW pairs, NEW mine,
                        pairs = IF req.credential.template = "query_parameter" THEN w.url.query ELSE w.headers,
                        mine = {i \in 1..Len(pairs) : pairs[i].name = Place(req.credential)},
                        req.credential.template = "query_parameter" => w.hop = 0
                 PROVE  Cardinality(mine) = 1 /\ \A i \in mine : pairs[i].value = Secret
      BY DEF OneCredential
    <3>1. CarriedOnce(pairs, Place(req.credential))
      BY DEF OutboundInv, Prepared
    <3>2. PICK k : mine = {k} /\ pairs[k].value = Secret
      BY <3>1 DEF CarriedOnce
    <3> QED BY <3>2, FS_Singleton
  <2>4. ExchangeBounded
    BY DEF OutboundInv, Bounded, ExchangeBounded
  <2> QED BY <2>1, <2>2, <2>3, <2>4 DEF OutboundPermitted
<1> QED BY <1>1, <1>2, OutboundInvInit, PTL DEF OutboundSpec

-------------------------------------------------------------------------------
(* The diff of two manifests.                                              *)

\* What the terminal UI shows of one entry.
SignsFit(e) ==
  LET signs == {l[1] : l \in redact_entries(<<e>>)} IN
  IF e.change = "added" THEN signs = {"+"}
  ELSE IF e.change = "removed" THEN signs = {"-"}
  ELSE IF e.kind = "policy" THEN signs \subseteq {" ", "+", "-"}
  ELSE signs \in {{"~"}, {" ", "+", "-"}}

\* The lines of one entry are those of the diff that has only this one.
LEMMA OneEntry ==
  ASSUME NEW e
  PROVE  redact_entries(<<e>>) =
           IF e.kind = "policy" /\ e.change = "changed" /\ Resolved[e.old] # None /\ Resolved[e.new] # None
           THEN policy_delta(Resolved[e.old], Resolved[e.new]) ELSE redact_diff(e)
<1>1. DOMAIN <<e>> = {1} /\ <<e>>[1] = e
  OBVIOUS
<1> QED BY <1>1, Zenon DEF redact_entries

\* An entry is marked by what it says of the binding.
LEMMA EntrySigns ==
  ASSUME NEW space, NEW name, NEW kind, NEW change, NEW old, NEW new,
         change \in {"added", "removed", "changed"},
         kind = "kind" => change = "changed"
  PROVE  SignsFit(DiffEntry(space, name, kind, change, old, new))
<1>1. PICK e : e = DiffEntry(space, name, kind, change, old, new)
  OBVIOUS
<1>2. e.kind = kind /\ e.change = change /\ e.old = old /\ e.new = new /\ e.name = name
  BY <1>1 DEF DiffEntry
<1>3. PICK lines : lines = redact_entries(<<e>>)
  OBVIOUS
<1>4. PICK signs : signs = {l[1] : l \in lines}
  OBVIOUS
<1>5. \A sign, shows : RedactedLine(sign, shows)[1] = sign
  BY DEF RedactedLine
<1>6. CASE kind = "kind"
  <2>1. lines = redact_diff(e)
    BY <1>2, <1>3, <1>6, OneEntry
  <2>2. lines = {RedactedLine("~", <<e.name, e.old, e.new>>)}
    BY <1>2, <1>6, <2>1, Zenon DEF redact_diff
  <2>3. signs = {"~"}
    BY <1>4, <1>5, <2>2, Zenon
  <2>4. e.change # "added" /\ e.change # "removed" /\ e.kind # "policy"
    BY <1>2, <1>6
  <2>5. SignsFit(e)
    BY <1>3, <1>4, <2>3, <2>4, Zenon DEF SignsFit
  <2> QED BY <1>1, <2>5
<1>7. CASE kind # "kind" /\ change = "added"
  <2>1. lines = redact_diff(e)
    BY <1>2, <1>3, <1>7, OneEntry
  <2>2. lines = {RedactedLine("+", <<e.name, e.new>>)}
    BY <1>2, <1>7, <2>1, Zenon DEF redact_diff
  <2>3. signs = {"+"}
    BY <1>4, <1>5, <2>2, Zenon
  <2>4. SignsFit(e)
    BY <1>2, <1>3, <1>4, <1>7, <2>3, Zenon DEF SignsFit
  <2> QED BY <1>1, <2>4
<1>8. CASE kind # "kind" /\ change = "removed"
  <2>0. "removed" # "added" /\ "removed" # "changed"
    OBVIOUS
  <2>1. lines = redact_diff(e)
    BY <1>2, <1>3, <1>8, <2>0, OneEntry
  <2>2. lines = {RedactedLine("-", <<e.name, e.old>>)}
    BY <1>2, <1>8, <2>0, <2>1, Zenon DEF redact_diff
  <2>3. signs = {"-"}
    BY <1>4, <1>5, <2>2, Zenon
  <2>4. SignsFit(e)
    BY <1>2, <1>3, <1>4, <1>8, <2>0, <2>3, Zenon DEF SignsFit
  <2> QED BY <1>1, <2>4
<1>9. CASE kind # "kind" /\ change = "changed"
  <2>0. "changed" # "added" /\ "changed" # "removed"
    OBVIOUS
  <2>1. CASE lines = redact_diff(e)
    <3>1. lines = {RedactedLine(" ", <<e.name>>), RedactedLine("-", <<e.old>>), RedactedLine("+", <<e.new>>)}
      BY <1>2, <1>9, <2>0, <2>1, Zenon DEF redact_diff
    <3>2. signs = {" ", "+", "-"}
      BY <1>4, <1>5, <3>1, Zenon
    <3>3. SignsFit(e)
      BY <1>2, <1>3, <1>4, <1>9, <2>0, <3>2, Zenon DEF SignsFit
    <3> QED BY <1>1, <3>3
  <2>2. CASE lines # redact_diff(e)
    <3>1. e.kind = "policy" /\ lines = policy_delta(Resolved[e.old], Resolved[e.new])
      BY <1>3, <2>2, OneEntry, Zenon
    <3>2. \A l \in lines : l[1] = "-" \/ l[1] = "+"
      BY <1>5, <3>1, Zenon DEF policy_delta
    <3>3. signs \subseteq {" ", "+", "-"}
      BY <1>4, <3>2, Zenon
    <3>4. SignsFit(e)
      BY <1>2, <1>3, <1>4, <1>9, <2>0, <3>1, <3>3, Zenon DEF SignsFit
    <3> QED BY <1>1, <3>4
  <2> QED BY <2>1, <2>2
<1> QED BY <1>6, <1>7, <1>8, <1>9

\* What an entry says: its subject, what is bound now, and its lines.
Tells(e, space, name, is) == e.space = space /\ e.name = name /\ e.new = is /\ SignsFit(e)

\* A piece of the diff is empty if nothing changed, and tells what did.
Reports(x, space, name, was, is, now) ==
  /\ x = << >> <=> was = is
  /\ x # << >> => x = <<x[1]>> /\ Tells(x[1], space, name, now)

\* What is said of an entry that has changed.
Becomes(was, is) ==
  IF is = None THEN None ELSE IF was # None /\ was.kind # is.kind THEN is.kind ELSE is.bound

Typed(entry) == entry # None => /\ entry = [kind |-> entry.kind, bound |-> entry.bound]
                                /\ entry.kind \in EntryKinds

\* One entry is a piece that reports it.
LEMMA OneReports ==
  ASSUME NEW x, NEW e, NEW space, NEW name, NEW was, NEW is, NEW now,
         x = <<e>>, was # is, Tells(e, space, name, now)
  PROVE  Reports(x, space, name, was, is, now)
<1>1. <<e>> # << >> /\ <<e>>[1] = e
  OBVIOUS
<1> QED BY <1>1, Zenon DEF Reports

\* An entry tells what it was made of.
LEMMA EntryTells ==
  ASSUME NEW space, NEW name, NEW kind, NEW change, NEW old, NEW new,
         change \in {"added", "removed", "changed"},
         kind = "kind" => change = "changed"
  PROVE  Tells(DiffEntry(space, name, kind, change, old, new), space, name, new)
<1>1. PICK e : e = DiffEntry(space, name, kind, change, old, new)
  OBVIOUS
<1>2. e.space = space /\ e.name = name /\ e.new = new
  BY <1>1 DEF DiffEntry
<1>3. SignsFit(e)
  BY <1>1, EntrySigns
<1> QED BY <1>1, <1>2, <1>3, Zenon DEF Tells

\* The kinds of entries are none of the diff's own.
LEMMA KindsApart ==
  ASSUME NEW kind \in EntryKinds
  PROVE  kind # "kind"
BY DEF EntryKinds

\* compute_diff on one variable.
LEMMA VariableReports ==
  ASSUME NEW name, NEW old, NEW new, Typed(old), Typed(new)
  PROVE  Reports(VariableDiff(name, old, new), "variable", name, old, new, Becomes(old, new))
<1>0. /\ "added" \in {"added", "removed", "changed"} /\ "removed" \in {"added", "removed", "changed"}
      /\ "changed" \in {"added", "removed", "changed"}
  OBVIOUS
<1>1. CASE old = None /\ new = None
  <2>1. VariableDiff(name, old, new) = << >>
    BY <1>1, Zenon DEF VariableDiff
  <2> QED BY <1>1, <2>1, Zenon DEF Reports
<1>2. CASE old = None /\ new # None
  <2>1. new.kind # "kind"
    BY <1>2, KindsApart, Zenon DEF Typed
  <2>2. PICK e : e = DiffEntry("variable", name, new.kind, "added", None, new.bound)
    OBVIOUS
  <2>3. VariableDiff(name, old, new) = <<e>>
    BY <1>2, <2>2, Zenon DEF VariableDiff, classify_addition
  <2>4. Tells(e, "variable", name, new.bound)
    BY <1>0, <2>1, <2>2, EntryTells
  <2>5. Becomes(old, new) = new.bound
    BY <1>2, Zenon DEF Becomes
  <2> QED BY <1>2, <2>3, <2>4, <2>5, OneReports, Zenon
<1>3. CASE old # None /\ new = None
  <2>1. old.kind # "kind"
    BY <1>3, KindsApart, Zenon DEF Typed
  <2>2. PICK e, what : /\ e = DiffEntry("variable", name, old.kind, "removed", what, None)
                       /\ what = IF old.kind = "config" THEN None ELSE old.bound
    OBVIOUS
  <2>3. VariableDiff(name, old, new) = <<e>>
    BY <1>3, <2>2, Zenon DEF VariableDiff, classify_removal
  <2>4. Tells(e, "variable", name, None)
    BY <1>0, <2>1, <2>2, EntryTells
  <2>5. Becomes(old, new) = None
    BY <1>3, Zenon DEF Becomes
  <2> QED BY <1>3, <2>3, <2>4, <2>5, OneReports, Zenon
<1>4. CASE old # None /\ new # None /\ old.kind # new.kind
  <2>1. PICK e : e = DiffEntry("variable", name, "kind", "changed", old.kind, new.kind)
    OBVIOUS
  <2>2. VariableDiff(name, old, new) = <<e>>
    BY <1>4, <2>1, Zenon DEF VariableDiff, classify_change
  <2>3. Tells(e, "variable", name, new.kind)
    BY <1>0, <2>1, EntryTells
  <2>4. Becomes(old, new) = new.kind /\ old # new
    BY <1>4, Zenon DEF Becomes
  <2> QED BY <2>2, <2>3, <2>4, OneReports, Zenon
<1>5. CASE old # None /\ new # None /\ old.kind = new.kind /\ old.bound # new.bound
  <2>1. old.kind # "kind"
    BY <1>5, KindsApart, Zenon DEF Typed
  <2>2. PICK e : e = DiffEntry("variable", name, old.kind, "changed", old.bound, new.bound)
    OBVIOUS
  <2>3. VariableDiff(name, old, new) = <<e>>
    BY <1>5, <2>2, Zenon DEF VariableDiff, classify_change
  <2>4. Tells(e, "variable", name, new.bound)
    BY <1>0, <2>1, <2>2, EntryTells
  <2>5. Becomes(old, new) = new.bound /\ old # new
    BY <1>5, Zenon DEF Becomes
  <2> QED BY <2>3, <2>4, <2>5, OneReports, Zenon
<1>6. CASE old # None /\ new # None /\ old.kind = new.kind /\ old.bound = new.bound
  <2>1. VariableDiff(name, old, new) = << >>
    BY <1>6, Zenon DEF VariableDiff, classify_change
  <2>2. old = new
    BY <1>6, Zenon DEF Typed
  <2> QED BY <2>1, <2>2, Zenon DEF Reports
<1> QED BY <1>1, <1>2, <1>3, <1>4, <1>5, <1>6, Zenon

\* compute_diff on one policy name.
LEMMA PolicyReports ==
  ASSUME NEW name, NEW old, NEW new
  PROVE  Reports(PolicyDiff(name, old, new), "policy", name, old, new, new)
<1>0. /\ "added" \in {"added", "removed", "changed"} /\ "removed" \in {"added", "removed", "changed"}
      /\ "changed" \in {"added", "removed", "changed"} /\ "policy" # "kind"
  OBVIOUS
<1>1. CASE old = new
  <2>1. PolicyDiff(name, old, new) = << >>
    BY <1>1, Zenon DEF PolicyDiff
  <2> QED BY <1>1, <2>1, Zenon DEF Reports
<1>2. CASE old # new /\ old = None
  <2>1. PICK e : e = DiffEntry("policy", name, "policy", "added", None, new)
    OBVIOUS
  <2>2. PolicyDiff(name, old, new) = <<e>>
    BY <1>2, <2>1, Zenon DEF PolicyDiff
  <2>3. Tells(e, "policy", name, new)
    BY <1>0, <2>1, EntryTells
  <2> QED BY <1>2, <2>2, <2>3, OneReports, Zenon
<1>3. CASE old # new /\ old # None /\ new = None
  <2>1. PICK e : e = DiffEntry("policy", name, "policy", "removed", old, None)
    OBVIOUS
  <2>2. PolicyDiff(name, old, new) = <<e>>
    BY <1>3, <2>1, Zenon DEF PolicyDiff
  <2>3. Tells(e, "policy", name, new)
    BY <1>0, <1>3, <2>1, EntryTells
  <2> QED BY <1>3, <2>2, <2>3, OneReports, Zenon
<1>4. CASE old # new /\ old # None /\ new # None
  <2>1. PICK e : e = DiffEntry("policy", name, "policy", "changed", old, new)
    OBVIOUS
  <2>2. PolicyDiff(name, old, new) = <<e>>
    BY <1>4, <2>1, Zenon DEF PolicyDiff
  <2>3. Tells(e, "policy", name, new)
    BY <1>0, <2>1, EntryTells
  <2> QED BY <1>4, <2>2, <2>3, OneReports, Zenon
<1> QED BY <1>1, <1>2, <1>3, <1>4, Zenon

\* The pieces of the diff: the variables' and then the policies'.
VariablePieces(old, new) ==
  [i \in DOMAIN VarNames |->
     VariableDiff(VarNames[i], old.entries[VarNames[i]], new.entries[VarNames[i]])]
PolicyPieces(old, new) ==
  [i \in DOMAIN PolNames |->
     PolicyDiff(PolNames[i], old.policies[PolNames[i]], new.policies[PolNames[i]])]
Pieces(old, new) == VariablePieces(old, new) \o PolicyPieces(old, new)

\* What the j-th piece is about, what was bound and what is now.
SpaceAt(j, v) == IF j <= v THEN "variable" ELSE "policy"
NameAt(j, v) == IF j <= v THEN VarNames[j] ELSE PolNames[j - v]
BoundAt(m, j, v) == IF j <= v THEN m.entries[VarNames[j]] ELSE m.policies[PolNames[j - v]]
NowAt(old, new, j, v) ==
  IF j <= v THEN Becomes(old.entries[VarNames[j]], new.entries[VarNames[j]])
  ELSE new.policies[PolNames[j - v]]

\* The names of the variables and of the policies.
LEMMA NamesAre ==
  /\ VarNames \in Seq(ToSet(Subjects)) /\ PolNames \in Seq(ToSet(Subjects))
  /\ IsInjective(VarNames) /\ IsInjective(PolNames)
<1>1. PICK X, s : X = ToSet(Subjects) /\ s = Subjects /\ s \in Seq(X) /\ IsInjective(s)
  BY ManifestsAreTyped, Zenon
<1>2. PICK a : a = VarNames /\ a \in Seq(X \cap (X \ PolicySubjects)) /\ IsInjective(a)
  BY <1>1, FilteredIs, FilteredSet, Zenon DEF VarNames
<1>3. PICK b : b = PolNames /\ b \in Seq(X \cap PolicySubjects) /\ IsInjective(b)
  BY <1>1, FilteredIs, FilteredSet, Zenon DEF PolNames
<1>4. \A Y : Y \subseteq X => Seq(Y) \subseteq Seq(X)
  OBVIOUS
<1>5. a \in Seq(X) /\ b \in Seq(X)
  BY <1>2, <1>3, <1>4
<1> QED BY <1>1, <1>2, <1>3, <1>5, Zenon

\* Every one of n pieces reports what it is about.
Reporting(C, old, new, v, n) ==
  /\ Len(C) = n /\ (n = 0 => C = << >>)
  /\ \A j \in 1..n : Reports(C[j], SpaceAt(j, v), NameAt(j, v), BoundAt(old, j, v),
                             BoundAt(new, j, v), NowAt(old, new, j, v))

\* The pieces of the diff report what they are about.
LEMMA PiecesReport ==
  ASSUME NEW old \in Manifests, NEW new \in Manifests, NEW v \in Nat, NEW w \in Nat,
         v = Len(VarNames), w = Len(PolNames)
  PROVE  Reporting(Pieces(old, new), old, new, v, v + w)
<1>1. DOMAIN VarNames = 1..v /\ DOMAIN PolNames = 1..w
  BY NamesAre
<1>2. PICK A, B : A = VariablePieces(old, new) /\ B = PolicyPieces(old, new)
  OBVIOUS
<1>3. A \in Seq(ToSet(A)) /\ Len(A) = v /\ B \in Seq(ToSet(B)) /\ Len(B) = w
  <2>1. A = [i \in 1..v |-> A[i]] /\ B = [i \in 1..w |-> B[i]]
    BY <1>1, <1>2 DEF VariablePieces, PolicyPieces
  <2> QED BY <2>1, IsSequence
<1>4. PICK Y : Y = ToSet(A) \cup ToSet(B)
  OBVIOUS
<1>5. A \in Seq(Y) /\ B \in Seq(Y)
  BY <1>3, <1>4
<1>6. PICK C \in Seq(Y) : C = A \o B /\ C = Pieces(old, new)
  BY <1>2, <1>5, ConcatProperties DEF Pieces
<1>7. Len(C) = v + w /\ \A j \in 1..(v + w) : C[j] = IF j <= v THEN A[j] ELSE B[j - v]
  <2>1. Len(A) = v /\ Len(B) = w
    BY <1>3
  <2>2. /\ Len(C) = Len(A) + Len(B)
        /\ \A j \in 1..(Len(A) + Len(B)) : C[j] = IF j <= Len(A) THEN A[j] ELSE B[j - Len(A)]
    BY <1>5, <1>6, ConcatProperties
  <2> QED BY <2>1, <2>2, Zenon
<1>8. v + w = 0 => C = << >>
  BY <1>7
<1>9. \A i \in 1..v : A[i] = VariableDiff(VarNames[i], old.entries[VarNames[i]], new.entries[VarNames[i]])
  BY <1>1, <1>2 DEF VariablePieces
<1>10. \A i \in 1..w : B[i] = PolicyDiff(PolNames[i], old.policies[PolNames[i]], new.policies[PolNames[i]])
  BY <1>1, <1>2 DEF PolicyPieces
<1>11. ASSUME NEW j \in 1..(v + w)
       PROVE  Reports(C[j], SpaceAt(j, v), NameAt(j, v), BoundAt(old, j, v),
                      BoundAt(new, j, v), NowAt(old, new, j, v))
  <2>1. CASE j <= v
    <3>1. j \in 1..v
      BY <2>1
    <3>2. PICK n : n = VarNames[j] /\ n \in ToSet(VarNames)
      BY <1>1, <3>1, Zenon DEF ToSet
    <3>3. Typed(old.entries[n]) /\ Typed(new.entries[n])
      BY <3>2, ManifestsAreTyped, Zenon DEF Typed
    <3>4. C[j] = VariableDiff(n, old.entries[n], new.entries[n])
      BY <1>7, <1>9, <2>1, <3>1, <3>2, Zenon
    <3>5. Reports(C[j], "variable", n, old.entries[n], new.entries[n],
                  Becomes(old.entries[n], new.entries[n]))
      BY <3>3, <3>4, VariableReports, Zenon
    <3> QED BY <2>1, <3>2, <3>5, Zenon DEF SpaceAt, NameAt, BoundAt, NowAt
  <2>2. CASE ~(j <= v)
    <3>1. j - v \in 1..w
      BY <2>2
    <3>2. PICK n : n = PolNames[j - v]
      OBVIOUS
    <3>3. C[j] = PolicyDiff(n, old.policies[n], new.policies[n])
      BY <1>7, <1>10, <2>2, <3>1, <3>2, Zenon
    <3>4. Reports(C[j], "policy", n, old.policies[n], new.policies[n], new.policies[n])
      BY <3>3, PolicyReports, Zenon
    <3> QED BY <2>2, <3>2, <3>4, Zenon DEF SpaceAt, NameAt, BoundAt, NowAt
  <2> QED BY <2>1, <2>2
<1> QED BY <1>6, <1>7, <1>8, <1>11, Zenon DEF Reporting

\* Pieces are about different subjects.
LEMMA SubjectsApart ==
  ASSUME NEW v \in Nat, NEW w \in Nat, v = Len(VarNames), w = Len(PolNames),
         NEW j \in 1..(v + w), NEW k \in 1..(v + w),
         SpaceAt(j, v) = SpaceAt(k, v), NameAt(j, v) = NameAt(k, v)
  PROVE  j = k
<1>1. DOMAIN VarNames = 1..v /\ DOMAIN PolNames = 1..w
  BY NamesAre
<1>2. "variable" # "policy"
  OBVIOUS
<1>3. j <= v <=> k <= v
  BY <1>2, Zenon DEF SpaceAt
<1>4. CASE j <= v
  <2>1. j \in 1..v /\ k \in 1..v
    BY <1>3, <1>4
  <2>2. VarNames[j] = VarNames[k]
    BY <1>3, <1>4, Zenon DEF NameAt
  <2> QED BY <1>1, <2>1, <2>2, NamesAre, Zenon DEF IsInjective
<1>5. CASE ~(j <= v)
  <2>1. j - v \in 1..w /\ k - v \in 1..w
    BY <1>3, <1>5
  <2>2. PolNames[j - v] = PolNames[k - v]
    BY <1>3, <1>5, Zenon DEF NameAt
  <2>3. j - v = k - v
    BY <1>1, <2>1, <2>2, NamesAre, Zenon DEF IsInjective
  <2> QED BY <2>3
<1> QED BY <1>4, <1>5

\* Each element of the diff is where p says, and tells of its subject; each
\* change is told.
Telling(p, diff, old, new, v, w) ==
  /\ \A i \in DOMAIN diff :
       /\ p[i] \in 1..(v + w)
       /\ Tells(diff[i], SpaceAt(p[i], v), NameAt(p[i], v), NowAt(old, new, p[i], v))
       /\ BoundAt(old, p[i], v) # BoundAt(new, p[i], v)
  /\ \A i, j \in DOMAIN diff : p[i] = p[j] => i = j
  /\ \A j \in 1..(v + w) : BoundAt(old, j, v) # BoundAt(new, j, v) => \E i \in DOMAIN diff : p[i] = j

\* A piece that reports is empty or has one element.
LEMMA ReportsPiece ==
  ASSUME NEW x, NEW space, NEW name, NEW was, NEW is, NEW now, Reports(x, space, name, was, is, now)
  PROVE  Piece(x) /\ (x # << >> => x[1] \in {x[1]}) /\ (x = << >> \/ x = <<x[1]>>)
<1>1. x = << >> \/ x = <<x[1]>>
  BY DEF Reports
<1>2. Piece(<< >>)
  BY DEF Piece
<1>3. \A e : Piece(<<e>>)
  BY DEF Piece
<1> QED BY <1>1, <1>2, <1>3, Zenon

\* The diff one way and the other tell of the same subjects in the same order.
LEMMA DiffsTell ==
  ASSUME NEW old \in Manifests, NEW new \in Manifests, NEW v \in Nat, NEW w \in Nat,
         v = Len(VarNames), w = Len(PolNames)
  PROVE  /\ \E X : compute_diff(old, new) \in Seq(X)
         /\ DOMAIN compute_diff(old, new) = DOMAIN compute_diff(new, old)
         /\ \E p : /\ Telling(p, compute_diff(old, new), old, new, v, w)
                   /\ Telling(p, compute_diff(new, old), new, old, v, w)
<1>1. PICK S, T : S = Pieces(old, new) /\ T = Pieces(new, old)
  OBVIOUS
<1>2. PICK n \in Nat : n = v + w
  OBVIOUS
<1>3. /\ Len(S) = n /\ Len(T) = n /\ (n = 0 => S = << >> /\ T = << >>)
      /\ \A j \in 1..n : Reports(S[j], SpaceAt(j, v), NameAt(j, v), BoundAt(old, j, v),
                                 BoundAt(new, j, v), NowAt(old, new, j, v))
      /\ \A j \in 1..n : Reports(T[j], SpaceAt(j, v), NameAt(j, v), BoundAt(new, j, v),
                                 BoundAt(old, j, v), NowAt(new, old, j, v))
  <2>1. Reporting(S, old, new, v, n)
    BY <1>1, <1>2, PiecesReport, Zenon
  <2>2. Reporting(T, new, old, v, n)
    BY <1>1, <1>2, PiecesReport, Zenon
  <2> QED BY <2>1, <2>2, Zenon DEF Reporting
<1>4. PICK X : X = {S[j][1] : j \in 1..n} \cup {T[j][1] : j \in 1..n}
  OBVIOUS
<1>5. ASSUME NEW j \in 1..n
      PROVE  S[j] \in Seq(X) /\ T[j] \in Seq(X) /\ Piece(S[j]) /\ Piece(T[j]) /\ Alike(S[j], T[j])
  <2>1. Piece(S[j]) /\ (S[j] = << >> \/ S[j] = <<S[j][1]>>)
    BY <1>3, ReportsPiece, Zenon
  <2>2. Piece(T[j]) /\ (T[j] = << >> \/ T[j] = <<T[j][1]>>)
    BY <1>3, ReportsPiece, Zenon
  <2>3. S[j][1] \in X /\ T[j][1] \in X
    BY <1>4, Zenon
  <2>4. << >> \in Seq(X) /\ \A e \in X : <<e>> \in Seq(X)
    OBVIOUS
  <2>5. Alike(S[j], T[j])
    BY <1>3, Zenon DEF Reports, Alike
  <2> QED BY <2>1, <2>2, <2>3, <2>4, <2>5, Zenon
<1>6. PICK diff, back : /\ diff = FlattenSeq(S) /\ diff = compute_diff(old, new)
                        /\ back = FlattenSeq(T) /\ back = compute_diff(new, old)
  BY <1>1, Zenon DEF compute_diff, Pieces, VariablePieces, PolicyPieces
<1>7. diff \in Seq(X) /\ Placed(diff, back, S, T, n)
  BY <1>3, <1>5, <1>6, FlattenPlaced, Zenon
<1>8. PICK p : DOMAIN diff = DOMAIN back /\ Placing(p, diff, back, S, T, n)
  BY <1>7, Zenon DEF Placed
<1>9. Telling(p, diff, old, new, v, w)
  <2>1. ASSUME NEW i \in DOMAIN diff
        PROVE  /\ p[i] \in 1..n
               /\ Tells(diff[i], SpaceAt(p[i], v), NameAt(p[i], v), NowAt(old, new, p[i], v))
               /\ BoundAt(old, p[i], v) # BoundAt(new, p[i], v)
    <3>1. p[i] \in 1..n /\ S[p[i]] # << >> /\ diff[i] = S[p[i]][1]
      BY <1>8, Zenon DEF Placing
    <3> QED BY <1>3, <3>1, Zenon DEF Reports
  <2>2. \A i, j \in DOMAIN diff : p[i] = p[j] => i = j
    BY <1>8, Zenon DEF Placing
  <2>3. ASSUME NEW j \in 1..n, BoundAt(old, j, v) # BoundAt(new, j, v) PROVE \E i \in DOMAIN diff : p[i] = j
    <3>1. S[j] # << >>
      BY <1>3, <2>3, Zenon DEF Reports
    <3> QED BY <1>8, <3>1, Zenon DEF Placing
  <2> QED BY <1>2, <2>1, <2>2, <2>3, Zenon DEF Telling
<1>10. Telling(p, back, new, old, v, w)
  <2>1. ASSUME NEW i \in DOMAIN back
        PROVE  /\ p[i] \in 1..n
               /\ Tells(back[i], SpaceAt(p[i], v), NameAt(p[i], v), NowAt(new, old, p[i], v))
               /\ BoundAt(new, p[i], v) # BoundAt(old, p[i], v)
    <3>1. p[i] \in 1..n /\ S[p[i]] # << >> /\ back[i] = T[p[i]][1]
      BY <1>8, Zenon DEF Placing
    <3>2. BoundAt(old, p[i], v) # BoundAt(new, p[i], v)
      BY <1>3, <3>1, Zenon DEF Reports
    <3>3. T[p[i]] # << >>
      BY <1>3, <3>1, <3>2, Zenon DEF Reports
    <3> QED BY <1>3, <3>1, <3>2, <3>3, Zenon DEF Reports
  <2>2. \A i, j \in DOMAIN back : p[i] = p[j] => i = j
    BY <1>8, Zenon DEF Placing
  <2>3. ASSUME NEW j \in 1..n, BoundAt(new, j, v) # BoundAt(old, j, v) PROVE \E i \in DOMAIN back : p[i] = j
    <3>1. S[j] # << >>
      BY <1>3, <2>3, Zenon DEF Reports
    <3> QED BY <1>8, <3>1, Zenon DEF Placing
  <2> QED BY <1>2, <2>1, <2>2, <2>3, Zenon DEF Telling
<1> QED BY <1>6, <1>7, <1>8, <1>9, <1>10, Zenon

\* Rendering loses no entry: every entry is about one of the names.
LEMMA RenderedAll ==
  ASSUME NEW X, NEW diff \in Seq(X), \A e \in ToSet(diff) : e.name \in ToSet(Subjects)
  PROVE  ToSet(rendered_diff(diff)) = {Described(diff[i]) : i \in DOMAIN diff}
<1>1. PICK s, n : s = Subjects /\ n \in Nat /\ s \in Seq(ToSet(s)) /\ n = Len(s) /\ DOMAIN s = 1..n
  <2>1. Subjects \in Seq(ToSet(Subjects))
    BY ManifestsAreTyped, Zenon
  <2>2. \E n \in Nat : n = Len(Subjects) /\ DOMAIN Subjects = 1..n
    BY <2>1
  <2> QED BY <2>1, <2>2, Zenon
<1> DEFINE About(m) == {i \in DOMAIN diff : diff[i].name = m}
<1>2. PICK order : order = [i \in DOMAIN diff |-> i]
  OBVIOUS
<1>3. order \in Seq(DOMAIN diff) /\ ToSet(order) = DOMAIN diff
  <2>1. PICK l \in Nat : DOMAIN diff = 1..l
    OBVIOUS
  <2>2. DOMAIN order = DOMAIN diff /\ \A i \in DOMAIN diff : order[i] = i
    BY <1>2, Zenon
  <2>3. order = [i \in 1..l |-> order[i]]
    BY <1>2, <2>1
  <2>4. ToSet(order) = DOMAIN diff
    BY <2>2, Zenon DEF ToSet
  <2>5. order \in Seq(ToSet(order))
    BY <2>3, IsSequence, Zenon
  <2> QED BY <2>4, <2>5, Zenon
<1>4. PICK R : R = [i \in 1..n |-> Filtered(order, About(s[i]))]
  OBVIOUS
<1>5. Len(R) = n /\ (n = 0 => R = << >>)
  <2>1. R = [i \in 1..n |-> R[i]]
    BY <1>4
  <2>2. R \in Seq(ToSet(R)) /\ Len(R) = n
    BY <1>1, <2>1, IsSequence, Zenon
  <2> QED BY <2>2
<1>6. ASSUME NEW k \in 1..n PROVE R[k] \in Seq(DOMAIN diff) /\ ToSet(R[k]) = About(s[k])
  <2>1. R[k] = Filtered(order, About(s[k]))
    BY <1>4
  <2> HIDE DEF About
  <2>2. R[k] \in Seq((DOMAIN diff) \cap About(s[k]))
    BY <1>3, <2>1, FilteredIs, Zenon
  <2>3. ToSet(R[k]) = ToSet(order) \cap About(s[k])
    BY <1>3, <2>1, FilteredSet
  <2>4. Seq((DOMAIN diff) \cap About(s[k])) \subseteq Seq(DOMAIN diff)
    OBVIOUS
  <2>5. (DOMAIN diff) \cap About(s[k]) = About(s[k])
    BY Zenon DEF About
  <2> QED BY <1>3, <2>2, <2>3, <2>4, <2>5
<1>7. PICK sorted : /\ sorted = FlattenSeq(R)
                    /\ rendered_diff(diff) = [i \in DOMAIN sorted |-> Described(diff[sorted[i]])]
  BY <1>1, <1>2, <1>4, Zenon DEF rendered_diff
<1>8. ToSet(sorted) = UNION {ToSet(R[k]) : k \in 1..n}
  <2> HIDE DEF About
  <2>1. \A k \in 1..n : R[k] \in Seq(DOMAIN diff)
    BY <1>6
  <2>2. Gathers(FlattenSeq(R), DOMAIN diff, R, n)
    BY <1>1, <1>5, <2>1, FlattenMembers, Zenon
  <2> QED BY <1>7, <2>2, Zenon DEF Gathers
<1>9. ToSet(sorted) = DOMAIN diff
  <2>1. ASSUME NEW i \in ToSet(sorted) PROVE i \in DOMAIN diff
    <3>1. PICK k \in 1..n : i \in ToSet(R[k])
      BY <1>8, Zenon
    <3> QED BY <1>6, <3>1, Zenon
  <2>2. ASSUME NEW i \in DOMAIN diff PROVE i \in ToSet(sorted)
    <3>1. diff[i] \in ToSet(diff)
      BY Zenon DEF ToSet
    <3>2. PICK k \in 1..n : diff[i].name = s[k]
      BY <1>1, <3>1, Zenon DEF ToSet
    <3> QED BY <1>6, <1>8, <3>2, Zenon
  <2> QED BY <2>1, <2>2, Zenon
<1>10. ToSet(rendered_diff(diff)) = {Described(diff[i]) : i \in ToSet(sorted)}
  <2>1. \A z : ToSet([i \in DOMAIN z |-> Described(diff[z[i]])]) = {Described(diff[i]) : i \in ToSet(z)}
    BY Zenon DEF ToSet
  <2> QED BY <1>7, <2>1, Zenon
<1> QED BY <1>9, <1>10, Zenon

\* The place of a variable and of a policy among the pieces.
VariablePlace(i, old, new, v, n) ==
  /\ i \in 1..n /\ SpaceAt(i, v) = "variable" /\ NameAt(i, v) = VarNames[i]
  /\ BoundAt(old, i, v) = old.entries[VarNames[i]] /\ BoundAt(new, i, v) = new.entries[VarNames[i]]
  /\ NowAt(old, new, i, v) = Becomes(old.entries[VarNames[i]], new.entries[VarNames[i]])
PolicyPlace(h, i, old, new, v, n) ==
  /\ h \in 1..n /\ SpaceAt(h, v) = "policy" /\ NameAt(h, v) = PolNames[i]
  /\ BoundAt(old, h, v) = old.policies[PolNames[i]] /\ BoundAt(new, h, v) = new.policies[PolNames[i]]
  /\ NowAt(old, new, h, v) = new.policies[PolNames[i]]

\* The variables come first and then the policies.
LEMMA PlaceOf ==
  ASSUME NEW v \in Nat, NEW w \in Nat, NEW old, NEW new
  PROVE  /\ \A i \in 1..v : VariablePlace(i, old, new, v, v + w)
         /\ \A i \in 1..w : PolicyPlace(i + v, i, old, new, v, v + w)
<1>1. \A i \in 1..v : i \in 1..(v + w) /\ i <= v
  OBVIOUS
<1>2. \A i \in 1..w : i + v \in 1..(v + w) /\ ~(i + v <= v) /\ (i + v) - v = i
  OBVIOUS
<1>3. ASSUME NEW i \in 1..v PROVE VariablePlace(i, old, new, v, v + w)
  BY <1>1, Zenon DEF VariablePlace, SpaceAt, NameAt, BoundAt, NowAt
<1>4. ASSUME NEW i \in 1..w PROVE PolicyPlace(i + v, i, old, new, v, v + w)
  <2>1. PICK h : h = i + v /\ h \in 1..(v + w) /\ ~(h <= v) /\ h - v = i
    BY <1>2
  <2>2. PolicyPlace(h, i, old, new, v, v + w)
    BY <2>1, Zenon DEF PolicyPlace, SpaceAt, NameAt, BoundAt, NowAt
  <2> QED BY <2>1, <2>2, Zenon
<1> QED BY <1>3, <1>4, Zenon

\* The diff says that a binding became another, or nothing.
Says(diff, space, name, was, is, now) ==
  /\ was = is <=> \A h \in DOMAIN diff : ~(diff[h].space = space /\ diff[h].name = name)
  /\ \A other : Patched(diff, space, name, other) = IF was = is THEN other ELSE now

\* What the diff says of the subject of the j-th piece.
LEMMA SaidOf ==
  ASSUME NEW v \in Nat, NEW w \in Nat, v = Len(VarNames), w = Len(PolNames), NEW old, NEW new, NEW p, NEW diff,
         Telling(p, diff, old, new, v, w), NEW j \in 1..(v + w)
  PROVE  Says(diff, SpaceAt(j, v), NameAt(j, v), BoundAt(old, j, v), BoundAt(new, j, v), NowAt(old, new, j, v))
<1>1. PICK space, name : space = SpaceAt(j, v) /\ name = NameAt(j, v)
  OBVIOUS
<1> DEFINE about == {i \in DOMAIN diff : diff[i].space = space /\ diff[i].name = name}
<1>2. \A i : i \in about <=> i \in DOMAIN diff /\ diff[i].space = space /\ diff[i].name = name
  OBVIOUS
<1> HIDE DEF about
<1>3. ASSUME NEW h \in about PROVE p[h] = j /\ diff[h].new = NowAt(old, new, j, v) /\ BoundAt(old, j, v) # BoundAt(new, j, v)
  <2>1. h \in DOMAIN diff /\ diff[h].space = space /\ diff[h].name = name
    BY <1>2, Zenon
  <2>2. PICK k \in 1..(v + w) :
          /\ k = p[h] /\ Tells(diff[h], SpaceAt(k, v), NameAt(k, v), NowAt(old, new, k, v))
          /\ BoundAt(old, k, v) # BoundAt(new, k, v)
    BY <2>1, Zenon DEF Telling
  <2>3. SpaceAt(k, v) = SpaceAt(j, v) /\ NameAt(k, v) = NameAt(j, v) /\ diff[h].new = NowAt(old, new, k, v)
    BY <1>1, <2>1, <2>2, Zenon DEF Tells
  <2>4. k = j
    BY <2>3, SubjectsApart, Zenon
  <2> QED BY <2>2, <2>3, <2>4, Zenon
<1>4. ASSUME BoundAt(old, j, v) # BoundAt(new, j, v) PROVE about # {}
  <2>1. PICK h \in DOMAIN diff : p[h] = j
    BY <1>4, Zenon DEF Telling
  <2>2. diff[h].space = space /\ diff[h].name = name
    BY <1>1, <2>1, Zenon DEF Telling, Tells
  <2> QED BY <1>2, <2>1, <2>2, Zenon
<1>5. BoundAt(old, j, v) = BoundAt(new, j, v) <=> about = {}
  BY <1>3, <1>4, Zenon
<1>6. about = {} <=> \A h \in DOMAIN diff : ~(diff[h].space = space /\ diff[h].name = name)
  BY <1>2, Zenon
<1>7. \A other : Patched(diff, space, name, other) = IF about = {} THEN other ELSE diff[CHOOSE i \in about : TRUE].new
  BY Zenon DEF Patched, about
<1>8. about # {} => (CHOOSE i \in about : TRUE) \in about
  BY Zenon
<1>9. about # {} => diff[CHOOSE i \in about : TRUE].new = NowAt(old, new, j, v)
  BY <1>3, <1>8, Zenon
<1>10. \A other : Patched(diff, space, name, other) =
                    IF BoundAt(old, j, v) = BoundAt(new, j, v) THEN other ELSE NowAt(old, new, j, v)
  <2> SUFFICES ASSUME NEW other
               PROVE  Patched(diff, space, name, other) =
                        IF BoundAt(old, j, v) = BoundAt(new, j, v) THEN other ELSE NowAt(old, new, j, v)
    OBVIOUS
  <2>1. CASE about = {}
    BY <1>5, <1>7, <2>1, Zenon
  <2>2. CASE about # {}
    BY <1>5, <1>7, <1>9, <2>2, Zenon
  <2> QED BY <2>1, <2>2
<1>11. BoundAt(old, j, v) = BoundAt(new, j, v) <=>
         \A h \in DOMAIN diff : ~(diff[h].space = space /\ diff[h].name = name)
  BY <1>5, <1>6, Zenon
<1> QED BY <1>1, <1>10, <1>11, Zenon DEF Says

DiffInv == compared => older \in Manifests /\ newer \in Manifests

\* The diff of two manifests says what changed.
LEMMA DiffInvSuffices ==
  ASSUME DiffInv
  PROVE  DiffExact
<1>1. SUFFICES ASSUME compared PROVE DiffExact
  BY Zenon DEF DiffExact
<1>2. older \in Manifests /\ newer \in Manifests
  BY <1>1 DEF DiffInv
<1>3. PICK v \in Nat, w \in Nat : /\ v = Len(VarNames) /\ w = Len(PolNames)
                                  /\ DOMAIN VarNames = 1..v /\ DOMAIN PolNames = 1..w
  BY NamesAre
<1> DEFINE diff == compute_diff(older, newer)
           back == compute_diff(newer, older)
           named == [i \in DOMAIN diff |-> <<diff[i].space, diff[i].name>>]
<1>4. diff = compute_diff(older, newer) /\ back = compute_diff(newer, older)
  OBVIOUS
<1>8. named = [i \in DOMAIN diff |-> <<diff[i].space, diff[i].name>>]
  OBVIOUS
<1> HIDE DEF diff, back, named
<1>5. PICK X : diff \in Seq(X)
  BY <1>2, <1>3, <1>4, DiffsTell, Zenon
<1>6. DOMAIN diff = DOMAIN back
  BY <1>2, <1>3, <1>4, DiffsTell, Zenon
<1>7. PICK p : Telling(p, diff, older, newer, v, w) /\ Telling(p, back, newer, older, v, w)
  BY <1>2, <1>3, <1>4, DiffsTell, Zenon
<1>9. \A a, b, e : <<e.space, e.name>> = <<a, b>> <=> e.space = a /\ e.name = b
  OBVIOUS
<1>10. DOMAIN named = DOMAIN diff /\ \A i \in DOMAIN diff : named[i] = <<diff[i].space, diff[i].name>>
  BY <1>8, Zenon
<1>11. \A i \in DOMAIN diff : /\ p[i] \in 1..(v + w) /\ diff[i].space = SpaceAt(p[i], v)
                              /\ diff[i].name = NameAt(p[i], v) /\ SignsFit(diff[i])
  BY <1>7, Zenon DEF Telling, Tells
<1>12. IsInjective(named)
  <2> SUFFICES ASSUME NEW i \in DOMAIN diff, NEW j \in DOMAIN diff, named[i] = named[j] PROVE i = j
    BY <1>10, Zenon DEF IsInjective
  <2>1. diff[i].space = diff[j].space /\ diff[i].name = diff[j].name
    <3>1. <<diff[i].space, diff[i].name>> = <<diff[j].space, diff[j].name>>
      BY <1>10, Zenon
    <3> QED BY <1>9, <3>1, Zenon
  <2>2. PICK h \in 1..(v + w), k \in 1..(v + w) :
          h = p[i] /\ k = p[j] /\ SpaceAt(h, v) = SpaceAt(k, v) /\ NameAt(h, v) = NameAt(k, v)
    BY <1>11, <2>1, Zenon
  <2>3. h = k
    BY <1>3, <2>2, SubjectsApart, Zenon
  <2> QED BY <1>7, <2>2, <2>3, Zenon DEF Telling
<1>13. ASSUME NEW i \in 1..v
       PROVE  LET n == VarNames[i]
                  was == older.entries[n]
                  is == newer.entries[n]
              IN /\ was = is <=> <<"variable", n>> \notin ToSet(named)
                 /\ was # is => Patched(diff, "variable", n, None) = Becomes(was, is)
  <2>1. PICK n, was, is : n = VarNames[i] /\ was = older.entries[n] /\ is = newer.entries[n]
    OBVIOUS
  <2>2. /\ i \in 1..(v + w) /\ SpaceAt(i, v) = "variable" /\ NameAt(i, v) = n /\ BoundAt(older, i, v) = was
        /\ BoundAt(newer, i, v) = is /\ NowAt(older, newer, i, v) = Becomes(was, is)
    <3>1. VariablePlace(i, older, newer, v, v + w)
      BY PlaceOf, Zenon
    <3> QED BY <2>1, <3>1, Zenon DEF VariablePlace
  <2>3. Says(diff, "variable", n, was, is, Becomes(was, is))
    <3>1. Says(diff, SpaceAt(i, v), NameAt(i, v), BoundAt(older, i, v), BoundAt(newer, i, v), NowAt(older, newer, i, v))
      BY <1>3, <1>7, <2>2, SaidOf, Zenon
    <3> QED BY <2>2, <3>1, Zenon
  <2>4. <<"variable", n>> \in ToSet(named) <=>
          \E h \in DOMAIN diff : diff[h].space = "variable" /\ diff[h].name = n
    <3>1. <<"variable", n>> \in ToSet(named) <=> \E h \in DOMAIN diff : named[h] = <<"variable", n>>
      BY <1>10, Zenon DEF ToSet
    <3>2. \A h \in DOMAIN diff : named[h] = <<"variable", n>> <=> diff[h].space = "variable" /\ diff[h].name = n
      <4> SUFFICES ASSUME NEW h \in DOMAIN diff
                   PROVE  named[h] = <<"variable", n>> <=> diff[h].space = "variable" /\ diff[h].name = n
        BY Zenon
      <4>1. named[h] = <<diff[h].space, diff[h].name>>
        BY <1>10, Zenon
      <4>2. <<diff[h].space, diff[h].name>> = <<"variable", n>> <=> diff[h].space = "variable" /\ diff[h].name = n
        BY <1>9, Zenon
      <4> QED BY <4>1, <4>2, Zenon
    <3> QED BY <3>1, <3>2, Zenon
  <2> QED BY <2>1, <2>3, <2>4, Zenon DEF Says
<1>14. ASSUME NEW i \in 1..w
       PROVE  Patched(diff, "policy", PolNames[i], older.policies[PolNames[i]]) = newer.policies[PolNames[i]]
  <2>1. PICK n, was, is, h : n = PolNames[i] /\ was = older.policies[n] /\ is = newer.policies[n] /\ h = i + v
    OBVIOUS
  <2>2. /\ h \in 1..(v + w) /\ SpaceAt(h, v) = "policy" /\ NameAt(h, v) = n /\ BoundAt(older, h, v) = was
        /\ BoundAt(newer, h, v) = is /\ NowAt(older, newer, h, v) = is
    <3>1. PolicyPlace(h, i, older, newer, v, v + w)
      BY <2>1, PlaceOf, Zenon
    <3> QED BY <2>1, <3>1, Zenon DEF PolicyPlace
  <2>3. Says(diff, "policy", n, was, is, is)
    <3>1. Says(diff, SpaceAt(h, v), NameAt(h, v), BoundAt(older, h, v), BoundAt(newer, h, v), NowAt(older, newer, h, v))
      BY <1>3, <1>7, <2>2, SaidOf, Zenon
    <3> QED BY <2>2, <3>1, Zenon
  <2> QED BY <2>1, <2>3, Zenon DEF Says
<1>15. [i \in DOMAIN back |-> <<back[i].space, back[i].name>>] = named
  <2>1. \A i \in DOMAIN diff : back[i].space = SpaceAt(p[i], v) /\ back[i].name = NameAt(p[i], v)
    BY <1>6, <1>7, Zenon DEF Telling, Tells
  <2>2. \A i \in DOMAIN diff : back[i].space = diff[i].space /\ back[i].name = diff[i].name
    BY <1>11, <2>1, Zenon
  <2> QED BY <1>6, <1>8, <2>2, Zenon
<1>16. ToSet(rendered_diff(diff)) = {Described(diff[i]) : i \in DOMAIN diff}
  <2>1. ASSUME NEW e \in ToSet(diff) PROVE e.name \in ToSet(Subjects)
    <3>1. PICK i \in DOMAIN diff : e = diff[i]
      BY Zenon DEF ToSet
    <3>2. PICK j \in 1..(v + w) : e.name = NameAt(j, v)
      BY <1>11, <3>1, Zenon
    <3>3. j \in 1..v \/ (j - v \in 1..w /\ ~(j <= v))
      OBVIOUS
    <3>4. (e.name = VarNames[j] /\ j \in 1..v) \/ (e.name = PolNames[j - v] /\ j - v \in 1..w)
      <4>1. j \in 1..v => j <= v
        OBVIOUS
      <4> QED BY <3>2, <3>3, <4>1, Zenon DEF NameAt
    <3>5. \A h \in 1..v : VarNames[h] \in ToSet(Subjects)
      BY <1>3, NamesAre
    <3>6. \A h \in 1..w : PolNames[h] \in ToSet(Subjects)
      BY <1>3, NamesAre
    <3> QED BY <3>4, <3>5, <3>6, Zenon
  <2> QED BY <1>5, <2>1, RenderedAll, Zenon
<1>17. \A i \in DOMAIN VarNames : LET n == VarNames[i]
                                      was == older.entries[n]
                                      is == newer.entries[n]
          IN /\ was = is <=> <<"variable", n>> \notin ToSet(named)
             /\ was # is => Patched(diff, "variable", n, None) =
                  IF is = None THEN None
                  ELSE IF was # None /\ was.kind # is.kind THEN is.kind ELSE is.bound
  BY <1>3, <1>13, Zenon DEF Becomes
<1>18. \A i \in DOMAIN PolNames : LET n == PolNames[i] IN
         Patched(diff, "policy", n, older.policies[n]) = newer.policies[n]
  BY <1>3, <1>14, Zenon
<1>19. \A i \in DOMAIN diff : LET signs == {l[1] : l \in redact_entries(<<diff[i]>>)} IN
         IF diff[i].change = "added" THEN signs = {"+"}
         ELSE IF diff[i].change = "removed" THEN signs = {"-"}
         ELSE IF diff[i].kind = "policy" THEN signs \subseteq {" ", "+", "-"}
         ELSE signs \in {{"~"}, {" ", "+", "-"}}
  BY <1>11, Zenon DEF SignsFit
<1> QED BY <1>12, <1>15, <1>16, <1>17, <1>18, <1>19, Zenon DEF DiffExact, diff, back, named

\* Two manifests the repository holds are compared.
LEMMA DiffInvHolds == DiffSpec => []DiffInv
<1>1. diffInit => DiffInv
  BY DEF diffInit, DiffInv
<1>2. DiffInv /\ [diffNext]_diffVars => DiffInv'
  BY DEF DiffInv, diffNext, Compare, diffVars
<1> QED BY <1>1, <1>2, PTL DEF DiffSpec

\* The diff of any two manifests says exactly what changed (compute_diff), its
\* rendering loses nothing and the terminal UI marks it by what it is.
THEOREM DiffStaysExact == DiffSpec => []DiffExact
BY DiffInvHolds, DiffInvSuffices, PTL

-------------------------------------------------------------------------------
(* The buffer of the policy editor.                                        *)

Buffer(lines, row, col) == [lines |-> lines, row |-> row, col |-> col]

\* A buffer b with n lines L, whose caret is at column c of the line l, which
\* has m characters, in row r.
At(b, L, n, r, l, m, c) ==
  /\ b = Buffer(L, r, c)
  /\ L \in Seq(Seq(Chars)) /\ n \in Nat /\ n = Len(L) /\ r \in Nat /\ r + 1 \in 1..n
  /\ l \in Seq(Chars) /\ l = L[r + 1] /\ m \in Nat /\ m = Len(l) /\ c \in 0..m

\* A buffer whose caret is in its text.
Sound(b) == \E L, n, r, l, m, c : At(b, L, n, r, l, m, c)

TextInv == Sound(buf)

\* A buffer is made of its parts.
LEMMA BufferParts ==
  ASSUME NEW L, NEW r, NEW c
  PROVE  Buffer(L, r, c).lines = L /\ Buffer(L, r, c).row = r /\ Buffer(L, r, c).col = c
BY DEF Buffer

WithLine(b, i, e, d) == [b EXCEPT !.lines[i] = e, !.col = d]
WithCaret(b, s, d) == [b EXCEPT !.row = s, !.col = d]
WithCol(b, d) == [b EXCEPT !.col = d]
WithRow(b, s) == [b EXCEPT !.row = s]

\* Changing parts of a buffer.
LEMMA BufferChanged ==
  ASSUME NEW L, NEW r, NEW c, NEW s, NEW d, NEW b, b = Buffer(L, r, c)
  PROVE  WithCaret(b, s, d) = Buffer(L, s, d)
<1>1. b = [lines |-> L, row |-> r, col |-> c]
  BY DEF Buffer
<1>2. PICK a : a = [b EXCEPT !.row = s]
  OBVIOUS
<1>3. a = [lines |-> L, row |-> s, col |-> c]
  BY <1>1, <1>2
<1>4. [a EXCEPT !.col = d] = [lines |-> L, row |-> s, col |-> d]
  BY <1>3
<1>5. [b EXCEPT !.row = s, !.col = d] = [a EXCEPT !.col = d]
  BY <1>2
<1> QED BY <1>4, <1>5, Zenon DEF Buffer, WithCaret

\* Changing the column of the caret.
LEMMA ColChanged ==
  ASSUME NEW L, NEW r, NEW c, NEW d, NEW b, b = Buffer(L, r, c)
  PROVE  WithCol(b, d) = Buffer(L, r, d)
<1>1. b = [lines |-> L, row |-> r, col |-> c]
  BY DEF Buffer
<1> QED BY <1>1 DEF Buffer, WithCol

\* Changing the row of the caret.
LEMMA RowChanged ==
  ASSUME NEW L, NEW r, NEW c, NEW s, NEW b, b = Buffer(L, r, c)
  PROVE  WithRow(b, s) = Buffer(L, s, c)
<1>1. b = [lines |-> L, row |-> r, col |-> c]
  BY DEF Buffer
<1> QED BY <1>1 DEF Buffer, WithRow

\* Changing the line of the caret.
LEMMA LineChanged ==
  ASSUME NEW L, NEW r, NEW c, NEW d, NEW b, b = Buffer(L, r, c), NEW i, NEW e
  PROVE  WithLine(b, i, e, d) = Buffer(PutLine(L, i, e), r, d)
<1>1. b = [lines |-> L, row |-> r, col |-> c]
  BY DEF Buffer
<1>2. PICK a : a = [b EXCEPT !.lines[i] = e]
  OBVIOUS
<1>3. PICK K1 : K1 = [L EXCEPT ![i] = e]
  OBVIOUS
<1>4. a = [lines |-> K1, row |-> r, col |-> c]
  BY <1>1, <1>2, <1>3
<1>5. [a EXCEPT !.col = d] = [lines |-> K1, row |-> r, col |-> d]
  BY <1>4
<1>6. [b EXCEPT !.lines[i] = e, !.col = d] = [a EXCEPT !.col = d]
  BY <1>2
<1> QED BY <1>3, <1>5, <1>6, Zenon DEF Buffer, WithLine, PutLine

\* What puts the caret in the text.
LEMMA InTextAt ==
  ASSUME NEW b, NEW L, NEW n, NEW r, NEW l, NEW m, NEW c, At(b, L, n, r, l, m, c)
  PROVE  /\ b.lines = L /\ b.row = r /\ b.col = c /\ Line(b) = l /\ InText(b)
<1>1. b.lines = L /\ b.row = r /\ b.col = c
  <2>1. b = Buffer(L, r, c)
    BY Zenon DEF At
  <2> QED BY <2>1 DEF Buffer
<1>2. Line(b) = l
  BY <1>1, Zenon DEF At, Line
<1>3. r \in Nat /\ n \in Nat /\ r + 1 \in 1..n /\ n = Len(L) /\ m = Len(l) /\ c \in 0..m
  BY Zenon DEF At
<1>4. r \in 0..(n - 1)
  BY <1>3
<1>5. b.row \in 0..(Len(b.lines) - 1) /\ b.col \in 0..Len(Line(b))
  BY <1>1, <1>2, <1>3, <1>4, Zenon
<1> QED BY <1>1, <1>2, <1>5, Zenon DEF InText

\* How a buffer is put together.
LEMMA PutTogether ==
  ASSUME NEW L, NEW n \in Nat, NEW r \in Nat, NEW c, L \in Seq(Seq(Chars)), Len(L) = n, r + 1 \in 1..n,
         c \in 0..Len(L[r + 1])
  PROVE  At(Buffer(L, r, c), L, n, r, L[r + 1], Len(L[r + 1]), c)
<1>1. PICK l \in Seq(Chars) : l = L[r + 1]
  OBVIOUS
<1>2. Len(l) \in Nat
  OBVIOUS
<1> QED BY <1>1, <1>2, Zenon DEF At

\* What typing makes of a buffer.
Typing(L, r, c, x, s, l, d, y, K) ==
  s = r + 1 /\ l = L[s] /\ d = c + 1 /\ y = InsertAt(l, d, x) /\ K = PutLine(L, s, y)

\* The buffer after a character was typed.
LEMMA InsertForm ==
  ASSUME NEW L, NEW r, NEW c, NEW x, NEW s, NEW l, NEW d, NEW y, NEW K, Typing(L, r, c, x, s, l, d, y, K)
  PROVE  insert_char(Buffer(L, r, c), x) = Buffer(K, r, d)
<1> USE DEF Typing
<1>1. PICK b : b = Buffer(L, r, c) /\ b.lines = L /\ b.row = r /\ b.col = c
  <2>1. PICK b : b = Buffer(L, r, c)
    OBVIOUS
  <2>2. b.lines = L /\ b.row = r /\ b.col = c
    BY <2>1 DEF Buffer
  <2> QED BY <2>1, <2>2, Zenon
<1>2. insert_char(b, x) = WithLine(b, s, y, d)
  BY <1>1, Zenon DEF insert_char, WithLine
<1>3. WithLine(b, s, y, d) = Buffer(PutLine(L, s, y), r, d)
  BY <1>1, LineChanged
<1> QED BY <1>1, <1>2, <1>3, Zenon

\* What backspace makes of it behind a character, and at the start of a line.
Rubbing(L, r, c, s, l, d, y, K) ==
  c > 0 /\ s = r + 1 /\ d = c - 1 /\ l = L[s] /\ y = RemoveAt(l, c) /\ K = PutLine(L, s, y)
Joining(L, r, c, s, q, k, l, y, K, M, e) ==
  /\ ~(c > 0) /\ r > 0 /\ s = r + 1 /\ q = r - 1 /\ k = L[r] /\ l = L[s]
  /\ y = k \o l /\ K = PutLine(L, r, y) /\ M = RemoveAt(K, s) /\ e = Len(k)

\* Backspace behind a character.
LEMMA BackInLine ==
  ASSUME NEW L, NEW r, NEW c, NEW s, NEW l, NEW d, NEW y, NEW K, Rubbing(L, r, c, s, l, d, y, K)
  PROVE  backspace(Buffer(L, r, c)) = Buffer(K, r, d)
<1> USE DEF Rubbing
<1>1. PICK b : b = Buffer(L, r, c) /\ b.lines = L /\ b.row = r /\ b.col = c
  <2>1. PICK b : b = Buffer(L, r, c)
    OBVIOUS
  <2>2. b.lines = L /\ b.row = r /\ b.col = c
    BY <2>1 DEF Buffer
  <2> QED BY <2>1, <2>2, Zenon
<1>2. backspace(b) = WithLine(b, s, y, d)
  BY <1>1, Zenon DEF backspace, WithLine
<1>3. WithLine(b, s, y, d) = Buffer(PutLine(L, s, y), r, d)
  BY <1>1, LineChanged
<1> QED BY <1>1, <1>2, <1>3, Zenon

\* Backspace at the start of a line that is not the first.
LEMMA BackOverSeam ==
  ASSUME NEW L, NEW r, NEW c, NEW s, NEW q, NEW k, NEW l, NEW y, NEW K, NEW M, NEW e,
         Joining(L, r, c, s, q, k, l, y, K, M, e)
  PROVE  backspace(Buffer(L, r, c)) = Buffer(M, q, e)
<1> USE DEF Joining
<1>1. PICK b : b = Buffer(L, r, c) /\ b.lines = L /\ b.row = r /\ b.col = c
  <2>1. PICK b : b = Buffer(L, r, c)
    OBVIOUS
  <2>2. b.lines = L /\ b.row = r /\ b.col = c
    BY <2>1 DEF Buffer
  <2> QED BY <2>1, <2>2, Zenon
<1> QED BY <1>1, Zenon DEF backspace, Line, Buffer, PutLine

\* Backspace at the start of the text.
LEMMA BackNowhere ==
  ASSUME NEW L, NEW r, NEW c, ~(c > 0), ~(r > 0)
  PROVE  backspace(Buffer(L, r, c)) = Buffer(L, r, c)
<1>1. PICK b : b = Buffer(L, r, c) /\ b.lines = L /\ b.row = r /\ b.col = c
  <2>1. PICK b : b = Buffer(L, r, c)
    OBVIOUS
  <2>2. b.lines = L /\ b.row = r /\ b.col = c
    BY <2>1 DEF Buffer
  <2> QED BY <2>1, <2>2, Zenon
<1> QED BY <1>1, Zenon DEF backspace

\* What delete makes of it before a character, and at the end of a line.
Deleting(L, r, c, s, l, d, y, K) ==
  s = r + 1 /\ l = L[s] /\ c < Len(l) /\ d = c + 1 /\ y = RemoveAt(l, d) /\ K = PutLine(L, s, y)
Pulling(L, r, c, s, l, u, y, K, M) ==
  /\ s = r + 1 /\ l = L[s] /\ ~(c < Len(l)) /\ s < Len(L) /\ u = r + 2
  /\ y = l \o L[u] /\ K = PutLine(L, s, y) /\ M = RemoveAt(K, u)

\* Delete before a character.
LEMMA DeleteInLine ==
  ASSUME NEW L, NEW r, NEW c, NEW s, NEW l, NEW d, NEW y, NEW K, Deleting(L, r, c, s, l, d, y, K)
  PROVE  delete(Buffer(L, r, c)) = Buffer(K, r, c)
<1> USE DEF Deleting
<1>1. PICK b : b = Buffer(L, r, c) /\ b = [lines |-> L, row |-> r, col |-> c]
  BY DEF Buffer
<1>2. b.lines = L /\ b.row = r /\ b.col = c /\ Line(b) = l
  BY <1>1 DEF Line
<1>3. [b EXCEPT !.lines[b.row + 1] = RemoveAt(@, b.col + 1)] = Buffer(K, r, c)
  BY <1>1 DEF Buffer, PutLine
<1> QED BY <1>1, <1>2, <1>3, Zenon DEF delete

\* Delete at the end of a line that is not the last.
LEMMA DeleteSeam ==
  ASSUME NEW L, NEW r, NEW c, NEW s, NEW l, NEW u, NEW y, NEW K, NEW M, Pulling(L, r, c, s, l, u, y, K, M)
  PROVE  delete(Buffer(L, r, c)) = Buffer(M, r, c)
<1> USE DEF Pulling
<1>1. PICK b : b = Buffer(L, r, c) /\ b = [lines |-> L, row |-> r, col |-> c]
  BY DEF Buffer
<1>2. b.lines = L /\ b.row = r /\ b.col = c /\ Line(b) = l
  BY <1>1 DEF Line
<1>3. [b EXCEPT !.lines = RemoveAt([b.lines EXCEPT ![b.row + 1] = @ \o b.lines[b.row + 2]], b.row + 2)]
        = Buffer(M, r, c)
  BY <1>1 DEF Buffer, PutLine
<1> QED BY <1>1, <1>2, <1>3, Zenon DEF delete

\* Delete at the end of the text.
LEMMA DeleteNowhere ==
  ASSUME NEW L, NEW r, NEW c, NEW s, s = r + 1, NEW l, l = L[s], ~(c < Len(l)), ~(s < Len(L))
  PROVE  delete(Buffer(L, r, c)) = Buffer(L, r, c)
<1>1. PICK b : b = Buffer(L, r, c) /\ b.lines = L /\ b.row = r /\ b.col = c
  <2>1. PICK b : b = Buffer(L, r, c)
    OBVIOUS
  <2>2. b.lines = L /\ b.row = r /\ b.col = c
    BY <2>1 DEF Buffer
  <2> QED BY <2>1, <2>2, Zenon
<1> QED BY <1>1, Zenon DEF delete, Line

\* What splitting a line makes of it.
Splitting(L, r, c, s, u, l, h, t, K, N) ==
  /\ s = r + 1 /\ u = r + 2 /\ l = L[s] /\ h = SubSeq(l, 1, c) /\ t = SubSeq(l, c + 1, Len(l))
  /\ K = PutLine(L, s, h) /\ N = InsertAt(K, u, t)

\* The buffer after a line was split.
LEMMA NewlineForm ==
  ASSUME NEW L, NEW r, NEW c, NEW s, NEW u, NEW l, NEW h, NEW t, NEW K, NEW N, Splitting(L, r, c, s, u, l, h, t, K, N)
  PROVE  newline(Buffer(L, r, c)) = Buffer(N, s, 0)
<1> USE DEF Splitting
<1>1. PICK b : b = Buffer(L, r, c) /\ b.lines = L /\ b.row = r /\ b.col = c
  <2>1. PICK b : b = Buffer(L, r, c)
    OBVIOUS
  <2>2. b.lines = L /\ b.row = r /\ b.col = c
    BY <2>1 DEF Buffer
  <2> QED BY <2>1, <2>2, Zenon
<1> QED BY <1>1, Zenon DEF newline, Line, Buffer, PutLine

\* Clamping puts the caret into the text, and leaves one that is.
LEMMA ClampForm ==
  ASSUME NEW L \in Seq(Seq(Chars)), NEW n \in Nat, n = Len(L), n > 0, NEW r \in Nat, NEW c \in Nat
  PROVE  /\ \E l, m, s, d : At(clamp_caret(Buffer(L, r, c)), L, n, s, l, m, d)
         /\ r + 1 \in 1..n /\ c <= Len(L[r + 1]) => clamp_caret(Buffer(L, r, c)) = Buffer(L, r, c)
<1>1. PICK s : s = Min2(r, n - 1)
  OBVIOUS
<1>2. s \in Nat /\ s + 1 \in 1..n /\ (r + 1 \in 1..n => s = r)
  BY <1>1 DEF Min2
<1>3. PICK l \in Seq(Chars) : l = L[s + 1]
  BY <1>2
<1>4. PICK d : d = Min2(c, Len(l))
  OBVIOUS
<1>5. d \in 0..Len(l) /\ (c <= Len(l) => d = c)
  BY <1>4 DEF Min2
<1>6. clamp_caret(Buffer(L, r, c)) = Buffer(L, s, d)
  <2>1. PICK b : b = Buffer(L, r, c)
    OBVIOUS
  <2>2. b = [lines |-> L, row |-> r, col |-> c]
    BY <2>1 DEF Buffer
  <2>3. clamp_caret(b) = WithCaret(b, s, d)
    <3>1. b.lines = L /\ b.row = r /\ b.col = c
      BY <2>2
    <3> QED BY <1>1, <1>3, <1>4, <3>1, Zenon DEF clamp_caret, WithCaret
  <2>4. WithCaret(b, s, d) = Buffer(L, s, d)
    BY <2>1, BufferChanged
  <2> QED BY <2>1, <2>3, <2>4, Zenon
<1>7. At(Buffer(L, s, d), L, n, s, L[s + 1], Len(L[s + 1]), d)
  BY <1>2, <1>3, <1>5, PutTogether, Zenon
<1>8. \E y, m, t, e : At(clamp_caret(Buffer(L, r, c)), L, n, t, y, m, e)
  BY <1>6, <1>7, Zenon
<1>9. ASSUME r + 1 \in 1..n, c <= Len(L[r + 1]) PROVE clamp_caret(Buffer(L, r, c)) = Buffer(L, r, c)
  <2>1. s = r
    BY <1>2, <1>9, Zenon
  <2>2. d = c
    BY <1>3, <1>5, <1>9, <2>1, Zenon
  <2> QED BY <1>6, <2>1, <2>2, Zenon
<1> QED BY <1>8, <1>9, Zenon

\* The text around the caret.
LEMMA AtIs ==
  ASSUME NEW b, NEW L, NEW n, NEW r, NEW l, NEW m, NEW c, At(b, L, n, r, l, m, c)
  PROVE  /\ b = Buffer(L, r, c) /\ L \in Seq(Seq(Chars)) /\ n \in Nat /\ n = Len(L) /\ r \in Nat /\ r + 1 \in 1..n
         /\ l \in Seq(Chars) /\ l = L[r + 1] /\ m \in Nat /\ m = Len(l) /\ c \in 0..m /\ c \in Nat
<1>1. /\ b = Buffer(L, r, c) /\ L \in Seq(Seq(Chars)) /\ n \in Nat /\ n = Len(L) /\ r \in Nat /\ r + 1 \in 1..n
      /\ l \in Seq(Chars) /\ l = L[r + 1] /\ m \in Nat /\ m = Len(l) /\ c \in 0..m
  BY Zenon DEF At
<1>2. c \in Nat
  BY <1>1
<1> QED BY <1>1, <1>2, Zenon

\* A character typed can be taken back.
LEMMA InsertOk ==
  ASSUME NEW b, NEW L, NEW n, NEW r, NEW l, NEW m, NEW c, At(b, L, n, r, l, m, c), NEW x \in Chars
  PROVE  Sound(insert_char(b, x)) /\ backspace(insert_char(b, x)) = b
<1>1. /\ b = Buffer(L, r, c) /\ L \in Seq(Seq(Chars)) /\ n \in Nat /\ n = Len(L) /\ r \in Nat /\ r + 1 \in 1..n
      /\ l \in Seq(Chars) /\ l = L[r + 1] /\ m \in Nat /\ m = Len(l) /\ c \in 0..m /\ c \in Nat
  BY AtIs, Zenon
<1>2. PICK d : d = c + 1
  OBVIOUS
<1>3. d \in 1..(m + 1) /\ d > 0 /\ c = d - 1 /\ m + 1 \in Nat /\ d \in 0..(m + 1)
  BY <1>1, <1>2
<1>4. PICK s \in 1..n : s = r + 1
  BY <1>1, Zenon
<1>5. PICK y \in Seq(Chars) : y = InsertAt(l, d, x) /\ Inserted(y, l, d, x, m)
  BY <1>1, <1>3, InsertIs, Zenon
<1>6. Len(y) = m + 1
  BY <1>5, Zenon DEF Inserted
<1>7. PICK K \in Seq(Seq(Chars)) : K = PutLine(L, s, y) /\ Replaced(K, L, s, y, n)
  BY <1>1, <1>4, ReplaceIs, Zenon
<1>8. Len(K) = n /\ K[s] = y
  BY <1>7, Zenon DEF Replaced
<1>9. insert_char(b, x) = Buffer(K, r, d)
  <2>1. Typing(L, r, c, x, s, l, d, y, K)
    BY <1>1, <1>2, <1>4, <1>5, <1>7, Zenon DEF Typing
  <2> QED BY <1>1, <2>1, InsertForm
<1>10. At(Buffer(K, r, d), K, n, r, K[r + 1], Len(K[r + 1]), d)
  BY <1>1, <1>3, <1>4, <1>6, <1>8, PutTogether, Zenon
<1>11. Sound(insert_char(b, x))
  BY <1>9, <1>10, Zenon DEF Sound
<1>12. PICK z \in Seq(Chars) : z = RemoveAt(y, d) /\ Removed(z, y, d, m)
  BY <1>1, <1>3, <1>6, RemoveIs, Zenon
<1>13. z = l
  <2>1. Len(z) = m
    BY <1>12, Zenon DEF Removed
  <2>2. ASSUME NEW j \in 1..m PROVE z[j] = l[j]
    <3>1. j \in 1..(m + 1) /\ j + 1 \in 1..(m + 1) /\ j + 1 - 1 = j
      BY <1>1
    <3>2. ~(j < d) => ~(j + 1 < d) /\ j + 1 # d
      BY <1>3
    <3>3. z[j] = IF j < d THEN y[j] ELSE y[j + 1]
      BY <1>12, Zenon DEF Removed
    <3>4. \A h \in 1..(m + 1) : y[h] = IF h < d THEN l[h] ELSE IF h = d THEN x ELSE l[h - 1]
      BY <1>5, Zenon DEF Inserted
    <3>5. CASE j < d
      BY <3>1, <3>3, <3>4, <3>5, Zenon
    <3>6. CASE ~(j < d)
      <4>1. PICK i \in 1..(m + 1) : i = j + 1 /\ i - 1 = j
        BY <3>1
      <4>2. y[i] = l[i - 1]
        BY <3>2, <3>4, <3>6, <4>1, Zenon
      <4> QED BY <3>3, <3>6, <4>1, <4>2, Zenon
    <3> QED BY <3>5, <3>6
  <2> QED BY <1>1, <2>1, <2>2, SameSequence, Zenon
<1>14. PICK M \in Seq(Seq(Chars)) : M = PutLine(K, s, l) /\ Replaced(M, K, s, l, n)
  BY <1>1, <1>4, <1>8, ReplaceIs, Zenon
<1>15. M = L
  <2>1. \A j \in 1..n : M[j] = L[j]
    BY <1>1, <1>4, <1>7, <1>14, Zenon DEF Replaced
  <2> QED BY <1>1, <1>14, <2>1, SameSequence, Zenon DEF Replaced
<1>16. backspace(Buffer(K, r, d)) = Buffer(M, r, c)
  <2>1. Rubbing(K, r, d, s, y, c, l, M)
    BY <1>3, <1>4, <1>8, <1>12, <1>13, <1>14, Zenon DEF Rubbing
  <2> QED BY <2>1, BackInLine
<1> QED BY <1>1, <1>9, <1>11, <1>15, <1>16, Zenon

\* The two parts of a split line make the line.
Split(l, m, c, h, t) == h = SubSeq(l, 1, c) /\ t = SubSeq(l, c + 1, m) /\ Len(h) = c /\ h \o t = l
\* A line is cut in two parts that make it up.
LEMMA SplitIs ==
  ASSUME NEW X, NEW l \in Seq(X), NEW m \in Nat, m = Len(l), NEW c \in 0..m
  PROVE  \E h, t \in Seq(X) : Split(l, m, c, h, t)
<1>1. \A j \in 1..m : l[j] \in X
  OBVIOUS
<1>2. PICK h \in Seq(X) : h = SubSeq(l, 1, c) /\ Len(h) = c /\ \A j \in 1..c : h[j] = l[j]
  <2>1. \A j \in 1..c : j \in 1..m
    OBVIOUS
  <2>2. SubSeq(l, 1, c) \in Seq(X) /\ Len(SubSeq(l, 1, c)) = c
    BY <1>1, <2>1
  <2>3. \A j \in 1..c : SubSeq(l, 1, c)[j] = l[j]
    OBVIOUS
  <2> QED BY <2>2, <2>3, Zenon
<1>3. PICK t \in Seq(X) : t = SubSeq(l, c + 1, m) /\ Len(t) = m - c /\ \A j \in 1..(m - c) : t[j] = l[c + j]
  <2>1. SubSeq(l, c + 1, m) \in Seq(X) /\ Len(SubSeq(l, c + 1, m)) = m - c
    BY <1>1
  <2>2. \A j \in 1..(m - c) : SubSeq(l, c + 1, m)[j] = l[c + j]
    OBVIOUS
  <2> QED BY <2>1, <2>2, Zenon
<1>4. /\ h \o t \in Seq(X) /\ Len(h \o t) = Len(h) + Len(t)
      /\ \A j \in 1..(Len(h) + Len(t)) : (h \o t)[j] = IF j <= Len(h) THEN h[j] ELSE t[j - Len(h)]
  BY ConcatProperties
<1>5. c + (m - c) = m
  OBVIOUS
<1>6. ASSUME NEW j \in 1..m PROVE (h \o t)[j] = l[j]
  <2>1. (h \o t)[j] = IF j <= c THEN h[j] ELSE t[j - c]
    BY <1>2, <1>3, <1>4, <1>5, Zenon
  <2>2. j <= c => j \in 1..c
    OBVIOUS
  <2>3. ~(j <= c) => j - c \in 1..(m - c) /\ c + (j - c) = j
    OBVIOUS
  <2> QED BY <1>2, <1>3, <2>1, <2>2, <2>3, Zenon
<1>7. Len(h \o t) = m
  BY <1>2, <1>3, <1>4, <1>5, Zenon
<1>8. h \o t = l
  BY <1>4, <1>6, <1>7, SameSequence, Zenon
<1> QED BY <1>2, <1>3, <1>8, Zenon DEF Split

\* A line split can be joined again.
LEMMA NewlineOk ==
  ASSUME NEW b, NEW L, NEW n, NEW r, NEW l, NEW m, NEW c, At(b, L, n, r, l, m, c)
  PROVE  Sound(newline(b)) /\ backspace(newline(b)) = b
<1>1. /\ b = Buffer(L, r, c) /\ L \in Seq(Seq(Chars)) /\ n \in Nat /\ n = Len(L) /\ r \in Nat /\ r + 1 \in 1..n
      /\ l \in Seq(Chars) /\ l = L[r + 1] /\ m \in Nat /\ m = Len(l) /\ c \in 0..m /\ c \in Nat
  BY AtIs, Zenon
<1>2. PICK h, t \in Seq(Chars) : Split(l, m, c, h, t)
  BY <1>1, SplitIs, Zenon
<1>3. h = SubSeq(l, 1, c) /\ t = SubSeq(l, c + 1, m) /\ Len(h) = c /\ h \o t = l
  BY <1>2, Zenon DEF Split
<1>4. PICK s \in 1..n : s = r + 1
  BY <1>1, Zenon
<1>5. PICK u : u = r + 2
  OBVIOUS
<1>6. /\ u \in 1..(n + 1) /\ u = s + 1 /\ s \in Nat /\ n + 1 \in Nat /\ s \in 1..(n + 1) /\ s < u /\ ~(0 > 0)
      /\ s > 0 /\ r = s - 1 /\ ~(u < u)
  BY <1>1, <1>4, <1>5
<1>7. PICK K \in Seq(Seq(Chars)) : K = PutLine(L, s, h) /\ Replaced(K, L, s, h, n)
  BY <1>1, <1>2, <1>4, ReplaceIs, Zenon
<1>8. Len(K) = n /\ K[s] = h
  BY <1>7, Zenon DEF Replaced
<1>9. PICK N \in Seq(Seq(Chars)) : N = InsertAt(K, u, t) /\ Inserted(N, K, u, t, n)
  BY <1>1, <1>2, <1>8, <1>6, InsertIs, Zenon
<1>10. Len(N) = n + 1 /\ \A j \in 1..(n + 1) : N[j] = IF j < u THEN K[j] ELSE IF j = u THEN t ELSE K[j - 1]
  BY <1>9, Zenon DEF Inserted
<1>11. N[s] = h /\ N[u] = t
  BY <1>6, <1>8, <1>10, Zenon
<1>12. newline(b) = Buffer(N, s, 0)
  <2>1. Splitting(L, r, c, s, u, l, h, t, K, N)
    BY <1>1, <1>3, <1>4, <1>5, <1>7, <1>9, Zenon DEF Splitting
  <2> QED BY <1>1, <2>1, NewlineForm
<1>13. 0 \in 0..Len(N[s + 1])
  <2>1. Len(t) \in Nat
    BY <1>2
  <2>2. 0 \in 0..Len(t)
    BY <2>1
  <2> QED BY <1>6, <1>11, <2>2, Zenon
<1>14. At(Buffer(N, s, 0), N, n + 1, s, N[s + 1], Len(N[s + 1]), 0)
  BY <1>6, <1>9, <1>10, <1>13, PutTogether, Zenon
<1>15. Sound(newline(b))
  BY <1>12, <1>14, Zenon DEF Sound
<1>16. PICK P \in Seq(Seq(Chars)) : P = PutLine(N, s, l) /\ Replaced(P, N, s, l, n + 1)
  BY <1>1, <1>6, <1>9, <1>10, ReplaceIs, Zenon
<1>17. Len(P) = n + 1
  BY <1>16, Zenon DEF Replaced
<1>18. PICK Q \in Seq(Seq(Chars)) : Q = RemoveAt(P, u) /\ Removed(Q, P, u, n)
  BY <1>1, <1>6, <1>17, RemoveIs, Zenon
<1>19. Q = L
  <2>1. Len(Q) = n
    BY <1>18, Zenon DEF Removed
  <2>2. ASSUME NEW j \in 1..n PROVE Q[j] = L[j]
    <3>1. j \in 1..(n + 1) /\ j + 1 \in 1..(n + 1) /\ j + 1 - 1 = j
      BY <1>1
    <3>2. Q[j] = IF j < u THEN P[j] ELSE P[j + 1]
      BY <1>18, Zenon DEF Removed
    <3>3. \A i \in 1..(n + 1) : i # s => P[i] = N[i]
      BY <1>16, Zenon DEF Replaced
    <3>4. P[s] = l
      BY <1>16, Zenon DEF Replaced
    <3>5. \A i \in 1..n : i # s => K[i] = L[i]
      BY <1>7, Zenon DEF Replaced
    <3>6. CASE j = s
      BY <1>1, <1>4, <1>6, <3>2, <3>4, <3>6, Zenon
    <3>7. CASE j # s /\ j < u
      BY <1>10, <3>1, <3>2, <3>3, <3>5, <3>7, Zenon
    <3>8. CASE ~(j < u)
      <4>1. j # s /\ j + 1 # s /\ ~(j + 1 < u) /\ j + 1 # u
        BY <1>1, <1>4, <1>5, <3>8
      <4>2. PICK k \in 1..(n + 1) : k = j + 1 /\ k - 1 = j
        BY <3>1
      <4>3. P[k] = N[k]
        BY <3>3, <4>1, <4>2, Zenon
      <4>4. N[k] = K[k - 1]
        BY <1>10, <4>1, <4>2, Zenon
      <4> QED BY <3>2, <3>5, <3>8, <4>1, <4>2, <4>3, <4>4, Zenon
    <3> QED BY <3>6, <3>7, <3>8
  <2>3. L \in Seq(Seq(Chars)) /\ Len(L) = n /\ n \in Nat
    BY <1>1, Zenon
  <2> QED BY <2>1, <2>2, <2>3, SameSequence
<1>20. backspace(Buffer(N, s, 0)) = Buffer(Q, r, c)
  <2>1. Joining(N, s, 0, u, r, h, t, l, P, Q, c)
    BY <1>3, <1>6, <1>11, <1>16, <1>18, Zenon DEF Joining
  <2> QED BY <2>1, BackOverSeam
<1> QED BY <1>1, <1>12, <1>15, <1>19, <1>20, Zenon

\* Backspace leaves the caret in the text.
LEMMA BackspaceOk ==
  ASSUME NEW b, Sound(b)
  PROVE  Sound(backspace(b))
<1>1. PICK L, n, r, l, m, c : At(b, L, n, r, l, m, c)
  BY Zenon DEF Sound
<1>2. /\ b = Buffer(L, r, c) /\ L \in Seq(Seq(Chars)) /\ n \in Nat /\ n = Len(L) /\ r \in Nat /\ r + 1 \in 1..n
      /\ l \in Seq(Chars) /\ l = L[r + 1] /\ m \in Nat /\ m = Len(l) /\ c \in 0..m /\ c \in Nat
  BY <1>1, AtIs, Zenon
<1>3. PICK s \in 1..n : s = r + 1
  BY <1>2, Zenon
<1>4. CASE c > 0
  <2>1. PICK d : d = c - 1
    OBVIOUS
  <2>2. PICK k : k = m - 1
    OBVIOUS
  <2>3. c \in 1..(k + 1) /\ d \in 0..k /\ k \in Nat /\ m = k + 1
    BY <1>2, <1>4, <2>1, <2>2
  <2>4. PICK y \in Seq(Chars) : y = RemoveAt(l, c) /\ Removed(y, l, c, k)
    BY <1>2, <2>3, RemoveIs, Zenon
  <2>5. PICK K \in Seq(Seq(Chars)) : K = PutLine(L, s, y) /\ Replaced(K, L, s, y, n)
    BY <1>2, <1>3, ReplaceIs, Zenon
  <2>6. Len(K) = n /\ K[s] = y /\ Len(y) = k
    BY <2>4, <2>5, Zenon DEF Replaced, Removed
  <2>7. backspace(b) = Buffer(K, r, d)
    <3>1. Rubbing(L, r, c, s, l, d, y, K)
      BY <1>2, <1>3, <1>4, <2>1, <2>4, <2>5, Zenon DEF Rubbing
    <3> QED BY <1>2, <3>1, BackInLine
  <2>8. At(Buffer(K, r, d), K, n, r, K[r + 1], Len(K[r + 1]), d)
    BY <1>2, <1>3, <2>3, <2>6, PutTogether, Zenon
  <2> QED BY <2>7, <2>8, Zenon DEF Sound
<1>5. CASE ~(c > 0) /\ r > 0
  <2>1. PICK q : q = r - 1
    OBVIOUS
  <2>2. PICK i : i = n - 1
    OBVIOUS
  <2>3. /\ r \in 1..n /\ q \in Nat /\ q + 1 = r /\ i \in Nat /\ n = i + 1 /\ r \in 1..i /\ r < s /\ s \in 1..(i + 1)
    BY <1>2, <1>3, <1>5, <2>1, <2>2
  <2>4. PICK k \in Seq(Chars) : k = L[r]
    <3>1. L[r] \in Seq(Chars)
      <4>1. L \in Seq(Seq(Chars)) /\ r \in 1..Len(L)
        BY <1>2, <2>3, Zenon
      <4> QED BY <4>1, ElementOfSeq, Zenon
    <3> QED BY <3>1, Zenon
  <2>5. PICK y \in Seq(Chars) : y = k \o l /\ Len(y) = Len(k) + Len(l)
    <3>1. k \o l \in Seq(Chars) /\ Len(k \o l) = Len(k) + Len(l)
      BY <1>2, <2>4, ConcatProperties
    <3> QED BY <3>1, Zenon
  <2>6. PICK e : e = Len(k)
    OBVIOUS
  <2>7. e \in 0..Len(y)
    <3>1. Len(k) \in Nat /\ Len(l) \in Nat
      BY <1>2, <2>4
    <3> QED BY <2>5, <2>6, <3>1
  <2>8. PICK K \in Seq(Seq(Chars)) : K = PutLine(L, r, y) /\ Replaced(K, L, r, y, n)
    BY <1>2, <2>3, ReplaceIs, Zenon
  <2>9. Len(K) = n /\ K[r] = y
    BY <2>8, Zenon DEF Replaced
  <2>10. PICK M \in Seq(Seq(Chars)) : M = RemoveAt(K, s) /\ Removed(M, K, s, i)
    BY <2>3, <2>9, RemoveIs, Zenon
  <2>11. Len(M) = i /\ M[r] = y
    BY <2>3, <2>9, <2>10, Zenon DEF Removed
  <2>12. At(Buffer(M, q, e), M, i, q, M[q + 1], Len(M[q + 1]), e)
    BY <2>3, <2>7, <2>10, <2>11, PutTogether, Zenon
  <2>13. backspace(b) = Buffer(M, q, e)
    <3>1. Joining(L, r, c, s, q, k, l, y, K, M, e)
      BY <1>2, <1>3, <1>5, <2>1, <2>4, <2>5, <2>6, <2>8, <2>10, Zenon DEF Joining
    <3> QED BY <1>2, <3>1, BackOverSeam
  <2> QED BY <2>12, <2>13, Zenon DEF Sound
<1>6. CASE ~(c > 0) /\ ~(r > 0)
  <2>1. backspace(b) = b
    BY <1>2, <1>6, BackNowhere
  <2> QED BY <2>1, Zenon
<1> QED BY <1>4, <1>5, <1>6

\* The moves end in a clamp.
LEMMA HorizontalForm ==
  ASSUME NEW b, NEW L, NEW n, NEW r, NEW l, NEW m, NEW c, At(b, L, n, r, l, m, c), NEW d \in {-1, 1}
  PROVE  /\ d = -1 /\ c = 0 /\ r > 0 => move_horizontal(b, d) = clamp_caret(Buffer(L, r - 1, Len(L[r])))
         /\ d = 1 /\ c = m /\ r + 1 < n => move_horizontal(b, d) = clamp_caret(Buffer(L, r + 1, 0))
<1>1. b = Buffer(L, r, c) /\ b.lines = L /\ b.row = r /\ b.col = c /\ Line(b) = l /\ n = Len(L) /\ m = Len(l)
  <2>1. b.lines = L /\ b.row = r /\ b.col = c /\ Line(b) = l
    BY InTextAt
  <2> QED BY <2>1, Zenon DEF At
<1>2. WithCaret(b, r - 1, Len(L[r])) = Buffer(L, r - 1, Len(L[r]))
  BY <1>1, BufferChanged
<1>3. WithCaret(b, r + 1, 0) = Buffer(L, r + 1, 0)
  BY <1>1, BufferChanged
<1>4. d = -1 /\ c = 0 /\ r > 0 => move_horizontal(b, d) = clamp_caret(WithCaret(b, r - 1, Len(L[r])))
  BY <1>1, Zenon DEF move_horizontal, WithCaret
<1>5. ~(d = -1 /\ c = 0 /\ r > 0) /\ d = 1 /\ c = m /\ r + 1 < n =>
        move_horizontal(b, d) = clamp_caret(WithCaret(b, r + 1, 0))
  BY <1>1, Zenon DEF move_horizontal, WithCaret
<1>6. ~(d = 1 /\ d = -1)
  OBVIOUS
<1> QED BY <1>2, <1>3, <1>4, <1>5, <1>6, Zenon

\* A step inside the line ends in a clamp.
LEMMA StepForm ==
  ASSUME NEW b, NEW L, NEW n, NEW r, NEW l, NEW m, NEW c, At(b, L, n, r, l, m, c), NEW d,
         ~(d = -1 /\ c = 0 /\ r > 0) /\ ~(d = 1 /\ c = m /\ r + 1 < n), NEW e, e = Max0(c + d)
  PROVE  move_horizontal(b, d) = clamp_caret(Buffer(L, r, e))
<1>1. b = Buffer(L, r, c) /\ b.lines = L /\ b.row = r /\ b.col = c /\ Line(b) = l /\ n = Len(L) /\ m = Len(l)
  <2>1. b.lines = L /\ b.row = r /\ b.col = c /\ Line(b) = l
    BY InTextAt
  <2> QED BY <2>1, Zenon DEF At
<1>2. WithCol(b, e) = Buffer(L, r, e)
  BY <1>1, ColChanged
<1>3. move_horizontal(b, d) = clamp_caret(WithCol(b, e))
  BY <1>1, Zenon DEF move_horizontal, WithCol
<1> QED BY <1>2, <1>3, Zenon

\* A clamped buffer is sound.
LEMMA ClampOk ==
  ASSUME NEW L \in Seq(Seq(Chars)), NEW n \in Nat, n = Len(L), n > 0, NEW r \in Nat, NEW c \in Nat
  PROVE  Sound(clamp_caret(Buffer(L, r, c)))
BY ClampForm, Zenon DEF Sound

\* Every move leaves the caret in the text.
LEMMA MovesOk ==
  ASSUME NEW b, Sound(b), NEW d \in {-1, 1}
  PROVE  Sound(move_horizontal(b, d)) /\ Sound(move_vertical(b, d))
<1>1. PICK L, n, r, l, m, c : At(b, L, n, r, l, m, c)
  BY Zenon DEF Sound
<1>2. /\ b = Buffer(L, r, c) /\ L \in Seq(Seq(Chars)) /\ n \in Nat /\ n = Len(L) /\ r \in Nat /\ r + 1 \in 1..n
      /\ l \in Seq(Chars) /\ l = L[r + 1] /\ m \in Nat /\ m = Len(l) /\ c \in 0..m /\ c \in Nat
  BY <1>1, AtIs, Zenon
<1>3. n > 0 /\ r + 1 \in Nat /\ 0 \in Nat /\ Max0(c + d) \in Nat /\ Max0(r + d) \in Nat
  BY <1>2 DEF Max0
<1>4. Sound(move_horizontal(b, d))
  <2>1. CASE d = -1 /\ c = 0 /\ r > 0
    <3>1. r - 1 \in Nat /\ r \in 1..n
      BY <1>2, <2>1
    <3>2. L[r] \in Seq(Chars)
      BY <1>2, <3>1, ElementOfSeq, Zenon
    <3>3. Len(L[r]) \in Nat
      BY <3>2
    <3>4. Sound(clamp_caret(Buffer(L, r - 1, Len(L[r]))))
      BY <1>2, <1>3, <3>1, <3>3, ClampOk, Zenon
    <3>5. move_horizontal(b, d) = clamp_caret(Buffer(L, r - 1, Len(L[r])))
      BY <1>1, <2>1, HorizontalForm
    <3> QED BY <3>4, <3>5, Zenon
  <2>2. CASE d = 1 /\ c = m /\ r + 1 < n
    <3>1. Sound(clamp_caret(Buffer(L, r + 1, 0)))
      BY <1>2, <1>3, ClampOk, Zenon
    <3>2. move_horizontal(b, d) = clamp_caret(Buffer(L, r + 1, 0))
      BY <1>1, <2>2, HorizontalForm
    <3> QED BY <3>1, <3>2, Zenon
  <2>3. CASE ~(d = -1 /\ c = 0 /\ r > 0) /\ ~(d = 1 /\ c = m /\ r + 1 < n)
    <3>1. PICK e \in Nat : e = Max0(c + d)
      BY <1>3, Zenon
    <3>2. Sound(clamp_caret(Buffer(L, r, e)))
      BY <1>2, <1>3, ClampOk, Zenon
    <3>3. move_horizontal(b, d) = clamp_caret(Buffer(L, r, e))
      BY <1>1, <2>3, <3>1, StepForm
    <3> QED BY <3>2, <3>3, Zenon
  <2> QED BY <2>1, <2>2, <2>3, Zenon
<1>5. Sound(move_vertical(b, d))
  <2>1. b.row = r
    BY <1>1, InTextAt, Zenon
  <2>2. WithRow(b, Max0(r + d)) = Buffer(L, Max0(r + d), c)
    <3>1. PICK e : e = Max0(r + d)
      OBVIOUS
    <3>2. WithRow(b, e) = Buffer(L, e, c)
      BY <1>2, RowChanged
    <3> QED BY <3>1, <3>2, Zenon
  <2>3. move_vertical(b, d) = clamp_caret(WithRow(b, Max0(r + d)))
    BY <2>1, Zenon DEF move_vertical, WithRow
  <2>4. Sound(clamp_caret(Buffer(L, Max0(r + d), c)))
    BY <1>2, <1>3, ClampOk, Zenon
  <2> QED BY <2>2, <2>3, <2>4, Zenon
<1> QED BY <1>4, <1>5

\* Delete is a step to the right and a backspace, where there is something to
\* the right, and nothing elsewhere.
LEMMA DeleteIs ==
  ASSUME NEW b, NEW L, NEW n, NEW r, NEW l, NEW m, NEW c, At(b, L, n, r, l, m, c)
  PROVE  /\ c < m \/ r + 1 < n => delete(b) = backspace(move_horizontal(b, 1))
         /\ ~(c < m \/ r + 1 < n) => delete(b) = b
<1>1. /\ b = Buffer(L, r, c) /\ L \in Seq(Seq(Chars)) /\ n \in Nat /\ n = Len(L) /\ r \in Nat /\ r + 1 \in 1..n
      /\ l \in Seq(Chars) /\ l = L[r + 1] /\ m \in Nat /\ m = Len(l) /\ c \in 0..m /\ c \in Nat
  BY AtIs, Zenon
<1>2. PICK s \in 1..n : s = r + 1
  BY <1>1, Zenon
<1>3. n > 0 /\ s \in Nat /\ 0 \in Nat /\ 1 \in {-1, 1} /\ ~(1 = -1)
  BY <1>1
<1>4. CASE c < m
  <2>1. PICK d : d = c + 1
    OBVIOUS
  <2>2. c # m /\ d \in Nat /\ d <= m /\ d > 0 /\ c = d - 1 /\ Max0(c + 1) = d
    BY <1>1, <1>4, <2>1 DEF Max0
  <2>3. move_horizontal(b, 1) = clamp_caret(Buffer(L, r, d))
    <3>1. ~(1 = -1 /\ c = 0 /\ r > 0) /\ ~(1 = 1 /\ c = m /\ r + 1 < n)
      BY <1>3, <2>2, Zenon
    <3> QED BY <2>2, <3>1, StepForm
  <2>4. clamp_caret(Buffer(L, r, d)) = Buffer(L, r, d)
    <3>1. d <= Len(L[r + 1])
      BY <1>1, <2>2, Zenon
    <3> QED BY <1>1, <1>3, <2>2, <3>1, ClampForm
  <2>5. PICK y : y = RemoveAt(l, d)
    OBVIOUS
  <2>6. PICK K : K = PutLine(L, s, y)
    OBVIOUS
  <2>7. Rubbing(L, r, d, s, l, c, y, K)
    BY <1>1, <1>2, <2>2, <2>5, <2>6, Zenon DEF Rubbing
  <2>8. Deleting(L, r, c, s, l, d, y, K)
    BY <1>1, <1>2, <1>4, <2>1, <2>5, <2>6, Zenon DEF Deleting
  <2>9. backspace(Buffer(L, r, d)) = Buffer(K, r, c)
    BY <2>7, BackInLine
  <2>10. delete(b) = Buffer(K, r, c)
    BY <1>1, <2>8, DeleteInLine
  <2> QED BY <1>4, <2>3, <2>4, <2>9, <2>10, Zenon
<1>5. CASE ~(c < m) /\ r + 1 < n
  <2>1. PICK u : u = r + 2
    OBVIOUS
  <2>2. c = m /\ u = s + 1 /\ s > 0 /\ ~(0 > 0) /\ r = s - 1 /\ s + 1 \in 1..n /\ s < n /\ ~(c < m)
    BY <1>1, <1>2, <1>5, <2>1
  <2>3. move_horizontal(b, 1) = clamp_caret(Buffer(L, s, 0))
    <3>1. move_horizontal(b, 1) = clamp_caret(Buffer(L, r + 1, 0))
      BY <1>3, <1>5, <2>2, HorizontalForm
    <3> QED BY <1>2, <3>1, Zenon
  <2>4. clamp_caret(Buffer(L, s, 0)) = Buffer(L, s, 0)
    <3>1. L[s + 1] \in Seq(Chars)
      BY <1>1, <2>2, ElementOfSeq, Zenon
    <3>2. 0 <= Len(L[s + 1])
      BY <3>1
    <3> QED BY <1>1, <1>3, <2>2, <3>2, ClampForm
  <2>5. PICK y : y = l \o L[u]
    OBVIOUS
  <2>6. PICK K : K = PutLine(L, s, y)
    OBVIOUS
  <2>7. PICK M : M = RemoveAt(K, u)
    OBVIOUS
  <2>8. PICK h : h = L[u]
    OBVIOUS
  <2>9. Joining(L, s, 0, u, r, l, h, y, K, M, c)
    BY <1>1, <1>2, <2>2, <2>5, <2>6, <2>7, <2>8, Zenon DEF Joining
  <2>10. Pulling(L, r, c, s, l, u, y, K, M)
    BY <1>1, <1>2, <2>1, <2>2, <2>5, <2>6, <2>7, Zenon DEF Pulling
  <2>11. backspace(Buffer(L, s, 0)) = Buffer(M, r, c)
    BY <2>9, BackOverSeam
  <2>12. delete(b) = Buffer(M, r, c)
    BY <1>1, <2>10, DeleteSeam
  <2> QED BY <1>5, <2>3, <2>4, <2>11, <2>12, Zenon
<1>6. CASE ~(c < m) /\ ~(r + 1 < n)
  <2>1. delete(b) = b
    BY <1>1, <1>2, <1>6, DeleteNowhere
  <2> QED BY <1>6, <2>1, Zenon
<1> QED BY <1>4, <1>5, <1>6, Zenon

\* An editor is opened with the caret in its text.
LEMMA OpenedOk ==
  ASSUME NEW t \in SeedTexts
  PROVE  Sound(from_text(t))
<1>1. PICK L : L = IF t = << >> THEN << << >> >> ELSE t
  OBVIOUS
<1>2. L \in Seq(Seq(Chars)) /\ Len(L) \in Nat /\ Len(L) > 0
  BY <1>1, TextsAreTyped
<1>3. L[1] \in Seq(Chars)
  BY <1>2
<1>4. 0 + 1 = 1 /\ 0 + 1 \in 1..Len(L) /\ 0 \in Nat /\ 0 \in 0..Len(L[1])
  BY <1>2, <1>3
<1>5. from_text(t) = Buffer(L, 0, 0)
  BY <1>1, Zenon DEF from_text, Buffer
<1>6. At(Buffer(L, 0, 0), L, Len(L), 0, L[0 + 1], Len(L[0 + 1]), 0)
  BY <1>2, <1>4, PutTogether, Zenon
<1> QED BY <1>5, <1>6, Zenon DEF Sound

\* Every key of the text editor leaves the caret in the text.
LEMMA TextStep ==
  ASSUME Sound(buf), textNext
  PROVE  Sound(buf')
<1>1. PICK L, n, r, l, m, c : At(buf, L, n, r, l, m, c)
  BY Zenon DEF Sound
<1>2. CASE \E x \in Chars : buf' = insert_char(buf, x)
  BY <1>1, <1>2, InsertOk, Zenon
<1>3. CASE buf' = newline(buf)
  BY <1>1, <1>3, NewlineOk, Zenon
<1>4. CASE buf' = backspace(buf)
  BY <1>4, BackspaceOk, Zenon
<1>5. CASE buf' = delete(buf)
  <2>1. 1 \in {-1, 1}
    OBVIOUS
  <2>2. Sound(backspace(move_horizontal(buf, 1)))
    BY <2>1, MovesOk, BackspaceOk, Zenon
  <2>3. delete(buf) = backspace(move_horizontal(buf, 1)) \/ delete(buf) = buf
    BY <1>1, DeleteIs
  <2> QED BY <1>5, <2>2, <2>3, Zenon
<1>6. CASE \E d \in {-1, 1} : buf' = move_horizontal(buf, d) \/ buf' = move_vertical(buf, d)
  BY <1>6, MovesOk, Zenon
<1> QED BY <1>2, <1>3, <1>4, <1>5, <1>6, Zenon DEF textNext

\* A sound buffer is as CaretInText says.
LEMMA SoundCaret ==
  ASSUME Sound(buf)
  PROVE  CaretInText
<1>1. PICK L, n, r, l, m, c : At(buf, L, n, r, l, m, c)
  BY Zenon DEF Sound
<1>2. buf.lines = L /\ buf.row = r /\ buf.col = c /\ Line(buf) = l /\ InText(buf) /\ n = Len(L) /\ m = Len(l)
  BY <1>1, InTextAt, AtIs, Zenon
<1>3. \A x \in Chars : backspace(insert_char(buf, x)) = buf
  BY <1>1, InsertOk, Zenon
<1>4. backspace(newline(buf)) = buf
  BY <1>1, NewlineOk, Zenon
<1>5. c < m \/ r + 1 < n => delete(buf) = backspace(move_horizontal(buf, 1))
  BY <1>1, DeleteIs
<1> QED BY <1>2, <1>3, <1>4, <1>5, Zenon DEF CaretInText

\* The caret of the policy editor stays in the text.
LEMMA CaretStays == textSpec => []CaretInText
<1>1. textInit => TextInv
  BY OpenedOk, Zenon DEF textInit, TextInv
<1>2. TextInv /\ [textNext]_buf => TextInv'
  <2>1. ASSUME Sound(buf), buf' = buf PROVE Sound(buf')
    BY <2>1, Zenon
  <2> QED BY <2>1, TextStep, Zenon DEF TextInv
<1>3. TextInv => CaretInText
  BY SoundCaret, Zenon DEF TextInv
<1> QED BY <1>1, <1>2, <1>3, PTL DEF textSpec

-------------------------------------------------------------------------------
(* The terminal UI.                                                        *)

\* What the lists of a snapshot are: sequences.
Proper(x) == Len(x) \in Nat /\ (Len(x) = 0 => x = << >>)
ShownOk(snapshot) == \A s \in [Lists -> Nat] : \A l \in Lists : Proper(RowsOf(snapshot, s, l))

\* The selected row of a list is one of its rows.
Fits(snapshot, s, l) == RowsOf(snapshot, s, l) # << >> => s[l] < Len(RowsOf(snapshot, s, l))
Clampable == Indexed \cup {"agent"}
FitAll(snapshot, s) == \A l \in Clampable : Fits(snapshot, s, l)

FocusLists == [dashboard |-> {"dash_env", "dash_var", "dash_hist"}, agents |-> {"agent", "session"},
               promote |-> {"ref", "env"}]
FocusOk(f) == DOMAIN f = DOMAIN FocusLists /\ \A v \in DOMAIN FocusLists : f[v] \in FocusLists[v]

ListsOk ==
  /\ project \in Projects /\ \E p \in Projects : loaded = load(p)
  /\ sel \in [Lists -> Nat] /\ FitAll(loaded, sel) /\ FocusOk(focus)

EditorOk(e) ==
  /\ DOMAIN e = {"target", "mode", "draft", "raw", "cursor", "editing", "valid"}
  /\ e.target \in Range(PolicyNames) \cup {NewPolicy} /\ e.draft \in Drafts /\ e.raw \in Texts
  /\ e.cursor \in 1..5

\* While a modal is open, it is about what it showed.
Question(m, e) == [action |-> m, document |-> IF m.op = "apply" THEN effective_yaml(e) ELSE None]
AskOk == \/ modal = None /\ asked = None
         \/ /\ modal \in PendingAction /\ asked = Question(modal, editor)
            /\ modal.op = "apply" => modal.name = editor.target

TuiInv == ListsOk /\ EditorOk(editor) /\ AskOk

\* A sequence is proper.
LEMMA SequenceProper ==
  ASSUME NEW X, NEW x \in Seq(X)
  PROVE  Proper(x)
BY DEF Proper

\* What the loader changes of a project, and what not.
LEMMA LoadedIs ==
  ASSUME NEW p \in Projects
  PROVE  /\ load(p).agents = p.agents /\ load(p).sessions = p.sessions /\ load(p).envs = p.envs
         /\ load(p).branches = p.branches /\ load(p).audit = p.audit /\ load(p).remotes = p.remotes
         /\ load(p).history = p.history /\ load(p).diff = p.diff
         /\ load(p).variables = [i \in DOMAIN p.variables |-> mask_reference(p.variables[i])]
<1>1. DOMAIN p = {"agents", "sessions", "envs", "branches", "audit", "remotes", "variables", "history", "diff"}
  BY ProjectsAreSnapshots, Zenon DEF IsSnapshot
<1>2. PICK vs : vs = [i \in DOMAIN p.variables |-> mask_reference(p.variables[i])]
  OBVIOUS
<1>3. load(p) = [p EXCEPT !.variables = vs]
  BY <1>2, Zenon DEF load, load_snapshot
<1> QED BY <1>1, <1>2, <1>3

\* The rows of a list other than the sessions.
LEMMA RowsAre ==
  ASSUME NEW n, NEW s
  PROVE  /\ RowsOf(n, s, "agent") = n.agents /\ RowsOf(n, s, "session") = FocusedSessions(n, s)
         /\ RowsOf(n, s, "audit") = n.audit /\ RowsOf(n, s, "ref") = n.branches
         /\ RowsOf(n, s, "env") = n.envs /\ RowsOf(n, s, "dash_env") = n.envs
         /\ RowsOf(n, s, "remote") = n.remotes /\ RowsOf(n, s, "dash_var") = n.variables
         /\ RowsOf(n, s, "dash_hist") = n.history /\ RowsOf(n, s, "diff") = n.diff
BY DEF RowsOf, ShownIn

\* The rows depend on the selected agent only.
LEMMA RowsSame ==
  ASSUME NEW n, NEW s, NEW t, s["agent"] = t["agent"], NEW l
  PROVE  RowsOf(n, s, l) = RowsOf(n, t, l)
BY Zenon DEF RowsOf, FocusedSessions

\* The sessions shown are those of an agent, or none.
LEMMA SessionsAre ==
  ASSUME NEW p \in Projects, NEW s \in [Lists -> Nat]
  PROVE  \/ FocusedSessions(load(p), s) = << >>
         \/ \E a \in Range(p.agents) : /\ FocusedSessions(load(p), s) = SessionsOf(p, a)
                                       /\ SessionsOf(p, a) \in Seq(Range(SessionsOf(p, a)))
<1>1. PICK n : n = load(p) /\ n.agents = p.agents /\ n.sessions = p.sessions
  BY LoadedIs
<1>2. s["agent"] \in Nat
  BY DEF Lists
<1>3. PICK as : as = p.agents /\ as \in Seq(Range(as))
  <2>1. "agents" \in DOMAIN p \ {"sessions"}
    <3>1. DOMAIN p = {"agents", "sessions", "envs", "branches", "audit", "remotes", "variables", "history", "diff"}
      BY ProjectsAreSnapshots, Zenon DEF IsSnapshot
    <3> QED BY <3>1
  <2>2. \A l \in DOMAIN p \ {"sessions"} : p[l] \in Seq(Range(p[l]))
    BY ProjectsAreSnapshots, Zenon DEF IsSnapshot
  <2> QED BY <2>1, <2>2, Zenon
<1>4. CASE s["agent"] < Len(as)
  <2>1. s["agent"] + 1 \in DOMAIN as
    BY <1>2, <1>3, <1>4
  <2>2. PICK a : a = as[s["agent"] + 1] /\ a \in Range(p.agents)
    BY <1>3, <2>1, Zenon DEF Range
  <2>3. FocusedSessions(n, s) = SessionsOf(n, a)
    BY <1>1, <1>3, <1>4, <2>2, Zenon DEF FocusedSessions
  <2>4. SessionsOf(n, a) = SessionsOf(p, a)
    BY <1>1, Zenon DEF SessionsOf
  <2>5. p.sessions[a] = None \/ p.sessions[a] \in Seq(Range(p.sessions[a]))
    BY <2>2, ProjectsAreSnapshots, Zenon DEF IsSnapshot
  <2>6. SessionsOf(p, a) = << >> \/ SessionsOf(p, a) \in Seq(Range(SessionsOf(p, a)))
    BY <2>5, Zenon DEF SessionsOf
  <2> QED BY <1>1, <2>2, <2>3, <2>4, <2>6, Zenon
<1>5. CASE ~(s["agent"] < Len(as))
  BY <1>1, <1>3, <1>5, Zenon DEF FocusedSessions
<1> QED BY <1>4, <1>5

\* The lists of a snapshot are sequences.
LEMMA LoadedShown ==
  ASSUME NEW p \in Projects
  PROVE  ShownOk(load(p))
<1>1. PICK n : n = load(p)
  OBVIOUS
<1>2. \A l \in DOMAIN p \ {"sessions"} : p[l] \in Seq(Range(p[l]))
  BY ProjectsAreSnapshots, Zenon DEF IsSnapshot
<1>3. DOMAIN p = {"agents", "sessions", "envs", "branches", "audit", "remotes", "variables", "history", "diff"}
  BY ProjectsAreSnapshots, Zenon DEF IsSnapshot
<1>4. /\ Proper(p.agents) /\ Proper(p.envs) /\ Proper(p.branches) /\ Proper(p.audit) /\ Proper(p.remotes)
      /\ Proper(p.history) /\ Proper(p.diff) /\ p.variables \in Seq(Range(p.variables))
  <2>1. \A l \in {"agents", "envs", "branches", "audit", "remotes", "variables", "history", "diff"} :
          l \in DOMAIN p \ {"sessions"}
    BY <1>3
  <2>2. \A l \in {"agents", "envs", "branches", "audit", "remotes", "variables", "history", "diff"} :
          p[l] \in Seq(Range(p[l])) /\ Proper(p[l])
    BY <1>2, <2>1, SequenceProper, Zenon
  <2> QED BY <2>2, Zenon
<1>5. Proper(n.variables)
  <2>1. PICK k \in Nat : DOMAIN p.variables = 1..k
    BY <1>4
  <2>2. PICK vs : vs = [i \in 1..k |-> mask_reference(p.variables[i])] /\ n.variables = vs
    BY <1>1, <2>1, LoadedIs, Zenon
  <2>3. vs = [i \in 1..k |-> vs[i]]
    BY <2>2
  <2>4. vs \in Seq(ToSet(vs))
    BY <2>3, IsSequence, Zenon
  <2> QED BY <2>2, <2>4, SequenceProper, Zenon
<1>6. Proper(<< >>)
  BY DEF Proper
<1>7. ASSUME NEW s \in [Lists -> Nat] PROVE Proper(FocusedSessions(n, s))
  BY <1>1, <1>6, SessionsAre, SequenceProper, Zenon
<1>8. ASSUME NEW s \in [Lists -> Nat], NEW l \in Lists PROVE Proper(RowsOf(n, s, l))
  <2>1. /\ n.agents = p.agents /\ n.envs = p.envs /\ n.branches = p.branches /\ n.audit = p.audit
        /\ n.remotes = p.remotes /\ n.history = p.history /\ n.diff = p.diff
    BY <1>1, LoadedIs, Zenon
  <2>2. /\ Proper(RowsOf(n, s, "agent")) /\ Proper(RowsOf(n, s, "session")) /\ Proper(RowsOf(n, s, "audit"))
        /\ Proper(RowsOf(n, s, "ref")) /\ Proper(RowsOf(n, s, "env")) /\ Proper(RowsOf(n, s, "dash_env"))
        /\ Proper(RowsOf(n, s, "remote")) /\ Proper(RowsOf(n, s, "dash_var"))
        /\ Proper(RowsOf(n, s, "dash_hist")) /\ Proper(RowsOf(n, s, "diff"))
    BY <1>4, <1>5, <1>7, <2>1, RowsAre, Zenon
  <2> QED BY <2>2, Zenon DEF Lists
<1> QED BY <1>1, <1>8, Zenon DEF ShownOk

\* A clamped index is one of n.
LEMMA ClampIs ==
  ASSUME NEW i \in Nat, NEW n \in Nat
  PROVE  Clamp(i, n) \in Nat /\ (n # 0 => Clamp(i, n) < n)
BY DEF Clamp

\* Where a snapshot is swapped in, every selection is clamped to it.
LEMMA SwapOk ==
  ASSUME NEW p \in Projects, NEW s \in [Lists -> Nat], swap_loaded(s, load(p))
  PROVE  loaded' = load(p) /\ sel' \in [Lists -> Nat] /\ FitAll(loaded', sel')
<1>1. PICK n : n = load(p) /\ ShownOk(n) /\ loaded' = n /\ sel' = Clamped(s, n)
  BY LoadedShown, Zenon DEF swap_loaded
<1>2. \A l \in Indexed : l \in Lists /\ l # "agent"
  BY DEF Indexed, Lists
<1>3. "agent" \in Lists /\ "agent" \notin Indexed
  BY DEF Indexed, Lists
<1>4. Len(n.agents) \in Nat /\ (Len(n.agents) = 0 => n.agents = << >>)
  BY <1>1, <1>3, RowsAre, Zenon DEF ShownOk, Proper
<1>5. PICK a \in Nat : a = Clamp(s["agent"], Len(n.agents)) /\ (n.agents # << >> => a < Len(n.agents))
  <2>1. s["agent"] \in Nat
    BY <1>3
  <2>2. Clamp(s["agent"], Len(n.agents)) \in Nat /\ (Len(n.agents) # 0 => Clamp(s["agent"], Len(n.agents)) < Len(n.agents))
    BY <1>4, <2>1, ClampIs, Zenon
  <2> QED BY <1>4, <2>2, Zenon
<1>6. PICK t : t = [s EXCEPT !["agent"] = a]
  OBVIOUS
<1>7. t \in [Lists -> Nat] /\ t["agent"] = a
  BY <1>3, <1>6
<1>8. PICK u : u = [l \in Lists |-> IF l \in Indexed THEN Clamp(t[l], Len(RowsOf(n, t, l))) ELSE t[l]]
  OBVIOUS
<1>9. sel' = u
  BY <1>1, <1>5, <1>6, <1>8, Zenon DEF Clamped
<1>10. ASSUME NEW l \in Indexed
       PROVE  u[l] \in Nat /\ (RowsOf(n, t, l) # << >> => u[l] < Len(RowsOf(n, t, l)))
  <2>1. l \in Lists /\ t[l] \in Nat
    BY <1>2, <1>7
  <2>2. Len(RowsOf(n, t, l)) \in Nat /\ (Len(RowsOf(n, t, l)) = 0 => RowsOf(n, t, l) = << >>)
    BY <1>1, <1>7, <2>1, Zenon DEF ShownOk, Proper
  <2>3. u[l] = Clamp(t[l], Len(RowsOf(n, t, l)))
    BY <1>8, <2>1, Zenon
  <2>4. Clamp(t[l], Len(RowsOf(n, t, l))) \in Nat
        /\ (Len(RowsOf(n, t, l)) # 0 => Clamp(t[l], Len(RowsOf(n, t, l))) < Len(RowsOf(n, t, l)))
    BY <2>1, <2>2, ClampIs, Zenon
  <2> QED BY <2>2, <2>3, <2>4, Zenon
<1>11. u["agent"] = a
  BY <1>3, <1>7, <1>8, Zenon
<1>12. u \in [Lists -> Nat]
  <2>1. \A l \in Lists : u[l] \in Nat
    BY <1>7, <1>8, <1>10
  <2> QED BY <1>8, <2>1
<1>13. \A l : RowsOf(n, u, l) = RowsOf(n, t, l)
  BY <1>7, <1>11, RowsSame, Zenon
<1>14. FitAll(n, u)
  <2>1. Fits(n, u, "agent")
    BY <1>5, <1>11, RowsAre, Zenon DEF Fits
  <2>2. \A l \in Indexed : Fits(n, u, l)
    BY <1>10, <1>13, Zenon DEF Fits
  <2> QED BY <2>1, <2>2, Zenon DEF FitAll, Clampable
<1> QED BY <1>1, <1>9, <1>12, <1>14, Zenon

\* The editor's documents are texts.
LEMMA YamlIs ==
  ASSUME NEW e, EditorOk(e)
  PROVE  effective_yaml(e) \in Texts
<1>1. CASE e.mode = "raw"
  BY <1>1, Zenon DEF effective_yaml, EditorOk
<1>2. CASE e.mode # "raw"
  <2>1. effective_yaml(e) = build_document(e.draft, e.target)
    BY <1>2, Zenon DEF effective_yaml
  <2>2. CASE e.draft = Garbage
    BY <2>1, <2>2, Zenon DEF build_document, Texts
  <2>3. CASE e.draft # Garbage
    <3>1. e.draft \in Bodies /\ e.target \in Range(PolicyNames) \cup {NewPolicy} /\ NoLimits \in Limits
      BY <2>3, DocumentsExist, Zenon DEF EditorOk, Drafts
    <3>2. [name |-> e.target, body |-> e.draft, limits |-> NoLimits] \in PolicyTexts
      BY <3>1 DEF PolicyTexts
    <3> QED BY <2>1, <2>3, <3>2, Zenon DEF build_document, Texts
  <2> QED BY <2>2, <2>3
<1> QED BY <1>1, <1>2

\* A text that is valid is a document.
LEMMA BodyIs ==
  ASSUME NEW t \in Texts, t # Garbage
  PROVE  from_document(t) \in Drafts
<1>1. t \in PolicyTexts
  BY Zenon DEF Texts
<1>2. t.body \in Bodies
  BY <1>1 DEF PolicyTexts
<1> QED BY <1>2, Zenon DEF from_document, Drafts

\* Changing one field leaves the others.
LEMMA EditorChange ==
  ASSUME NEW e, EditorOk(e)
  PROVE  /\ \A v : EditorOk([e EXCEPT !.valid = v]) /\ EditorOk([e EXCEPT !.editing = v]) /\ EditorOk([e EXCEPT !.mode = v])
         /\ \A v \in Texts : EditorOk([e EXCEPT !.raw = v])
         /\ \A v \in Drafts : EditorOk([e EXCEPT !.draft = v])
         /\ \A v \in 1..5 : EditorOk([e EXCEPT !.cursor = v])
<1>1. ASSUME NEW v
      PROVE EditorOk([e EXCEPT !.valid = v]) /\ EditorOk([e EXCEPT !.editing = v]) /\ EditorOk([e EXCEPT !.mode = v])
  BY DEF EditorOk
<1>2. ASSUME NEW v \in Texts PROVE EditorOk([e EXCEPT !.raw = v])
  BY DEF EditorOk
<1>3. ASSUME NEW v \in Drafts PROVE EditorOk([e EXCEPT !.draft = v])
  BY DEF EditorOk
<1>4. ASSUME NEW v \in 1..5 PROVE EditorOk([e EXCEPT !.cursor = v])
  BY DEF EditorOk
<1> QED BY <1>1, <1>2, <1>3, <1>4, Zenon

\* Validating changes the verdict only.
LEMMA RevalidateOk ==
  ASSUME NEW e, EditorOk(e)
  PROVE  EditorOk(revalidate(e))
<1>1. PICK v : v = (effective_yaml(e) # Garbage)
  OBVIOUS
<1>2. revalidate(e) = [e EXCEPT !.valid = v]
  BY <1>1 DEF revalidate
<1> QED BY <1>2 DEF EditorOk

\* A new editor.
LEMMA NewEditorOk ==
  ASSUME NEW named \in Range(PolicyNames) \cup {NewPolicy}, NEW base \in PolicyTexts
  PROVE  EditorOk(NewEditor(named, base))
<1>1. PICK e : e = [target |-> named, mode |-> "form", draft |-> from_document(base), raw |-> base,
                    cursor |-> 1, editing |-> FALSE, valid |-> FALSE]
  OBVIOUS
<1>2. from_document(base) \in Drafts /\ base \in Texts
  <2>1. base.body \in Bodies
    BY DEF PolicyTexts
  <2> QED BY <2>1, Zenon DEF from_document, Drafts, Texts
<1>3. EditorOk(e)
  BY <1>1, <1>2 DEF EditorOk
<1>4. NewEditor(named, base) = revalidate(e)
  BY <1>1, Zenon DEF NewEditor
<1> QED BY <1>3, <1>4, RevalidateOk, Zenon

\* Both ways between the form and the raw text.
LEMMA TogglesOk ==
  ASSUME NEW e, EditorOk(e)
  PROVE  EditorOk(toggle_to_raw(e)) /\ EditorOk(toggle_to_form(e))
<1>1. EditorOk(toggle_to_raw(e))
  <2>1. PICK t \in Texts : t = effective_yaml(e)
    BY YamlIs, Zenon
  <2>2. PICK d : d = [e EXCEPT !.editing = FALSE, !.raw = t, !.mode = "raw"]
    OBVIOUS
  <2>3. EditorOk(d)
    BY <2>2 DEF EditorOk
  <2>4. toggle_to_raw(e) = revalidate(d)
    BY <2>1, <2>2, Zenon DEF toggle_to_raw
  <2> QED BY <2>3, <2>4, RevalidateOk, Zenon
<1>2. EditorOk(toggle_to_form(e))
  <2>1. CASE e.raw = Garbage
    BY <2>1, Zenon DEF toggle_to_form
  <2>2. CASE e.raw # Garbage
    <3>1. PICK b \in Drafts : b = from_document(e.raw)
      BY <2>2, BodyIs, Zenon DEF EditorOk
    <3>2. PICK d : d = [e EXCEPT !.draft = b, !.mode = "form"]
      OBVIOUS
    <3>3. EditorOk(d)
      BY <3>2 DEF EditorOk
    <3>4. toggle_to_form(e) = revalidate(d)
      BY <2>2, <3>1, <3>2, Zenon DEF toggle_to_form
    <3> QED BY <3>3, <3>4, RevalidateOk, Zenon
  <2> QED BY <2>1, <2>2
<1> QED BY <1>1, <1>2

\* What a key makes of the editor that has the keyboard.
LEMMA EditorKeyOk ==
  ASSUME NEW e, EditorOk(e), NEW k, NEW d \in editor_handle_key(e, k)
  PROVE  EditorOk(d)
<1>1. CASE e.mode = "raw"
  <2>1. PICK t : t \in apply_text_key(e.raw, Texts, k) /\ d = revalidate([e EXCEPT !.raw = t])
    BY <1>1, Zenon DEF editor_handle_key
  <2>2. t \in Texts
    BY <2>1, Zenon DEF apply_text_key, EditorOk
  <2> QED BY <2>1, <2>2, EditorChange, RevalidateOk, Zenon
<1>2. CASE e.mode # "raw"
  <2>1. \/ d = [e EXCEPT !.editing = FALSE]
        \/ \E t \in apply_text_key(e.draft, Drafts, k) : d = revalidate([e EXCEPT !.draft = t])
    BY <1>2, Zenon DEF editor_handle_key
  <2>2. CASE d = [e EXCEPT !.editing = FALSE]
    BY <2>2, EditorChange, Zenon
  <2>3. CASE \E t \in apply_text_key(e.draft, Drafts, k) : d = revalidate([e EXCEPT !.draft = t])
    <3>1. PICK t \in apply_text_key(e.draft, Drafts, k) : d = revalidate([e EXCEPT !.draft = t])
      BY <2>3
    <3>2. t \in Drafts
      BY <3>1, Zenon DEF apply_text_key, EditorOk
    <3> QED BY <3>1, <3>2, EditorChange, RevalidateOk, Zenon
  <2> QED BY <2>1, <2>2, <2>3
<1> QED BY <1>1, <1>2

\* Moving over the fields of the form.
LEMMA CursorOk ==
  ASSUME NEW e, EditorOk(e), NEW k
  PROVE  EditorOk(move_field_cursor(e, k))
<1>1. PICK c : c = IF k.code = "Up" THEN IF e.cursor = 1 THEN Len(EditableFields) ELSE e.cursor - 1
                   ELSE IF e.cursor = Len(EditableFields) THEN 1 ELSE e.cursor + 1
  OBVIOUS
<1>2. Len(EditableFields) = 5
  BY DEF EditableFields
<1>3. e.cursor \in 1..5
  BY Zenon DEF EditorOk
<1>4. c \in 1..5
  BY <1>1, <1>2, <1>3
<1>5. move_field_cursor(e, k) = [e EXCEPT !.cursor = c, !.editing = FALSE]
  BY <1>1 DEF move_field_cursor
<1> QED BY <1>4, <1>5 DEF EditorOk

\* A list that is scrolled stays at one of its rows.
LEMMA ScrollIs ==
  ASSUME sel \in [Lists -> Nat], ShownOk(loaded), NEW l \in Lists, NEW d \in {-1, 1}
  PROVE  scroll(l, d) \in Nat /\ (RowsOf(loaded, sel, l) # << >> => scroll(l, d) < Len(RowsOf(loaded, sel, l)))
<1>1. PICK rows : rows = RowsOf(loaded, sel, l) /\ Proper(rows)
  BY Zenon DEF ShownOk
<1>2. PICK n \in Nat : n = Len(rows) /\ (n = 0 => rows = << >>)
  BY <1>1, Zenon DEF Proper
<1>3. PICK i \in Nat : i = sel[l]
  OBVIOUS
<1>4. scroll(l, d) = IF n = 0 THEN 0 ELSE IF i + d < 0 THEN 0 ELSE IF i + d > n - 1 THEN n - 1 ELSE i + d
  BY <1>1, <1>2, <1>3, Zenon DEF scroll
<1>5. PICK x : x = IF n = 0 THEN 0 ELSE IF i + d < 0 THEN 0 ELSE IF i + d > n - 1 THEN n - 1 ELSE i + d
  OBVIOUS
<1>6. x \in Nat /\ (n # 0 => x < n)
  BY <1>5
<1> QED BY <1>1, <1>2, <1>4, <1>5, <1>6, Zenon

\* The list the arrows move in is a list.
LEMMA ScrolledIs ==
  ASSUME FocusOk(focus), NEW view \in {"dashboard", "diff", "agents", "audit", "promote", "sync"}
  PROVE  ScrolledList(view) \in Lists
<1>1. "diff" \in Lists /\ "audit" \in Lists /\ "remote" \in Lists
  BY DEF Lists
<1>2. DOMAIN FocusLists = {"dashboard", "agents", "promote"} /\ \A v \in DOMAIN FocusLists : FocusLists[v] \subseteq Lists
  BY DEF FocusLists, Lists
<1>3. \A v \in {"dashboard", "agents", "promote"} : focus[v] \in Lists
  BY <1>2, Zenon DEF FocusOk
<1> QED BY <1>1, <1>3, Zenon DEF ScrolledList

\* After the arrows every list is at one of its rows.
LEMMA ScrollOk ==
  ASSUME sel \in [Lists -> Nat], ShownOk(loaded), FitAll(loaded, sel), NEW l \in Lists, NEW x \in Nat,
         RowsOf(loaded, sel, l) # << >> => x < Len(RowsOf(loaded, sel, l)),
         sel' = [sel EXCEPT ![l] = x, !["session"] = IF l = "agent" THEN 0 ELSE IF l = "session" THEN x ELSE @]
  PROVE  sel' \in [Lists -> Nat] /\ FitAll(loaded, sel')
<1>1. PICK t : t = sel'
  OBVIOUS
<1>2. "session" \in Lists /\ "agent" \in Lists /\ "session" # "agent" /\ Clampable \subseteq Lists
  BY DEF Lists, Clampable, Indexed
<1>3. /\ t \in [Lists -> Nat]
      /\ \A h \in Lists : t[h] = IF h = "session" /\ l = "agent" THEN 0 ELSE IF h = l THEN x ELSE sel[h]
  BY <1>1, <1>2
<1>4. CASE l = "agent"
  <2>1. t["agent"] = x /\ t["session"] = 0
    BY <1>2, <1>3, <1>4, Zenon
  <2>2. \A h \in Clampable : h # "agent" /\ h # "session" => t[h] = sel[h]
    BY <1>2, <1>3, <1>4, Zenon
  <2>3. \A h : h # "session" => RowsOf(loaded, t, h) = RowsOf(loaded, sel, h)
    BY Zenon DEF RowsOf
  <2>4. Fits(loaded, t, "agent")
    BY <1>2, <1>4, <2>1, <2>3, Zenon DEF Fits
  <2>5. Fits(loaded, t, "session")
    <3>1. Proper(RowsOf(loaded, t, "session"))
      BY <1>2, <1>3, Zenon DEF ShownOk
    <3>2. RowsOf(loaded, t, "session") # << >> => 0 < Len(RowsOf(loaded, t, "session"))
      BY <3>1 DEF Proper
    <3> QED BY <2>1, <3>2, Zenon DEF Fits
  <2>6. \A h \in Clampable : h # "agent" /\ h # "session" => Fits(loaded, t, h)
    BY <2>2, <2>3, Zenon DEF FitAll, Fits
  <2> QED BY <1>1, <1>3, <2>4, <2>5, <2>6, Zenon DEF FitAll
<1>5. CASE l # "agent"
  <2>1. t["agent"] = sel["agent"] /\ t[l] = x
    BY <1>2, <1>3, <1>5, Zenon
  <2>2. \A h \in Clampable : h # l => t[h] = sel[h]
    BY <1>2, <1>3, <1>5, Zenon
  <2>3. \A h : RowsOf(loaded, t, h) = RowsOf(loaded, sel, h)
    BY <2>1, RowsSame, Zenon
  <2>4. \A h \in Clampable : h # l => Fits(loaded, t, h)
    BY <2>2, <2>3, Zenon DEF FitAll, Fits
  <2>5. Fits(loaded, t, l)
    BY <2>1, <2>3, Zenon DEF Fits
  <2> QED BY <1>1, <1>3, <2>4, <2>5, Zenon DEF FitAll
<1> QED BY <1>4, <1>5

\* Names in use are non-empty lists of the rows shown.
LEMMA LoadedOk ==
  ASSUME ListsOk
  PROVE  ShownOk(loaded)
BY LoadedShown, Zenon DEF ListsOk

\* A row that is highlighted is one of its list.
LEMMA HighlightedIs ==
  ASSUME NEW X, NEW rows \in Seq(X), NEW l \in Lists, sel \in [Lists -> Nat], Highlighted(l, rows) # None
  PROVE  Highlighted(l, rows) \in Range(rows)
<1>1. PICK i \in Nat : i = sel[l]
  OBVIOUS
<1>2. i < Len(rows) /\ Highlighted(l, rows) = rows[i + 1]
  BY <1>1, Zenon DEF Highlighted
<1>3. i + 1 \in DOMAIN rows
  BY <1>1, <1>2
<1> QED BY <1>2, <1>3, Zenon DEF Range

\* Where no modal is open, nothing is asked.
LEMMA NothingAsked ==
  ASSUME AskOk, modal = None
  PROVE  asked = None
BY NoneIsNoQuestion, Zenon DEF AskOk

\* Keys that are not for the modal come without one.
LEMMA NoModalOpen ==
  ASSUME NEW k, NEW h, Pressed(k, h), h # "modal", AskOk
  PROVE  modal = None /\ asked = None
<1>1. Heard(k) = h
  BY Zenon DEF Pressed
<1>2. modal = None
  BY <1>1, Zenon DEF Heard
<1> QED BY <1>2, NothingAsked, Zenon

\* What the initial state is.
LEMMA TuiInitOk ==
  ASSUME tuiInit
  PROVE  TuiInv
<1>1. ListsOk
  <2>1. project \in Projects /\ loaded = load(project) /\ sel = [l \in Lists |-> 0]
        /\ focus = [dashboard |-> "dash_env", agents |-> "agent", promote |-> "ref"]
    BY Zenon DEF tuiInit
  <2>2. sel \in [Lists -> Nat] /\ \A l \in Lists : sel[l] = 0
    BY <2>1
  <2>3. FocusOk(focus)
    BY <2>1 DEF FocusOk, FocusLists
  <2>4. ShownOk(loaded)
    BY <2>1, LoadedShown, Zenon
  <2>5. Clampable \subseteq Lists
    BY DEF Clampable, Indexed, Lists
  <2>6. ASSUME NEW l \in Clampable PROVE Fits(loaded, sel, l)
    <3>1. l \in Lists
      BY <2>5, Zenon
    <3>2. Proper(RowsOf(loaded, sel, l)) /\ sel[l] = 0
      BY <2>2, <2>4, <3>1, Zenon DEF ShownOk
    <3>3. RowsOf(loaded, sel, l) # << >> => 0 < Len(RowsOf(loaded, sel, l))
      BY <3>2 DEF Proper
    <3> QED BY <3>2, <3>3, Zenon DEF Fits
  <2> QED BY <2>1, <2>2, <2>3, <2>6, Zenon DEF ListsOk, FitAll
<1>2. EditorOk(editor)
  <2>1. CASE StoredNames = << >>
    <3>1. editor = NewEditor(NewPolicy, TEMPLATE_YAML)
      BY <2>1, Zenon DEF tuiInit
    <3>2. PICK b \in Bodies : b = CHOOSE c \in Bodies : TRUE
      BY DocumentsExist
    <3>3. TEMPLATE_YAML = [name |-> NewPolicy, body |-> b, limits |-> NoLimits]
      BY <3>2 DEF TEMPLATE_YAML
    <3>4. TEMPLATE_YAML \in PolicyTexts
      BY <3>3, DocumentsExist DEF PolicyTexts
    <3> QED BY <3>1, <3>4, NewEditorOk, Zenon
  <2>2. CASE StoredNames # << >>
    <3>1. editor = NewEditor(Head(StoredNames), policy_files[Head(StoredNames)])
      BY <2>2, Zenon DEF tuiInit
    <3>2. PICK S : S = {n \in Range(PolicyNames) : policy_files[n] # None}
      OBVIOUS
    <3>3. StoredNames \in Seq(Range(PolicyNames) \cap S)
      BY <3>2, DocumentsExist, FilteredIs, Zenon DEF StoredNames
    <3>4. PICK t : t = Head(StoredNames)
      OBVIOUS
    <3>5. t \in Range(PolicyNames) \cap S
      BY <2>2, <3>3, <3>4
    <3>6. t \in Range(PolicyNames) /\ policy_files[t] # None
      BY <3>2, <3>5, Zenon
    <3>7. policy_files \in [Range(PolicyNames) -> {None} \cup PolicyTexts]
      BY Zenon DEF tuiInit
    <3>8. policy_files[t] \in {None} \cup PolicyTexts
      BY <3>6, <3>7, Zenon
    <3> QED BY <3>1, <3>4, <3>6, <3>8, NewEditorOk, Zenon
  <2> QED BY <2>1, <2>2
<1>3. AskOk
  BY Zenon DEF tuiInit, AskOk
<1> QED BY <1>1, <1>2, <1>3, Zenon DEF TuiInv

-------------------------------------------------------------------------------
(* What the actions leave alone, and what they read again.                 *)

ListsSame == project' = project /\ loaded' = loaded /\ sel' = sel /\ focus' = focus
AskSame == modal' = modal /\ asked' = asked /\ editor' = editor

\* Leaving the lists alone keeps what is known of them.
LEMMA ListsKept ==
  ASSUME ListsOk, ListsSame
  PROVE  ListsOk'
<1>1. project' \in Projects /\ \E p \in Projects : loaded' = load(p)
  BY Zenon DEF ListsOk, ListsSame
<1>2. sel' \in [Lists -> Nat] /\ FitAll(loaded', sel') /\ FocusOk(focus')
  BY Zenon DEF ListsOk, ListsSame
<1> QED BY <1>1, <1>2, Zenon DEF ListsOk, FitAll, Fits, FocusOk, RowsOf, FocusedSessions

\* Leaving the modal and the editor alone keeps what is known of them.
LEMMA AskKept ==
  ASSUME AskOk, AskSame
  PROVE  AskOk'
BY Zenon DEF AskOk, AskSame, Question, effective_yaml

\* A snapshot read again.
LEMMA ListsReloaded ==
  ASSUME ListsOk, reload, project' = project, focus' = focus
  PROVE  ListsOk'
<1>1. sel \in [Lists -> Nat] /\ project \in Projects /\ FocusOk(focus)
  BY Zenon DEF ListsOk
<1>2. loaded' = load(project) /\ sel' \in [Lists -> Nat] /\ FitAll(loaded', sel')
  BY <1>1, SwapOk, Zenon DEF reload
<1> QED BY <1>1, <1>2, Zenon DEF ListsOk

\* What ConfirmedAsShown says of a step.
ShownFirst ==
  presses' # presses /\ done' # None =>
    /\ done'.op = "revoke" => asked # None /\ asked.action = done'
    /\ done'.op = "apply" => /\ asked # None /\ asked.action = [op |-> "apply", name |-> done'.name]
                             /\ asked.document = done'.document
    /\ done'.op = "promote" =>
         IF EnvOf(project, done'.env).protected \/ asked # None
         THEN asked # None /\ asked.action = [op |-> "promote", from |-> done'.from, env |-> done'.env]
         ELSE /\ promotion_target_line.from = done'.from
              /\ promotion_target_line.env.name = done'.env

\* A step that does nothing to the services.
LEMMA QuietShown ==
  ASSUME done' = None \/ presses' = presses
  PROVE  ShownFirst
BY Zenon DEF ShownFirst

\* The invariant after a step, of its parts.
LEMMA Together ==
  ASSUME ListsOk', EditorOk(editor'), AskOk'
  PROVE  TuiInv'
<1>1. EditorOk(editor)'
  BY Zenon DEF EditorOk
<1> QED BY <1>1, Zenon DEF TuiInv

\* Nothing is asked after a step.
LEMMA AskedNothing ==
  ASSUME modal' = None, asked' = None
  PROVE  AskOk'
BY Zenon DEF AskOk

\* The keys that go to another view, or quit.
LEMMA QuitStep ==
  ASSUME TuiInv, NEW k, Quit(k)
  PROVE  TuiInv' /\ ShownFirst
<1>1. ListsSame /\ AskSame /\ done' = None
  BY Zenon DEF Quit, NoModal, Quiet, ListsSame, AskSame
<1>2. EditorOk(editor')
  BY <1>1, Zenon DEF TuiInv, AskSame
<1> QED BY <1>1, <1>2, ListsKept, AskKept, Together, QuietShown, Zenon DEF TuiInv

\* The keys that go to another view keep the invariant.
LEMMA SwitchStep ==
  ASSUME TuiInv, NEW k, GoTo(k) \/ Back(k)
  PROVE  TuiInv' /\ ShownFirst
<1>1. PICK h \in {"global", "promote", "sync"} : Pressed(k, h)
  <2>1. "global" \in {"global", "promote", "sync"} /\ "promote" \in {"global", "promote", "sync"}
        /\ "sync" \in {"global", "promote", "sync"}
    OBVIOUS
  <2> QED BY <2>1, Zenon DEF GoTo, Back
<1>2. h # "modal"
  BY <1>1
<1>3. ListsSame /\ editor' = [editor EXCEPT !.editing = FALSE] /\ modal' = modal /\ asked' = asked /\ done' = None
  BY Zenon DEF GoTo, Back, SwitchRoute, NoModal, Quiet, ListsSame
<1>4. modal' = None /\ asked' = None
  BY <1>1, <1>2, <1>3, NoModalOpen, Zenon DEF TuiInv
<1>5. EditorOk(editor')
  <2>1. EditorOk([editor EXCEPT !.editing = FALSE])
    BY EditorChange, Zenon DEF TuiInv
  <2> QED BY <1>3, <2>1, Zenon
<1> QED BY <1>3, <1>4, <1>5, ListsKept, AskedNothing, Together, QuietShown, Zenon DEF TuiInv

\* The keys that read the snapshot again.
LEMMA RefreshStep ==
  ASSUME TuiInv, NEW k, Refresh(k)
  PROVE  TuiInv' /\ ShownFirst
<1>1. reload /\ project' = project /\ focus' = focus /\ AskSame /\ done' = None
  BY Zenon DEF Refresh, NoModal, AskSame
<1>2. EditorOk(editor')
  BY <1>1, Zenon DEF TuiInv, AskSame
<1> QED BY <1>1, <1>2, ListsReloaded, AskKept, Together, QuietShown, Zenon DEF TuiInv

\* Changing the filter keeps the invariant.
LEMMA CycleFilterStep ==
  ASSUME TuiInv, NEW k, CycleFilter(k)
  PROVE  TuiInv' /\ ShownFirst
<1>1. PICK s : s = [sel EXCEPT !["audit"] = 0]
  OBVIOUS
<1>2. swap_loaded(s, load(project)) /\ project' = project /\ focus' = focus /\ AskSame /\ done' = None
  BY <1>1, Zenon DEF CycleFilter, NoModal, AskSame
<1>3. sel \in [Lists -> Nat] /\ project \in Projects /\ FocusOk(focus)
  BY Zenon DEF TuiInv, ListsOk
<1>4. s \in [Lists -> Nat]
  BY <1>1, <1>3
<1>5. loaded' = load(project) /\ sel' \in [Lists -> Nat] /\ FitAll(loaded', sel')
  BY <1>2, <1>3, <1>4, SwapOk, Zenon
<1>6. ListsOk'
  BY <1>2, <1>3, <1>5, Zenon DEF ListsOk
<1>7. EditorOk(editor')
  BY <1>2, Zenon DEF TuiInv, AskSame
<1> QED BY <1>2, <1>6, <1>7, AskKept, Together, QuietShown, Zenon DEF TuiInv

\* The arrows.
LEMMA ScrollStep ==
  ASSUME TuiInv, NEW k, NEW view, Scroll(k, view)
  PROVE  TuiInv' /\ ShownFirst
<1>1. project' = project /\ loaded' = loaded /\ focus' = focus /\ AskSame /\ done' = None
  BY Zenon DEF Scroll, NoModal, Quiet, AskSame
<1>2. view \in {"dashboard", "diff", "agents", "audit", "promote", "sync"}
  BY Zenon DEF Scroll
<1>3. sel \in [Lists -> Nat] /\ FitAll(loaded, sel) /\ FocusOk(focus) /\ ShownOk(loaded)
  BY LoadedOk, Zenon DEF TuiInv, ListsOk
<1>4. PICK l \in Lists : l = ScrolledList(view)
  BY <1>2, <1>3, ScrolledIs, Zenon
<1>5. vertical_delta(k) \in {-1, 1}
  BY DEF vertical_delta
<1>6. PICK x \in Nat : x = scroll(l, vertical_delta(k)) /\ (RowsOf(loaded, sel, l) # << >> => x < Len(RowsOf(loaded, sel, l)))
  BY <1>3, <1>5, ScrollIs, Zenon
<1>7. sel' = [sel EXCEPT ![l] = x, !["session"] = IF l = "agent" THEN 0 ELSE IF l = "session" THEN x ELSE @]
  BY <1>4, <1>6, Zenon DEF Scroll
<1>8. sel' \in [Lists -> Nat] /\ FitAll(loaded, sel')
  BY <1>3, <1>6, <1>7, ScrollOk
<1>9. ListsOk'
  BY <1>1, <1>3, <1>8, Zenon DEF TuiInv, ListsOk
<1>10. EditorOk(editor')
  BY <1>1, Zenon DEF TuiInv, AskSame
<1> QED BY <1>1, <1>9, <1>10, AskKept, Together, QuietShown, Zenon DEF TuiInv

\* Moving the focus keeps the invariant.
LEMMA TabStep ==
  ASSUME TuiInv, NEW k, NEW view, Tab(k, view)
  PROVE  TuiInv' /\ ShownFirst
<1>1. project' = project /\ loaded' = loaded /\ sel' = sel /\ AskSame /\ done' = None
  BY Zenon DEF Tab, NoModal, Quiet, AskSame
<1>2. view \in DOMAIN NextFocus /\ focus' = [focus EXCEPT ![view] = NextFocus[view][focus[view]]]
  BY Zenon DEF Tab
<1>3. DOMAIN focus = {"dashboard", "agents", "promote"} /\ focus["dashboard"] \in {"dash_env", "dash_var", "dash_hist"}
      /\ focus["agents"] \in {"agent", "session"} /\ focus["promote"] \in {"ref", "env"}
  <2>1. FocusOk(focus)
    BY Zenon DEF TuiInv, ListsOk
  <2> QED BY <2>1 DEF FocusOk, FocusLists
<1>4. view \in {"dashboard", "agents", "promote"}
  BY <1>2 DEF NextFocus
<1>5. PICK g : g = NextFocus[view][focus[view]]
  OBVIOUS
<1>6. g \in FocusLists[view]
  <2>1. CASE view = "dashboard"
    BY <1>3, <1>5, <2>1 DEF NextFocus, FocusLists
  <2>2. CASE view = "agents"
    BY <1>3, <1>5, <2>2 DEF NextFocus, FocusLists
  <2>3. CASE view = "promote"
    BY <1>3, <1>5, <2>3 DEF NextFocus, FocusLists
  <2> QED BY <1>4, <2>1, <2>2, <2>3
<1>7. FocusOk(focus')
  <2>1. FocusOk(focus)
    BY Zenon DEF TuiInv, ListsOk
  <2>2. focus' = [focus EXCEPT ![view] = g]
    BY <1>2, <1>5, Zenon
  <2>3. DOMAIN focus' = DOMAIN FocusLists /\ \A v \in DOMAIN FocusLists : focus'[v] = IF v = view THEN g ELSE focus[v]
    BY <2>1, <2>2 DEF FocusOk
  <2> QED BY <1>6, <2>1, <2>3, Zenon DEF FocusOk
<1>8. ListsOk'
  BY <1>1, <1>7, Zenon DEF TuiInv, ListsOk
<1>9. EditorOk(editor')
  BY <1>1, Zenon DEF TuiInv, AskSame
<1> QED BY <1>1, <1>8, <1>9, AskKept, Together, QuietShown, Zenon DEF TuiInv

\* The keys of the editor.
LEMMA EditorStep ==
  ASSUME TuiInv, NEW k, CaptureEsc(k) \/ CaptureKey(k) \/ policy_editor_key(k)
  PROVE  TuiInv' /\ ShownFirst
<1>1. ListsSame /\ modal' = modal /\ asked' = asked /\ done' = None /\ Pressed(k, "editor")
  BY Zenon DEF CaptureEsc, CaptureKey, policy_editor_key, NoModal, Quiet, ListsSame
<1>2. "editor" # "modal"
  OBVIOUS
<1>3. modal' = None /\ asked' = None
  BY <1>1, <1>2, NoModalOpen, Zenon DEF TuiInv
<1>4. EditorOk(editor)
  BY Zenon DEF TuiInv
<1>5. \A v : EditorOk([editor EXCEPT !.editing = v])
  BY <1>4, EditorChange, Zenon
<1>6. EditorOk(editor')
  <2>1. CASE CaptureEsc(k)
    <3>1. editor' = toggle_to_form(editor) \/ editor' = [editor EXCEPT !.editing = FALSE]
      BY <2>1, Zenon DEF CaptureEsc
    <3> QED BY <1>4, <1>5, <3>1, TogglesOk, Zenon
  <2>2. CASE CaptureKey(k)
    <3>1. editor' \in editor_handle_key(editor, k)
      BY <2>2, Zenon DEF CaptureKey
    <3> QED BY <1>4, <3>1, EditorKeyOk, Zenon
  <2>3. CASE policy_editor_key(k)
    <3>1. \/ editor' = toggle_to_raw(editor) \/ editor' = move_field_cursor(editor, k)
          \/ editor' = [editor EXCEPT !.editing = TRUE]
      BY <2>3, Zenon DEF policy_editor_key
    <3> QED BY <1>4, <1>5, <3>1, TogglesOk, CursorOk, Zenon
  <2> QED BY <2>1, <2>2, <2>3
<1> QED BY <1>1, <1>3, <1>6, ListsKept, AskedNothing, Together, QuietShown, Zenon DEF TuiInv

\* The background sync and the other processes.
LEMMA SyncStep ==
  ASSUME TuiInv, (\E k : start_sync_action(k)) \/ \E c : poll_pending_sync(c)
  PROVE  TuiInv' /\ ShownFirst
<1>1. project' = project /\ focus' = focus /\ AskSame /\ (done' = None \/ presses' = presses)
  BY Zenon DEF start_sync_action, poll_pending_sync, NoModal, AskSame, uiVars, uiVarsButModal
<1>2. reload \/ (loaded' = loaded /\ sel' = sel)
  BY Zenon DEF start_sync_action, poll_pending_sync, uiVars, uiVarsButModal
<1>3. ListsOk'
  <2>1. CASE reload
    BY <1>1, <2>1, ListsReloaded, Zenon DEF TuiInv
  <2>2. CASE loaded' = loaded /\ sel' = sel
    BY <1>1, <2>2, ListsKept, Zenon DEF TuiInv, ListsSame
  <2> QED BY <1>2, <2>1, <2>2
<1>4. EditorOk(editor')
  BY <1>1, Zenon DEF TuiInv, AskSame
<1> QED BY <1>1, <1>3, <1>4, AskKept, Together, QuietShown, Zenon DEF TuiInv

\* What other processes do to the project keeps the invariant.
LEMMA OthersStep ==
  ASSUME TuiInv, NEW p \in Projects, Others(p)
  PROVE  TuiInv' /\ ShownFirst
<1>1. project' = p /\ loaded' = loaded /\ sel' = sel /\ focus' = focus /\ AskSame /\ presses' = presses
  BY Zenon DEF Others, uiVars, uiVarsButModal, AskSame
<1>2. ListsOk'
  BY <1>1, Zenon DEF TuiInv, ListsOk
<1>3. EditorOk(editor')
  BY <1>1, Zenon DEF TuiInv, AskSame
<1> QED BY <1>1, <1>2, <1>3, AskKept, Together, QuietShown, Zenon DEF TuiInv

\* An effect that reads the snapshot again, or fails and changes nothing.
LEMMA EffectLists ==
  ASSUME ListsOk, focus' = focus, (reload /\ project' = project) \/ Failed
  PROVE  ListsOk'
<1>1. CASE reload /\ project' = project
  BY <1>1, ListsReloaded, Zenon
<1>2. CASE Failed
  BY <1>2, ListsKept, Zenon DEF Failed, ListsSame
<1> QED BY <1>1, <1>2

\* A modal that has been opened.
LEMMA Asking ==
  ASSUME NEW m \in PendingAction, Ask(m), editor' = editor, m.op = "apply" => m.name = editor.target
  PROVE  AskOk'
<1>1. modal' = m
  BY Zenon DEF Ask
<1>2. asked' = Question(modal', editor')
  <2>1. CASE m.op = "apply"
    BY <1>1, <2>1, Zenon DEF Ask, Question, effective_yaml
  <2>2. CASE m.op # "apply"
    BY <1>1, <2>2, Zenon DEF Ask, Question
  <2> QED BY <2>1, <2>2
<1> QED BY <1>1, <1>2, Zenon DEF AskOk, Question, effective_yaml

\* The branches and environments on display are some project's.
LEMMA PromoteRows ==
  ASSUME ListsOk
  PROVE  /\ selected_promote_ref # None => \E p \in Projects : selected_promote_ref \in Range(p.branches)
         /\ selected_promote_env # None => \E p \in Projects : selected_promote_env.name \in EnvNames(p)
<1>1. PICK p \in Projects : loaded = load(p)
  BY Zenon DEF ListsOk
<1>2. loaded.branches = p.branches /\ loaded.envs = p.envs
  BY <1>1, LoadedIs, Zenon
<1>3. p.branches \in Seq(Range(p.branches)) /\ p.envs \in Seq(Range(p.envs))
  <2>1. "branches" \in DOMAIN p \ {"sessions"} /\ "envs" \in DOMAIN p \ {"sessions"}
    <3>1. DOMAIN p = {"agents", "sessions", "envs", "branches", "audit", "remotes", "variables", "history", "diff"}
      BY ProjectsAreSnapshots, Zenon DEF IsSnapshot
    <3> QED BY <3>1
  <2>2. \A l \in DOMAIN p \ {"sessions"} : p[l] \in Seq(Range(p[l]))
    BY ProjectsAreSnapshots, Zenon DEF IsSnapshot
  <2> QED BY <2>1, <2>2, Zenon
<1>4. "ref" \in Lists /\ "env" \in Lists /\ sel \in [Lists -> Nat]
  <2>1. "ref" \in Lists /\ "env" \in Lists
    BY DEF Lists
  <2> QED BY <2>1, Zenon DEF ListsOk
<1>5. selected_promote_ref # None => selected_promote_ref \in Range(p.branches)
  BY <1>2, <1>3, <1>4, HighlightedIs, Zenon DEF selected_promote_ref
<1>6. selected_promote_env # None => selected_promote_env \in Range(p.envs)
  BY <1>2, <1>3, <1>4, HighlightedIs, Zenon DEF selected_promote_env
<1>7. selected_promote_env # None => selected_promote_env.name \in EnvNames(p)
  BY <1>6, Zenon DEF EnvNames
<1> QED BY <1>1, <1>5, <1>7, Zenon

\* The session on display is some project's.
LEMMA SessionRow ==
  ASSUME ListsOk, selected_session_id # None
  PROVE  \E p \in Projects : \E a \in Range(p.agents) : selected_session_id \in Range(SessionsOf(p, a))
<1>1. PICK p \in Projects : loaded = load(p)
  BY Zenon DEF ListsOk
<1>2. "session" \in Lists /\ sel \in [Lists -> Nat]
  <2>1. "session" \in Lists
    BY DEF Lists
  <2> QED BY <2>1, Zenon DEF ListsOk
<1>3. PICK rows : rows = FocusedSessions(loaded, sel)
  OBVIOUS
<1>4. Highlighted("session", rows) # None /\ selected_session_id = Highlighted("session", rows)
  BY <1>3, Zenon DEF selected_session_id
<1>5. rows # << >>
  <2>1. ASSUME rows = << >> PROVE FALSE
    <3>1. PICK i \in Nat : i = sel["session"]
      BY <1>2, Zenon
    <3>2. Len(rows) = 0
      BY <2>1
    <3>3. ~(i < Len(rows))
      BY <3>1, <3>2
    <3> QED BY <1>4, <3>1, <3>3, Zenon DEF Highlighted
  <2> QED BY <2>1
<1>6. PICK a \in Range(p.agents) : rows = SessionsOf(p, a) /\ rows \in Seq(Range(rows))
  BY <1>1, <1>2, <1>3, <1>5, SessionsAre, Zenon
<1>7. Highlighted("session", rows) \in Range(rows)
  BY <1>2, <1>4, <1>6, HighlightedIs, Zenon
<1> QED BY <1>1, <1>4, <1>6, <1>7, Zenon

\* The questions a modal may ask.
LEMMA Questions ==
  /\ \A p \in Projects : \A a \in Range(p.agents) : \A s \in Range(SessionsOf(p, a)) :
             [op |-> "revoke", session |-> s] \in PendingAction
  /\ \A p, q \in Projects : \A f \in Range(p.branches) : \A e \in EnvNames(q) :
             [op |-> "promote", from |-> f, env |-> e] \in PendingAction
  /\ \A n \in Range(PolicyNames) \cup {NewPolicy} : [op |-> "apply", name |-> n] \in PendingAction
<1> DEFINE S == UNION {UNION {Range(SessionsOf(p, a)) : a \in Range(p.agents)} : p \in Projects}
           B == UNION {Range(p.branches) : p \in Projects}
           E == UNION {EnvNames(p) : p \in Projects}
<1>1. PendingAction = [op : {"revoke"}, session : S] \cup [op : {"promote"}, from : B, env : E]
                        \cup [op : {"apply"}, name : Range(PolicyNames) \cup {NewPolicy}]
  BY Zenon DEF PendingAction
<1>2. \A p \in Projects : \A a \in Range(p.agents) : \A s \in Range(SessionsOf(p, a)) : s \in S
  OBVIOUS
<1>3. \A p \in Projects : \A f \in Range(p.branches) : f \in B
  OBVIOUS
<1>4. \A q \in Projects : \A e \in EnvNames(q) : e \in E
  OBVIOUS
<1> HIDE DEF S, B, E
<1>5. \A s \in S : [op |-> "revoke", session |-> s] \in PendingAction
  BY <1>1
<1>6. \A f \in B, e \in E : [op |-> "promote", from |-> f, env |-> e] \in PendingAction
  BY <1>1
<1>7. \A n \in Range(PolicyNames) \cup {NewPolicy} : [op |-> "apply", name |-> n] \in PendingAction
  BY <1>1
<1>8. \A p \in Projects : \A a \in Range(p.agents) : \A s \in Range(SessionsOf(p, a)) :
         [op |-> "revoke", session |-> s] \in PendingAction
  BY <1>2, <1>5, Zenon
<1>9. \A p, q \in Projects : \A f \in Range(p.branches) : \A e \in EnvNames(q) :
         [op |-> "promote", from |-> f, env |-> e] \in PendingAction
  BY <1>3, <1>4, <1>6, Zenon
<1> QED BY <1>7, <1>8, <1>9, Zenon

\* A question is what its kind says.
LEMMA QuestionIs ==
  ASSUME NEW m \in PendingAction
  PROVE  /\ m.op = "revoke" => m = [op |-> "revoke", session |-> m.session]
         /\ m.op = "promote" => m = [op |-> "promote", from |-> m.from, env |-> m.env]
         /\ m.op = "apply" => m = [op |-> "apply", name |-> m.name]
<1>1. PICK S : S = UNION {UNION {Range(SessionsOf(p, a)) : a \in Range(p.agents)} : p \in Projects}
  OBVIOUS
<1>2. PICK B : B = UNION {Range(p.branches) : p \in Projects}
  OBVIOUS
<1>3. PICK E : E = UNION {EnvNames(p) : p \in Projects}
  OBVIOUS
<1>4. \/ m \in [op : {"revoke"}, session : S]
      \/ m \in [op : {"promote"}, from : B, env : E]
      \/ m \in [op : {"apply"}, name : Range(PolicyNames) \cup {NewPolicy}]
  BY <1>1, <1>2, <1>3, Zenon DEF PendingAction
<1>5. CASE m \in [op : {"revoke"}, session : S]
  BY <1>5
<1>6. CASE m \in [op : {"promote"}, from : B, env : E]
  BY <1>6
<1>7. CASE m \in [op : {"apply"}, name : Range(PolicyNames) \cup {NewPolicy}]
  BY <1>7
<1> QED BY <1>4, <1>5, <1>6, <1>7

\* The steps that open a modal.
LEMMA RevokeAsked ==
  ASSUME TuiInv, NEW k, request_revoke_session(k)
  PROVE  TuiInv' /\ ShownFirst
<1>1. PICK m : m = [op |-> "revoke", session |-> selected_session_id]
  OBVIOUS
<1>2. Ask(m) /\ ListsSame /\ editor' = editor /\ done' = None /\ selected_session_id # None
  BY <1>1, Zenon DEF request_revoke_session, uiVarsButModal, Quiet, ListsSame
<1>3. m \in PendingAction
  BY <1>1, <1>2, SessionRow, Questions, Zenon DEF TuiInv
<1>4. m.op # "apply"
  BY <1>1
<1>5. AskOk'
  BY <1>2, <1>3, <1>4, Asking, Zenon
<1>6. EditorOk(editor')
  BY <1>2, Zenon DEF TuiInv
<1> QED BY <1>2, <1>5, <1>6, ListsKept, Together, QuietShown, Zenon DEF TuiInv

\* Asking before a policy is written keeps the invariant.
LEMMA ApplyAsked ==
  ASSUME TuiInv, NEW k, request_apply_policy(k)
  PROVE  TuiInv' /\ ShownFirst
<1>1. PICK m : m = [op |-> "apply", name |-> editor.target]
  OBVIOUS
<1>2. Ask(m) /\ ListsSame /\ editor' = editor /\ done' = None
  BY <1>1, Zenon DEF request_apply_policy, uiVarsButModal, Quiet, ListsSame
<1>3. m \in PendingAction
  BY <1>1, Questions, Zenon DEF TuiInv, EditorOk
<1>4. m.name = editor.target
  BY <1>1
<1>5. AskOk'
  BY <1>2, <1>3, <1>4, Asking, Zenon
<1>6. EditorOk(editor')
  BY <1>2, Zenon DEF TuiInv
<1> QED BY <1>2, <1>5, <1>6, ListsKept, Together, QuietShown, Zenon DEF TuiInv

\* Promoting, with and without a question.
LEMMA PromotionStep ==
  ASSUME TuiInv, NEW k, begin_promotion(k)
  PROVE  TuiInv' /\ ShownFirst
<1>1. PICK env, from : env = selected_promote_env /\ from = selected_promote_ref
  OBVIOUS
<1>2. env # None /\ from # None /\ Pressed(k, "promote")
  BY <1>1, Zenon DEF begin_promotion
<1>3. CASE env.protected
  <2>1. PICK m : m = [op |-> "promote", from |-> from, env |-> env.name]
    OBVIOUS
  <2>2. Ask(m) /\ ListsSame /\ editor' = editor /\ done' = None
    BY <1>1, <1>3, <2>1, Zenon DEF begin_promotion, uiVarsButModal, Quiet, ListsSame
  <2>3. m \in PendingAction
    BY <1>1, <1>2, <2>1, PromoteRows, Questions, Zenon DEF TuiInv
  <2>4. m.op # "apply"
    BY <2>1
  <2>5. AskOk'
    BY <2>2, <2>3, <2>4, Asking, Zenon
  <2>6. EditorOk(editor')
    BY <2>2, Zenon DEF TuiInv
  <2> QED BY <2>2, <2>5, <2>6, ListsKept, Together, QuietShown, Zenon DEF TuiInv
<1>4. CASE ~env.protected
  <2>1. Promote(from, env.name, FALSE) /\ focus' = focus /\ AskSame
    BY <1>1, <1>4, Zenon DEF begin_promotion, AskSame
  <2>2. (reload /\ project' = project) \/ Failed
    BY <2>1, Zenon DEF Promote
  <2>3. ListsOk'
    BY <2>1, <2>2, EffectLists, Zenon DEF TuiInv
  <2>4. EditorOk(editor')
    BY <2>1, Zenon DEF TuiInv, AskSame
  <2>5. TuiInv'
    BY <2>1, <2>3, <2>4, AskKept, Together, Zenon DEF TuiInv
  <2>6. "promote" # "modal"
    OBVIOUS
  <2>7. asked = None
    BY <1>2, <2>6, NoModalOpen, Zenon DEF TuiInv
  <2>8. CASE Failed
    BY <2>5, <2>8, QuietShown, Zenon DEF Failed
  <2>9. CASE ~Failed
    <3>1. Promotable(from, env.name, FALSE) /\ done' = [op |-> "promote", from |-> from, env |-> env.name, force |-> FALSE]
      BY <2>1, <2>9, Zenon DEF Promote, Performed
    <3>2. ~EnvOf(project, env.name).protected
      BY <3>1, Zenon DEF Promotable
    <3>3. done'.op = "promote" /\ done'.from = from /\ done'.env = env.name
      BY <3>1
    <3>4. promotion_target_line = [from |-> from, env |-> env]
      BY <1>1, <1>2, Zenon DEF promotion_target_line
    <3>5. promotion_target_line.from = from /\ promotion_target_line.env = env
      BY <3>4
    <3>6. done'.op # "revoke" /\ done'.op # "apply"
      BY <3>3
    <3>7. ShownFirst
      BY <2>7, <3>2, <3>3, <3>5, <3>6, Zenon DEF ShownFirst
    <3> QED BY <2>5, <3>7
  <2> QED BY <2>8, <2>9
<1> QED BY <1>3, <1>4

-------------------------------------------------------------------------------
(* The view on display is one of the views.                                *)

RouteOk == route \in Views

\* The digits lead to views.
LEMMA DigitsAre ==
  ASSUME NEW d \in DOMAIN Digits
  PROVE  Digits[d] \in Views
<1>1. d \in {"1", "2", "3", "4", "5", "6", "7"}
  BY DEF Digits
<1> QED BY <1>1 DEF Digits, Views

\* Every step leads to a view.
LEMMA RouteStep ==
  ASSUME RouteOk, tuiNext
  PROVE  RouteOk'
<1>1. "dashboard" \in Views
  BY DEF Views
<1>2. ASSUME NEW k, GoTo(k) PROVE RouteOk'
  BY <1>2, DigitsAre, Zenon DEF GoTo, SwitchRoute, RouteOk
<1>3. ASSUME NEW k, Back(k) PROVE RouteOk'
  BY <1>1, <1>3, Zenon DEF Back, SwitchRoute, RouteOk
<1>4. ASSUME NEW k, Quit(k) \/ Refresh(k) \/ CycleFilter(k) \/ \E v \in Views : Scroll(k, v) \/ Tab(k, v)
      PROVE route' = route
  BY <1>4, Zenon DEF Quit, Refresh, CycleFilter, Scroll, Tab
<1>5. ASSUME NEW k, request_revoke_session(k) \/ begin_promotion(k) \/ request_apply_policy(k) \/ Dismiss(k)
      PROVE route' = route
  BY <1>5, Zenon DEF request_revoke_session, begin_promotion, request_apply_policy, Dismiss, uiVarsButModal
<1>6. ASSUME NEW k, \/ ConfirmRevoke(k) \/ ConfirmPromote(k) \/ ConfirmApply(k) \/ CaptureEsc(k) \/ CaptureKey(k)
                    \/ policy_editor_key(k) \/ start_sync_action(k)
      PROVE route' = route
  BY <1>6, Zenon DEF ConfirmRevoke, ConfirmPromote, ConfirmApply, CaptureEsc, CaptureKey, policy_editor_key,
       start_sync_action, uiVars, uiVarsButModal
<1>7. ASSUME NEW c, poll_pending_sync(c) PROVE route' = route
  BY <1>7, Zenon DEF poll_pending_sync
<1>8. ASSUME NEW p, Others(p) PROVE route' = route
  BY <1>8, Zenon DEF Others, uiVars, uiVarsButModal
<1>9. route' = route => RouteOk'
  BY Zenon DEF RouteOk
<1> QED BY <1>2, <1>3, <1>4, <1>5, <1>6, <1>7, <1>8, <1>9, Zenon DEF tuiNext

-------------------------------------------------------------------------------
(* What is confirmed was asked.                                            *)

\* What is confirmed is what the modal put before the user.
LEMMA ConfirmedAsked ==
  ASSUME TuiInv, RouteOk, NEW k, NEW op, Confirmed(k, op)
  PROVE  /\ modal.op = op /\ modal' = None /\ asked' = None /\ modal \in PendingAction /\ asked # None
         /\ asked.action = modal /\ (modal.op = "apply" => asked.document = effective_yaml(editor))
         /\ (modal.op = "apply" => modal.name = editor.target)
<1>1. modal.op = op /\ modal' = None /\ asked' = None /\ Heard(k) = "modal"
  BY Zenon DEF Confirmed, Pressed
<1>2. route # "modal" /\ "editor" # "modal" /\ "global" # "modal"
  BY DEF RouteOk, Views
<1>3. modal # None
  BY <1>1, <1>2, Zenon DEF Heard
<1>4. modal \in PendingAction /\ asked = Question(modal, editor) /\ (modal.op = "apply" => modal.name = editor.target)
  BY <1>3, Zenon DEF TuiInv, AskOk
<1>5. PICK d : d = IF modal.op = "apply" THEN effective_yaml(editor) ELSE None
  OBVIOUS
<1>6. d \in Texts \cup {None}
  BY <1>5, YamlIs, Zenon DEF TuiInv
<1>7. asked = [action |-> modal, document |-> d]
  BY <1>4, <1>5, Zenon DEF Question
<1>8. asked.action = modal /\ asked.document = d
  BY <1>7
<1>9. asked \in [action : PendingAction, document : Texts \cup {None}]
  BY <1>4, <1>6, <1>7
<1>10. asked # None
  BY <1>9, NoneIsNoQuestion, Zenon
<1> QED BY <1>1, <1>4, <1>5, <1>8, <1>10, Zenon

\* Dismissing a modal keeps the invariant.
LEMMA DismissStep ==
  ASSUME TuiInv, NEW k, Dismiss(k)
  PROVE  TuiInv' /\ ShownFirst
<1>1. modal' = None /\ asked' = None /\ ListsSame /\ editor' = editor /\ done' = None
  BY Zenon DEF Dismiss, uiVarsButModal, Quiet, ListsSame
<1>2. EditorOk(editor')
  BY <1>1, Zenon DEF TuiInv
<1> QED BY <1>1, <1>2, ListsKept, AskedNothing, Together, QuietShown, Zenon DEF TuiInv

\* The session revoked is the one the modal showed.
LEMMA RevokeStep ==
  ASSUME TuiInv, RouteOk, NEW k, ConfirmRevoke(k)
  PROVE  TuiInv' /\ ShownFirst
<1>1. Confirmed(k, "revoke") /\ revoke_session(modal.session) /\ focus' = focus /\ editor' = editor
  BY Zenon DEF ConfirmRevoke
<1>2. modal.op = "revoke" /\ modal' = None /\ asked' = None /\ modal \in PendingAction /\ asked # None /\ asked.action = modal
  BY <1>1, ConfirmedAsked, Zenon
<1>3. (reload /\ project' = project) \/ Failed
  BY <1>1, Zenon DEF revoke_session
<1>4. ListsOk'
  BY <1>1, <1>3, EffectLists, Zenon DEF TuiInv
<1>5. EditorOk(editor')
  BY <1>1, Zenon DEF TuiInv
<1>6. TuiInv'
  BY <1>2, <1>4, <1>5, AskedNothing, Together, Zenon
<1>7. done' = None \/ done' = [op |-> "revoke", session |-> modal.session]
  BY <1>1, Zenon DEF revoke_session, Failed, Performed
<1>8. modal = [op |-> "revoke", session |-> modal.session]
  BY <1>2, QuestionIs, Zenon
<1>9. CASE done' = None
  BY <1>6, <1>9, QuietShown, Zenon
<1>10. CASE done' = [op |-> "revoke", session |-> modal.session]
  <2>1. done' = modal
    BY <1>8, <1>10, Zenon
  <2>2. done'.op = "revoke" /\ done'.op # "apply" /\ done'.op # "promote"
    BY <1>10
  <2>3. ShownFirst
    BY <1>2, <2>1, <2>2, Zenon DEF ShownFirst
  <2> QED BY <1>6, <2>3
<1> QED BY <1>7, <1>9, <1>10

\* The environment moved on a confirmation is the one the modal showed.
LEMMA PromoteStep ==
  ASSUME TuiInv, RouteOk, NEW k, ConfirmPromote(k)
  PROVE  TuiInv' /\ ShownFirst
<1>1. Confirmed(k, "promote") /\ Promote(modal.from, modal.env, TRUE) /\ focus' = focus /\ editor' = editor
  BY Zenon DEF ConfirmPromote
<1>2. modal.op = "promote" /\ modal' = None /\ asked' = None /\ modal \in PendingAction /\ asked # None /\ asked.action = modal
  BY <1>1, ConfirmedAsked, Zenon
<1>3. (reload /\ project' = project) \/ Failed
  BY <1>1, Zenon DEF Promote
<1>4. ListsOk'
  BY <1>1, <1>3, EffectLists, Zenon DEF TuiInv
<1>5. EditorOk(editor')
  BY <1>1, Zenon DEF TuiInv
<1>6. TuiInv'
  BY <1>2, <1>4, <1>5, AskedNothing, Together, Zenon
<1>7. done' = None \/ done' = [op |-> "promote", from |-> modal.from, env |-> modal.env, force |-> TRUE]
  BY <1>1, Zenon DEF Promote, Failed, Performed
<1>8. modal = [op |-> "promote", from |-> modal.from, env |-> modal.env]
  BY <1>2, QuestionIs, Zenon
<1>9. CASE done' = None
  BY <1>6, <1>9, QuietShown, Zenon
<1>10. CASE done' = [op |-> "promote", from |-> modal.from, env |-> modal.env, force |-> TRUE]
  <2>1. done'.op = "promote" /\ done'.from = modal.from /\ done'.env = modal.env
    BY <1>10
  <2>2. done'.op # "apply" /\ done'.op # "revoke"
    BY <2>1
  <2>3. asked.action = [op |-> "promote", from |-> done'.from, env |-> done'.env]
    BY <1>2, <1>8, <2>1, Zenon
  <2>4. ShownFirst
    BY <1>2, <2>2, <2>3, Zenon DEF ShownFirst
  <2> QED BY <1>6, <2>4
<1> QED BY <1>7, <1>9, <1>10

\* The document written is the one the modal showed.
LEMMA ApplyStep ==
  ASSUME TuiInv, RouteOk, NEW k, ConfirmApply(k)
  PROVE  TuiInv' /\ ShownFirst
<1>1. Confirmed(k, "apply") /\ focus' = focus /\ editor' = editor
  BY Zenon DEF ConfirmApply
<1>2. /\ modal.op = "apply" /\ modal' = None /\ asked' = None /\ modal \in PendingAction /\ asked # None
      /\ asked.action = modal /\ asked.document = effective_yaml(editor) /\ modal.name = editor.target
  BY <1>1, ConfirmedAsked, Zenon
<1>3. Save(editor.target, effective_yaml(editor)) \/ (sel' = sel /\ Quiet)
  BY Zenon DEF ConfirmApply
<1>4. ListsOk'
  <2>1. CASE Save(editor.target, effective_yaml(editor))
    <3>1. (reload /\ project' = project) \/ Failed
      BY <2>1, Zenon DEF Save
    <3> QED BY <1>1, <3>1, EffectLists, Zenon DEF TuiInv
  <2>2. CASE sel' = sel /\ Quiet
    BY <1>1, <2>2, ListsKept, Zenon DEF TuiInv, Quiet, ListsSame
  <2> QED BY <1>3, <2>1, <2>2
<1>5. EditorOk(editor')
  BY <1>1, Zenon DEF TuiInv
<1>6. TuiInv'
  BY <1>2, <1>4, <1>5, AskedNothing, Together, Zenon
<1>7. done' = None \/ done' = [op |-> "apply", name |-> editor.target, document |-> effective_yaml(editor)]
  BY <1>3, Zenon DEF Save, Failed, Performed, Quiet
<1>8. modal = [op |-> "apply", name |-> modal.name]
  BY <1>2, QuestionIs, Zenon
<1>9. CASE done' = None
  BY <1>6, <1>9, QuietShown, Zenon
<1>10. CASE done' = [op |-> "apply", name |-> editor.target, document |-> effective_yaml(editor)]
  <2>1. done'.op = "apply" /\ done'.name = editor.target /\ done'.document = effective_yaml(editor)
    BY <1>10
  <2>2. done'.op # "promote" /\ done'.op # "revoke"
    BY <2>1
  <2>3. asked.action = [op |-> "apply", name |-> done'.name] /\ asked.document = done'.document
    BY <1>2, <1>8, <2>1, Zenon
  <2>4. ShownFirst
    BY <1>2, <2>2, <2>3, Zenon DEF ShownFirst
  <2> QED BY <1>6, <2>4
<1> QED BY <1>7, <1>9, <1>10

-------------------------------------------------------------------------------
(* The rows highlighted.                                                   *)

\* The highlighted row of a list that is clamped exists.
LEMMA PaneFits ==
  ASSUME NEW l \in Clampable, FitAll(loaded, sel), NEW p, p = Pane(l)
  PROVE  p.rows # << >> => p.at < Len(p.rows)
<1>1. p.rows = RowsOf(loaded, sel, l) /\ p.at = sel[l]
  BY DEF Pane
<1> QED BY <1>1, Zenon DEF FitAll, Fits

\* The highlighted row of every list on display exists.
LEMMA RowsHighlighted ==
  ASSUME TuiInv
  PROVE  HighlightedRowExists
<1>1. sel \in [Lists -> Nat] /\ FitAll(loaded, sel) /\ ShownOk(loaded) /\ editor.cursor \in 1..5
  BY LoadedOk, Zenon DEF TuiInv, ListsOk, EditorOk
<1>2. SUFFICES ASSUME NEW p, p \in render, p \notin render_dashboard
               PROVE  p.rows # << >> => p.at < Len(p.rows)
  BY Zenon DEF HighlightedRowExists
<1>3. \/ p \in render_diff \/ p \in render_policy_editor
      \/ p = Pane("agent") \/ p = Pane("session") \/ p = Pane("audit") \/ p = Pane("ref") \/ p = Pane("env")
      \/ p = Pane("remote")
  BY <1>2, Zenon DEF render, render_agents, render_audit, render_promote, render_sync
<1>4. CASE p \in render_diff
  <2>1. PICK rows : rows = loaded.diff /\ rows = RowsOf(loaded, sel, "diff")
    BY RowsAre, Zenon
  <2>2. "diff" \in Lists
    BY DEF Lists
  <2>3. Proper(rows) /\ sel["diff"] \in Nat
    BY <1>1, <2>1, <2>2, Zenon DEF ShownOk
  <2>4. PICK a : a = Clamp(sel["diff"], Len(rows))
    OBVIOUS
  <2>5. p.rows = rows /\ p.at = a
    <3>1. Pane("diff") = [list |-> "diff", rows |-> rows, at |-> sel["diff"]]
      BY <2>1, Zenon DEF Pane
    <3>2. p = [Pane("diff") EXCEPT !.at = Clamp(Pane("diff").at, Len(rows))]
      BY <1>4, <2>1, Zenon DEF render_diff, selected_index
    <3>3. Pane("diff").at = sel["diff"]
      BY <3>1
    <3>4. p = [Pane("diff") EXCEPT !.at = a]
      BY <2>4, <3>2, <3>3, Zenon
    <3> QED BY <3>1, <3>4
  <2>6. Len(rows) \in Nat /\ (Len(rows) = 0 => rows = << >>)
    BY <2>3, Zenon DEF Proper
  <2>7. Len(rows) # 0 => a < Len(rows)
    BY <2>3, <2>4, <2>6, ClampIs, Zenon
  <2> QED BY <2>5, <2>6, <2>7, Zenon
<1>5. CASE p \in render_policy_editor
  <2>1. p.rows = EditableFields /\ p.at = editor.cursor - 1
    BY <1>5 DEF render_policy_editor
  <2>2. Len(EditableFields) = 5
    BY DEF EditableFields
  <2>3. editor.cursor - 1 < 5
    BY <1>1
  <2> QED BY <2>1, <2>2, <2>3, Zenon
<1>6. /\ "agent" \in Clampable /\ "session" \in Clampable /\ "audit" \in Clampable /\ "ref" \in Clampable
      /\ "env" \in Clampable /\ "remote" \in Clampable
  BY DEF Clampable, Indexed
<1> QED BY <1>1, <1>3, <1>4, <1>5, <1>6, PaneFits, Zenon

-------------------------------------------------------------------------------
(* The terminal UI as a whole.                                             *)

\* Every step of the UI keeps the invariant, and does only what was shown.
LEMMA TuiStep ==
  ASSUME TuiInv, RouteOk, tuiNext
  PROVE  TuiInv' /\ ShownFirst
BY QuitStep, SwitchStep, RefreshStep, CycleFilterStep, ScrollStep, TabStep, EditorStep, SyncStep, OthersStep,
   RevokeAsked, PromotionStep, ApplyAsked, DismissStep, RevokeStep, PromoteStep, ApplyStep, Zenon DEF tuiNext

\* A step that changes nothing.
LEMMA TuiStutter ==
  ASSUME TuiInv, UNCHANGED tuiVars
  PROVE  TuiInv'
<1>1. ListsSame /\ AskSame
  BY Zenon DEF tuiVars, uiVars, uiVarsButModal, ListsSame, AskSame
<1>2. EditorOk(editor')
  BY <1>1, Zenon DEF TuiInv, AskSame
<1> QED BY <1>1, <1>2, ListsKept, AskKept, Together, Zenon DEF TuiInv

\* The terminal UI, whatever it is made to show and however the project changes
\* underneath it (TuiFaithful): the services do what the modal showed, the
\* highlighted row exists, and the caret of the policy editor stays in its text.
THEOREM TuiStaysFaithful == tuiSpec /\ textSpec => TuiFaithful
<1>1. tuiInit => TuiInv /\ RouteOk
  <2>1. tuiInit => RouteOk
    <3>1. "dashboard" \in Views
      BY DEF Views
    <3> QED BY <3>1, Zenon DEF tuiInit, RouteOk
  <2> QED BY <2>1, TuiInitOk, Zenon
<1>2. TuiInv /\ RouteOk /\ [tuiNext]_tuiVars => TuiInv' /\ RouteOk' /\ [ShownFirst]_tuiVars
  <2>1. ASSUME TuiInv, RouteOk, tuiNext PROVE TuiInv' /\ RouteOk' /\ ShownFirst
    BY <2>1, TuiStep, RouteStep, Zenon
  <2>2. ASSUME TuiInv, RouteOk, UNCHANGED tuiVars PROVE TuiInv' /\ RouteOk'
    <3>1. RouteOk'
      BY <2>2, Zenon DEF RouteOk, tuiVars, uiVars, uiVarsButModal
    <3> QED BY <2>2, <3>1, TuiStutter, Zenon
  <2> QED BY <2>1, <2>2, Zenon
<1>3. TuiInv => HighlightedRowExists
  BY RowsHighlighted
<1>4. tuiSpec => []HighlightedRowExists /\ [][ShownFirst]_tuiVars
  BY <1>1, <1>2, <1>3, PTL DEF tuiSpec
<1>5. [][ShownFirst]_tuiVars => ConfirmedAsShown
  BY PTL DEF ShownFirst, ConfirmedAsShown
<1> QED BY <1>4, <1>5, CaretStays, PTL DEF TuiFaithful
===============================================================================
