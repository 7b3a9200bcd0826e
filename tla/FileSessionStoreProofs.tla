------------------------- MODULE FileSessionStoreProofs -------------------------
(***************************************************************************)
(* FileSessionStore implements SessionStore for any number of callers,     *)
(* sessions and crashes.  The inductive invariant says that the callers    *)
(* between load and release are exactly the holder of the flock, and that  *)
(* the snapshot the holder is about to publish is one method of the        *)
(* abstract store applied to the file as it is now: nobody else can have   *)
(* published in between.                                                   *)
(***************************************************************************)
EXTENDS FileSessionStore, SessionRecordsProofs, TLAPS

-------------------------------------------------------------------------------
(* The operators of the instance are the operators of this module.         *)

\* create_impl means the same in the abstract store.
LEMMA SameCreate ==
  ASSUME NEW ss, NEW s, NEW agent, NEW environment, NEW ttl, NEW now
  PROVE  Store!create_impl(ss, s, agent, environment, ttl, now)
           = create_impl(ss, s, agent, environment, ttl, now)
BY DEF Store!create_impl, create_impl, Store!saturating_add, saturating_add

\* delegate_inner and its checks mean the same in the abstract store.
LEMMA SameDelegate ==
  ASSUME NEW ss, NEW s, NEW p, NEW requested, NEW now
  PROVE  /\ Store!narrowed(ss, p, requested) = narrowed(ss, p, requested)
         /\ Store!delegate_verdict(ss, p, requested, now) = delegate_verdict(ss, p, requested, now)
         /\ Store!delegate_inner(ss, s, p, requested) = delegate_inner(ss, s, p, requested)
<1>1. Store!narrowed(ss, p, requested) = narrowed(ss, p, requested)
  BY DEF Store!narrowed, narrowed, Store!narrow, narrow, Store!narrow_set, narrow_set,
         Store!narrow_paths, narrow_paths, Store!narrow_budget, narrow_budget,
         Store!glob_subsumes, glob_subsumes, Store!validate_pattern, validate_pattern,
         Store!Prefix, Prefix, Store!Starred, Starred, Store!covered_prefix, covered_prefix
<1>2. Store!delegate_verdict(ss, p, requested, now) = delegate_verdict(ss, p, requested, now)
  BY <1>1 DEF Store!delegate_verdict, delegate_verdict, Store!is_dead, is_dead,
              Store!validate_pattern, validate_pattern,
              Store!is_unconstrained, is_unconstrained
<1>3. Store!delegate_inner(ss, s, p, requested) = delegate_inner(ss, s, p, requested)
  BY <1>1 DEF Store!delegate_inner, delegate_inner
<1> QED BY <1>1, <1>2, <1>3

\* consume_budget and revoke mean the same in the abstract store.
LEMMA SameConsume ==
  ASSUME NEW ss, NEW s, NEW now
  PROVE  /\ Store!consume_verdict(ss, s, now) = consume_verdict(ss, s, now)
         /\ Store!Budget(ss, s) = Budget(ss, s)
         /\ Store!consume_in(ss, s) = consume_in(ss, s)
         /\ Store!revoke_in(ss, s) = revoke_in(ss, s)
BY DEF Store!consume_verdict, consume_verdict, Store!validate, validate, Store!Live, Live,
       Store!ancestors_live, ancestors_live, Store!Ancestors, Ancestors,
       Store!ParentClosed, ParentClosed, Store!is_dead, is_dead, Store!Budget, Budget,
       Store!consume_in, consume_in, Store!revoke_in, revoke_in

-------------------------------------------------------------------------------
(* The inductive invariant.                                                *)

Owning == {"locked", "persisting", "tmp_synced", "renamed"}
Task == [kind : Kinds, id : SessionIds]

\* Map tt is what the method that runs `task` makes of map ss.
Outcome(ss, tt, task) ==
  \/ /\ task.kind = "revoke"
     /\ ss[task.id] # None
     /\ tt = revoke_in(ss, task.id)
  \/ /\ task.kind = "create"
     /\ ss[task.id] = None
     /\ \E now \in Secs, agent \in Agents, environment \in Environments, ttl \in Ttls :
          tt = create_impl(ss, task.id, agent, environment, ttl, now)
  \/ /\ task.kind = "delegate"
     /\ ss[task.id] = None
     /\ \E now \in Secs, parent \in SessionIds, requested \in Requested :
          /\ delegate_verdict(ss, parent, requested, now) = "ok"
          /\ tt = delegate_inner(ss, task.id, parent, requested)
  \/ /\ task.kind = "consume"
     /\ \E now \in Secs : consume_verdict(ss, task.id, now) = "ok"
     /\ Budget(ss, task.id) # None
     /\ tt = consume_in(ss, task.id)

Exclusive == \A p \in Procs : pc[p] \in Owning <=> lock = p

Pending ==
  \A p \in Procs :
    /\ pc[p] \in {"persisting", "tmp_synced", "renamed"} => doing[p] \in Task
    /\ pc[p] \in {"persisting", "tmp_synced"} => snap[p] \in Maps /\ Outcome(file, snap[p], doing[p])

IInv == TypeOK /\ Exclusive /\ Pending

\* A caller that has not published anything changes nothing the abstract store
\* can see.
LEMMA QuietStep ==
  ASSUME IInv, NEW p \in Procs,
         UNCHANGED <<file, minted, spent, acked>>,
         lock' \in Option(Procs), pc' \in [Procs -> {"idle"} \cup {"waiting"} \cup Owning],
         snap' \in [Procs -> Option(Maps)], doing' \in [Procs -> Option(Task)],
         \A q \in Procs \ {p} :
           /\ pc'[q] = pc[q] /\ snap'[q] = snap[q] /\ doing'[q] = doing[q]
           /\ lock = q <=> lock' = q,
         pc'[p] \in Owning <=> lock' = p,
         pc'[p] \in {"persisting", "tmp_synced", "renamed"} => doing'[p] \in Task,
         pc'[p] \in {"persisting", "tmp_synced"} => snap'[p] \in Maps /\ Outcome(file', snap'[p], doing'[p])
  PROVE  IInv'
<1>1. TypeOK'
  BY DEF IInv, TypeOK, Owning, Maps, Task
<1>2. Exclusive'
  BY DEF IInv, Exclusive
<1>3. Pending'
  BY DEF IInv, Pending
<1> QED BY <1>1, <1>2, <1>3 DEF IInv

\* Every method makes well-formed records of well-formed records.
LEMMA OutcomeType ==
  ASSUME NEW ss \in Maps, NEW tt, NEW task \in Task, Outcome(ss, tt, task)
  PROVE  tt \in Maps
<1>1. task.id \in SessionIds
  BY DEF Task
<1>2. ASSUME ss[task.id] # None PROVE revoke_in(ss, task.id) \in Maps
  BY <1>1, <1>2 DEF revoke_in, Maps, Option, Record
<1>3. ASSUME NEW now \in Secs, NEW agent \in Agents,
             NEW environment \in Environments, NEW ttl \in Ttls
      PROVE  create_impl(ss, task.id, agent, environment, ttl, now) \in Maps
  BY <1>1, CreateType
<1>4. ASSUME NEW now \in Secs, NEW parent \in SessionIds, NEW requested \in Requested,
             delegate_verdict(ss, parent, requested, now) = "ok"
      PROVE  delegate_inner(ss, task.id, parent, requested) \in Maps
  <2>1. ss[parent] # None
    BY <1>4 DEF delegate_verdict
  <2> QED BY <1>1, <2>1, DelegateType
<1>5. ASSUME NEW now \in Secs, consume_verdict(ss, task.id, now) = "ok",
             Budget(ss, task.id) # None
      PROVE  consume_in(ss, task.id) \in Maps
  BY <1>1, <1>5, ConsumeType
<1> QED BY <1>2, <1>3, <1>4, <1>5 DEF Outcome

\* Ending a call, by dropping the guard or by dying, keeps the invariant.
LEMMA EndingKeeps ==
  ASSUME IInv, NEW p \in Procs, UNCHANGED <<file, minted, spent>>,
         acked' \in [minted : SUBSET SessionIds, revoked : SUBSET SessionIds,
                     granted : [SessionIds -> Nat]],
         lock' = IF lock = p THEN None ELSE lock,
         pc' = [pc EXCEPT ![p] = "idle"],
         snap' = [snap EXCEPT ![p] = None],
         doing' = [doing EXCEPT ![p] = None]
  PROVE  IInv'
<1>1. TypeOK'
  BY DEF IInv, TypeOK, Option
<1>2. Exclusive'
  BY NoneIsNoProc DEF IInv, TypeOK, Exclusive, Owning
<1>3. Pending'
  BY DEF IInv, TypeOK, Pending
<1> QED BY <1>1, <1>2, <1>3 DEF IInv

\* A method body prepares an outcome of the live file.
LEMMA BodyPrepares ==
  ASSUME IInv, NEW p \in Procs, Body(p)
  PROVE  \E task \in Task : \E ss :
           /\ pc[p] = "locked"
           /\ Outcome(file, ss, task)
           /\ snap' = [snap EXCEPT ![p] = ss]
           /\ doing' = [doing EXCEPT ![p] = task]
           /\ pc' = [pc EXCEPT ![p] = "persisting"]
           /\ UNCHANGED <<file, lock, minted, spent, acked>>
<1> DEFINE Goal == \E task \in Task : \E ss :
             /\ pc[p] = "locked"
             /\ Outcome(file, ss, task)
             /\ snap' = [snap EXCEPT ![p] = ss]
             /\ doing' = [doing EXCEPT ![p] = task]
             /\ pc' = [pc EXCEPT ![p] = "persisting"]
             /\ UNCHANGED <<file, lock, minted, spent, acked>>
<1>1. ASSUME NEW kind \in Kinds, NEW s \in SessionIds, NEW ss,
             Mutate(p, kind, s, ss), Outcome(file, ss, [kind |-> kind, id |-> s])
      PROVE  Goal
  <2>1. [kind |-> kind, id |-> s] \in Task
    BY DEF Task
  <2> QED BY <1>1, <2>1 DEF Mutate
<1> HIDE DEF Goal
<1>2. ASSUME NEW s \in SessionIds, RevokeBody(p, s) PROVE Goal
  BY <1>1, <1>2 DEF RevokeBody, Outcome, Kinds
<1>3. ASSUME NEW s \in SessionIds, NEW now \in Secs, NEW agent \in Agents,
             NEW environment \in Environments, NEW ttl \in Ttls,
             CreateBody(p, s, agent, environment, ttl, now)
      PROVE  Goal
  BY <1>1, <1>3 DEF CreateBody, Outcome, Kinds
<1>4. ASSUME NEW s \in SessionIds, NEW now \in Secs, NEW parent \in SessionIds,
             NEW requested \in Requested, DelegateBody(p, s, parent, requested, now)
      PROVE  Goal
  BY <1>1, <1>4 DEF DelegateBody, Outcome, Kinds
<1>5. ASSUME NEW s \in SessionIds, NEW now \in Secs, ConsumeBody(p, s, now)
      PROVE  Goal
  BY <1>1, <1>5 DEF ConsumeBody, Outcome, Kinds
<1>6. Goal
  BY <1>2, <1>3, <1>4, <1>5 DEF Body
<1> QED BY <1>6 DEF Goal

\* Publishing replaces the file by its prepared outcome; as nobody else owns
\* the lock, no other snapshot becomes stale.
LEMMA RenameKeeps ==
  ASSUME IInv, NEW p \in Procs, Rename(p)
  PROVE  IInv'
<1>1. doing[p] \in Task /\ snap[p] \in Maps
  BY DEF IInv, Pending, Rename
<1>2. Budget(snap[p], doing[p].id) \in Option(Nat) \/ doing[p].kind # "delegate"
  <2> SUFFICES ASSUME doing[p].kind = "delegate"
               PROVE  Budget(snap[p], doing[p].id) \in Option(Nat)
    OBVIOUS
  <2>1. PICK parent \in SessionIds, requested \in Requested, now \in Secs :
           /\ delegate_verdict(file, parent, requested, now) = "ok"
           /\ snap[p] = delegate_inner(file, doing[p].id, parent, requested)
    BY DEF IInv, Pending, Rename, Outcome
  <2>2. file[parent] # None /\ file \in Maps /\ doing[p].id \in SessionIds
    BY <1>1, <2>1 DEF delegate_verdict, IInv, TypeOK, Maps, Task
  <2>3. snap[p][doing[p].id] \in Record
    BY <2>1, <2>2, DelegateType
  <2> QED BY <2>3 DEF Budget, Record, Option, Constraints
<1>3. TypeOK'
  <2>1. minted' \in [SessionIds -> Option(Nat)] /\ spent' \in [SessionIds -> Nat]
    BY <1>1, <1>2 DEF IInv, TypeOK, Rename, Task
  <2>2. pc' \in [Procs -> {"idle", "waiting", "locked", "persisting", "tmp_synced", "renamed"}]
    BY DEF IInv, TypeOK, Rename
  <2>3. file' \in [SessionIds -> Option(Record)]
    BY <1>1 DEF Rename, Maps
  <2> QED BY <2>1, <2>2, <2>3 DEF IInv, TypeOK, Rename
<1>4. Exclusive'
  BY DEF IInv, TypeOK, Exclusive, Rename, Owning
<1>5. \A q \in Procs \ {p} : pc'[q] = pc[q] /\ pc[q] \notin Owning
  BY DEF IInv, TypeOK, Exclusive, Rename, Owning
<1>6. Pending'
  BY <1>1, <1>5 DEF IInv, TypeOK, Pending, Rename, Owning
<1> QED BY <1>3, <1>4, <1>6 DEF IInv

\* Every step keeps the invariant.
LEMMA IInvInductive ==
  ASSUME IInv, [Next]_vars
  PROVE  IInv'
<1>1. ASSUME NEW p \in Procs, Call(p) \/ LockFails(p) PROVE IInv'
  <2>1. /\ pc[p] \notin Owning
        /\ pc' \in [Procs -> {"idle"} \cup {"waiting"} \cup Owning]
        /\ pc'[p] \notin Owning /\ \A q \in Procs \ {p} : pc'[q] = pc[q]
    BY <1>1 DEF Call, LockFails, IInv, TypeOK, Owning
  <2>2. UNCHANGED <<file, lock, snap, doing, minted, spent, acked>>
    BY <1>1 DEF Call, LockFails
  <2>3. /\ lock' \in Option(Procs) /\ snap' \in [Procs -> Option(Maps)]
        /\ doing' \in [Procs -> Option(Task)] /\ lock # p
    BY <2>1, <2>2 DEF IInv, TypeOK, Maps, Task, Exclusive
  <2> QED BY <2>1, <2>2, <2>3, QuietStep DEF Owning
<1>2. ASSUME NEW p \in Procs, acquire_lock(p) PROVE IInv'
  <2>1. /\ pc' \in [Procs -> {"idle"} \cup {"waiting"} \cup Owning]
        /\ pc'[p] = "locked" /\ \A q \in Procs \ {p} : pc'[q] = pc[q]
    BY <1>2 DEF acquire_lock, IInv, TypeOK, Owning
  <2>2. lock' = p /\ lock = None /\ UNCHANGED <<file, snap, doing, minted, spent, acked>>
    BY <1>2 DEF acquire_lock
  <2>3. /\ lock' \in Option(Procs) /\ snap' \in [Procs -> Option(Maps)]
        /\ doing' \in [Procs -> Option(Task)]
    BY <2>2 DEF IInv, TypeOK, Maps, Task, Option
  <2> QED BY <2>1, <2>2, <2>3, QuietStep, NoneIsNoProc DEF Owning
<1>3. ASSUME NEW p \in Procs, Body(p) PROVE IInv'
  <2>1. PICK task, ss :
           /\ task \in Task
           /\ pc[p] = "locked"
           /\ Outcome(file, ss, task)
           /\ snap' = [snap EXCEPT ![p] = ss]
           /\ doing' = [doing EXCEPT ![p] = task]
           /\ pc' = [pc EXCEPT ![p] = "persisting"]
           /\ UNCHANGED <<file, lock, minted, spent, acked>>
    BY <1>3, BodyPrepares
  <2>2. file \in Maps
    BY DEF IInv, TypeOK, Maps
  <2>3. ss \in Maps
    BY <2>1, <2>2, OutcomeType
  <2>4. /\ pc' \in [Procs -> {"idle"} \cup {"waiting"} \cup Owning]
        /\ snap' \in [Procs -> Option(Maps)] /\ doing' \in [Procs -> Option(Task)]
        /\ pc'[p] = "persisting" /\ snap'[p] = ss /\ doing'[p] = task
        /\ \A q \in Procs \ {p} : pc'[q] = pc[q] /\ snap'[q] = snap[q] /\ doing'[q] = doing[q]
    BY <2>1, <2>3 DEF IInv, TypeOK, Owning, Maps, Task, Option
  <2>5. lock = p /\ lock' = lock /\ lock' \in Option(Procs)
    BY <2>1 DEF IInv, TypeOK, Exclusive, Owning
  <2>6. Outcome(file', snap'[p], doing'[p])
    BY <2>1, <2>4
  <2> QED BY <2>1, <2>3, <2>4, <2>5, <2>6, QuietStep DEF Owning
<1>4. ASSUME NEW p \in Procs, WriteTmp(p) PROVE IInv'
  <2>1. /\ pc' \in [Procs -> {"idle"} \cup {"waiting"} \cup Owning]
        /\ pc'[p] = "tmp_synced" /\ \A q \in Procs \ {p} : pc'[q] = pc[q]
    BY <1>4 DEF WriteTmp, IInv, TypeOK, Owning
  <2>2. pc[p] = "persisting" /\ UNCHANGED <<file, lock, snap, doing, minted, spent, acked>>
    BY <1>4 DEF WriteTmp
  <2>3. /\ lock' \in Option(Procs) /\ snap' \in [Procs -> Option(Maps)]
        /\ doing' \in [Procs -> Option(Task)] /\ lock = p
    BY <2>2 DEF IInv, TypeOK, Maps, Task, Option, Exclusive, Owning
  <2>4. doing[p] \in Task /\ snap[p] \in Maps /\ Outcome(file, snap[p], doing[p])
    BY <2>2 DEF IInv, Pending
  <2> QED BY <2>1, <2>2, <2>3, <2>4, QuietStep DEF Owning
<1>5. ASSUME NEW p \in Procs, LoadRefused(p) \/ ReturnUnchanged(p) \/ PersistFails(p)
      PROVE  IInv'
  <2>1. lock = p
    BY <1>5 DEF LoadRefused, ReturnUnchanged, PersistFails, IInv, Exclusive, Owning
  <2>2. Finish(p) /\ UNCHANGED <<file, minted, spent, acked>>
    BY <1>5 DEF LoadRefused, ReturnUnchanged, PersistFails
  <2> QED BY <2>1, <2>2, EndingKeeps DEF Finish, IInv, TypeOK
<1>6. ASSUME NEW p \in Procs, Rename(p) PROVE IInv'
  BY <1>6, RenameKeeps
<1>7. ASSUME NEW p \in Procs, Return(p) PROVE IInv'
  <2>1. lock = p /\ doing[p] \in Task
    BY <1>7 DEF Return, IInv, Exclusive, Pending, Owning
  <2>2. acked' \in [minted : SUBSET SessionIds, revoked : SUBSET SessionIds,
                    granted : [SessionIds -> Nat]]
    BY <1>7, <2>1 DEF Return, IInv, TypeOK, Task
  <2> QED BY <1>7, <2>1, <2>2, EndingKeeps DEF Return, Finish, store
<1>8. ASSUME NEW p \in Procs, Crash(p) PROVE IInv'
  BY <1>8, EndingKeeps DEF Crash, IInv, TypeOK
<1>9. CASE UNCHANGED vars
  BY <1>9 DEF vars, IInv, TypeOK, Exclusive, Pending
<1> QED BY <1>1, <1>2, <1>3, <1>4, <1>5, <1>6, <1>7, <1>8, <1>9 DEF Next, Holding

\* The invariant holds of every reachable state.
LEMMA IInvHolds == Spec => []IInv
<1>1. Init => IInv
  BY NoneIsNoProc DEF Init, IInv, TypeOK, Exclusive, Pending, Owning, Option
<1>2. IInv /\ [Next]_vars => IInv'
  BY IInvInductive
<1> QED BY <1>1, <1>2, PTL DEF Spec

\* Whatever its callers do and wherever they crash, the live file holds
\* well-formed records and every caller is at a step of with_locked.
THEOREM FileTypeCorrect == Spec => []TypeOK
<1>1. IInv => TypeOK
  BY DEF IInv
<1> QED BY <1>1, IInvHolds, PTL

-------------------------------------------------------------------------------
(* The refinement.                                                         *)

\* rename publishes the effect of exactly one method of the abstract store.
LEMMA RenameIsAStep ==
  ASSUME IInv, NEW p \in Procs, Rename(p)
  PROVE  Store!Next
<1> DEFINE s == doing[p].id
<1>1. s \in SessionIds /\ file \in Maps /\ Outcome(file, snap[p], doing[p])
  BY DEF IInv, TypeOK, Maps, Pending, Rename, Task
<1>2. /\ file' = snap[p]
      /\ doing[p].kind = "delegate" => minted' = [minted EXCEPT ![s] = Budget(snap[p], s)]
      /\ doing[p].kind # "delegate" => minted' = minted
      /\ doing[p].kind = "consume" => spent' = [spent EXCEPT ![s] = spent[s] + 1]
      /\ doing[p].kind # "consume" => spent' = spent
  BY DEF Rename
<1> HIDE DEF s
<1>3. CASE doing[p].kind = "revoke"
  <2>1. file[s] # None /\ snap[p] = revoke_in(file, s)
    BY <1>1, <1>3 DEF Outcome, s
  <2>2. Store!Revoke(s)
    BY <1>2, <1>3, <2>1, SameConsume DEF Store!Revoke
  <2> QED BY <1>1, <2>2 DEF Store!Next
<1>4. CASE doing[p].kind = "create"
  <2>1. file[s] = None
    BY <1>1, <1>4 DEF Outcome, s
  <2>2. PICK now \in Secs, agent \in Agents, environment \in Environments, ttl \in Ttls :
           snap[p] = create_impl(file, s, agent, environment, ttl, now)
    BY <1>1, <1>4 DEF Outcome, s
  <2>3. Store!Create(s, agent, environment, ttl, now)
    BY <1>2, <1>4, <2>1, <2>2, SameCreate DEF Store!Create
  <2> QED BY <1>1, <2>3 DEF Store!Next, Store!Secs, Secs
<1>5. CASE doing[p].kind = "delegate"
  <2>1. file[s] = None
    BY <1>1, <1>5 DEF Outcome, s
  <2>2. PICK now \in Secs, parent \in SessionIds, requested \in Requested :
           /\ delegate_verdict(file, parent, requested, now) = "ok"
           /\ snap[p] = delegate_inner(file, s, parent, requested)
    BY <1>1, <1>5 DEF Outcome, s
  <2>3. file[parent] # None
    BY <2>2 DEF delegate_verdict
  <2>4. narrowed(file, parent, requested) # None
    BY <1>1, <2>3, DelegateType, NoneIsNoRecord
  <2>5. snap[p][s].constraints = narrowed(file, parent, requested)
    BY <1>1, <2>2 DEF delegate_inner, Maps
  <2>6. Budget(snap[p], s) = narrowed(file, parent, requested).remaining
    BY <2>4, <2>5 DEF Budget
  <2>7. Store!Delegate(s, parent, requested, now)
    BY <1>2, <1>5, <2>1, <2>2, <2>6, SameDelegate DEF Store!Delegate
  <2> QED BY <1>1, <2>7 DEF Store!Next, Store!Secs, Secs
<1>6. CASE doing[p].kind = "consume"
  <2>1. Budget(file, s) # None /\ snap[p] = consume_in(file, s)
    BY <1>1, <1>6 DEF Outcome, s
  <2>2. PICK now \in Secs : consume_verdict(file, s, now) = "ok"
    BY <1>1, <1>6 DEF Outcome, s
  <2>3. Store!ConsumeBudget(s, now)
    BY <1>2, <1>6, <2>1, <2>2, SameConsume DEF Store!ConsumeBudget
  <2> QED BY <1>1, <2>3 DEF Store!Next, Store!Secs, Secs
<1> QED BY <1>1, <1>3, <1>4, <1>5, <1>6 DEF Outcome

\* session.rs:1457: the file store is the abstract store.  Whatever the
\* interleaving of callers and wherever they crash, the live file changes only
\* by whole methods applied to the freshest records.
THEOREM FileImplementsStore == Spec => StoreSpec
<1>1. Init => Store!Init
  BY DEF Init, Store!Init
<1>2. IInv /\ [Next]_vars => [Store!Next]_(Store!vars)
  <2> SUFFICES ASSUME IInv, [Next]_vars
               PROVE  Store!Next \/ UNCHANGED <<file, minted, spent>>
    BY DEF Store!vars
  <2>1. ASSUME NEW p \in Procs, Rename(p) PROVE Store!Next
    BY <2>1, RenameIsAStep
  <2>2. ASSUME NEW p \in Procs, Body(p) PROVE UNCHANGED <<file, minted, spent>>
    BY <2>2, BodyPrepares
  <2>3. ASSUME NEW p \in Procs,
               \/ Call(p) \/ acquire_lock(p) \/ LockFails(p) \/ LoadRefused(p)
               \/ ReturnUnchanged(p) \/ WriteTmp(p) \/ PersistFails(p)
               \/ Return(p) \/ Crash(p)
        PROVE  UNCHANGED <<file, minted, spent>>
    BY <2>3 DEF Call, acquire_lock, LockFails, LoadRefused, ReturnUnchanged, WriteTmp,
                PersistFails, Return, Crash, store
  <2>4. CASE UNCHANGED vars
    BY <2>4 DEF vars
  <2> QED BY <2>1, <2>2, <2>3, <2>4 DEF Next, Holding
<1> QED BY <1>1, <1>2, IInvHolds, PTL DEF Spec, StoreSpec, Store!Spec

-------------------------------------------------------------------------------
(* What callers were told stays true.                                      *)

\* What a session has left and what the file wrote off add up to the budget it
\* was delegated with; a session without a record has no history.
Accounts(s) ==
  /\ file[s] = None => minted[s] = None
  /\ minted[s] = None => spent[s] = 0
  /\ file[s] # None =>
       IF minted[s] = None THEN Budget(file, s) = None
       ELSE Budget(file, s) \in Nat /\ Budget(file, s) + spent[s] = minted[s]

\* What callers were told is in the file.
Promised ==
  /\ \A s \in acked.minted : file[s] # None
  /\ \A s \in acked.revoked : file[s] # None /\ file[s].revoked
  /\ \A s \in SessionIds : acked.granted[s] <= spent[s]

\* What the caller that has renamed is about to be told is in the file too; a
\* grant it has not returned yet is not among those acknowledged.
Publishing ==
  \A p \in Procs : pc[p] = "renamed" =>
    /\ file[doing[p].id] # None
    /\ doing[p].kind = "revoke" => file[doing[p].id].revoked
    /\ doing[p].kind = "consume" => acked.granted[doing[p].id] + 1 <= spent[doing[p].id]

DInv == (\A s \in SessionIds : Accounts(s)) /\ Promised /\ Publishing

\* What each method does to the record it is about and to the others.
LEMMA OutcomeKeeps ==
  ASSUME NEW ss \in Maps, NEW tt, NEW task \in Task, Outcome(ss, tt, task)
  PROVE  /\ \A x \in SessionIds : Kept(ss, tt, x)
         /\ \A x \in SessionIds \ {task.id} : tt[x] = ss[x]
         /\ tt[task.id] # None
         /\ task.kind = "revoke" =>
              /\ ss[task.id] # None /\ tt[task.id].revoked
              /\ Budget(tt, task.id) = Budget(ss, task.id)
         /\ task.kind = "create" => ss[task.id] = None /\ Budget(tt, task.id) = None
         /\ task.kind = "delegate" => ss[task.id] = None /\ Budget(tt, task.id) \in Option(Nat)
         /\ task.kind = "consume" =>
              /\ ss[task.id] # None /\ Budget(ss, task.id) \in Nat \ {0}
              /\ Budget(tt, task.id) = Budget(ss, task.id) - 1
<1> PICK s \in SessionIds : s = task.id
  BY DEF Task
<1>1. CASE task.kind = "revoke"
  <2>1. ss[s] # None /\ tt = revoke_in(ss, s) /\ ss[s] \in Record
    BY <1>1 DEF Outcome, Maps, Option
  <2>2. \A x \in SessionIds : Kept(ss, tt, x)
    BY <2>1, RevokeKeeps
  <2>3. /\ \A x \in SessionIds \ {s} : tt[x] = ss[x]
        /\ tt[s] = [ss[s] EXCEPT !.revoked = TRUE]
    BY <2>1 DEF revoke_in, Maps
  <2>4. tt[s] \in Record /\ tt[s].revoked /\ tt[s].constraints = ss[s].constraints
    BY <2>1, <2>3 DEF Record
  <2>5. tt[s] # None /\ Budget(tt, s) = Budget(ss, s)
    BY <2>1, <2>4, NoneIsNoRecord DEF Budget
  <2> QED BY <1>1, <2>1, <2>2, <2>3, <2>4, <2>5
<1>2. CASE task.kind = "create"
  <2>1. PICK now \in Secs, agent \in Agents, environment \in Environments, ttl \in Ttls :
           tt = create_impl(ss, s, agent, environment, ttl, now)
    BY <1>2 DEF Outcome
  <2>2. ss[s] = None
    BY <1>2 DEF Outcome
  <2>3. PICK r : tt = [ss EXCEPT ![s] = r]
    BY <2>1 DEF create_impl
  <2>4. tt[s].constraints = None
    BY <2>1 DEF create_impl, Maps
  <2>5. tt[s] # None
    <3>1. tt[s] \in Record
      BY <2>1, TtlsAreOptional, MaxSecsIsNat DEF create_impl, Maps, Record, Option, Secs, saturating_add
    <3> QED BY <3>1, NoneIsNoRecord
  <2>6. \A x \in SessionIds : Kept(ss, tt, x)
    BY <2>2, <2>3, NewRecordKeepsOthers
  <2>7. Budget(tt, s) = None /\ \A x \in SessionIds \ {s} : tt[x] = ss[x]
    BY <2>3, <2>4 DEF Budget, Maps
  <2> QED BY <1>2, <2>2, <2>5, <2>6, <2>7
<1>3. CASE task.kind = "delegate"
  <2>1. PICK now \in Secs, parent \in SessionIds, requested \in Requested :
           /\ delegate_verdict(ss, parent, requested, now) = "ok"
           /\ tt = delegate_inner(ss, s, parent, requested)
    BY <1>3 DEF Outcome
  <2>2. ss[s] = None /\ ss[parent] # None
    BY <1>3, <2>1 DEF Outcome, delegate_verdict
  <2>3. tt[s] \in Record
    BY <2>1, <2>2, DelegateType
  <2>4. PICK r : tt = [ss EXCEPT ![s] = r]
    BY <2>1 DEF delegate_inner
  <2>5. \A x \in SessionIds : Kept(ss, tt, x)
    BY <2>2, <2>4, NewRecordKeepsOthers
  <2>6. Budget(tt, s) \in Option(Nat) /\ tt[s] # None
    BY <2>3, NoneIsNoRecord DEF Budget, Record, Option, Constraints
  <2>7. \A x \in SessionIds \ {s} : tt[x] = ss[x]
    BY <2>4 DEF Maps
  <2> QED BY <1>3, <2>2, <2>5, <2>6, <2>7
<1>4. CASE task.kind = "consume"
  <2>1. PICK now \in Secs : consume_verdict(ss, s, now) = "ok"
    BY <1>4 DEF Outcome
  <2>2. Budget(ss, s) # None /\ tt = consume_in(ss, s)
    BY <1>4 DEF Outcome
  <2>3. ss[s] \in Record /\ ss[s].constraints \in Constraints /\ Budget(ss, s) \in Nat \ {0}
    BY <2>1, <2>2, ConsumeType
  <2>4. /\ \A x \in SessionIds : Kept(ss, tt, x)
        /\ \A x \in SessionIds \ {s} : tt[x] = ss[x]
        /\ Budget(tt, s) = Budget(ss, s) - 1
    BY <2>2, <2>3, ConsumeKeeps
  <2>5. ss[s] # None /\ tt[s] # None
    BY <2>3, <2>4, NoneIsNoRecord DEF Kept
  <2> QED BY <1>4, <2>3, <2>4, <2>5
<1> QED BY <1>1, <1>2, <1>3, <1>4 DEF Outcome

\* rename publishes a method's effect: the accounts still balance, what was
\* promised still stands and what the caller will be told is there.
LEMMA RenameKeepsPromises ==
  ASSUME IInv, DInv, NEW p \in Procs, Rename(p)
  PROVE  DInv'
<1> PICK task : task = doing[p]
  OBVIOUS
<1> PICK s : s = task.id
  OBVIOUS
<1>1. task \in Task /\ s \in SessionIds /\ file \in Maps /\ Outcome(file, snap[p], task)
  BY DEF IInv, TypeOK, Maps, Pending, Rename, Task
<1>2. /\ file' = snap[p] /\ doing' = doing /\ acked' = acked
      /\ task.kind = "delegate" => minted' = [minted EXCEPT ![s] = Budget(file', s)]
      /\ task.kind # "delegate" => minted' = minted
      /\ task.kind = "consume" => spent' = [spent EXCEPT ![s] = spent[s] + 1]
      /\ task.kind # "consume" => spent' = spent
  BY DEF Rename
<1>3. /\ \A x \in SessionIds : Kept(file, file', x)
      /\ \A x \in SessionIds \ {s} : file'[x] = file[x]
      /\ file'[s] # None
      /\ task.kind = "revoke" =>
           file[s] # None /\ file'[s].revoked /\ Budget(file', s) = Budget(file, s)
      /\ task.kind = "create" => file[s] = None /\ Budget(file', s) = None
      /\ task.kind = "delegate" => file[s] = None /\ Budget(file', s) \in Option(Nat)
      /\ task.kind = "consume" =>
           /\ file[s] # None /\ Budget(file, s) \in Nat \ {0}
           /\ Budget(file', s) = Budget(file, s) - 1
  BY <1>1, <1>2, OutcomeKeeps
<1>4. /\ minted \in [SessionIds -> Option(Nat)] /\ spent \in [SessionIds -> Nat]
      /\ acked.granted \in [SessionIds -> Nat] /\ task.kind \in Kinds
      /\ acked.minted \subseteq SessionIds /\ acked.revoked \subseteq SessionIds
  BY <1>1 DEF IInv, TypeOK, Task
<1>5. \A x \in SessionIds : spent'[x] \in Nat /\ spent[x] <= spent'[x]
  BY <1>1, <1>2, <1>4
<1>6. ASSUME NEW x \in SessionIds PROVE Accounts(x)'
  <2>0. Accounts(x)
    BY DEF DInv
  <2>1. CASE x # s
    <3>1. minted'[x] = minted[x] /\ spent'[x] = spent[x] /\ file'[x] = file[x]
      BY <1>1, <1>2, <1>3, <1>4, <2>1
    <3> QED BY <2>0, <3>1 DEF Accounts, Budget
  <2>2. CASE x = s /\ task.kind = "revoke"
    BY <1>2, <1>3, <2>0, <2>2 DEF Accounts
  <2>3. CASE x = s /\ task.kind = "create"
    BY <1>2, <1>3, <2>0, <2>3 DEF Accounts
  <2>4. CASE x = s /\ task.kind = "delegate"
    <3>1. minted'[s] = Budget(file', s) /\ spent'[s] = 0
      BY <1>1, <1>2, <1>3, <1>4, <2>0, <2>4 DEF Accounts
    <3> QED BY <1>3, <2>4, <3>1 DEF Accounts, Option
  <2>5. CASE x = s /\ task.kind = "consume"
    <3>1. minted[s] # None /\ Budget(file, s) + spent[s] = minted[s]
      BY <1>3, <2>0, <2>5, NoneIsNoValue DEF Accounts
    <3>2. minted' = minted /\ spent'[s] = spent[s] + 1 /\ spent[s] \in Nat
      BY <1>1, <1>2, <1>4, <2>5
    <3> QED BY <1>3, <2>5, <3>1, <3>2 DEF Accounts
  <2> QED BY <1>4, <2>1, <2>2, <2>3, <2>4, <2>5 DEF Kinds
<1>7. Promised'
  <2>1. \A x \in SessionIds : acked.granted[x] <= spent'[x]
    BY <1>4, <1>5 DEF DInv, Promised
  <2> QED BY <1>2, <1>3, <1>4, <2>1 DEF DInv, Promised, Kept
<1>8. Publishing'
  <2>1. \A q \in Procs : pc'[q] = "renamed" => q = p
    BY DEF Rename, IInv, TypeOK, Exclusive, Owning
  <2>2. task.kind = "consume" => acked.granted[s] + 1 <= spent'[s]
    <3>1. acked.granted[s] <= spent[s] /\ acked.granted[s] \in Nat /\ spent[s] \in Nat
      BY <1>1, <1>4 DEF DInv, Promised
    <3> QED BY <1>1, <1>2, <1>4, <3>1
  <2> QED BY <1>2, <1>3, <2>1, <2>2 DEF Publishing
<1> QED BY <1>6, <1>7, <1>8 DEF DInv

\* Only what the file holds is acknowledged.
LEMMA ReturnKeepsPromises ==
  ASSUME IInv, DInv, NEW p \in Procs, Return(p)
  PROVE  DInv'
<1> PICK task : task = doing[p]
  OBVIOUS
<1> PICK s : s = task.id
  OBVIOUS
<1>1. task \in Task /\ s \in SessionIds /\ task.kind \in Kinds
  BY DEF IInv, Pending, Return, Task
<1>2. UNCHANGED <<file, minted, spent>>
  BY DEF Return, store
<1>3. /\ file[s] # None
      /\ task.kind = "revoke" => file[s].revoked
      /\ task.kind = "consume" => acked.granted[s] + 1 <= spent[s]
  BY DEF DInv, Publishing, Return
<1>4. acked \in [minted : SUBSET SessionIds, revoked : SUBSET SessionIds,
                 granted : [SessionIds -> Nat]]
  BY DEF IInv, TypeOK
<1>5. \A x \in SessionIds : Accounts(x)'
  BY <1>2 DEF DInv, Accounts, Budget
<1>6. Promised'
  <2>1. CASE task.kind = "revoke"
    <3>1. acked' = [acked EXCEPT !.revoked = acked.revoked \cup {s}]
      BY <2>1 DEF Return
    <3>2. acked'.minted = acked.minted /\ acked'.granted = acked.granted
          /\ acked'.revoked = acked.revoked \cup {s}
      BY <1>4, <3>1
    <3> QED BY <1>2, <1>3, <2>1, <3>2 DEF DInv, Promised
  <2>2. CASE task.kind = "consume"
    <3>1. acked' = [acked EXCEPT !.granted[s] = acked.granted[s] + 1]
      BY <2>2 DEF Return
    <3>2. /\ acked'.minted = acked.minted /\ acked'.revoked = acked.revoked
          /\ acked'.granted = [acked.granted EXCEPT ![s] = acked.granted[s] + 1]
      BY <1>4, <3>1
    <3>3. \A x \in SessionIds : acked'.granted[x] <= spent[x]
      BY <1>1, <1>3, <1>4, <2>2, <3>2 DEF DInv, Promised
    <3> QED BY <1>2, <3>2, <3>3 DEF DInv, Promised
  <2>3. CASE task.kind \in {"create", "delegate"}
    <3>1. acked' = [acked EXCEPT !.minted = acked.minted \cup {s}]
      BY <2>3 DEF Return
    <3>2. acked'.revoked = acked.revoked /\ acked'.granted = acked.granted
          /\ acked'.minted = acked.minted \cup {s}
      BY <1>4, <3>1
    <3> QED BY <1>2, <1>3, <3>2 DEF DInv, Promised
  <2> QED BY <1>1, <2>1, <2>2, <2>3 DEF Kinds
<1>7. Publishing'
  <2>1. \A q \in Procs : pc'[q] # "renamed"
    BY DEF Return, Finish, IInv, TypeOK, Exclusive, Owning
  <2> QED BY <2>1 DEF Publishing
<1> QED BY <1>5, <1>6, <1>7 DEF DInv

\* Every other step leaves the file and the promises alone.
LEMMA PromisesInductive ==
  ASSUME IInv, DInv, [Next]_vars
  PROVE  DInv'
<1>1. ASSUME UNCHANGED <<file, minted, spent, acked>>,
             \A q \in Procs : pc'[q] = "renamed" => pc[q] = "renamed" /\ doing'[q] = doing[q]
      PROVE  DInv'
  <2>1. \A x \in SessionIds : Accounts(x)'
    BY <1>1 DEF DInv, Accounts, Budget
  <2>2. Promised' /\ Publishing'
    BY <1>1 DEF DInv, Promised, Publishing
  <2> QED BY <2>1, <2>2 DEF DInv
<1>2. ASSUME NEW p \in Procs, Rename(p) PROVE DInv'
  BY <1>2, RenameKeepsPromises
<1>3. ASSUME NEW p \in Procs, Return(p) PROVE DInv'
  BY <1>3, ReturnKeepsPromises
<1>4. ASSUME NEW p \in Procs, Body(p) PROVE DInv'
  BY <1>1, <1>4, BodyPrepares DEF IInv, TypeOK
<1>5. ASSUME NEW p \in Procs, Call(p) \/ acquire_lock(p) \/ LockFails(p) \/ WriteTmp(p)
      PROVE  DInv'
  BY <1>1, <1>5 DEF Call, acquire_lock, LockFails, WriteTmp, IInv, TypeOK
<1>6. ASSUME NEW p \in Procs,
             LoadRefused(p) \/ ReturnUnchanged(p) \/ PersistFails(p) \/ Crash(p)
      PROVE  DInv'
  BY <1>1, <1>6 DEF LoadRefused, ReturnUnchanged, PersistFails, Crash, Finish, IInv, TypeOK
<1>7. CASE UNCHANGED vars
  BY <1>1, <1>7 DEF vars
<1> QED BY <1>2, <1>3, <1>4, <1>5, <1>6, <1>7 DEF Next, Holding

\* session.rs:1454 and 1865: whatever the interleaving of callers and wherever
\* they crash, a session handed out exists, an acknowledged revocation stands
\* and the grants never exceed the budget minted.
THEOREM AcknowledgedStaysDurable == Spec => []AcknowledgedIsDurable
<1>1. Init => DInv
  BY DEF Init, DInv, Accounts, Promised, Publishing
<1>2. IInv /\ DInv /\ [Next]_vars => DInv'
  BY PromisesInductive
<1>3. IInv /\ DInv => AcknowledgedIsDurable
  <2> SUFFICES ASSUME IInv, DInv PROVE AcknowledgedIsDurable
    OBVIOUS
  <2>1. ASSUME NEW s \in SessionIds, acked.granted[s] > 0
        PROVE  /\ acked.granted[s] <= spent[s]
               /\ Budget(file, s) + acked.granted[s] <= minted[s]
    <3>1. acked.granted[s] \in Nat /\ spent[s] \in Nat /\ acked.granted[s] <= spent[s]
      BY DEF IInv, TypeOK, DInv, Promised
    <3>2. Accounts(s) /\ spent[s] # 0
      BY <2>1, <3>1 DEF DInv
    <3>3. Budget(file, s) \in Nat /\ Budget(file, s) + spent[s] = minted[s]
      BY <3>2 DEF Accounts
    <3> QED BY <3>1, <3>3
  <2> QED BY <2>1 DEF AcknowledgedIsDurable, DInv, Promised
<1> QED BY <1>1, <1>2, <1>3, IInvHolds, PTL DEF Spec
===============================================================================
