---------------------------- MODULE FileSessionStore ----------------------------
(***************************************************************************)
(* FileSessionStore of crates/vaultx-broker/src/session.rs: the session    *)
(* store that the serving broker, the CLI, the TUI and the MCP server open *)
(* independently on one JSON file.                                         *)
(*                                                                         *)
(* Every method is with_locked: take an exclusive flock, reload and verify *)
(* the file, run the in-memory method on the snapshot and, if it mutated,  *)
(* write a temporary file and rename it over the live one.  A caller is a  *)
(* process or a thread (each call opens its own lock descriptor); it can   *)
(* crash between any two of those steps, which drops its flock and may     *)
(* leave an unread temporary file behind.  Arguments are chosen where the  *)
(* body runs: nothing before it depends on them.                           *)
(***************************************************************************)
EXTENDS SessionRecords

CONSTANT Procs     \* callers: processes, or threads of one process

ASSUME NoneIsNoProc == None \notin Procs

VARIABLES
  file,      \* the records in the live JSON file
  lock,      \* holder of the flock, or None
  pc,        \* where each caller is in with_locked
  snap,      \* the mutated snapshot a caller is about to publish, or None
  doing,     \* what the snapshot holds that the file does not: [kind, id]
  minted,    \* history: the budget a session was delegated with
  spent,     \* history: budget units written off in the file
  acked      \* history: what callers were told has happened

store == <<file, minted, spent>>
vars == <<file, lock, pc, snap, doing, minted, spent, acked>>

Kinds == {"create", "delegate", "revoke", "consume"}

-------------------------------------------------------------------------------
Init ==
  /\ file = [s \in SessionIds |-> None]
  /\ lock = None
  /\ pc = [p \in Procs |-> "idle"]
  /\ snap = [p \in Procs |-> None]
  /\ doing = [p \in Procs |-> None]
  /\ minted = [s \in SessionIds |-> None]
  /\ spent = [s \in SessionIds |-> 0]
  /\ acked = [minted |-> {}, revoked |-> {}, granted |-> [s \in SessionIds |-> 0]]

Call(p) ==
  /\ pc[p] = "idle"
  /\ pc' = [pc EXCEPT ![p] = "waiting"]
  /\ UNCHANGED <<file, lock, snap, doing, minted, spent, acked>>

\* Mutant of acquire_lock: a shared lock.
acquire_lock_shared(p) ==
  /\ pc[p] = "waiting"
  /\ lock' = p
  /\ pc' = [pc EXCEPT ![p] = "locked"]
  /\ UNCHANGED <<file, snap, doing, minted, spent, acked>>

acquire_lock(p) ==
  /\ pc[p] = "waiting"
  /\ lock = None
  /\ lock' = p
  /\ pc' = [pc EXCEPT ![p] = "locked"]
  /\ UNCHANGED <<file, snap, doing, minted, spent, acked>>

\* The lock file cannot be opened, or flock itself fails.
LockFails(p) ==
  /\ pc[p] = "waiting"
  /\ pc' = [pc EXCEPT ![p] = "idle"]
  /\ UNCHANGED <<file, lock, snap, doing, minted, spent, acked>>

\* Dropping the FileLock guard ends a call, whatever its result.
Finish(p) ==
  /\ lock' = None
  /\ pc' = [pc EXCEPT ![p] = "idle"]
  /\ snap' = [snap EXCEPT ![p] = None]
  /\ doing' = [doing EXCEPT ![p] = None]

\* load_records refuses the file: every method fails with a tampering error.
LoadRefused(p) ==
  /\ pc[p] = "locked"
  /\ ~verify_delegation_chains(file)
  /\ Finish(p)
  /\ UNCHANGED <<file, minted, spent, acked>>

\* The method only reads (validate, list_for_agent, consume_budget of a session
\* without a budget) or returns an error.
ReturnUnchanged(p) ==
  /\ pc[p] = "locked"
  /\ verify_delegation_chains(file)
  /\ Finish(p)
  /\ UNCHANGED <<file, minted, spent, acked>>

\* The method mutated its snapshot of a file that verified.
Mutate(p, kind, id, ss) ==
  /\ pc[p] = "locked"
  /\ verify_delegation_chains(file)
  /\ snap' = [snap EXCEPT ![p] = ss]
  /\ doing' = [doing EXCEPT ![p] = [kind |-> kind, id |-> id]]
  /\ pc' = [pc EXCEPT ![p] = "persisting"]
  /\ UNCHANGED <<file, lock, minted, spent, acked>>

CreateBody(p, s, agent, environment, ttl, now) ==
  /\ file[s] = None
  /\ Mutate(p, "create", s, create_impl(file, s, agent, environment, ttl, now))

DelegateBody(p, s, parent, requested, now) ==
  /\ file[s] = None
  /\ delegate_verdict(file, parent, requested, now) = "ok"
  /\ Mutate(p, "delegate", s, delegate_inner(file, s, parent, requested))

RevokeBody(p, s) ==
  /\ file[s] # None
  /\ Mutate(p, "revoke", s, revoke_in(file, s))

ConsumeBody(p, s, now) ==
  /\ consume_verdict(file, s, now) = "ok"
  /\ Budget(file, s) # None
  /\ Mutate(p, "consume", s, consume_in(file, s))

\* Mutant of WriteTmp: the guard is dropped before the rename.
WriteTmpUnlocking(p) ==
  /\ pc[p] = "persisting"
  /\ pc' = [pc EXCEPT ![p] = "tmp_synced"]
  /\ lock' = None
  /\ UNCHANGED <<file, snap, doing, minted, spent, acked>>

\* persist_locked up to and including the fsync of the temporary file.
WriteTmp(p) ==
  /\ pc[p] = "persisting"
  /\ pc' = [pc EXCEPT ![p] = "tmp_synced"]
  /\ UNCHANGED <<file, lock, snap, doing, minted, spent, acked>>

\* An I/O error while writing, syncing or renaming is returned to the caller.
PersistFails(p) ==
  /\ pc[p] \in {"persisting", "tmp_synced"}
  /\ Finish(p)
  /\ UNCHANGED <<file, minted, spent, acked>>

Rename(p) ==
  /\ pc[p] = "tmp_synced"
  /\ file' = snap[p]
  /\ minted' = IF doing[p].kind = "delegate"
               THEN [minted EXCEPT ![doing[p].id] = Budget(snap[p], doing[p].id)]
               ELSE minted
  /\ spent' = IF doing[p].kind = "consume"
              THEN [spent EXCEPT ![doing[p].id] = @ + 1] ELSE spent
  /\ pc' = [pc EXCEPT ![p] = "renamed"]
  /\ UNCHANGED <<lock, snap, doing, acked>>

\* The caller learns that its mutation succeeded.
Return(p) ==
  /\ pc[p] = "renamed"
  /\ acked' = CASE doing[p].kind = "revoke" ->
                     [acked EXCEPT !.revoked = @ \cup {doing[p].id}]
                [] doing[p].kind = "consume" ->
                     [acked EXCEPT !.granted[doing[p].id] = @ + 1]
                [] OTHER -> [acked EXCEPT !.minted = @ \cup {doing[p].id}]
  /\ Finish(p)
  /\ UNCHANGED store

\* Mutant of Crash: a lock that outlives its holder, as a lock file would.
CrashKeepingLock(p) ==
  /\ pc[p] # "idle"
  /\ pc' = [pc EXCEPT ![p] = "idle"]
  /\ snap' = [snap EXCEPT ![p] = None]
  /\ doing' = [doing EXCEPT ![p] = None]
  /\ UNCHANGED <<file, lock, minted, spent, acked>>

\* The process dies; the kernel drops its flock.
Crash(p) ==
  /\ pc[p] # "idle"
  /\ lock' = IF lock = p THEN None ELSE lock
  /\ pc' = [pc EXCEPT ![p] = "idle"]
  /\ snap' = [snap EXCEPT ![p] = None]
  /\ doing' = [doing EXCEPT ![p] = None]
  /\ UNCHANGED <<file, minted, spent, acked>>

Body(p) ==
  \E s \in SessionIds :
    \/ RevokeBody(p, s)
    \/ \E now \in Secs :
         \/ \E agent \in Agents, environment \in Environments, ttl \in Ttls :
              CreateBody(p, s, agent, environment, ttl, now)
         \/ \E parent \in SessionIds, requested \in Requested :
              DelegateBody(p, s, parent, requested, now)
         \/ ConsumeBody(p, s, now)

\* What a caller that holds the lock does next: it never waits for anyone.
Holding(p) ==
  \/ LoadRefused(p) \/ ReturnUnchanged(p) \/ Body(p)
  \/ WriteTmp(p) \/ PersistFails(p) \/ Rename(p) \/ Return(p)

Next ==
  \E p \in Procs :
    Call(p) \/ acquire_lock(p) \/ LockFails(p) \/ Holding(p) \/ Crash(p)

Spec == Init /\ [][Next]_vars

\* A blocked flock is granted eventually, and a running process runs.
Fairness == \A p \in Procs : SF_vars(acquire_lock(p)) /\ WF_vars(Holding(p))

FairSpec == Spec /\ Fairness

-------------------------------------------------------------------------------
TypeOK ==
  /\ file \in [SessionIds -> Option(Record)]
  /\ lock \in Option(Procs)
  /\ pc \in [Procs -> {"idle", "waiting", "locked", "persisting", "tmp_synced", "renamed"}]
  /\ snap \in [Procs -> Option([SessionIds -> Option(Record)])]
  /\ doing \in [Procs -> Option([kind : Kinds, id : SessionIds])]
  /\ minted \in [SessionIds -> Option(Nat)]
  /\ spent \in [SessionIds -> Nat]
  /\ acked \in [minted : SUBSET SessionIds, revoked : SUBSET SessionIds,
                granted : [SessionIds -> Nat]]

\* The abstract store, whose records are those of the live file.
Store == INSTANCE SessionStore WITH sessions <- file

(***************************************************************************)
(* session.rs:1457 "making each call read-modify-write against the         *)
(* freshest snapshot": whatever the interleaving of callers and crashes,   *)
(* the live file changes only as one atomic method of SessionStore would   *)
(* change it.                                                              *)
(***************************************************************************)
StoreSpec == Store!Spec

(***************************************************************************)
(* session.rs:1454 "naive in-memory snapshots would let one side resurrect *)
(* what the other revoked": what a caller was told has happened is in the  *)
(* file for good.  A session handed out exists, a revocation stands, and   *)
(* the grants never exceed what the file has written off (session.rs:1865  *)
(* "a crash [...] must not reset the counter").                            *)
(***************************************************************************)
AcknowledgedIsDurable ==
  /\ \A s \in acked.minted : file[s] # None
  /\ \A s \in acked.revoked : file[s].revoked
  /\ \A s \in SessionIds :
       acked.granted[s] > 0 =>
         /\ acked.granted[s] <= spent[s]
         /\ Budget(file, s) + acked.granted[s] <= minted[s]

(***************************************************************************)
(* session.rs:1477 "Any widened link, dangling ancestor, half-written      *)
(* delegation, or unknown field fails the load closed with a `tampered     *)
(* delegation constraints` error", so a file that only legal calls wrote   *)
(* always loads.                                                           *)
(***************************************************************************)
LegalFileLoads == verify_delegation_chains(file)

(***************************************************************************)
(* Every call ends: the lock is never lost, not even by a crash of its     *)
(* holder, and no call waits for anything else (session.rs:1696 "Blocking  *)
(* acquire").                                                              *)
(***************************************************************************)
EveryCallEnds == \A p \in Procs : pc[p] = "waiting" ~> pc[p] = "idle"
===============================================================================
