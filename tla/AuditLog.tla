-------------------------------- MODULE AuditLog --------------------------------
(***************************************************************************)
(* JsonlAppendStore of crates/vaultx-audit/src/jsonl.rs: the audit trail   *)
(* as one JSON Lines file.                                                 *)
(*                                                                         *)
(* A handle is one JsonlAppendStore, opened by one process; its mutex      *)
(* serializes the writers (threads) that share it, and nothing serializes  *)
(* handles.  An append reads the whole file, computes the next event from  *)
(* the last one, writes it with one O_APPEND write and syncs.  A write may *)
(* be cut short (a crash, a full disk), which leaves an unterminated last  *)
(* line; a later write through a stale snapshot would continue that line.  *)
(* Any process may crash at any point.                                     *)
(***************************************************************************)
EXTENDS AuditChain

CONSTANTS
  Handles,      \* open stores on the file, one per process
  Writers,      \* threads that append
  HandleOf,     \* the store a thread appends through
  MaxLines      \* bound on the events of a behaviour

ASSUME HandleOfIsTotal == HandleOf \in [Writers -> Handles]
ASSUME NoneIsNoWriter == None \notin Writers
ASSUME MaxLinesIsNat == MaxLines \in Nat

VARIABLES
  tail,      \* "clean", "torn": unterminated last line, "spliced": two on one line
  guard,     \* holder of each handle's write_lock, or None
  pc,        \* where each writer is in append
  draft,     \* the event a writer has built from the events it loaded
  acked      \* history: the events append returned Ok for

logVars == <<log, tail, guard, pc, draft, acked>>

-------------------------------------------------------------------------------
LogInit ==
  /\ ChainInit
  /\ tail = "clean"
  /\ guard = [h \in Handles |-> None]
  /\ pc = [w \in Writers |-> "idle"]
  /\ draft = [w \in Writers |-> None]
  /\ acked = {}

lock_writes(w) ==
  /\ pc[w] = "idle"
  /\ guard[HandleOf[w]] = None
  /\ guard' = [guard EXCEPT ![HandleOf[w]] = w]
  /\ pc' = [pc EXCEPT ![w] = "locked"]
  /\ UNCHANGED <<log, tail, draft, acked>>

\* append returns, and the mutex guard is dropped.
Done(w) ==
  /\ guard' = [guard EXCEPT ![HandleOf[w]] = None]
  /\ pc' = [pc EXCEPT ![w] = "idle"]
  /\ draft' = [draft EXCEPT ![w] = None]

\* Mutant of LoadAndBuild: the mutex is released once the event is built.
LoadAndBuildUnguarded(w, payload) ==
  /\ pc[w] = "locked"
  /\ tail = "clean"
  /\ Len(log) < MaxLines
  /\ draft' = [draft EXCEPT ![w] = stored(log, payload)]
  /\ pc' = [pc EXCEPT ![w] = "built"]
  /\ guard' = [guard EXCEPT ![HandleOf[w]] = None]
  /\ UNCHANGED <<log, tail, acked>>

\* Mutant of LoadAndBuild: a torn last line is skipped.
LoadAndBuildSkipping(w, payload) ==
  /\ pc[w] = "locked"
  /\ Len(log) < MaxLines
  /\ draft' = [draft EXCEPT ![w] = stored(log, payload)]
  /\ pc' = [pc EXCEPT ![w] = "built"]
  /\ UNCHANGED <<log, tail, guard, acked>>

\* Load every record and build the next event from the last one.
LoadAndBuild(w, payload) ==
  /\ pc[w] = "locked"
  /\ tail = "clean"
  /\ Len(log) < MaxLines
  /\ draft' = [draft EXCEPT ![w] = stored(log, payload)]
  /\ pc' = [pc EXCEPT ![w] = "built"]
  /\ UNCHANGED <<log, tail, guard, acked>>

\* Any unreadable line refuses the append: CorruptRecord.
AppendRefused(w) ==
  /\ pc[w] = "locked"
  /\ tail # "clean"
  /\ Done(w)
  /\ UNCHANGED <<log, tail, acked>>

\* The whole line reaches the end of the file.
WriteLine(w) ==
  /\ pc[w] = "built"
  /\ IF tail = "clean"
     THEN log' = Append(log, draft[w]) /\ UNCHANGED tail
     ELSE tail' = "spliced" /\ UNCHANGED log
  /\ pc' = [pc EXCEPT ![w] = "written"]
  /\ UNCHANGED <<guard, draft, acked>>

\* Part of the line reaches the file: the write fails or the process dies.
WriteCutShort(w) ==
  /\ pc[w] = "built"
  /\ tail' = IF tail = "clean" THEN "torn" ELSE "spliced"
  /\ Done(w)
  /\ UNCHANGED <<log, acked>>

\* sync_data succeeds and the caller gets Ok(stored).
ReturnStored(w) ==
  /\ pc[w] = "written"
  /\ acked' = acked \cup {draft[w]}
  /\ Done(w)
  /\ UNCHANGED <<log, tail>>

\* The line is in the file but the caller is told that the append failed.
SyncFails(w) ==
  /\ pc[w] = "written"
  /\ Done(w)
  /\ UNCHANGED <<log, tail, acked>>

\* The process that opened the handle dies with all its threads.
Crash(h) ==
  /\ guard[h] # None
  /\ guard' = [guard EXCEPT ![h] = None]
  /\ pc' = [w \in Writers |-> IF HandleOf[w] = h THEN "idle" ELSE pc[w]]
  /\ draft' = [w \in Writers |-> IF HandleOf[w] = h THEN None ELSE draft[w]]
  /\ UNCHANGED <<log, tail, acked>>

LogNext ==
  \/ \E w \in Writers :
       \/ lock_writes(w) \/ AppendRefused(w) \/ WriteLine(w)
       \/ WriteCutShort(w) \/ ReturnStored(w) \/ SyncFails(w)
       \/ \E payload \in Payloads : LoadAndBuild(w, payload)
  \/ \E h \in Handles : Crash(h)

LogSpec == LogInit /\ [][LogNext]_logVars

-------------------------------------------------------------------------------
(***************************************************************************)
(* SECURITY.md:14 "Append-only audit events chained by SHA-256             *)
(* `prev_hash`": behind one handle, whatever its threads, its failures and *)
(* its crashes, the file changes only as the abstract append-only chain    *)
(* does.                                                                   *)
(***************************************************************************)
ChainSpec == AppendOnly

(***************************************************************************)
(* jsonl.rs:209 verify_chain accepts the file that the program wrote.      *)
(***************************************************************************)
ChainVerifies == verify_chain(log)

(***************************************************************************)
(* jsonl.rs:195 "the record reaches stable storage before success is       *)
(* reported", jsonl.rs:26 "appending is refused while any record is        *)
(* unreadable", jsonl.rs:17 "never two records spliced onto one physical   *)
(* line": an acknowledged event stays in the file, and a damaged tail      *)
(* freezes the file instead of being written over or extended.             *)
(***************************************************************************)
AcknowledgedStays ==
  [][/\ \A e \in acked' : \E i \in 1..Len(log') : log'[i] = e
     /\ tail # "clean" => UNCHANGED <<log, tail, acked>>]_logVars
===============================================================================
