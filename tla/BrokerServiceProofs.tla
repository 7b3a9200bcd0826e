--------------------------- MODULE BrokerServiceProofs ---------------------------
(***************************************************************************)
(* Three parts of the broker process.  The audit file behind one handle is *)
(* the abstract append-only chain, for any number of threads, failures,    *)
(* crashes and events.  The assumption that there is one handle is         *)
(* jsonl.rs:5 "assumes single-process, single-writer access"; two handles  *)
(* read the same tail and without the assumption the chain breaks.  The    *)
(* endpoint accounts for its connection slots and tells its clients the    *)
(* truth, for any brokers, clients, limits and lines.  The replay cache    *)
(* answers exactly, for any window, capacity and pairs.                    *)
(***************************************************************************)
EXTENDS AuditLog, BrokerEndpoint, ReplayCache, FiniteSetTheorems, TLAPS

SingleHandle == \A g, h \in Handles : g = h

\* The threads between lock_writes and the drop of the guard are its holders.
Guarded ==
  /\ guard \in [Handles -> {None} \cup Writers]
  /\ pc \in [Writers -> {"idle", "locked", "built", "written"}]
  /\ \A w \in Writers : pc[w] # "idle" <=> guard[HandleOf[w]] = w

\* An event that is about to be written is the next one of the file as it is.
DraftsFresh ==
  /\ draft = [w \in Writers |-> draft[w]]
  /\ \A w \in Writers : pc[w] = "built" =>
       /\ tail = "clean"
       /\ \E payload \in Payloads : draft[w] = stored(log, payload)

LogInv == Guarded /\ DraftsFresh

\* Behind one handle, two threads are never both inside append.
LEMMA OneWriterInside ==
  ASSUME SingleHandle, Guarded, NEW v \in Writers, NEW w \in Writers,
         pc[v] # "idle", pc[w] # "idle"
  PROVE  v = w
<1>1. HandleOf[v] \in Handles /\ HandleOf[w] \in Handles
  BY HandleOfIsTotal
<1>2. HandleOf[v] = HandleOf[w]
  BY <1>1 DEF SingleHandle
<1> QED BY <1>2 DEF Guarded

\* Every step of append, and every crash, keeps the invariant.
LEMMA LogInvInductive ==
  ASSUME SingleHandle, LogInv, [LogNext]_logVars
  PROVE  LogInv'
<1> USE DEF LogInv
<1>0. \A w \in Writers : HandleOf[w] \in Handles
  BY HandleOfIsTotal
<1>1. ASSUME NEW w \in Writers, lock_writes(w) PROVE LogInv'
  <2>1. Guarded'
    BY <1>0, <1>1, NoneIsNoWriter DEF lock_writes, Guarded
  <2>2. DraftsFresh'
    BY <1>1 DEF lock_writes, Guarded, DraftsFresh
  <2> QED BY <2>1, <2>2
<1>2. ASSUME NEW w \in Writers, NEW payload \in Payloads, LoadAndBuild(w, payload) PROVE LogInv'
  <2>1. Guarded'
    BY <1>2 DEF LoadAndBuild, Guarded
  <2>2. DraftsFresh'
    BY <1>2 DEF LoadAndBuild, Guarded, DraftsFresh
  <2> QED BY <2>1, <2>2
<1>3. ASSUME NEW w \in Writers, Done(w), pc[w] # "idle" PROVE LogInv'
  <2>1. \A v \in Writers : v # w => pc[v] = "idle"
    BY <1>3, OneWriterInside
  <2>2. \A v \in Writers : pc'[v] = "idle"
    BY <1>3, <2>1 DEF Done, Guarded
  <2>3. \A v \in Writers : HandleOf[v] = HandleOf[w]
    BY <1>0 DEF SingleHandle
  <2>4. guard'[HandleOf[w]] = None
    BY <1>0, <1>3 DEF Done, Guarded
  <2>5. Guarded'
    BY <1>3, <2>2, <2>3, <2>4, NoneIsNoWriter DEF Done, Guarded
  <2>6. DraftsFresh'
    BY <1>3, <2>2 DEF Done, DraftsFresh
  <2> QED BY <2>5, <2>6
<1>4. ASSUME NEW w \in Writers, WriteLine(w) PROVE LogInv'
  <2>1. \A v \in Writers : v # w => pc[v] = "idle"
    BY <1>4, OneWriterInside DEF WriteLine
  <2>2. Guarded'
    BY <1>4 DEF WriteLine, Guarded
  <2>3. \A v \in Writers : pc'[v] # "built"
    BY <1>4, <2>1 DEF WriteLine, Guarded
  <2>4. DraftsFresh'
    BY <1>4, <2>3 DEF WriteLine, DraftsFresh
  <2> QED BY <2>2, <2>4
<1>5. ASSUME NEW h \in Handles, Crash(h) PROVE LogInv'
  <2>1. \A w \in Writers : HandleOf[w] = h
    BY <1>0 DEF SingleHandle
  <2>2. pc' = [w \in Writers |-> "idle"] /\ guard'[h] = None
    BY <1>5, <2>1 DEF Crash, Guarded
  <2>3. Guarded'
    BY <1>5, <2>1, <2>2, NoneIsNoWriter DEF Crash, Guarded
  <2>4. DraftsFresh'
    BY <1>5, <2>2 DEF Crash, DraftsFresh
  <2> QED BY <2>3, <2>4
<1>6. CASE UNCHANGED logVars
  BY <1>6 DEF logVars, Guarded, DraftsFresh
<1> QED BY <1>1, <1>2, <1>3, <1>4, <1>5, <1>6
        DEF LogNext, AppendRefused, WriteCutShort, ReturnStored, SyncFails

\* The invariant holds of every reachable state.
LEMMA LogInvHolds ==
  ASSUME SingleHandle
  PROVE  LogSpec => []LogInv
<1>1. LogInit => LogInv
  BY HandleOfIsTotal, NoneIsNoWriter DEF LogInit, LogInv, Guarded, DraftsFresh
<1>2. LogInv /\ [LogNext]_logVars => LogInv'
  BY LogInvInductive
<1> QED BY <1>1, <1>2, PTL DEF LogSpec

\* SECURITY.md:14: the file behind one handle changes only by appending the
\* next event of the chain, whatever fails and whoever crashes.
THEOREM LogImplementsChain ==
  ASSUME SingleHandle
  PROVE  LogSpec => ChainSpec
<1>1. LogInit => ChainInit
  BY DEF LogInit
<1>2. LogInv /\ [LogNext]_logVars => [ChainNext]_log
  <2> SUFFICES ASSUME LogInv, LogNext PROVE ChainNext \/ log' = log
    BY DEF logVars
  <2>1. ASSUME NEW w \in Writers, WriteLine(w) PROVE ChainNext \/ log' = log
    BY <2>1 DEF WriteLine, LogInv, DraftsFresh, ChainNext
  <2> QED BY <2>1 DEF LogNext, lock_writes, AppendRefused, WriteCutShort, ReturnStored,
                      SyncFails, LoadAndBuild, Crash
<1> QED BY <1>1, <1>2, LogInvHolds, PTL DEF LogSpec, ChainSpec, AppendOnly

-------------------------------------------------------------------------------
(* What the abstract chain guarantees.                                     *)

\* The log is a sequence; events nest, so no one set holds them all.
IsSequence == \E T : log \in Seq(T)

\* verify_chain recomputes what append wrote.
THEOREM ChainAlwaysVerifies == AppendOnly => []ChainVerifies
<1> DEFINE CInv == IsSequence /\ ChainVerifies
<1>1. ChainInit => CInv
  <2>1. ASSUME ChainInit PROVE log \in Seq({}) /\ Len(log) = 0
    BY <2>1 DEF ChainInit
  <2> QED BY <2>1 DEF IsSequence, ChainVerifies, verify_chain
<1>2. CInv /\ [ChainNext]_log => CInv'
  <2> SUFFICES ASSUME CInv, NEW payload \in Payloads,
                      log' = Append(log, stored(log, payload))
               PROVE  CInv'
    BY DEF ChainNext, IsSequence, ChainVerifies
  <2> DEFINE e == stored(log, payload)
  <2>1. PICK T : log \in Seq(T)
    BY DEF IsSequence
  <2>2. log \in Seq(T \cup {e}) /\ log' = Append(log, e)
    BY <2>1
  <2>3. e.sequence = Len(log) /\ e.prev_hash = last_hash(log)
    <3>1. e.prev_hash = last_hash(log)
      BY DEF stored
    <3>2. e.sequence = IF log = <<>> THEN 0 ELSE log[Len(log)].sequence + 1
      BY DEF stored
    <3>3. CASE log = <<>>
      BY <3>1, <3>2, <3>3
    <3>4. CASE log # <<>>
      <4>1. Len(log) \in 1..Len(log)
        BY <2>1, <3>4
      <4>2. log[Len(log)].sequence = Len(log) - 1
        BY <4>1 DEF ChainVerifies, verify_chain
      <4> QED BY <2>1, <3>1, <3>2, <3>4, <4>2
    <3> QED BY <3>3, <3>4
  <2> HIDE DEF e
  <2>4. /\ log' \in Seq(T \cup {e}) /\ Len(log') = Len(log) + 1
        /\ \A i \in 1..Len(log) : log'[i] = log[i]
        /\ log'[Len(log) + 1] = e /\ Len(log) \in Nat
    BY <2>2
  <2>5. ASSUME NEW i \in 1..Len(log')
        PROVE  /\ log'[i].sequence = i - 1
               /\ log'[i].prev_hash = IF i = 1 THEN None ELSE hash(log'[i - 1])
    <3>1. CASE i \in 1..Len(log)
      <4>1. log'[i] = log[i] /\ (i # 1 => log'[i - 1] = log[i - 1])
        BY <2>4, <3>1
      <4> QED BY <3>1, <4>1 DEF ChainVerifies, verify_chain
    <3>2. CASE i = Len(log) + 1
      <4>1. i = 1 => log = <<>>
        BY <2>1, <3>2
      <4>2. i # 1 => log # <<>> /\ log'[i - 1] = log[Len(log)]
        BY <2>1, <2>4, <3>2
      <4> QED BY <2>3, <2>4, <3>2, <4>1, <4>2 DEF last_hash
    <3> QED BY <2>4, <3>1, <3>2
  <2> QED BY <2>4, <2>5 DEF IsSequence, ChainVerifies, verify_chain
<1> QED BY <1>1, <1>2, PTL DEF AppendOnly

\* jsonl.rs:209: the file that one handle wrote verifies after any number of
\* appends, failures and crashes.
THEOREM LogVerifies ==
  ASSUME SingleHandle
  PROVE  LogSpec => []ChainVerifies
BY LogImplementsChain, ChainAlwaysVerifies, PTL DEF ChainSpec

-------------------------------------------------------------------------------
(* What was acknowledged stays.                                            *)

InLog(l, e) == \E i \in 1..Len(l) : l[i] = e

\* Whoever has written its line has it whole in the file, and so has whoever
\* was told so.
Stored ==
  /\ IsSequence
  /\ \A w \in Writers : pc[w] = "written" => tail = "clean" /\ InLog(log, draft[w])
  /\ \A e \in acked : InLog(log, e)

\* Appending takes nothing out of the file.
LEMMA AppendKeeps ==
  ASSUME NEW T, NEW l \in Seq(T), NEW e
  PROVE  /\ \E U : Append(l, e) \in Seq(U)
         /\ InLog(Append(l, e), e)
         /\ \A f : InLog(l, f) => InLog(Append(l, e), f)
<1> DEFINE m == Append(l, e)
<1>1. l \in Seq(T \cup {e}) /\ e \in T \cup {e}
  OBVIOUS
<1>2. /\ m \in Seq(T \cup {e}) /\ Len(m) = Len(l) + 1 /\ Len(l) \in Nat
      /\ m[Len(l) + 1] = e /\ \A i \in 1..Len(l) : m[i] = l[i]
  BY <1>1
<1> HIDE DEF m
<1>3. Len(l) + 1 \in 1..Len(m) /\ 1..Len(l) \subseteq 1..Len(m)
  BY <1>2
<1>4. InLog(m, e) /\ \A f : InLog(l, f) => InLog(m, f)
  BY <1>2, <1>3 DEF InLog
<1> QED BY <1>2, <1>4 DEF m

\* Every step of append, and every crash, keeps the acknowledged in the file.
LEMMA StoredInductive ==
  ASSUME SingleHandle, LogInv, Stored, [LogNext]_logVars
  PROVE  Stored'
<1> USE DEF Stored, IsSequence
<1>1. ASSUME NEW w \in Writers, WriteLine(w) PROVE Stored'
  <2>1. tail = "clean" /\ tail' = tail /\ log' = Append(log, draft[w])
    BY <1>1 DEF WriteLine, LogInv, DraftsFresh
  <2>2. PICK T : log \in Seq(T)
    OBVIOUS
  <2>3. /\ \E U : log' \in Seq(U)
        /\ InLog(log', draft[w])
        /\ \A f : InLog(log, f) => InLog(log', f)
    BY <2>1, <2>2, AppendKeeps
  <2>4. \A v \in Writers : pc'[v] = "written" => v = w \/ pc[v] = "written"
    BY <1>1 DEF WriteLine, LogInv, Guarded
  <2> QED BY <1>1, <2>1, <2>3, <2>4 DEF WriteLine
<1>2. ASSUME NEW w \in Writers, WriteCutShort(w) PROVE Stored'
  <2>1. \A v \in Writers : pc'[v] # "written"
    BY <1>2, OneWriterInside DEF WriteCutShort, Done, LogInv, Guarded
  <2> QED BY <1>2, <2>1 DEF WriteCutShort
<1>3. ASSUME NEW w \in Writers, ReturnStored(w) \/ SyncFails(w) \/ AppendRefused(w)
      PROVE  Stored'
  <2>1. \A v \in Writers : pc'[v] = "written" => pc[v] = "written" /\ draft'[v] = draft[v]
    BY <1>3 DEF ReturnStored, SyncFails, AppendRefused, Done, LogInv, Guarded, DraftsFresh
  <2>2. log' = log /\ tail' = tail /\ acked' \subseteq acked \cup {draft[w]}
    BY <1>3 DEF ReturnStored, SyncFails, AppendRefused
  <2>3. \A e \in acked' : InLog(log, e)
    BY <1>3, <2>2 DEF ReturnStored, SyncFails, AppendRefused
  <2> QED BY <2>1, <2>2, <2>3
<1>4. ASSUME NEW w \in Writers, NEW payload \in Payloads, LoadAndBuild(w, payload)
      PROVE  Stored'
  <2>1. \A v \in Writers : pc'[v] = "written" => pc[v] = "written" /\ draft'[v] = draft[v]
    BY <1>4 DEF LoadAndBuild, LogInv, Guarded, DraftsFresh
  <2> QED BY <1>4, <2>1 DEF LoadAndBuild
<1>5. ASSUME NEW w \in Writers, lock_writes(w) PROVE Stored'
  <2>1. \A v \in Writers : pc'[v] = "written" => pc[v] = "written" /\ draft'[v] = draft[v]
    BY <1>5 DEF lock_writes, LogInv, Guarded, DraftsFresh
  <2> QED BY <1>5, <2>1 DEF lock_writes
<1>6. ASSUME NEW h \in Handles, Crash(h) PROVE Stored'
  <2>1. \A v \in Writers : pc'[v] = "written" => pc[v] = "written" /\ draft'[v] = draft[v]
    BY <1>6 DEF Crash, LogInv, Guarded
  <2> QED BY <1>6, <2>1 DEF Crash
<1>7. CASE UNCHANGED logVars
  BY <1>7 DEF logVars
<1> QED BY <1>1, <1>2, <1>3, <1>4, <1>5, <1>6, <1>7 DEF LogNext

\* jsonl.rs:195 and jsonl.rs:26: behind one handle an acknowledged event is in
\* the file for good, and a damaged tail freezes it.
THEOREM AcknowledgedAlwaysStays ==
  ASSUME SingleHandle
  PROVE  LogSpec => AcknowledgedStays
<1> DEFINE Step == /\ \A e \in acked' : \E i \in 1..Len(log') : log'[i] = e
                   /\ tail # "clean" => UNCHANGED <<log, tail, acked>>
<1>1. LogInit => Stored
  <2> SUFFICES ASSUME LogInit PROVE Stored
    OBVIOUS
  <2>1. log \in Seq({})
    BY DEF LogInit, ChainInit
  <2> QED BY <2>1 DEF LogInit, Stored, IsSequence
<1>2. LogInv /\ Stored /\ [LogNext]_logVars => Stored'
  BY StoredInductive
<1>3. LogInv /\ Stored /\ Stored' /\ [LogNext]_logVars => [Step]_logVars
  <2> SUFFICES ASSUME LogInv, Stored, Stored', LogNext, tail # "clean"
               PROVE  UNCHANGED <<log, tail, acked>>
    BY DEF Stored, InLog
  <2>1. ASSUME NEW w \in Writers,
               WriteLine(w) \/ WriteCutShort(w) \/ ReturnStored(w)
        PROVE  FALSE
    BY <2>1 DEF WriteLine, WriteCutShort, ReturnStored, LogInv, DraftsFresh, Stored
  <2> QED BY <2>1 DEF LogNext, lock_writes, AppendRefused, SyncFails, LoadAndBuild, Crash
<1> QED BY <1>1, <1>2, <1>3, LogInvHolds, PTL DEF LogSpec, AcknowledgedStays

-------------------------------------------------------------------------------
(* The endpoint: what one connection can hold.                             *)

ClientLine == [line : {"ping", "request", "unrecognised", "oversize"}, call : Nat]
Stages == {"none", "backlog", "closed"} \cup Tasks
Connection ==
  [to : Brokers \cup {None}, stage : Stages, open : BOOLEAN,
   sent : Seq(ClientLine), replies : Seq(ServerLine), running : Nat]

Early == {"backlog", "handshake", "refusing"}
Unexecuted == {"Usage", "connection_limit", "ConnectionFailed", "unrecognized", "too_long", "pong"}

\* The calls of client c that the engine executed, according to ex.
Calls(ex, c) == {n \in Nat : <<c, n>> \in Range(ex)}

\* What a client with outcomes o was told agrees with its executed calls E.
Truthful(o, E) ==
  /\ E \subseteq 1..Len(o)
  /\ \A n \in 1..Len(o) : /\ o[n] = "response" => n \in E
                          /\ o[n] \in Unexecuted => n \notin E

\* A line on its way, or in the pipeline, is that of the last exchange, which
\* the client has not been answered: there is never a second one.
Outstanding(r, o, E) ==
  /\ r.running # 0 <=> r.stage \in {"executing", "answering"}
  /\ r.sent # <<>> \/ r.running # 0 =>
       /\ o # <<>> /\ o[Len(o)] \in {"pending", "Timeout"}
       /\ r.open => o[Len(o)] = "pending"
       /\ r.replies = <<>>
  /\ r.sent # <<>> =>
       /\ r.stage \in Early \cup {"serving"}
       /\ Len(r.sent) = 1 /\ r.sent[1].call = Len(o) /\ Len(o) \notin E
  /\ r.running # 0 => r.running = Len(o) /\ (r.stage = "answering" <=> Len(o) \in E)

\* A reply on its way answers the last exchange, or refuses the connection.
Answering(r, o, E) ==
  r.replies # <<>> =>
    /\ r.open /\ Len(r.replies) = 1
    /\ (o # <<>> /\ o[Len(o)] = "pending") \/ r.stage = "closed"
    /\ r.replies[1].line = "response" => r.replies[1].call = Len(o) /\ Len(o) \in E
    /\ r.replies[1].line \in Unexecuted => Len(o) \notin E

\* Nothing has happened on a connection that is not served yet.
Unserved(r, E) ==
  /\ r.stage \in Early => E = {} /\ r.replies = <<>>
  /\ r.stage = "none" => ~r.open /\ r.sent = <<>> /\ r.replies = <<>>

Exchange(r, o, E) ==
  Truthful(o, E) /\ Outstanding(r, o, E) /\ Answering(r, o, E) /\ Unserved(r, E)

\* Every client's exchange, and no request is executed twice.
Exchanges ==
  /\ conn \in [Clients -> Connection]
  /\ outcome \in [Clients -> Seq(Outcomes)]
  /\ executed \in Seq(Clients \X Nat)
  /\ IsInjective(executed)
  /\ \A c \in Clients : Exchange(conn[c], outcome[c], Calls(executed, c))

\* Only a broker that serves or drains has tasks, and the connections that hold
\* a slot of it are as many as it counts.
Accounted ==
  /\ kind \in {"local", "remote"}
  /\ socket \in Brokers \cup {None}
  /\ proc \in [Brokers -> {"down", "probed", "removed", "bound", "serving", "wedged", "draining"}]
  /\ stop \subseteq Brokers
  /\ live \in [Brokers -> Nat]
  /\ \A c \in Clients : conn[c].stage \in Tasks \cup {"backlog"} => conn[c].to \in Brokers
  /\ \A c \in Clients : conn[c].stage \in Tasks => proc[conn[c].to] \in {"serving", "draining"}
  /\ \A b \in Brokers : live[b] = Cardinality(Of(b, Slots)) /\ live[b] <= MaxConnections

EndpointInv == Exchanges /\ Accounted

-------------------------------------------------------------------------------
(* One connection: every step of its task or of its client keeps Exchange. *)

\* The server never reads from it again.
LEMMA ShutKeeps ==
  ASSUME NEW r \in Connection, NEW o \in Seq(Outcomes), NEW E, Exchange(r, o, E)
  PROVE  Shut(r) \in Connection /\ Exchange(Shut(r), o, E)
<1> DEFINE u == Shut(r)
<1>0. <<>> \in Seq(ClientLine)
  OBVIOUS
<1>1. /\ u \in Connection /\ u.stage = "closed" /\ u.sent = <<>> /\ u.running = 0
      /\ u.open = r.open /\ u.replies = r.replies
  BY <1>0 DEF Shut, Connection, Stages
<1> HIDE DEF u
<1>2. Truthful(o, E) /\ Outstanding(u, o, E)
  BY <1>1 DEF Exchange, Outstanding
<1>3. Answering(u, o, E) /\ Unserved(u, E)
  BY <1>1 DEF Exchange, Answering, Unserved, Early
<1> QED BY <1>1, <1>2, <1>3 DEF Exchange, u

\* A task writes its one reply, and closes or serves on.
LEMMA ReplyKeeps ==
  ASSUME NEW r \in Connection, NEW o \in Seq(Outcomes), NEW E, Exchange(r, o, E),
         r.open, r.replies = <<>>, NEW line \in ServerLine,
         line.line = "response" => line.call = Len(o) /\ Len(o) \in E,
         line.line \in Unexecuted => Len(o) \notin E
  PROVE  /\ LET u == [Shut(r) EXCEPT !.replies = Append(r.replies, line)]
            IN  u \in Connection /\ Exchange(u, o, E)
         /\ r.stage \notin Early \cup {"none"} /\ (r.sent # <<>> \/ r.running # 0) =>
              /\ LET u == [r EXCEPT !.stage = "serving", !.running = 0, !.sent = <<>>,
                                    !.replies = Append(r.replies, line)]
                 IN  u \in Connection /\ Exchange(u, o, E)
<1>0. r.replies \in Seq(ServerLine) /\ Append(r.replies, line) \in Seq(ServerLine)
      /\ Len(Append(r.replies, line)) = 1 /\ Append(r.replies, line)[1] = line
      /\ Append(r.replies, line) # <<>> /\ <<>> \in Seq(ClientLine)
  BY DEF Connection
<1> DEFINE u == [Shut(r) EXCEPT !.replies = Append(r.replies, line)]
           v == [r EXCEPT !.stage = "serving", !.running = 0, !.sent = <<>>,
                          !.replies = Append(r.replies, line)]
<1>1. /\ u \in Connection /\ u.stage = "closed" /\ u.sent = <<>> /\ u.running = 0
      /\ u.open = r.open /\ u.replies = Append(r.replies, line)
  BY <1>0 DEF Shut, Connection, Stages
<1>2. /\ v \in Connection /\ v.stage = "serving" /\ v.sent = <<>> /\ v.running = 0
      /\ v.open = r.open /\ v.replies = Append(r.replies, line)
  BY <1>0 DEF Connection, Stages, Tasks, Slots
<1> HIDE DEF u, v
<1>3. Exchange(u, o, E)
  <2>1. Truthful(o, E) /\ Outstanding(u, o, E)
    BY <1>1 DEF Exchange, Outstanding
  <2>2. Answering(u, o, E) /\ Unserved(u, E)
    BY <1>0, <1>1 DEF Answering, Unserved, Early
  <2> QED BY <2>1, <2>2 DEF Exchange
<1>4. ASSUME r.sent # <<>> \/ r.running # 0 PROVE Exchange(v, o, E)
  <2>1. Truthful(o, E) /\ Outstanding(v, o, E)
    BY <1>2 DEF Exchange, Outstanding
  <2>2. o # <<>> /\ o[Len(o)] = "pending"
    BY <1>4 DEF Exchange, Outstanding
  <2>3. Answering(v, o, E) /\ Unserved(v, E)
    BY <1>0, <1>2, <2>2 DEF Answering, Unserved, Early
  <2> QED BY <2>1, <2>3 DEF Exchange
<1> QED BY <1>1, <1>2, <1>3, <1>4 DEF u, v

\* The accept loop and the handshake move a connection on.
LEMMA EnterKeeps ==
  ASSUME NEW r \in Connection, NEW o \in Seq(Outcomes), NEW E, Exchange(r, o, E),
         r.stage \in Early, NEW stage \in Early \cup {"serving"}
  PROVE  LET u == [r EXCEPT !.stage = stage]
         IN  u \in Connection /\ Exchange(u, o, E)
<1> DEFINE u == [r EXCEPT !.stage = stage]
<1>1. /\ u \in Connection /\ u.stage = stage /\ u.sent = r.sent /\ u.running = r.running
      /\ u.open = r.open /\ u.replies = r.replies
  BY DEF Connection, Stages, Tasks, Slots, Early
<1> HIDE DEF u
<1>2. r.running = 0 /\ r.replies = <<>> /\ E = {}
  BY DEF Exchange, Outstanding, Unserved, Early
<1>3. Truthful(o, E) /\ Outstanding(u, o, E)
  BY <1>1, <1>2 DEF Exchange, Outstanding, Early
<1>4. Answering(u, o, E) /\ Unserved(u, E)
  BY <1>1, <1>2 DEF Answering, Unserved, Early
<1> QED BY <1>1, <1>3, <1>4 DEF Exchange, u

\* A served line is the one line under way.
LEMMA SentFacts ==
  ASSUME NEW r \in Connection, NEW o \in Seq(Outcomes), NEW E, Exchange(r, o, E), r.sent # <<>>
  PROVE  /\ Tail(r.sent) = <<>> /\ Head(r.sent) \in ClientLine
         /\ Head(r.sent).call = Len(o) /\ Len(o) \in Nat \ {0} /\ Len(o) \notin E
         /\ r.replies = <<>> /\ r.running = 0
<1>1. /\ r.sent \in Seq(ClientLine) /\ Len(r.sent) = 1 /\ r.sent[1].call = Len(o)
      /\ Len(o) \notin E /\ r.replies = <<>> /\ o # <<>>
  BY DEF Exchange, Outstanding, Connection
<1>2. r.running = 0
  BY DEF Exchange, Outstanding, Early
<1>3. Tail(r.sent) = <<>> /\ Head(r.sent) = r.sent[1] /\ r.sent[1] \in ClientLine
  <2>1. r.sent # <<>> /\ r.sent \in Seq(ClientLine) /\ Len(r.sent) = 1
    BY <1>1
  <2>2. Tail(r.sent) \in Seq(ClientLine) /\ Len(Tail(r.sent)) = 0
    BY <2>1
  <2>3. Head(r.sent) = r.sent[1] /\ r.sent[1] \in ClientLine
    BY <2>1
  <2>4. PICK t : t = Tail(r.sent)
    OBVIOUS
  <2>5. t = <<>>
    BY <2>2, <2>4
  <2> QED BY <2>3, <2>4, <2>5
<1>4. Len(o) \in Nat \ {0}
  BY <1>1
<1> QED BY <1>1, <1>2, <1>3, <1>4

\* A request goes to the blocking pool.
LEMMA TakeKeeps ==
  ASSUME NEW r \in Connection, NEW o \in Seq(Outcomes), NEW E, Exchange(r, o, E),
         r.sent # <<>>, r.stage = "serving"
  PROVE  LET u == [r EXCEPT !.sent = Tail(r.sent), !.stage = "executing",
                            !.running = Head(r.sent).call]
         IN  u \in Connection /\ Exchange(u, o, E)
<1> DEFINE u == [r EXCEPT !.sent = Tail(r.sent), !.stage = "executing",
                          !.running = Head(r.sent).call]
<1>0. /\ Tail(r.sent) = <<>> /\ Head(r.sent).call = Len(o) /\ Len(o) \in Nat \ {0}
      /\ Len(o) \notin E /\ r.replies = <<>> /\ <<>> \in Seq(ClientLine)
  BY SentFacts
<1>1. /\ u \in Connection /\ u.stage = "executing" /\ u.sent = <<>> /\ u.running = Len(o)
      /\ u.open = r.open /\ u.replies = <<>>
  BY <1>0 DEF Connection, Stages, Tasks, Slots
<1> HIDE DEF u
<1>2. Truthful(o, E) /\ Outstanding(u, o, E)
  BY <1>0, <1>1 DEF Exchange, Outstanding
<1>3. Answering(u, o, E) /\ Unserved(u, E)
  BY <1>1 DEF Answering, Unserved, Early
<1> QED BY <1>1, <1>2, <1>3 DEF Exchange, u

\* The engine executes the call in the pipeline: it stands executed, and it was
\* not before.
LEMMA ExecuteKeeps ==
  ASSUME NEW r \in Connection, NEW o \in Seq(Outcomes), NEW E, Exchange(r, o, E),
         r.stage = "executing"
  PROVE  /\ r.running \in Nat \ E
         /\ LET u == [r EXCEPT !.stage = "answering"]
            IN  u \in Connection /\ Exchange(u, o, E \cup {r.running})
         /\ Exchange(Shut(r), o, E \cup {r.running})
<1> DEFINE u == [r EXCEPT !.stage = "answering"]
           v == Shut(r)
           F == E \cup {r.running}
<1>0. /\ r.running # 0 /\ r.running = Len(o) /\ r.running \notin E /\ r.replies = <<>>
      /\ r.running \in Nat /\ r.sent = <<>>
      /\ o # <<>> /\ o[Len(o)] \in {"pending", "Timeout"} /\ (r.open => o[Len(o)] = "pending")
  BY DEF Exchange, Outstanding, Early, Connection
<1>1. /\ u \in Connection /\ u.stage = "answering" /\ u.sent = r.sent /\ u.running = r.running
      /\ u.open = r.open /\ u.replies = r.replies
  BY DEF Connection, Stages, Tasks, Slots
<1>2. v.stage = "closed" /\ v.sent = <<>> /\ v.running = 0 /\ v.replies = r.replies
  BY DEF Shut, Connection
<1> HIDE DEF u, v
<1>3. Truthful(o, F)
  <2>1. Len(o) \in 1..Len(o)
    BY <1>0
  <2> QED BY <1>0, <2>1 DEF Exchange, Truthful, Unexecuted
<1>4. Len(o) \in F /\ r.running = Len(o)
  BY <1>0
<1> HIDE DEF F
<1>5. Outstanding(u, o, F) /\ Answering(u, o, F) /\ Unserved(u, F)
  BY <1>0, <1>1, <1>4 DEF Outstanding, Answering, Unserved, Early
<1>6. Outstanding(v, o, F) /\ Answering(v, o, F) /\ Unserved(v, F)
  BY <1>0, <1>2 DEF Outstanding, Answering, Unserved, Early
<1> QED BY <1>0, <1>1, <1>3, <1>5, <1>6 DEF Exchange, u, v, F

\* A client writes the line of its next exchange.
LEMMA SendKeeps ==
  ASSUME NEW r \in Connection, NEW o \in Seq(Outcomes), NEW E, Exchange(r, o, E),
         r.open, ~(o # <<>> /\ o[Len(o)] = "pending"), r.stage # "closed",
         NEW line \in {"ping", "request", "unrecognised", "oversize"}
  PROVE  LET u == [r EXCEPT !.sent = Append(r.sent, Line(line, Len(o) + 1))]
             p == Append(o, "pending")
         IN  u \in Connection /\ p \in Seq(Outcomes) /\ Exchange(u, p, E)
<1> DEFINE u == [r EXCEPT !.sent = Append(r.sent, Line(line, Len(o) + 1))]
           p == Append(o, "pending")
<1>1. /\ p \in Seq(Outcomes) /\ Len(p) = Len(o) + 1 /\ p[Len(p)] = "pending" /\ p # <<>>
      /\ Len(o) \in Nat /\ \A n \in 1..Len(o) : p[n] = o[n]
  <2>1. "pending" \in Outcomes
    BY DEF Outcomes
  <2>2. p \in Seq(Outcomes) /\ Len(p) = Len(o) + 1 /\ Len(o) \in Nat
    BY <2>1
  <2>3. p[Len(o) + 1] = "pending" /\ \A n \in 1..Len(o) : p[n] = o[n]
    BY <2>1
  <2> QED BY <2>2, <2>3
<1>2. r.sent = <<>> /\ r.running = 0 /\ r.replies = <<>>
  BY DEF Exchange, Outstanding, Answering
<1>3. r.stage \in Early \cup {"serving"}
  <2>1. r.stage \in Stages /\ r.stage # "none" /\ r.stage \notin {"executing", "answering"}
    BY <1>2 DEF Exchange, Outstanding, Unserved, Connection
  <2> QED BY <2>1 DEF Stages, Tasks, Slots, Early
<1>4. /\ Line(line, Len(o) + 1) \in ClientLine /\ Line(line, Len(o) + 1).call = Len(o) + 1
  BY <1>1 DEF Line, ClientLine
<1>5. /\ r.sent \in Seq(ClientLine)
      /\ Append(r.sent, Line(line, Len(o) + 1)) \in Seq(ClientLine)
      /\ Len(Append(r.sent, Line(line, Len(o) + 1))) = 1
      /\ Append(r.sent, Line(line, Len(o) + 1))[1] = Line(line, Len(o) + 1)
  BY <1>2, <1>4 DEF Connection
<1>6. /\ u \in Connection /\ u.stage = r.stage /\ u.running = r.running
      /\ u.open = r.open /\ u.replies = r.replies
      /\ u.sent = Append(r.sent, Line(line, Len(o) + 1))
  BY <1>5 DEF Connection
<1> HIDE DEF u, p
<1>7. Truthful(p, E)
  <2>1. E \subseteq 1..Len(p) /\ Len(p) \notin E
    BY <1>1 DEF Exchange, Truthful
  <2>2. ASSUME NEW n \in 1..Len(p)
        PROVE  (p[n] = "response" => n \in E) /\ (p[n] \in Unexecuted => n \notin E)
    <3>1. n \in 1..Len(o) \/ n = Len(p)
      BY <1>1
    <3> QED BY <1>1, <3>1 DEF Exchange, Truthful, Unexecuted
  <2> QED BY <2>1, <2>2 DEF Truthful
<1>8. Len(p) \notin E
  BY <1>1 DEF Exchange, Truthful
<1>9. Outstanding(u, p, E)
  BY <1>1, <1>2, <1>3, <1>4, <1>5, <1>6, <1>8 DEF Exchange, Outstanding
<1>10. Answering(u, p, E) /\ Unserved(u, E)
  BY <1>2, <1>3, <1>6 DEF Exchange, Answering, Unserved, Early
<1> QED BY <1>1, <1>6, <1>7, <1>9, <1>10 DEF Exchange, u, p

\* A client drops its end, with or without an error to report.
LEMMA LeaveKeeps ==
  ASSUME NEW r \in Connection, NEW o \in Seq(Outcomes), NEW E, Exchange(r, o, E), r.open
  PROVE  LET u == [r EXCEPT !.open = FALSE, !.replies = <<>>]
             t == [o EXCEPT ![Len(o)] = "Timeout"]
             i == [o EXCEPT ![Len(o)] = "Io"]
             a == Append(o, "Io")
         IN  /\ u \in Connection /\ Exchange(u, o, E)
             /\ o # <<>> => t \in Seq(Outcomes) /\ Exchange(u, t, E)
             /\ o # <<>> /\ r.stage = "closed" => i \in Seq(Outcomes) /\ Exchange(u, i, E)
             /\ r.stage = "closed" => a \in Seq(Outcomes) /\ Exchange(u, a, E)
<1> DEFINE u == [r EXCEPT !.open = FALSE, !.replies = <<>>]
           told(w) == [o EXCEPT ![Len(o)] = w]
           a == Append(o, "Io")
<1>0. <<>> \in Seq(ServerLine) /\ r.stage # "none"
  BY DEF Exchange, Unserved
<1>1. /\ u \in Connection /\ u.stage = r.stage /\ u.running = r.running
      /\ u.open = FALSE /\ u.replies = <<>> /\ u.sent = r.sent
  BY <1>0 DEF Connection
<1> HIDE DEF u
<1>2. Answering(u, o, E) /\ Unserved(u, E) /\ (\A p : Answering(u, p, E))
  BY <1>1 DEF Exchange, Answering, Unserved
<1>3. Exchange(u, o, E)
  BY <1>1, <1>2 DEF Exchange, Outstanding
<1>4. ASSUME NEW w \in {"Timeout", "Io"}, o # <<>>
      PROVE  /\ told(w) \in Seq(Outcomes) /\ Len(told(w)) = Len(o) /\ told(w)[Len(o)] = w
             /\ told(w) # <<>> /\ Truthful(told(w), E)
  <2>1. Len(o) \in 1..Len(o) /\ w \in Outcomes
    BY <1>4 DEF Outcomes
  <2>2. /\ told(w) \in Seq(Outcomes) /\ Len(told(w)) = Len(o) /\ told(w)[Len(o)] = w
        /\ \A n \in 1..Len(o) : told(w)[n] = IF n = Len(o) THEN w ELSE o[n]
    BY <2>1
  <2>3. told(w) # <<>>
    BY <1>4, <2>1, <2>2
  <2>4. w \notin Unexecuted /\ w # "response"
    BY <1>4, SMTT(40) DEF Unexecuted
  <2>5. Truthful(told(w), E)
    BY <2>2, <2>4 DEF Exchange, Truthful
  <2> QED BY <2>2, <2>3, <2>5
<1> HIDE DEF told
<1>5. ASSUME o # <<>> PROVE Outstanding(u, told("Timeout"), E)
  BY <1>1, <1>4, <1>5 DEF Exchange, Outstanding
<1>6. ASSUME r.stage = "closed" PROVE \A p : Outstanding(u, p, E)
  <2>1. r.running = 0 /\ r.sent = <<>>
    BY <1>6 DEF Exchange, Outstanding, Early
  <2> QED BY <1>1, <1>6, <2>1 DEF Outstanding
<1>7. a \in Seq(Outcomes) /\ Truthful(a, E)
  <2>1. /\ a \in Seq(Outcomes) /\ Len(a) = Len(o) + 1 /\ a[Len(a)] = "Io"
        /\ Len(o) \in Nat /\ \A n \in 1..Len(o) : a[n] = o[n]
    BY DEF Outcomes
  <2> HIDE DEF a
  <2>2. E \subseteq 1..Len(a)
    BY <2>1 DEF Exchange, Truthful
  <2>3. ASSUME NEW n \in 1..Len(a)
        PROVE  (a[n] = "response" => n \in E) /\ (a[n] \in Unexecuted => n \notin E)
    <3>1. n \in 1..Len(o) \/ n = Len(a)
      BY <2>1
    <3> QED BY <2>1, <3>1 DEF Exchange, Truthful, Unexecuted
  <2> QED BY <2>1, <2>2, <2>3 DEF Truthful
<1> HIDE DEF a
<1>8. o # <<>> => told("Timeout") \in Seq(Outcomes) /\ Exchange(u, told("Timeout"), E)
  BY <1>2, <1>4, <1>5 DEF Exchange
<1>9. o # <<>> /\ r.stage = "closed" => told("Io") \in Seq(Outcomes) /\ Exchange(u, told("Io"), E)
  BY <1>2, <1>4, <1>6 DEF Exchange
<1>10. r.stage = "closed" => a \in Seq(Outcomes) /\ Exchange(u, a, E)
  BY <1>2, <1>6, <1>7 DEF Exchange
<1> QED BY <1>1, <1>3, <1>8, <1>9, <1>10 DEF u, told, a

\* The reply a client takes is the outcome of the exchange it waits for.
LEMMA ReceiveKeeps ==
  ASSUME NEW r \in Connection, NEW o \in Seq(Outcomes), NEW E, Exchange(r, o, E),
         r.open, o # <<>>, o[Len(o)] = "pending", r.replies # <<>>
  PROVE  LET reply == Head(r.replies)
             w == IF reply.line = "response" /\ reply.call # Len(o) THEN "another" ELSE reply.line
             u == [r EXCEPT !.replies = Tail(r.replies), !.open = reply.line \notin Violations]
             p == [o EXCEPT ![Len(o)] = w]
         IN  u \in Connection /\ p \in Seq(Outcomes) /\ Exchange(u, p, E)
<1>1. /\ r.replies \in Seq(ServerLine) /\ Len(r.replies) = 1
      /\ r.replies[1].line = "response" => r.replies[1].call = Len(o) /\ Len(o) \in E
      /\ r.replies[1].line \in Unexecuted => Len(o) \notin E
      /\ r.sent = <<>> /\ r.running = 0
  BY DEF Exchange, Answering, Outstanding, Connection
<1>2. Head(r.replies) = r.replies[1] /\ r.replies[1] \in ServerLine
  BY <1>1
<1>3. PICK t : t = Tail(r.replies)
  OBVIOUS
<1>4. t = <<>> /\ t \in Seq(ServerLine)
  <2>1. t \in Seq(ServerLine) /\ Len(t) = 0
    BY <1>1, <1>3
  <2> QED BY <2>1
<1>5. PICK l : l = r.replies[1].line
  OBVIOUS
<1>6. PICK k \in BOOLEAN : k <=> l \notin Violations
  OBVIOUS
<1> DEFINE u == [r EXCEPT !.replies = t, !.open = l \notin Violations]
           p == [o EXCEPT ![Len(o)] = l]
<1>7. l \in Outcomes
  BY <1>2, <1>5 DEF ServerLine, Outcomes
<1>8. /\ p \in Seq(Outcomes) /\ Len(p) = Len(o)
      /\ \A n \in 1..Len(o) : p[n] = IF n = Len(o) THEN l ELSE o[n]
  BY <1>7
<1>9. Truthful(p, E)
  BY <1>1, <1>5, <1>8, ZenonT(40) DEF Exchange, Truthful
<1>10. /\ u \in Connection /\ u.stage = r.stage /\ u.running = 0 /\ u.replies = <<>>
       /\ u.sent = <<>>
  BY <1>1, <1>4 DEF Connection
<1>11. r.stage = "none" => FALSE
  BY DEF Exchange, Unserved
<1> HIDE DEF u, p
<1>12. Outstanding(u, p, E) /\ Answering(u, p, E) /\ Unserved(u, E)
  BY <1>1, <1>10, <1>11 DEF Exchange, Outstanding, Answering, Unserved
<1>13. u \in Connection /\ p \in Seq(Outcomes) /\ Exchange(u, p, E)
  BY <1>8, <1>9, <1>10, <1>12 DEF Exchange
<1> QED BY <1>1, <1>2, <1>3, <1>5, <1>13 DEF u, p

\* A client that never connected was told so; one that connects starts anew.
LEMMA FreshKeeps ==
  ASSUME NEW r \in Connection, NEW o \in Seq(Outcomes), NEW E, Exchange(r, o, E),
         r.stage = "none", o = <<>>
  PROVE  /\ E = {}
         /\ \A w \in {"Usage", "ConnectionFailed"} : <<w>> \in Seq(Outcomes) /\ Exchange(r, <<w>>, E)
         /\ \A b \in Brokers :
              LET u == [NoConn EXCEPT !.to = b, !.stage = "backlog", !.open = TRUE]
              IN  u \in Connection /\ Exchange(u, o, E)
<1>1. E = {} /\ Len(o) = 0 /\ Truthful(o, E)
  BY DEF Exchange, Truthful
<1>2. ~r.open /\ r.sent = <<>> /\ r.replies = <<>> /\ r.running = 0
  BY DEF Exchange, Unserved, Outstanding
<1>3. ASSUME NEW w \in {"Usage", "ConnectionFailed"}
      PROVE  <<w>> \in Seq(Outcomes) /\ Exchange(r, <<w>>, E)
  <2>1. <<w>> \in Seq(Outcomes) /\ Len(<<w>>) = 1 /\ <<w>>[1] = w
    BY DEF Outcomes
  <2>2. Truthful(<<w>>, E)
    BY <1>1, <2>1 DEF Truthful
  <2>3. Outstanding(r, <<w>>, E) /\ Answering(r, <<w>>, E) /\ Unserved(r, E)
    BY <1>2 DEF Exchange, Outstanding, Answering, Unserved
  <2> QED BY <2>1, <2>2, <2>3 DEF Exchange
<1>4. ASSUME NEW b \in Brokers
      PROVE  LET u == [NoConn EXCEPT !.to = b, !.stage = "backlog", !.open = TRUE]
             IN  u \in Connection /\ Exchange(u, o, E)
  <2> DEFINE u == [NoConn EXCEPT !.to = b, !.stage = "backlog", !.open = TRUE]
  <2>0. <<>> \in Seq(ClientLine) /\ <<>> \in Seq(ServerLine)
    OBVIOUS
  <2>1. /\ u \in Connection /\ u.stage = "backlog" /\ u.running = 0 /\ u.sent = <<>>
        /\ u.replies = <<>>
    BY <2>0 DEF NoConn, Connection, Stages
  <2> HIDE DEF u
  <2>2. Outstanding(u, o, E) /\ Answering(u, o, E) /\ Unserved(u, E)
    BY <1>1, <2>1 DEF Outstanding, Answering, Unserved, Early
  <2> QED BY <1>1, <2>1, <2>2 DEF Exchange, u
<1> QED BY <1>1, <1>3, <1>4

-------------------------------------------------------------------------------
(* What was executed, and in which order it was recorded.                  *)

\* SetToSeq lists a finite set, each element once.
LEMMA Listing ==
  ASSUME NEW S, IsFiniteSet(S)
  PROVE  SetToSeq(S) \in Seq(S) /\ IsInjective(SetToSeq(S)) /\ Range(SetToSeq(S)) = S
<1> DEFINE n == Cardinality(S)
           s == SetToSeq(S)
<1>1. n \in Nat /\ ExistsBijection(1..n, S)
  BY FS_CardinalityType
<1>2. \E f \in [1..n -> S] : IsInjective(f)
  BY <1>1 DEF ExistsBijection, Bijection, Injection
<1>3. s \in [1..n -> S] /\ IsInjective(s)
  BY <1>2 DEF SetToSeq
<1>4. s \in Injection(1..n, S)
  BY <1>3 DEF Injection
<1> HIDE DEF s
<1>5. IsFiniteSet(1..n) /\ Cardinality(1..n) = n
  BY <1>1, FS_Interval
<1>6. s \in Surjection(1..n, S)
  BY <1>4, <1>5, FS_Injection
<1>7. s \in Seq(S) /\ DOMAIN s = 1..n
  BY <1>1, <1>3
<1>8. Range(s) = S
  BY <1>3, <1>6, <1>7 DEF Surjection, Range
<1> QED BY <1>3, <1>7, <1>8 DEF s

\* Recording what was not recorded yet keeps the record free of repetitions.
LEMMA RecordGrows ==
  ASSUME NEW T, NEW ex \in Seq(T), NEW ys \in Seq(T), IsInjective(ex), IsInjective(ys),
         Range(ex) \cap Range(ys) = {}
  PROVE  /\ ex \o ys \in Seq(T) /\ IsInjective(ex \o ys)
         /\ Range(ex \o ys) = Range(ex) \cup Range(ys)
<1> DEFINE z == ex \o ys
           m == Len(ex)
           k == Len(ys)
<1>1. /\ z \in Seq(T) /\ Len(z) = m + k /\ m \in Nat /\ k \in Nat
      /\ DOMAIN z = 1..(m + k) /\ DOMAIN ex = 1..m /\ DOMAIN ys = 1..k
  OBVIOUS
<1>2. \A i \in 1..(m + k) : z[i] = IF i <= m THEN ex[i] ELSE ys[i - m]
  OBVIOUS
<1> HIDE DEF z, m, k
<1>3. \A i \in 1..m : ex[i] \in Range(ex)
  BY <1>1 DEF Range
<1>4. \A i \in 1..k : ys[i] \in Range(ys)
  BY <1>1 DEF Range
<1>5. IsInjective(z)
  <2> SUFFICES ASSUME NEW i \in 1..(m + k), NEW j \in 1..(m + k), z[i] = z[j] PROVE i = j
    BY <1>1 DEF IsInjective
  <2>1. CASE i <= m /\ j <= m
    <3>1. i \in DOMAIN ex /\ j \in DOMAIN ex /\ ex[i] = ex[j]
      BY <1>1, <1>2, <2>1
    <3> QED BY <3>1 DEF IsInjective
  <2>2. CASE i > m /\ j > m
    <3>1. i - m \in DOMAIN ys /\ j - m \in DOMAIN ys /\ ys[i - m] = ys[j - m]
      BY <1>1, <1>2, <2>2
    <3>2. i - m = j - m
      BY <3>1 DEF IsInjective
    <3> QED BY <1>1, <3>2
  <2>3. CASE i <= m /\ j > m
    <3>1. i \in 1..m /\ j - m \in 1..k /\ ex[i] = ys[j - m]
      BY <1>1, <1>2, <2>3
    <3> QED BY <1>3, <1>4, <3>1
  <2>4. CASE i > m /\ j <= m
    <3>1. j \in 1..m /\ i - m \in 1..k /\ ex[j] = ys[i - m]
      BY <1>1, <1>2, <2>4
    <3> QED BY <1>3, <1>4, <3>1
  <2> QED BY <1>1, <2>1, <2>2, <2>3, <2>4
<1>6. Range(z) = Range(ex) \cup Range(ys)
  <2>1. ASSUME NEW x \in Range(z) PROVE x \in Range(ex) \cup Range(ys)
    <3>1. PICK i \in 1..(m + k) : x = z[i]
      BY <1>1, <2>1 DEF Range
    <3>2. CASE i <= m
      <4>1. i \in 1..m /\ x = ex[i]
        BY <1>1, <1>2, <3>1, <3>2
      <4> QED BY <1>3, <4>1
    <3>3. CASE i > m
      <4>1. i - m \in 1..k /\ x = ys[i - m]
        BY <1>1, <1>2, <3>1, <3>3
      <4> QED BY <1>4, <4>1
    <3> QED BY <1>1, <3>2, <3>3
  <2>2. ASSUME NEW x \in Range(ex) PROVE x \in Range(z)
    <3>1. PICK i \in 1..m : x = ex[i]
      BY <1>1, <2>2 DEF Range
    <3>2. i \in DOMAIN z /\ z[i] = x
      BY <1>1, <1>2, <3>1
    <3> QED BY <3>2 DEF Range
  <2>3. ASSUME NEW x \in Range(ys) PROVE x \in Range(z)
    <3>1. PICK i \in 1..k : x = ys[i]
      BY <1>1, <2>3 DEF Range
    <3>2. i + m \in DOMAIN z /\ z[i + m] = x
      BY <1>1, <1>2, <3>1
    <3> QED BY <3>2 DEF Range
  <2> QED BY <2>1, <2>2, <2>3
<1> QED BY <1>1, <1>5, <1>6 DEF z

\* Append records one more.
LEMMA RecordOne ==
  ASSUME NEW T, NEW ex \in Seq(T), IsInjective(ex), NEW x \in T \ Range(ex)
  PROVE  /\ Append(ex, x) \in Seq(T) /\ IsInjective(Append(ex, x))
         /\ Range(Append(ex, x)) = Range(ex) \cup {x}
<1>1. <<x>> \in Seq(T) /\ Append(ex, x) = ex \o <<x>>
  OBVIOUS
<1>2. Range(<<x>>) = {x}
  BY DEF Range
<1>3. IsInjective(<<x>>)
  BY DEF IsInjective
<1>4. Range(ex) \cap Range(<<x>>) = {}
  BY <1>2
<1>5. PICK ys : ys = <<x>>
  OBVIOUS
<1>6. /\ ex \o ys \in Seq(T) /\ IsInjective(ex \o ys)
      /\ Range(ex \o ys) = Range(ex) \cup Range(ys)
  <2>1. ys \in Seq(T) /\ IsInjective(ys) /\ Range(ex) \cap Range(ys) = {}
    BY <1>1, <1>3, <1>4, <1>5
  <2> QED BY <2>1, RecordGrows
<1> QED BY <1>1, <1>2, <1>5, <1>6

-------------------------------------------------------------------------------
(* Every client: a step about one of them disturbs no other.               *)

\* A step of one connection that executes nothing.
LEMMA OneClient ==
  ASSUME Exchanges, NEW c \in Clients, NEW r \in Connection, NEW o \in Seq(Outcomes),
         Exchange(r, o, Calls(executed, c)),
         conn' = [conn EXCEPT ![c] = r], outcome' = [outcome EXCEPT ![c] = o],
         executed' = executed
  PROVE  Exchanges'
<1>1. /\ conn' \in [Clients -> Connection] /\ outcome' \in [Clients -> Seq(Outcomes)]
      /\ \A d \in Clients : /\ d # c => conn'[d] = conn[d] /\ outcome'[d] = outcome[d]
                            /\ d = c => conn'[d] = r /\ outcome'[d] = o
  BY DEF Exchanges
<1>2. \A d \in Clients : Exchange(conn'[d], outcome'[d], Calls(executed', d))
  BY <1>1 DEF Exchanges
<1> QED BY <1>1, <1>2 DEF Exchanges

\* A server that closes connections executes nothing and tells nobody.
LEMMA ClosingKeeps ==
  ASSUME Exchanges, NEW cs, conn' = Closed(cs), outcome' = outcome, executed' = executed
  PROVE  Exchanges'
<1>1. \A d \in Clients : /\ Shut(conn[d]) \in Connection
                         /\ Exchange(Shut(conn[d]), outcome[d], Calls(executed, d))
  BY ShutKeeps DEF Exchanges
<1>2. /\ conn' \in [Clients -> Connection]
      /\ \A d \in Clients : conn'[d] = Shut(conn[d]) \/ conn'[d] = conn[d]
  BY <1>1 DEF Exchanges, Closed
<1>3. \A d \in Clients : Exchange(conn'[d], outcome'[d], Calls(executed', d))
  BY <1>1, <1>2 DEF Exchanges
<1> QED BY <1>2, <1>3 DEF Exchanges

\* A broker that gives up closes connections whose calls still run to their end.
LEMMA AbandonKeeps ==
  ASSUME Exchanges, NEW cs, NEW finished \in SUBSET cs, cs \subseteq Clients,
         \A c \in finished : conn[c].stage = "executing",
         conn' = Closed(cs), outcome' = outcome,
         executed' = executed \o SetToSeq({<<c, conn[c].running>> : c \in finished})
  PROVE  Exchanges'
<1> DEFINE S == {<<c, conn[c].running>> : c \in finished}
<1>1. \A c \in finished : /\ conn[c].running \in Nat \ Calls(executed, c)
                          /\ Exchange(Shut(conn[c]), outcome[c], Calls(executed, c) \cup {conn[c].running})
  BY ExecuteKeeps DEF Exchanges
<1>2. S \subseteq Clients \X Nat /\ S \cap Range(executed) = {}
  <2>1. S \subseteq Clients \X Nat
    <3>1. \A c \in finished : c \in Clients /\ conn[c].running \in Nat
      BY <1>1
    <3> QED BY <3>1
  <2>2. ASSUME NEW c \in finished PROVE <<c, conn[c].running>> \notin Range(executed)
    BY <1>1 DEF Calls
  <2> QED BY <2>1, <2>2
<1>3. IsFiniteSet(S)
  <2> DEFINE f == [x \in S |-> x[1]]
  <2>1. f \in Injection(S, Clients)
    BY <1>2 DEF Injection, IsInjective
  <2> QED BY <2>1, FS_Injection, EndpointAssumption
<1> HIDE DEF S
<1>4. SetToSeq(S) \in Seq(S) /\ IsInjective(SetToSeq(S)) /\ Range(SetToSeq(S)) = S
  BY <1>3, Listing
<1>5. SetToSeq(S) \in Seq(Clients \X Nat)
  BY <1>2, <1>4
<1>6. executed' = executed \o SetToSeq(S)
  BY DEF S
<1>7. /\ executed' \in Seq(Clients \X Nat) /\ IsInjective(executed')
      /\ Range(executed') = Range(executed) \cup S
  <2>1. PICK T : T = Clients \X Nat
    OBVIOUS
  <2>2. PICK ys : ys = SetToSeq(S)
    OBVIOUS
  <2>3. /\ executed \in Seq(T) /\ IsInjective(executed) /\ ys \in Seq(T) /\ IsInjective(ys)
        /\ Range(executed) \cap Range(ys) = {}
    BY <1>2, <1>4, <1>5, <2>1, <2>2 DEF Exchanges
  <2>4. /\ executed \o ys \in Seq(T) /\ IsInjective(executed \o ys)
        /\ Range(executed \o ys) = Range(executed) \cup Range(ys)
    BY <2>3, RecordGrows
  <2> QED BY <1>4, <1>6, <2>1, <2>2, <2>4
<1>8. \A d \in Clients : Calls(executed', d) =
        IF d \in finished THEN Calls(executed, d) \cup {conn[d].running} ELSE Calls(executed, d)
  BY <1>1, <1>7 DEF Calls, S
<1>9. \A d \in Clients : /\ Shut(conn[d]) \in Connection
                         /\ Exchange(Shut(conn[d]), outcome[d], Calls(executed, d))
  BY ShutKeeps DEF Exchanges
<1>10. /\ conn' \in [Clients -> Connection]
       /\ \A d \in Clients : conn'[d] = IF d \in cs THEN Shut(conn[d]) ELSE conn[d]
  BY <1>9 DEF Exchanges, Closed
<1>11. ASSUME NEW d \in Clients PROVE Exchange(conn'[d], outcome'[d], Calls(executed', d))
  <2>1. CASE d \in finished
    BY <1>1, <1>8, <1>10, <2>1
  <2>2. CASE d \notin finished
    BY <1>8, <1>9, <1>10, <2>2 DEF Exchanges
  <2> QED BY <2>1, <2>2
<1> QED BY <1>7, <1>10, <1>11 DEF Exchanges

\* The engine executes one call.
LEMMA ExecutingKeeps ==
  ASSUME Exchanges, NEW c \in Clients, Execute(c)
  PROVE  Exchanges'
<1> DEFINE x == <<c, conn[c].running>>
           u == [conn[c] EXCEPT !.stage = "answering"]
<1>1. /\ conn[c].running \in Nat \ Calls(executed, c) /\ u \in Connection
      /\ Exchange(u, outcome[c], Calls(executed, c) \cup {conn[c].running})
  BY ExecuteKeeps DEF Exchanges, Execute
<1>2. conn' = [conn EXCEPT ![c] = u] /\ executed' = Append(executed, x) /\ outcome' = outcome
  BY DEF Execute, Enter, ServerState
<1> HIDE DEF u
<1>3. x \in (Clients \X Nat) \ Range(executed)
  BY <1>1 DEF Calls
<1>4. /\ executed' \in Seq(Clients \X Nat) /\ IsInjective(executed')
      /\ Range(executed') = Range(executed) \cup {x}
  <2>1. PICK T : T = Clients \X Nat
    OBVIOUS
  <2>2. PICK y : y = x
    OBVIOUS
  <2>3. executed \in Seq(T) /\ IsInjective(executed) /\ y \in T \ Range(executed)
    BY <1>3, <2>1, <2>2 DEF Exchanges
  <2>4. /\ Append(executed, y) \in Seq(T) /\ IsInjective(Append(executed, y))
        /\ Range(Append(executed, y)) = Range(executed) \cup {y}
    BY <2>3, RecordOne
  <2> QED BY <1>2, <2>1, <2>2, <2>4
<1>5. \A d \in Clients : Calls(executed', d) =
        IF d = c THEN Calls(executed, d) \cup {conn[d].running} ELSE Calls(executed, d)
  BY <1>1, <1>4 DEF Calls
<1>6. conn' \in [Clients -> Connection] /\ conn'[c] = u /\ \A d \in Clients \ {c} : conn'[d] = conn[d]
  BY <1>1, <1>2 DEF Exchanges
<1>7. \A d \in Clients : Exchange(conn'[d], outcome'[d], Calls(executed', d))
  BY <1>1, <1>2, <1>5, <1>6 DEF Exchanges
<1> QED BY <1>2, <1>4, <1>6, <1>7 DEF Exchanges

-------------------------------------------------------------------------------
(* Slots: what each kind of step does to the count.                        *)

\* The connections of broker b in one of the stages, in the map co.
At(co, b, stages) == {c \in Clients : co[c].to = b /\ co[c].stage \in stages}

\* The connections of a broker in some stages are finitely many.
LEMMA AtIsFinite ==
  ASSUME NEW co, NEW b, NEW stages
  PROVE  IsFiniteSet(At(co, b, stages))
<1>1. At(co, b, stages) \in SUBSET Clients
  BY DEF At
<1> QED BY <1>1, FS_Subset, EndpointAssumption

\* A step of one connection that takes and gives no slot.
LEMMA SlotStays ==
  ASSUME Exchanges, Accounted, NEW c \in Clients, NEW r, conn' = [conn EXCEPT ![c] = r],
         UNCHANGED <<kind, socket, proc, stop, live>>,
         r.stage \in Slots <=> conn[c].stage \in Slots,
         r.stage \in Slots => r.to = conn[c].to,
         r.stage \in Tasks \cup {"backlog"} => r.to \in Brokers,
         r.stage \in Tasks => proc[r.to] \in {"serving", "draining"}
  PROVE  Accounted'
<1>1. conn'[c] = r /\ \A d \in Clients \ {c} : conn'[d] = conn[d]
  BY DEF Exchanges
<1>2. \A b \in Brokers : At(conn', b, Slots) = At(conn, b, Slots)
  BY <1>1 DEF At
<1>3. \A d \in Clients : conn'[d].stage \in Tasks \cup {"backlog"} => conn'[d].to \in Brokers
  BY <1>1 DEF Accounted
<1>4. \A d \in Clients : conn'[d].stage \in Tasks => proc'[conn'[d].to] \in {"serving", "draining"}
  BY <1>1 DEF Accounted
<1>5. \A b \in Brokers : live'[b] = Cardinality(Of(b, Slots)') /\ live'[b] <= MaxConnections
  BY <1>2 DEF Accounted, Of, At
<1> QED BY <1>3, <1>4, <1>5 DEF Accounted

\* A step that ends a task, or ends it before it had a slot.
LEMMA SlotReleased ==
  ASSUME Exchanges, Accounted, NEW c \in Clients, NEW r, conn' = [conn EXCEPT ![c] = r],
         UNCHANGED <<kind, socket, proc, stop>>,
         conn[c].stage \in Slots, r.stage = "closed", Release(c)
  PROVE  Accounted'
<1>1. conn'[c] = r /\ \A d \in Clients \ {c} : conn'[d] = conn[d]
  BY DEF Exchanges
<1>2. conn[c].to \in Brokers /\ r.stage \notin Tasks \cup {"backlog"}
  BY DEF Accounted, Tasks, Slots
<1>3. PICK b \in Brokers : b = conn[c].to
  BY <1>2
<1>4. /\ live \in [Brokers -> Nat]
      /\ \A x \in Brokers : live[x] = Cardinality(At(conn, x, Slots)) /\ live[x] <= MaxConnections
  BY DEF Accounted, Of, At
<1>5. At(conn', b, Slots) = At(conn, b, Slots) \ {c} /\ c \in At(conn, b, Slots)
  BY <1>1, <1>2, <1>3 DEF At, Tasks
<1>6. \A x \in Brokers \ {b} : At(conn', x, Slots) = At(conn, x, Slots)
  BY <1>1, <1>2, <1>3 DEF At, Tasks
<1>7. Cardinality(At(conn', b, Slots)) = live[b] - 1 /\ live[b] - 1 \in Nat
  <2>1. PICK S : S = At(conn, b, Slots)
    OBVIOUS
  <2>2. IsFiniteSet(S) /\ c \in S
    BY <1>5, <2>1, AtIsFinite
  <2>3. IsFiniteSet(S \ {c}) /\ Cardinality(S \ {c}) = Cardinality(S) - 1
    BY <2>2, FS_RemoveElement
  <2>4. Cardinality(S \ {c}) \in Nat
    BY <2>3, FS_CardinalityType
  <2> QED BY <1>4, <1>5, <2>1, <2>3, <2>4
<1>8. live' \in [Brokers -> Nat] /\ live'[b] = live[b] - 1 /\ \A x \in Brokers \ {b} : live'[x] = live[x]
  BY <1>3, <1>4, <1>7 DEF Release, Peer
<1>9. \A x \in Brokers : live'[x] = Cardinality(At(conn', x, Slots)) /\ live'[x] <= MaxConnections
  <2>1. live'[b] = Cardinality(At(conn', b, Slots)) /\ live'[b] <= MaxConnections
    BY <1>4, <1>7, <1>8, EndpointAssumption
  <2> QED BY <1>4, <1>6, <1>8, <2>1
<1>10. \A d \in Clients : conn'[d].stage \in Tasks \cup {"backlog"} => conn'[d].to \in Brokers
  BY <1>1, <1>2 DEF Accounted
<1>11. \A d \in Clients : conn'[d].stage \in Tasks => proc'[conn'[d].to] \in {"serving", "draining"}
  BY <1>1, <1>2 DEF Accounted
<1> QED BY <1>8, <1>9, <1>10, <1>11 DEF Accounted, Of, At

\* A step that admits a connection below the limit.
LEMMA SlotTaken ==
  ASSUME Exchanges, Accounted, NEW c \in Clients, NEW r, conn' = [conn EXCEPT ![c] = r],
         UNCHANGED <<kind, socket, proc, stop>>,
         conn[c].stage = "backlog", proc[conn[c].to] = "serving",
         r.stage \in Slots, r.to = conn[c].to, ~(live[conn[c].to] >= MaxConnections),
         live' = [live EXCEPT ![conn[c].to] = @ + 1]
  PROVE  Accounted'
<1>1. conn'[c] = r /\ \A d \in Clients \ {c} : conn'[d] = conn[d]
  BY DEF Exchanges
<1>2. conn[c].to \in Brokers /\ conn[c].stage \notin Slots
  BY DEF Accounted, Tasks, Slots
<1>3. PICK b \in Brokers : b = conn[c].to
  BY <1>2
<1>4. /\ live \in [Brokers -> Nat]
      /\ \A x \in Brokers : live[x] = Cardinality(At(conn, x, Slots)) /\ live[x] <= MaxConnections
  BY DEF Accounted, Of, At
<1>5. At(conn', b, Slots) = At(conn, b, Slots) \cup {c} /\ c \notin At(conn, b, Slots)
  BY <1>1, <1>2, <1>3 DEF At
<1>6. \A x \in Brokers \ {b} : At(conn', x, Slots) = At(conn, x, Slots)
  BY <1>1, <1>2, <1>3 DEF At
<1>7. Cardinality(At(conn', b, Slots)) = live[b] + 1
  <2>1. PICK S : S = At(conn, b, Slots)
    OBVIOUS
  <2>2. IsFiniteSet(S) /\ c \notin S
    BY <1>5, <2>1, AtIsFinite
  <2>3. Cardinality(S \cup {c}) = Cardinality(S) + 1
    BY <2>2, FS_AddElement
  <2> QED BY <1>4, <1>5, <2>1, <2>3
<1>8. live' \in [Brokers -> Nat] /\ live'[b] = live[b] + 1 /\ \A x \in Brokers \ {b} : live'[x] = live[x]
  BY <1>3, <1>4
<1>9. \A x \in Brokers : live'[x] = Cardinality(At(conn', x, Slots)) /\ live'[x] <= MaxConnections
  <2>1. live'[b] = Cardinality(At(conn', b, Slots)) /\ live'[b] <= MaxConnections
    BY <1>3, <1>4, <1>7, <1>8, EndpointAssumption
  <2> QED BY <1>4, <1>6, <1>8, <2>1
<1>10. \A d \in Clients : conn'[d].stage \in Tasks \cup {"backlog"} => conn'[d].to \in Brokers
  BY <1>1, <1>2 DEF Accounted
<1>11. \A d \in Clients : conn'[d].stage \in Tasks => proc'[conn'[d].to] \in {"serving", "draining"}
  BY <1>1, <1>2 DEF Accounted
<1> QED BY <1>8, <1>9, <1>10, <1>11 DEF Accounted, Of, At

\* A step of a broker process that keeps its tasks, or ends them all and counts
\* from zero.
LEMMA ProcessStep ==
  ASSUME Exchanges, Accounted, NEW b \in Brokers, NEW cs \in SUBSET Clients,
         \A c \in cs : conn[c].to = b, conn' = Closed(cs), kind' = kind,
         socket' \in Brokers \cup {None}, stop' \subseteq Brokers,
         NEW s \in {"down", "probed", "removed", "bound", "serving", "wedged", "draining"},
         proc' = [proc EXCEPT ![b] = s],
         \/ /\ live' = live /\ \A c \in cs : conn[c].stage \notin Tasks
            /\ s \in {"serving", "draining"} \/ At(conn, b, Tasks) = {}
         \/ live' = [live EXCEPT ![b] = 0] /\ At(conn, b, Tasks) \subseteq cs
  PROVE  Accounted'
<1>1. \A d \in Clients : /\ d \in cs => conn'[d].to = None /\ conn'[d].stage = "closed"
                         /\ d \notin cs => conn'[d] = conn[d]
  BY DEF Closed, Shut, Exchanges, Connection
<1>2. \A d \in Clients : conn'[d].stage \in Tasks \cup {"backlog"} => d \notin cs
  BY <1>1 DEF Tasks, Slots
<1>3. \A d \in Clients : conn'[d].stage \in Tasks \cup {"backlog"} => conn'[d].to \in Brokers
  BY <1>1, <1>2 DEF Accounted
<1>4. /\ proc' \in [Brokers -> {"down", "probed", "removed", "bound", "serving", "wedged", "draining"}]
      /\ proc'[b] = s /\ \A x \in Brokers \ {b} : proc'[x] = proc[x]
  BY DEF Accounted
<1>5. \A d \in Clients : conn'[d].stage \in Tasks => proc'[conn'[d].to] \in {"serving", "draining"}
  <2> SUFFICES ASSUME NEW d \in Clients, conn'[d].stage \in Tasks
               PROVE  proc'[conn'[d].to] \in {"serving", "draining"}
    OBVIOUS
  <2>1. d \notin cs /\ conn'[d] = conn[d] /\ conn[d].to \in Brokers
        /\ proc[conn[d].to] \in {"serving", "draining"}
    BY <1>1, <1>2 DEF Accounted
  <2>2. conn[d].to = b => s \in {"serving", "draining"}
    BY <2>1 DEF At
  <2> QED BY <1>4, <2>1, <2>2
<1>6. /\ live \in [Brokers -> Nat]
      /\ \A x \in Brokers : live[x] = Cardinality(At(conn, x, Slots)) /\ live[x] <= MaxConnections
  BY DEF Accounted, Of, At
<1>7. \A x \in Brokers \ {b} : At(conn', x, Slots) = At(conn, x, Slots)
  BY <1>1, EndpointAssumption DEF At
<1>8. live' \in [Brokers -> Nat] /\ \A x \in Brokers \ {b} : live'[x] = live[x]
  BY <1>6
<1>9. live'[b] = Cardinality(At(conn', b, Slots)) /\ live'[b] <= MaxConnections
  <2>1. CASE live' = live /\ \A c \in cs : conn[c].stage \notin Tasks
    <3>1. At(conn', b, Slots) = At(conn, b, Slots)
      BY <1>1, <2>1, EndpointAssumption DEF At, Tasks
    <3> QED BY <1>6, <2>1, <3>1
  <2>2. CASE live' = [live EXCEPT ![b] = 0] /\ At(conn, b, Tasks) \subseteq cs
    <3>1. At(conn', b, Slots) = {}
      BY <1>1, <2>2, EndpointAssumption DEF At, Tasks
    <3> QED BY <1>6, <2>2, <3>1, FS_EmptySet, EndpointAssumption
  <2> QED BY <2>1, <2>2
<1>10. \A x \in Brokers : live'[x] = Cardinality(At(conn', x, Slots)) /\ live'[x] <= MaxConnections
  BY <1>6, <1>7, <1>8, <1>9
<1> QED BY <1>3, <1>4, <1>5, <1>8, <1>10 DEF Accounted, Of, At

-------------------------------------------------------------------------------
(* Every action.                                                           *)

\* Closing nothing is no change; closing one connection concerns it alone.
LEMMA ClosedForms ==
  ASSUME Exchanges
  PROVE  /\ Closed({}) = conn
         /\ \A c \in Clients : Closed({c}) = [conn EXCEPT ![c] = Shut(conn[c])]
         /\ \A c \in Clients : \A x : [Closed({c}) EXCEPT ![c].replies = x]
                                    = [conn EXCEPT ![c] = [Shut(conn[c]) EXCEPT !.replies = x]]
         /\ \A c \in Clients : Shut(conn[c]).stage = "closed" /\ Shut(conn[c]).to = None
         /\ \A c \in Clients : \A x : [Shut(conn[c]) EXCEPT !.replies = x].stage = "closed"
<1>1. \A c \in Clients : conn[c] \in Connection
  BY DEF Exchanges
<1>2. \A c \in Clients : Shut(conn[c]).stage = "closed" /\ Shut(conn[c]).to = None
  BY <1>1 DEF Shut, Connection
<1>3. \A c \in Clients : \A x : [Shut(conn[c]) EXCEPT !.replies = x].stage = "closed"
  BY <1>1 DEF Shut, Connection
<1>4. conn = [c \in Clients |-> conn[c]]
  BY DEF Exchanges
<1>5. Closed({}) = conn
  BY <1>4 DEF Closed
<1>6. \A c \in Clients : Closed({c}) = [conn EXCEPT ![c] = Shut(conn[c])]
  BY <1>4 DEF Closed
<1>7. ASSUME NEW c \in Clients, NEW x
      PROVE  [Closed({c}) EXCEPT ![c].replies = x]
               = [conn EXCEPT ![c] = [Shut(conn[c]) EXCEPT !.replies = x]]
  <2>1. PICK u : u = Shut(conn[c])
    OBVIOUS
  <2>2. Closed({c}) = [conn EXCEPT ![c] = u]
    BY <1>6, <2>1
  <2>3. [[conn EXCEPT ![c] = u] EXCEPT ![c].replies = x] = [conn EXCEPT ![c] = [u EXCEPT !.replies = x]]
    BY <1>4
  <2> QED BY <2>1, <2>2, <2>3
<1> QED BY <1>2, <1>3, <1>5, <1>6, <1>7

\* Nobody's connection and nobody's count is touched.
LEMMA NothingMoves ==
  ASSUME EndpointInv, UNCHANGED <<kind, conn, outcome, executed, live>>, NEW b \in Brokers,
         socket' \in Brokers \cup {None}, stop' \subseteq Brokers,
         NEW s \in {"down", "probed", "removed", "bound", "serving", "wedged", "draining"},
         proc' = [proc EXCEPT ![b] = s],
         s \in {"serving", "draining"} \/ proc[b] \notin {"serving", "draining"}
  PROVE  EndpointInv'
<1> USE DEF EndpointInv
<1>1. conn' = Closed({})
  BY ClosedForms
<1>2. proc[b] \notin {"serving", "draining"} => At(conn, b, Tasks) = {}
  BY DEF Accounted, At
<1>3. Exchanges'
  BY <1>1, ClosingKeeps
<1>4. Accounted'
  <2>1. PICK cs \in SUBSET Clients : cs = {}
    OBVIOUS
  <2>2. /\ conn' = Closed(cs) /\ kind' = kind /\ live' = live
        /\ \A c \in cs : conn[c].to = b /\ conn[c].stage \notin Tasks
        /\ s \in {"serving", "draining"} \/ At(conn, b, Tasks) = {}
    BY <1>1, <1>2, <2>1
  <2>3. Exchanges /\ Accounted
    OBVIOUS
  <2> HIDE DEF EndpointInv
  <2> QED BY <2>2, <2>3, ProcessStep
<1> QED BY <1>3, <1>4

\* Starting, binding and reporting: no connection is concerned.
LEMMA StartingKeeps ==
  ASSUME EndpointInv, NEW b \in Brokers,
         \/ Start(b) \/ RemoveStale(b) \/ Bind(b) \/ ReportFailure(b)
         \/ \E material \in build_tls_server_config : BindRemote(b, material)
  PROVE  EndpointInv'
<1>0. /\ socket \in Brokers \cup {None} /\ stop \subseteq Brokers
      /\ proc \in [Brokers -> {"down", "probed", "removed", "bound", "serving", "wedged", "draining"}]
  BY DEF EndpointInv, Accounted
<1>1. CASE Start(b)
  <2>1. PICK s \in {"down", "probed"} : proc' = [proc EXCEPT ![b] = s]
    BY <1>1 DEF Start
  <2>2. UNCHANGED <<kind, conn, outcome, executed, live, socket, stop>> /\ proc[b] = "down"
    BY <1>1 DEF Start
  <2> QED BY <1>0, <2>1, <2>2, NothingMoves
<1>2. CASE RemoveStale(b)
  <2>1. /\ UNCHANGED <<kind, conn, outcome, executed, live, stop>> /\ proc[b] = "probed"
        /\ socket' = None /\ proc' = [proc EXCEPT ![b] = "removed"]
    BY <1>2 DEF RemoveStale
  <2> QED BY <1>0, <2>1, NothingMoves
<1>3. CASE Bind(b)
  <2>1. PICK s \in {"bound", "down"} : proc' = [proc EXCEPT ![b] = s]
    BY <1>3 DEF Bind
  <2>2. UNCHANGED <<kind, conn, outcome, executed, live, stop>> /\ proc[b] = "removed"
        /\ socket' \in Brokers \cup {None}
    BY <1>0, <1>3 DEF Bind
  <2> QED BY <1>0, <2>1, <2>2, NothingMoves
<1>4. CASE ReportFailure(b)
  <2>1. /\ UNCHANGED <<kind, conn, outcome, executed, live, socket>> /\ proc[b] = "wedged"
        /\ stop' \subseteq Brokers /\ proc' = [proc EXCEPT ![b] = "down"]
    BY <1>0, <1>4 DEF ReportFailure
  <2> QED BY <1>0, <2>1, NothingMoves
<1>5. CASE \E material \in build_tls_server_config : BindRemote(b, material)
  <2>1. /\ UNCHANGED <<kind, conn, outcome, executed, live, stop>> /\ proc[b] = "down"
        /\ socket' \in Brokers \cup {None}
        /\ proc' = [proc EXCEPT ![b] = "bound"] \/ proc' = proc
    BY <1>0, <1>5 DEF BindRemote
  <2>2. proc' = [proc EXCEPT ![b] = "bound"] \/ proc' = [proc EXCEPT ![b] = "down"]
    BY <1>0, <2>1
  <2> QED BY <1>0, <2>1, <2>2, NothingMoves
<1> QED BY <1>1, <1>2, <1>3, <1>4, <1>5

\* Serving, shutting down, draining and dying.
LEMMA EndingProcessKeeps ==
  ASSUME EndpointInv, NEW b \in Brokers,
         \/ Shutdown(b) \/ Serve(b) \/ StopAccepting(b) \/ Drained(b) \/ DrainExpires(b)
         \/ AcceptFails(b) \/ Kill(b)
  PROVE  EndpointInv'
<1> USE DEF EndpointInv
<1>0. /\ socket \in Brokers \cup {None} /\ stop \subseteq Brokers
      /\ proc \in [Brokers -> {"down", "probed", "removed", "bound", "serving", "wedged", "draining"}]
      /\ conn = Closed({}) /\ proc = [proc EXCEPT ![b] = proc[b]]
  BY ClosedForms DEF Accounted
<1>1. /\ Of(b, {"backlog"}) \in SUBSET Clients /\ Of(b, Tasks) \in SUBSET Clients
      /\ Of(b, Tasks \cup {"backlog"}) \in SUBSET Clients /\ Of(b, Tasks) = At(conn, b, Tasks)
      /\ At(conn, b, Tasks) \subseteq Of(b, Tasks \cup {"backlog"})
      /\ \A stages : \A c \in Of(b, stages) : conn[c].to = b
      /\ \A c \in Of(b, {"backlog"}) : conn[c].stage \notin Tasks
  BY DEF Of, At, Tasks, Slots
<1>2. proc[b] \notin {"serving", "draining"} => At(conn, b, Tasks) = {}
  BY DEF Accounted, At
<1>3. CASE Shutdown(b)
  <2>1. /\ UNCHANGED <<kind, conn, outcome, executed, live, socket, proc>> /\ stop' \subseteq Brokers
    BY <1>0, <1>3 DEF Shutdown
  <2>2. Exchanges'
    BY <2>1 DEF Exchanges
  <2>3. Accounted'
    BY <2>1 DEF Accounted, Of
  <2> QED BY <2>2, <2>3
<1>4. CASE Serve(b) /\ b \in stop
  <2>1. /\ UNCHANGED <<kind, outcome, executed>> /\ conn' = Closed(Of(b, {"backlog"}))
        /\ socket' \in Brokers \cup {None} /\ stop' \subseteq Brokers
        /\ proc' = [proc EXCEPT ![b] = "down"] /\ live' = [live EXCEPT ![b] = 0]
        /\ proc[b] = "bound"
    BY <1>0, <1>4 DEF Serve, Exit
  <2>2. At(conn, b, Tasks) \subseteq Of(b, {"backlog"})
    BY <1>2, <2>1
  <2>3. Exchanges'
    BY <2>1, ClosingKeeps
  <2>4. Accounted'
    BY <1>1, <2>1, <2>2, ProcessStep
  <2> QED BY <2>3, <2>4
<1>5. CASE Serve(b) /\ b \notin stop
  <2>1. /\ UNCHANGED <<kind, conn, outcome, executed, live, socket, stop>>
        /\ proc' = [proc EXCEPT ![b] = "serving"]
    BY <1>5 DEF Serve
  <2> QED BY <1>0, <2>1, NothingMoves
<1>6. CASE StopAccepting(b)
  <2>1. /\ UNCHANGED <<kind, outcome, executed, live, stop>> /\ conn' = Closed(Of(b, {"backlog"}))
        /\ socket' \in Brokers \cup {None} /\ proc' = [proc EXCEPT ![b] = "draining"]
    BY <1>0, <1>6 DEF StopAccepting
  <2>2. Exchanges'
    BY <2>1, ClosingKeeps
  <2>3. Accounted'
    BY <1>0, <1>1, <2>1, ProcessStep
  <2> QED BY <2>2, <2>3
<1>7. CASE Drained(b)
  <2>1. /\ UNCHANGED <<kind, outcome, executed, conn>> /\ At(conn, b, Tasks) = {}
        /\ socket' \in Brokers \cup {None} /\ stop' \subseteq Brokers
        /\ proc' = [proc EXCEPT ![b] = "down"] /\ live' = [live EXCEPT ![b] = 0]
    BY <1>0, <1>1, <1>7 DEF Drained, Exit
  <2>2. Exchanges'
    BY <1>0, <2>1, ClosingKeeps
  <2>3. Accounted'
    BY <1>0, <2>1, ProcessStep
  <2> QED BY <2>2, <2>3
<1>8. CASE DrainExpires(b)
  <2>1. /\ UNCHANGED <<kind, outcome>> /\ conn' = Closed(Of(b, Tasks))
        /\ socket' \in Brokers \cup {None} /\ stop' \subseteq Brokers
        /\ proc' = [proc EXCEPT ![b] = "down"] /\ live' = [live EXCEPT ![b] = 0]
    BY <1>0, <1>8 DEF DrainExpires, Exit
  <2>2. PICK finished \in SUBSET Of(b, {"executing"}) :
           executed' = executed \o SetToSeq({<<c, conn[c].running>> : c \in finished})
    BY <1>8 DEF DrainExpires
  <2>3. finished \in SUBSET Of(b, Tasks) /\ \A c \in finished : conn[c].stage = "executing"
    BY <2>2 DEF Of, Tasks, Slots
  <2>4. Exchanges'
    BY <1>1, <2>1, <2>2, <2>3, AbandonKeeps
  <2>5. Accounted'
    BY <1>1, <2>1, ProcessStep
  <2> QED BY <2>4, <2>5
<1>9. CASE AcceptFails(b)
  <2>1. /\ UNCHANGED <<kind, outcome, executed, stop>>
        /\ conn' = Closed(Of(b, Tasks \cup {"backlog"}))
        /\ socket' \in Brokers \cup {None}
        /\ proc' = [proc EXCEPT ![b] = "wedged"] /\ live' = [live EXCEPT ![b] = 0]
    BY <1>0, <1>9 DEF AcceptFails
  <2>2. Exchanges'
    BY <2>1, ClosingKeeps
  <2>3. Accounted'
    BY <1>0, <1>1, <2>1, ProcessStep
  <2> QED BY <2>2, <2>3
<1>10. CASE Kill(b)
  <2>1. /\ UNCHANGED <<kind, outcome, executed>>
        /\ conn' = Closed(Of(b, Tasks \cup {"backlog"}))
        /\ socket' \in Brokers \cup {None} /\ stop' \subseteq Brokers
        /\ proc' = [proc EXCEPT ![b] = "down"] /\ live' = [live EXCEPT ![b] = 0]
    BY <1>0, <1>10 DEF Kill
  <2>2. Exchanges'
    BY <2>1, ClosingKeeps
  <2>3. Accounted'
    BY <1>1, <2>1, ProcessStep
  <2> QED BY <2>2, <2>3
<1> QED BY <1>3, <1>4, <1>5, <1>6, <1>7, <1>8, <1>9, <1>10

\* What is known of one client.
LEMMA ClientFacts ==
  ASSUME EndpointInv, NEW c \in Clients
  PROVE  /\ conn[c] \in Connection /\ outcome[c] \in Seq(Outcomes)
         /\ Exchange(conn[c], outcome[c], Calls(executed, c))
         /\ outcome = [outcome EXCEPT ![c] = outcome[c]]
BY DEF EndpointInv, Exchanges

\* A step of one connection's task: what it makes of the connection.
LEMMA TaskMoves ==
  ASSUME EndpointInv, NEW c \in Clients, NEW r \in Connection,
         Exchange(r, outcome[c], Calls(executed, c)),
         conn' = [conn EXCEPT ![c] = r], UNCHANGED <<ServerState, executed>>
  PROVE  /\ Exchanges'
         /\ r.stage = "closed" /\ conn[c].stage \in Slots /\ Release(c) => EndpointInv'
         /\ live' = live /\ (r.stage \in Slots <=> conn[c].stage \in Slots)
            /\ (r.stage \in Tasks => r.to = conn[c].to /\ conn[c].stage \in Tasks \cup {"backlog"}
                                     /\ proc[conn[c].to] \in {"serving", "draining"})
            /\ r.stage # "backlog" => EndpointInv'
<1> USE DEF EndpointInv
<1>0. UNCHANGED <<kind, socket, proc, stop>> /\ outcome' = outcome /\ executed' = executed
  BY DEF ServerState
<1>1. Exchanges'
  <2>1. outcome' = [outcome EXCEPT ![c] = outcome[c]] /\ outcome[c] \in Seq(Outcomes)
    BY <1>0, ClientFacts
  <2> QED BY <1>0, <2>1, OneClient
<1>2. ASSUME r.stage = "closed", conn[c].stage \in Slots, Release(c) PROVE Accounted'
  BY <1>0, <1>2, SlotReleased
<1>3. ASSUME live' = live, r.stage \in Slots <=> conn[c].stage \in Slots,
             r.stage \in Tasks => r.to = conn[c].to /\ conn[c].stage \in Tasks \cup {"backlog"}
                                  /\ proc[conn[c].to] \in {"serving", "draining"},
             r.stage # "backlog"
      PROVE  Accounted'
  <2>1. r.stage \in Tasks \cup {"backlog"} => r.to \in Brokers
    BY <1>3 DEF Accounted
  <2>2. r.stage \in Slots => r.stage \in Tasks
    BY DEF Tasks
  <2> QED BY <1>0, <1>3, <2>1, <2>2, SlotStays
<1> QED BY <1>1, <1>2, <1>3

\* Accepting, refusing and shaking hands.
LEMMA AcceptingKeeps ==
  ASSUME EndpointInv, NEW c \in Clients,
         Accept(c) \/ Refuse(c) \/ HandshakeDone(c) \/ HandshakeFails(c) \/ Hangup(c)
  PROVE  EndpointInv'
<1> USE DEF EndpointInv
<1> DEFINE r == conn[c]
           o == outcome[c]
           E == Calls(executed, c)
<1>0. r \in Connection /\ o \in Seq(Outcomes) /\ Exchange(r, o, E)
  BY ClientFacts
<1>1. Shut(r) \in Connection /\ Exchange(Shut(r), o, E) /\ Shut(r).stage = "closed"
  BY <1>0, ShutKeeps, ClosedForms
<1>2. "closed" \notin Tasks /\ "backlog" \notin Slots /\ "closed" \notin Slots
      /\ "refusing" \notin Slots /\ "refusing" \in Tasks /\ Slots \subseteq Tasks
      /\ "serving" \in Slots /\ "handshake" \in Slots
  BY DEF Tasks, Slots
<1>3. ASSUME NEW stage \in Early \cup {"serving"}, Enter(c, stage)
      PROVE  LET u == [r EXCEPT !.stage = stage] IN
             /\ conn' = [conn EXCEPT ![c] = u] /\ u.stage = stage /\ u.to = r.to
             /\ r.stage \in Early => u \in Connection /\ Exchange(u, o, E)
  <2>1. [r EXCEPT !.stage = stage].stage = stage /\ [r EXCEPT !.stage = stage].to = r.to
    BY <1>0 DEF Connection
  <2>2. conn' = [conn EXCEPT ![c] = [r EXCEPT !.stage = stage]]
    BY <1>3 DEF Enter
  <2> QED BY <1>0, <2>1, <2>2, EnterKeeps
<1> HIDE DEF EndpointInv
<1>4. CASE Accept(c)
  <2>1. /\ r.stage = "backlog" /\ proc[r.to] = "serving" /\ UNCHANGED <<ServerState, executed>>
        /\ r.stage \in Early
    BY <1>4 DEF Accept, Peer, Early
  <2>2. CASE conn' = Closed({c}) /\ live' = live
    <3>1. conn' = [conn EXCEPT ![c] = Shut(r)]
      BY <2>2, ClosedForms DEF EndpointInv
    <3> QED BY <1>1, <1>2, <2>1, <2>2, <3>1, TaskMoves
  <2>3. CASE Enter(c, "refusing") /\ live' = live
    <3> DEFINE u == [r EXCEPT !.stage = "refusing"]
    <3>1. /\ conn' = [conn EXCEPT ![c] = u] /\ u.stage = "refusing" /\ u.to = r.to
          /\ u \in Connection /\ Exchange(u, o, E)
      BY <1>3, <2>1, <2>3 DEF Early
    <3> HIDE DEF u
    <3> QED BY <1>2, <2>1, <2>3, <3>1, TaskMoves
  <2>4. CASE /\ Enter(c, IF kind = "local" THEN "serving" ELSE "handshake")
             /\ live' = [live EXCEPT ![r.to] = @ + 1] /\ ~(live[r.to] >= MaxConnections)
    <3>1. PICK stage \in {"serving", "handshake"} : Enter(c, stage)
      BY <2>4
    <3> DEFINE u == [r EXCEPT !.stage = stage]
    <3>2. /\ conn' = [conn EXCEPT ![c] = u] /\ u.stage = stage /\ u.to = r.to
          /\ u \in Connection /\ Exchange(u, o, E)
      BY <1>3, <2>1, <3>1 DEF Early
    <3> HIDE DEF u
    <3>3. Exchanges'
      BY <2>1, <3>2, TaskMoves
    <3>4. Accounted'
      BY <1>2, <2>1, <2>4, <3>1, <3>2, SlotTaken DEF ServerState, EndpointInv
    <3> QED BY <3>3, <3>4 DEF EndpointInv
  <2> QED BY <1>4, <2>2, <2>3, <2>4 DEF Accept, Peer
<1>5. CASE Refuse(c)
  <2>1. /\ r.stage = "refusing" /\ UNCHANGED <<ServerState, live, executed>>
        /\ conn' = [Closed({c}) EXCEPT ![c].replies =
                      IF r.open THEN Append(@, ProtocolViolation("connection_limit")) ELSE @]
    BY <1>5 DEF Refuse
  <2>2. /\ Closed({c})[c] = Shut(r) /\ Shut(r).replies = r.replies
    BY <1>0, ClosedForms DEF Closed, Shut, Connection
  <2>3. PICK x : x = IF r.open THEN Append(r.replies, ProtocolViolation("connection_limit"))
                     ELSE r.replies
    OBVIOUS
  <2>4. conn' = [conn EXCEPT ![c] = [Shut(r) EXCEPT !.replies = x]]
    BY <2>1, <2>2, <2>3, ClosedForms DEF EndpointInv
  <2> DEFINE u == [Shut(r) EXCEPT !.replies = x]
  <2>5. u \in Connection /\ Exchange(u, o, E) /\ u.stage = "closed"
    <3>1. CASE ~r.open
      <4>1. u = Shut(r)
        BY <1>0, <2>2, <2>3, <3>1 DEF Shut, Connection
      <4> QED BY <1>1, <4>1
    <3>2. CASE r.open
      <4>1. r.replies = <<>> /\ E = {}
        BY <1>0, <2>1 DEF Exchange, Unserved, Early
      <4>2. /\ ProtocolViolation("connection_limit") \in ServerLine
            /\ ProtocolViolation("connection_limit").line # "response"
        BY DEF ServerLine, ProtocolViolation, Violations
      <4> QED BY <1>0, <2>3, <3>2, <4>1, <4>2, ReplyKeeps, ClosedForms DEF EndpointInv
    <3> QED BY <3>1, <3>2
  <2> HIDE DEF u
  <2>6. conn' = [conn EXCEPT ![c] = u]
    BY <2>4 DEF u
  <2> QED BY <1>2, <2>1, <2>5, <2>6, TaskMoves
<1>6. CASE HandshakeDone(c)
  <2> DEFINE u == [r EXCEPT !.stage = "serving"]
  <2>1. r.stage = "handshake" /\ UNCHANGED <<ServerState, live, executed>>
    BY <1>6 DEF HandshakeDone
  <2>2. /\ conn' = [conn EXCEPT ![c] = u] /\ u.stage = "serving" /\ u.to = r.to
        /\ u \in Connection /\ Exchange(u, o, E)
    BY <1>3, <1>6, <2>1 DEF Early, HandshakeDone
  <2>3. proc[r.to] \in {"serving", "draining"}
    BY <1>2, <2>1 DEF EndpointInv, Accounted
  <2> HIDE DEF u
  <2> QED BY <1>2, <2>1, <2>2, <2>3, TaskMoves
<1>7. CASE HandshakeFails(c) \/ Hangup(c)
  <2>1. r.stage \in Slots /\ UNCHANGED <<ServerState, executed>> /\ conn' = Closed({c}) /\ Release(c)
    BY <1>2, <1>7 DEF HandshakeFails, Hangup
  <2>2. conn' = [conn EXCEPT ![c] = Shut(r)]
    BY <2>1, ClosedForms DEF EndpointInv
  <2> QED BY <1>1, <2>1, <2>2, TaskMoves
<1> QED BY <1>4, <1>5, <1>6, <1>7

\* write_line: the reply goes out and the task serves on or ends.
LEMMA ReplyMoves ==
  ASSUME EndpointInv, NEW c \in Clients, NEW line \in ServerLine, NEW after,
         conn[c].stage \in {"serving", "executing", "answering"},
         after = "serving" => conn[c].running # 0,
         conn[c].sent # <<>> \/ conn[c].running # 0,
         line.line = "response" =>
           line.call = Len(outcome[c]) /\ Len(outcome[c]) \in Calls(executed, c),
         line.line \in Unexecuted => Len(outcome[c]) \notin Calls(executed, c),
         Reply(c, line, after), UNCHANGED <<ServerState, executed>>
  PROVE  EndpointInv'
<1> DEFINE r == conn[c]
           o == outcome[c]
           E == Calls(executed, c)
           y == Append(r.replies, line)
<1>0. r \in Connection /\ o \in Seq(Outcomes) /\ Exchange(r, o, E)
  BY ClientFacts
<1>1. r.replies = <<>> /\ r.stage \in Slots /\ r.stage \notin Early \cup {"none"}
  BY <1>0 DEF Exchange, Outstanding, Slots, Early
<1>2. proc[r.to] \in {"serving", "draining"} /\ r.to \in Brokers /\ Slots \subseteq Tasks
      /\ "serving" \in Slots
  BY <1>1 DEF EndpointInv, Accounted, Tasks, Slots
<1>3. CASE r.open /\ after = "serving"
  <2> DEFINE v == [r EXCEPT !.stage = "serving", !.running = 0, !.sent = <<>>, !.replies = y]
             w == [r EXCEPT !.stage = "serving", !.running = 0, !.replies = y]
  <2>1. v \in Connection /\ Exchange(v, o, E)
    BY <1>0, <1>1, <1>3, ReplyKeeps
  <2>2. r.sent = <<>>
    BY <1>0, <1>3 DEF Exchange, Outstanding, Early
  <2>3. v = w /\ w.stage = "serving" /\ w.to = r.to
    BY <1>0, <2>2 DEF Connection
  <2>4. conn' = [conn EXCEPT ![c] = w] /\ live' = live
    BY <1>3 DEF Reply
  <2>5. w \in Connection /\ Exchange(w, o, E)
    BY <2>1, <2>3
  <2> HIDE DEF v, w
  <2> QED BY <1>1, <1>2, <2>3, <2>4, <2>5, TaskMoves
<1>4. CASE ~(r.open /\ after = "serving")
  <2>1. PICK x : x = IF r.open THEN y ELSE r.replies
    OBVIOUS
  <2>2. /\ Closed({c})[c] = Shut(r) /\ Shut(r).replies = r.replies
    BY <1>0 DEF Closed, Shut, Connection
  <2>3. /\ conn' = [Closed({c}) EXCEPT ![c].replies = x] /\ Release(c)
    BY <1>4, <2>1, <2>2 DEF Reply
  <2> DEFINE u == [Shut(r) EXCEPT !.replies = x]
  <2>4. conn' = [conn EXCEPT ![c] = u]
    BY <2>3, ClosedForms DEF EndpointInv
  <2>5. u \in Connection /\ Exchange(u, o, E) /\ u.stage = "closed"
    <3>1. CASE ~r.open
      <4>1. u = Shut(r)
        BY <1>0, <2>1, <2>2, <3>1 DEF Shut, Connection
      <4> QED BY <1>0, <4>1, ShutKeeps, ClosedForms DEF EndpointInv
    <3>2. CASE r.open
      <4>1. /\ LET z == [Shut(r) EXCEPT !.replies = y]
               IN  z \in Connection /\ Exchange(z, o, E)
        <5>1. line.line = "response" => line.call = Len(o) /\ Len(o) \in E
          OBVIOUS
        <5>2. line.line \in Unexecuted => Len(o) \notin E
          OBVIOUS
        <5> HIDE DEF r, o, E
        <5> QED BY <1>0, <1>1, <3>2, <5>1, <5>2, ReplyKeeps
      <4>2. x = y
        BY <2>1, <3>2
      <4>3. u.stage = "closed"
        BY ClosedForms DEF EndpointInv
      <4> QED BY <4>1, <4>2, <4>3
    <3> QED BY <3>1, <3>2
  <2> HIDE DEF u
  <2> QED BY <1>1, <2>3, <2>4, <2>5, TaskMoves
<1> QED BY <1>3, <1>4

\* Reading a line, executing, answering and panicking.
LEMMA ServingKeeps ==
  ASSUME EndpointInv, NEW c \in Clients, ReadLine(c) \/ Execute(c) \/ Answer(c) \/ Panic(c)
  PROVE  EndpointInv'
<1> DEFINE r == conn[c]
           o == outcome[c]
           E == Calls(executed, c)
<1>0. r \in Connection /\ o \in Seq(Outcomes) /\ Exchange(r, o, E)
  BY ClientFacts
<1>1. ASSUME r.stage \in Slots
      PROVE  proc[r.to] \in {"serving", "draining"} /\ r.to \in Brokers /\ r.stage \in Tasks
  BY <1>1 DEF EndpointInv, Accounted, Tasks
<1>2. CASE ReadLine(c)
  <2>1. r.stage = "serving" /\ r.sent # <<>> /\ UNCHANGED <<ServerState, executed>>
    BY <1>2 DEF ReadLine
  <2>2. /\ Tail(r.sent) = <<>> /\ Head(r.sent) \in ClientLine
        /\ Len(o) \notin E /\ r.replies = <<>> /\ r.running = 0
    BY <1>0, <2>1, SentFacts
  <2>3. r.stage \in Slots /\ "executing" \in Slots /\ Slots \subseteq Tasks
        /\ r.stage \notin Early \cup {"none"}
    BY <2>1 DEF Slots, Tasks, Early
  <2>4. CASE Head(r.sent).line = "request"
    <3> DEFINE u == [r EXCEPT !.sent = Tail(r.sent), !.stage = "executing",
                              !.running = Head(r.sent).call]
    <3>1. conn' = [conn EXCEPT ![c] = u] /\ live' = live
      BY <1>2, <2>4 DEF ReadLine, read_line_capped, EndpointInv, Exchanges
    <3>2. u \in Connection /\ Exchange(u, o, E) /\ u.stage = "executing" /\ u.to = r.to
      BY <1>0, <2>1, TakeKeeps DEF Connection
    <3> HIDE DEF u
    <3> QED BY <1>1, <2>1, <2>3, <3>1, <3>2, TaskMoves
  <2>5. CASE Head(r.sent).line = "ping" /\ r.open
    <3> DEFINE y == Append(r.replies, Pong)
               v == [r EXCEPT !.stage = "serving", !.running = 0, !.sent = <<>>, !.replies = y]
               w == [r EXCEPT !.sent = Tail(r.sent), !.replies = y]
    <3>1. conn' = [conn EXCEPT ![c] = w] /\ live' = live
      <4> DEFINE taken == [conn EXCEPT ![c].sent = Tail(conn[c].sent)]
      <4>1. conn \in [Clients -> Connection] /\ taken[c].replies = r.replies
        BY DEF EndpointInv, Exchanges, Connection
      <4>2. conn' = [taken EXCEPT ![c].replies = Append(taken[c].replies, Pong)] /\ live' = live
        BY <1>2, <2>5 DEF ReadLine, read_line_capped
      <4>3. PICK z : z = y
        OBVIOUS
      <4>4. conn' = [taken EXCEPT ![c].replies = z]
        BY <4>1, <4>2, <4>3
      <4>5. conn' = [conn EXCEPT ![c] = [r EXCEPT !.sent = Tail(r.sent), !.replies = z]]
        BY <4>1, <4>4
      <4> QED BY <4>2, <4>3, <4>5
    <3>2. Pong \in ServerLine /\ Pong.line # "response"
      BY DEF Pong, ServerLine
    <3>3. v \in Connection /\ Exchange(v, o, E)
      BY <1>0, <2>1, <2>2, <2>3, <2>5, <3>2, ReplyKeeps
    <3>4. v = w /\ w.stage = "serving" /\ w.to = r.to
      BY <1>0, <2>1, <2>2 DEF Connection
    <3>5. w \in Connection /\ Exchange(w, o, E)
      BY <3>3, <3>4
    <3> HIDE DEF v, w
    <3> QED BY <1>1, <2>1, <2>3, <3>1, <3>4, <3>5, TaskMoves
  <2>6. CASE Head(r.sent).line = "ping" /\ ~r.open
    <3>1. conn' = Closed({c}) /\ Release(c)
      BY <1>2, <2>6 DEF ReadLine, read_line_capped
    <3>2. conn' = [conn EXCEPT ![c] = Shut(r)]
      BY <3>1, ClosedForms DEF EndpointInv
    <3>3. Shut(r) \in Connection /\ Exchange(Shut(r), o, E) /\ Shut(r).stage = "closed"
      BY <1>0, ShutKeeps, ClosedForms DEF EndpointInv
    <3> QED BY <2>1, <2>3, <3>1, <3>2, <3>3, TaskMoves
  <2>7. CASE Head(r.sent).line \notin {"request", "ping"}
    <3>1. PICK error \in {"too_long", "unrecognized"} : Reply(c, ProtocolViolation(error), "closed")
      BY <1>2, <2>7 DEF ReadLine, read_line_capped
    <3>2. ProtocolViolation(error) \in ServerLine /\ ProtocolViolation(error).line # "response"
      BY DEF ProtocolViolation, ServerLine, Violations
    <3> QED BY <2>1, <2>2, <3>1, <3>2, ReplyMoves
  <2> QED BY <2>4, <2>5, <2>6, <2>7
<1>3. CASE Execute(c)
  <2> DEFINE u == [r EXCEPT !.stage = "answering"]
  <2>1. /\ r.stage = "executing" /\ UNCHANGED <<kind, socket, proc, stop, live>>
        /\ conn' = [conn EXCEPT ![c] = u]
    BY <1>3 DEF Execute, Enter, ServerState
  <2>2. u.stage = "answering" /\ u.to = r.to
    BY <1>0 DEF Connection
  <2>3. r.stage \in Slots /\ "answering" \in Slots
    BY <2>1 DEF Slots
  <2> HIDE DEF u
  <2>4. Accounted'
    BY <1>1, <2>1, <2>2, <2>3, SlotStays DEF EndpointInv
  <2>5. Exchanges'
    BY <1>3, ExecutingKeeps DEF EndpointInv
  <2> QED BY <2>4, <2>5 DEF EndpointInv
<1>4. CASE Answer(c)
  <2>1. r.stage = "answering" /\ Reply(c, Response(r.running), "serving") /\ UNCHANGED <<ServerState, executed>>
    BY <1>4 DEF Answer
  <2>2. r.running # 0 /\ r.running = Len(o) /\ Len(o) \in E
    BY <1>0, <2>1 DEF Exchange, Outstanding
  <2>3. /\ Response(r.running) \in ServerLine /\ Response(r.running).call = Len(o)
        /\ Response(r.running).line \notin Unexecuted
    BY <1>0, <2>2 DEF Response, ServerLine, Connection, Unexecuted
  <2> QED BY <2>1, <2>2, <2>3, ReplyMoves
<1>5. CASE Panic(c)
  <2>1. r.stage = "executing" /\ Reply(c, ProtocolViolation("internal"), "serving")
        /\ UNCHANGED <<ServerState, executed>>
    BY <1>5 DEF Panic
  <2>2. r.running # 0
    BY <1>0, <2>1 DEF Exchange, Outstanding
  <2>3. /\ ProtocolViolation("internal") \in ServerLine
        /\ ProtocolViolation("internal").line \notin Unexecuted \cup {"response"}
    BY DEF ProtocolViolation, ServerLine, Violations, Unexecuted
  <2> QED BY <2>1, <2>2, <2>3, ReplyMoves
<1> QED BY <1>2, <1>3, <1>4, <1>5

\* A step of one client: its end of the connection and what it was told.
LEMMA ClientMoves ==
  ASSUME EndpointInv, NEW c \in Clients, NEW r \in Connection, NEW o \in Seq(Outcomes),
         Exchange(r, o, Calls(executed, c)),
         conn' = [conn EXCEPT ![c] = r], outcome' = [outcome EXCEPT ![c] = o],
         UNCHANGED Untouched,
         \/ r.stage = conn[c].stage /\ r.to = conn[c].to
         \/ conn[c].stage = "none" /\ r.stage = "backlog" /\ r.to \in Brokers
  PROVE  EndpointInv'
<1>0. UNCHANGED <<kind, socket, proc, stop, live, executed>>
  BY DEF Untouched
<1>1. Exchanges'
  BY <1>0, OneClient DEF EndpointInv
<1>2. /\ r.stage \in Slots <=> conn[c].stage \in Slots
      /\ r.stage \in Slots => r.to = conn[c].to
      /\ r.stage \in Tasks \cup {"backlog"} => r.to \in Brokers
      /\ r.stage \in Tasks => proc[r.to] \in {"serving", "draining"}
  BY DEF EndpointInv, Accounted, Tasks, Slots
<1>3. Accounted'
  BY <1>0, <1>2, SlotStays DEF EndpointInv
<1> QED BY <1>1, <1>3 DEF EndpointInv

\* Dialling, sending, receiving, giving up and leaving.
LEMMA ClientKeeps ==
  ASSUME EndpointInv, NEW c \in Clients, ClientStep(c)
  PROVE  EndpointInv'
<1> DEFINE r == conn[c]
           o == outcome[c]
           E == Calls(executed, c)
<1>0. r \in Connection /\ o \in Seq(Outcomes) /\ Exchange(r, o, E) /\ conn = [conn EXCEPT ![c] = r]
      /\ outcome = [outcome EXCEPT ![c] = o]
  BY ClientFacts DEF EndpointInv, Exchanges
<1>1. CASE BadIdentity(c) \/ BadArguments(c) \/ BadRemote(c)
  <2>1. PICK w \in {"Usage", "ConnectionFailed"} : outcome' = [outcome EXCEPT ![c] = <<w>>]
    BY <1>1 DEF BadIdentity, BadArguments, BadRemote
  <2>2. r.stage = "none" /\ o = <<>> /\ conn' = conn /\ UNCHANGED Untouched
    BY <1>1 DEF BadIdentity, BadArguments, BadRemote, Fresh
  <2>3. <<w>> \in Seq(Outcomes) /\ Exchange(r, <<w>>, E)
    BY <1>0, <2>2, FreshKeeps
  <2> QED BY <1>0, <2>1, <2>2, <2>3, ClientMoves
<1>2. CASE Connect(c)
  <2>1. r.stage = "none" /\ o = <<>> /\ UNCHANGED Untouched
    BY <1>2 DEF Connect, Fresh
  <2>2. CASE socket # None /\ Listening(socket)
    <3> DEFINE u == [NoConn EXCEPT !.to = socket, !.stage = "backlog", !.open = TRUE]
    <3>1. conn' = [conn EXCEPT ![c] = u] /\ outcome' = outcome
      BY <1>2, <2>2 DEF Connect
    <3>2. socket \in Brokers
      BY <2>2 DEF EndpointInv, Accounted
    <3>3. u \in Connection /\ Exchange(u, o, E)
      BY <1>0, <2>1, <3>2, FreshKeeps
    <3>4. u.stage = "backlog" /\ u.to = socket
      BY DEF NoConn
    <3> HIDE DEF u
    <3> QED BY <1>0, <2>1, <3>1, <3>2, <3>3, <3>4, ClientMoves
  <2>3. CASE ~(socket # None /\ Listening(socket))
    <3>1. outcome' = [outcome EXCEPT ![c] = <<"ConnectionFailed">>] /\ conn' = conn
      BY <1>2, <2>3 DEF Connect
    <3>2. <<"ConnectionFailed">> \in Seq(Outcomes) /\ Exchange(r, <<"ConnectionFailed">>, E)
      BY <1>0, <2>1, FreshKeeps
    <3> QED BY <1>0, <2>1, <3>1, <3>2, ClientMoves
  <2> QED BY <2>2, <2>3
<1>3. ASSUME NEW line \in Speaks[c], Send(c, line) PROVE EndpointInv'
  <2>1. r.open /\ ~(o # <<>> /\ o[Len(o)] = "pending") /\ UNCHANGED Untouched
    BY <1>3 DEF Send, Pending, Last
  <2>2. line \in {"ping", "request", "unrecognised", "oversize"}
    BY EndpointAssumption
  <2>3. CASE r.stage = "closed"
    <3> DEFINE u == [r EXCEPT !.open = FALSE, !.replies = <<>>]
               a == Append(o, "Io")
    <3>1. conn' = [conn EXCEPT ![c] = u] /\ outcome' = [outcome EXCEPT ![c] = a]
      BY <1>3, <2>3 DEF Send
    <3>2. u \in Connection /\ a \in Seq(Outcomes) /\ Exchange(u, a, E)
      BY <1>0, <2>1, <2>3, LeaveKeeps
    <3>3. u.stage = r.stage /\ u.to = r.to
      BY <1>0 DEF Connection
    <3> HIDE DEF u, a
    <3> QED BY <2>1, <3>1, <3>2, <3>3, ClientMoves
  <2>4. CASE r.stage # "closed"
    <3> DEFINE u == [r EXCEPT !.sent = Append(r.sent, Line(line, Len(o) + 1))]
               p == Append(o, "pending")
    <3>1. conn' = [conn EXCEPT ![c] = u] /\ outcome' = [outcome EXCEPT ![c] = p]
      BY <1>3, <2>4 DEF Send
    <3>2. u \in Connection /\ p \in Seq(Outcomes) /\ Exchange(u, p, E)
      BY <1>0, <2>1, <2>2, <2>4, SendKeeps
    <3>3. u.stage = r.stage /\ u.to = r.to
      BY <1>0 DEF Connection
    <3> HIDE DEF u, p
    <3> QED BY <2>1, <3>1, <3>2, <3>3, ClientMoves
  <2> QED BY <2>3, <2>4
<1>4. CASE Receive(c)
  <2> DEFINE reply == Head(r.replies)
             w == IF reply.line = "response" /\ reply.call # Len(o) THEN "another" ELSE reply.line
             u == [r EXCEPT !.replies = Tail(r.replies), !.open = reply.line \notin Violations]
             p == [o EXCEPT ![Len(o)] = w]
  <2>1. r.open /\ o # <<>> /\ o[Len(o)] = "pending" /\ r.replies # <<>> /\ UNCHANGED Untouched
    BY <1>4 DEF Receive, Pending, Last
  <2>2. conn' = [conn EXCEPT ![c] = u] /\ outcome' = [outcome EXCEPT ![c] = p]
    BY <1>4 DEF Receive, Told
  <2>3. u \in Connection /\ p \in Seq(Outcomes) /\ Exchange(u, p, E)
    BY <1>0, <2>1, ReceiveKeeps
  <2>4. u.stage = r.stage /\ u.to = r.to
    BY <1>0 DEF Connection
  <2> HIDE DEF u, p
  <2> QED BY <2>1, <2>2, <2>3, <2>4, ClientMoves
<1>5. CASE ReceiveEof(c) \/ Timeout(c) \/ Drop(c)
  <2> DEFINE u == [r EXCEPT !.open = FALSE, !.replies = <<>>]
             t == [o EXCEPT ![Len(o)] = "Timeout"]
             i == [o EXCEPT ![Len(o)] = "Io"]
  <2>1. r.open /\ UNCHANGED Untouched /\ conn' = [conn EXCEPT ![c] = u]
    BY <1>5 DEF ReceiveEof, Timeout, Drop
  <2>2. /\ ReceiveEof(c) => o # <<>> /\ r.stage = "closed" /\ outcome' = [outcome EXCEPT ![c] = i]
        /\ Timeout(c) => o # <<>> /\ outcome' = [outcome EXCEPT ![c] = t]
        /\ Drop(c) => outcome' = outcome
    BY DEF ReceiveEof, Timeout, Drop, Pending, Told
  <2>3. u.stage = r.stage /\ u.to = r.to
    BY <1>0 DEF Connection
  <2>4. /\ u \in Connection /\ Exchange(u, o, E)
        /\ o # <<>> => t \in Seq(Outcomes) /\ Exchange(u, t, E)
        /\ o # <<>> /\ r.stage = "closed" => i \in Seq(Outcomes) /\ Exchange(u, i, E)
    BY <1>0, <2>1, LeaveKeeps
  <2> HIDE DEF u, t, i
  <2>5. \E q \in Seq(Outcomes) : outcome' = [outcome EXCEPT ![c] = q] /\ Exchange(u, q, E)
    BY <1>0, <1>5, <2>2, <2>4
  <2> QED BY <2>1, <2>3, <2>4, <2>5, ClientMoves
<1> QED BY <1>1, <1>2, <1>3, <1>4, <1>5 DEF ClientStep

-------------------------------------------------------------------------------
(* The theorems.                                                           *)

\* The invariant of the endpoint holds of every reachable state, whatever
\* brokers are started, stopped and killed and whatever their peers send.
THEOREM EndpointInvariant == Spec => []EndpointInv
<1>1. Init => EndpointInv
  <2> SUFFICES ASSUME Init PROVE EndpointInv
    OBVIOUS
  <2>0. <<>> \in Seq(ClientLine) /\ <<>> \in Seq(ServerLine) /\ <<>> \in Seq(Outcomes)
        /\ <<>> \in Seq(Clients \X Nat)
    OBVIOUS
  <2>1. NoConn \in Connection /\ NoConn.stage = "none" /\ ~NoConn.open /\ NoConn.sent = <<>>
        /\ NoConn.replies = <<>> /\ NoConn.running = 0
    BY <2>0 DEF NoConn, Connection, Stages
  <2>2. \A c \in Clients : conn[c] = NoConn /\ outcome[c] = <<>>
    BY DEF Init
  <2>3. conn \in [Clients -> Connection] /\ outcome \in [Clients -> Seq(Outcomes)]
    BY <2>0, <2>1 DEF Init
  <2>4. executed = <<>> /\ Range(executed) = {} /\ IsInjective(executed)
    BY DEF Init, Range, IsInjective
  <2>5. \A c \in Clients : Calls(executed, c) = {}
    BY <2>4 DEF Calls
  <2>6. Exchange(NoConn, <<>>, {})
    <3>1. Truthful(<<>>, {}) /\ Outstanding(NoConn, <<>>, {})
      BY <2>1 DEF Truthful, Outstanding
    <3>2. Answering(NoConn, <<>>, {}) /\ Unserved(NoConn, {})
      BY <2>1 DEF Answering, Unserved, Early
    <3> QED BY <3>1, <3>2 DEF Exchange
  <2>7. Exchanges
    BY <2>0, <2>2, <2>3, <2>4, <2>5, <2>6 DEF Exchanges
  <2>8. \A b \in Brokers : Of(b, Slots) = {}
    BY <2>1, <2>2 DEF Of, Slots
  <2>9. \A c \in Clients : conn[c].stage \notin Tasks \cup {"backlog"}
    BY <2>1, <2>2 DEF Tasks, Slots
  <2>10. \A b \in Brokers : live[b] = Cardinality(Of(b, Slots)) /\ live[b] <= MaxConnections
    <3> TAKE b \in Brokers
    <3>1. PICK x : x = Of(b, Slots)
      OBVIOUS
    <3>2. Cardinality(x) = 0
      BY <2>8, <3>1, FS_EmptySet
    <3>3. live[b] = 0 /\ 0 <= MaxConnections
      BY EndpointAssumption DEF Init
    <3> QED BY <3>1, <3>2, <3>3
  <2>11. proc \in [Brokers -> {"down", "probed", "removed", "bound", "serving", "wedged", "draining"}]
    BY DEF Init
  <2>12. kind \in {"local", "remote"} /\ socket \in Brokers \cup {None} /\ stop \subseteq Brokers
         /\ live \in [Brokers -> Nat]
    BY DEF Init
  <2>13. Accounted
    BY <2>9, <2>10, <2>11, <2>12 DEF Accounted
  <2> QED BY <2>7, <2>13 DEF EndpointInv
<1>2. EndpointInv /\ [Next]_vars => EndpointInv'
  <2> SUFFICES ASSUME EndpointInv, [Next]_vars PROVE EndpointInv'
    OBVIOUS
  <2>1. ASSUME NEW c \in Clients, ConnectionStep(c) PROVE EndpointInv'
    BY <2>1, AcceptingKeeps, ServingKeeps DEF ConnectionStep
  <2>2. ASSUME NEW c \in Clients, ClientStep(c) PROVE EndpointInv'
    BY <2>2, ClientKeeps
  <2>3. ASSUME NEW b \in Brokers, BrokerStep(b) PROVE EndpointInv'
    BY <2>3, StartingKeeps, EndingProcessKeeps DEF BrokerStep
  <2>4. CASE UNCHANGED vars
    <3>1. Exchanges'
      BY <2>4 DEF vars, EndpointInv, Exchanges
    <3>2. Accounted'
      BY <2>4 DEF vars, EndpointInv, Accounted, Of
    <3> QED BY <3>1, <3>2 DEF EndpointInv
  <2> QED BY <2>1, <2>2, <2>3, <2>4, StartingKeeps, EndingProcessKeeps DEF Next
<1> QED BY <1>1, <1>2, PTL DEF Spec

\* ipc.rs, LiveConnections: the count is exactly the connections that hold a
\* slot, and never above the limit.
THEOREM SlotsAreAccounted == Spec => []SlotsAccounted
<1>1. EndpointInv => SlotsAccounted
  <2> SUFFICES ASSUME EndpointInv PROVE SlotsAccounted
    OBVIOUS
  <2>1. \A c \in Clients : outcome[c] \in Seq(Outcomes) /\ conn[c].replies \in Seq(ServerLine)
    BY DEF EndpointInv, Exchanges, Connection
  <2> QED BY <2>1 DEF EndpointInv, Exchanges, Accounted, SlotsAccounted, TypeOK
<1> QED BY <1>1, EndpointInvariant, PTL

\* ipc.rs and broker-client: what a client is told of an exchange is what became
\* of it, and no request is executed twice.
THEOREM ClientsAreToldTheTruth == Spec => []ToldTheTruth
<1>1. EndpointInv => ToldTheTruth
  <2> SUFFICES ASSUME EndpointInv, NEW c \in Clients
               PROVE  /\ "another" \notin Range(outcome[c])
                      /\ \A n \in 1..Len(outcome[c]) :
                           /\ outcome[c][n] = "response" => <<c, n>> \in Range(executed)
                           /\ outcome[c][n] \in Unexecuted => <<c, n>> \notin Range(executed)
                      /\ \A i, j \in 1..Len(executed) : executed[i] = executed[j] => i = j
    BY DEF ToldTheTruth, Unexecuted
  <2>1. outcome[c] \in Seq(Outcomes) /\ Truthful(outcome[c], Calls(executed, c))
    BY DEF EndpointInv, Exchanges, Exchange
  <2>2. "another" \notin Range(outcome[c])
    <3>1. "another" \notin Outcomes
      BY DEF Outcomes, Violations
    <3>2. \A n \in DOMAIN outcome[c] : outcome[c][n] \in Outcomes
      BY <2>1
    <3> QED BY <3>1, <3>2 DEF Range
  <2>3. ASSUME NEW n \in 1..Len(outcome[c])
        PROVE  /\ outcome[c][n] = "response" => <<c, n>> \in Range(executed)
               /\ outcome[c][n] \in Unexecuted => <<c, n>> \notin Range(executed)
    BY <2>1 DEF Truthful, Calls
  <2>4. \A i, j \in 1..Len(executed) : executed[i] = executed[j] => i = j
    <3>1. executed \in Seq(Clients \X Nat) /\ IsInjective(executed)
      BY DEF EndpointInv, Exchanges
    <3>2. DOMAIN executed = 1..Len(executed)
      BY <3>1
    <3> QED BY <3>1, <3>2 DEF IsInjective
  <2> QED BY <2>2, <2>3, <2>4
<1> QED BY <1>1, EndpointInvariant, PTL

-------------------------------------------------------------------------------
(* The replay cache.                                                       *)

Registration == [key : Pairs, at : Nat, fresh : BOOLEAN]

\* The pairs accepted among the first n calls of rs after call i, or at no
\* earlier an instant than call i.
Rivals(rs, n, i) ==
  {rs[m].key : m \in {m \in 1..n : rs[m].fresh /\ (m > i \/ rs[m].at >= rs[i].at)}}

\* Among the first n calls of rs there is one after call i that read an instant
\* a window later, or as many other pairs as the cache holds.
Expired(rs, n, i) == \E m \in (i + 1)..n : rs[m].fresh /\ rs[m].at - rs[i].at >= Ttl
Flooded(rs, n, i) == Capacity <= Cardinality(Rivals(rs, n, i) \ {rs[i].key})

\* A call that was accepted is the one its pair is remembered by, unless the
\* window has passed or the cache was flooded.
Remembered(rs, es) ==
  \A i \in 1..Len(rs) : rs[i].fresh =>
    \/ Expired(rs, Len(rs), i) \/ Flooded(rs, Len(rs), i)
    \/ rs[i].key \in DOMAIN es /\ es[rs[i].key] = rs[i].at

\* An entry is that of a call that was accepted.
Backed(rs, es) ==
  \A k \in DOMAIN es : \E i \in 1..Len(rs) : rs[i].fresh /\ rs[i].key = k /\ rs[i].at = es[k]

\* What the answers say of one another.
AcceptedAgain(rs) ==
  \A j \in 1..Len(rs), i \in 1..Len(rs) :
    rs[j].fresh /\ i < j /\ rs[i].fresh /\ rs[i].key = rs[j].key =>
      Expired(rs, j, i) \/ Flooded(rs, j - 1, i)
Refused(rs) ==
  \A j \in 1..Len(rs) : ~rs[j].fresh =>
    \E i \in 1..Len(rs) : /\ i < j /\ rs[i].fresh /\ rs[i].key = rs[j].key
                          /\ rs[j].at - rs[i].at < Ttl

ReplayTypes ==
  /\ now \in Nat
  /\ registrations \in Seq(Registration)
  /\ IsFiniteSet(LiveKeys) /\ LiveKeys \subseteq Pairs
  /\ entries \in [LiveKeys -> 0..now]

ReplayInv ==
  /\ ReplayTypes /\ IndexMirrorsEntries
  /\ Remembered(registrations, entries) /\ Backed(registrations, entries)
  /\ AcceptedAgain(registrations) /\ Refused(registrations)

\* The nonces that compete with one for the room in the cache are finitely many.
LEMMA RivalsFinite ==
  ASSUME NEW rs, NEW n \in Nat, NEW i
  PROVE  IsFiniteSet(Rivals(rs, n, i))
<1> DEFINE M == {m \in 1..n : rs[m].fresh /\ (m > i \/ rs[m].at >= rs[i].at)}
           f == [m \in M |-> rs[m].key]
<1>1. IsFiniteSet(1..n)
  BY FS_Interval
<1>2. M \in SUBSET (1..n)
  OBVIOUS
<1>3. IsFiniteSet(M)
  BY <1>1, <1>2, FS_Subset
<1>4. f \in Surjection(M, Rivals(rs, n, i))
  BY DEF Surjection, Rivals
<1> QED BY <1>3, <1>4, FS_Surjection

\* What a window that passed, and a flood, are in rs they are in every
\* continuation of it.
LEMMA HistoryPersists ==
  ASSUME NEW rs, NEW s, NEW n \in Nat, NEW p \in Nat, n <= p,
         \A m \in 1..n : s[m] = rs[m], NEW i \in 1..n
  PROVE  /\ Expired(rs, n, i) => Expired(s, p, i)
         /\ Flooded(rs, n, i) => Flooded(s, p, i)
         /\ Expired(s, n, i) <=> Expired(rs, n, i)
<1>1. Expired(rs, n, i) => Expired(s, p, i)
  BY DEF Expired
<1>2. Expired(s, n, i) <=> Expired(rs, n, i)
  BY DEF Expired
<1>3. ASSUME Flooded(rs, n, i) PROVE Flooded(s, p, i)
  <2> DEFINE R == Rivals(rs, n, i) \ {rs[i].key}
             Q == Rivals(s, p, i) \ {s[i].key}
  <2>1. s[i] = rs[i]
    OBVIOUS
  <2>2. R \in SUBSET Q
    BY <2>1 DEF Rivals
  <2>3. IsFiniteSet(Q)
    BY RivalsFinite, FS_Difference
  <2>4. Cardinality(R) <= Cardinality(Q) /\ IsFiniteSet(R)
    BY <2>2, <2>3, FS_Subset
  <2>5. Cardinality(R) \in Nat /\ Cardinality(Q) \in Nat /\ Capacity \in Nat
    BY <2>3, <2>4, FS_CardinalityType, LimitsPositive
  <2> QED BY <1>3, <2>4, <2>5 DEF Flooded
<1> QED BY <1>1, <1>2, <1>3

\* One more call in the history.
LEMMA Continued ==
  ASSUME NEW T, NEW rs \in Seq(T), NEW e \in T
  PROVE  /\ Append(rs, e) \in Seq(T) /\ Len(Append(rs, e)) = Len(rs) + 1
         /\ Append(rs, e)[Len(rs) + 1] = e /\ Len(rs) \in Nat
         /\ \A m \in 1..Len(rs) : Append(rs, e)[m] = rs[m]
OBVIOUS

\* A refused call changes nothing the cache remembers.
LEMMA RefusalKeeps ==
  ASSUME NEW rs, NEW s, NEW es, Len(rs) \in Nat, Len(s) = Len(rs) + 1,
         \A m \in 1..Len(rs) : s[m] = rs[m], ~s[Len(s)].fresh,
         Remembered(rs, es), Backed(rs, es)
  PROVE  Remembered(s, es) /\ Backed(s, es)
<1>1. Backed(s, es)
  BY DEF Backed
<1>2. ASSUME NEW i \in 1..Len(s), s[i].fresh
      PROVE  \/ Expired(s, Len(s), i) \/ Flooded(s, Len(s), i)
             \/ s[i].key \in DOMAIN es /\ es[s[i].key] = s[i].at
  <2>1. i \in 1..Len(rs) /\ s[i] = rs[i]
    BY <1>2
  <2>2. PICK n \in Nat, p \in Nat : n = Len(rs) /\ p = Len(s) /\ n <= p
    OBVIOUS
  <2>3. (Expired(rs, n, i) => Expired(s, p, i)) /\ (Flooded(rs, n, i) => Flooded(s, p, i))
    BY <2>1, <2>2, HistoryPersists
  <2> QED BY <1>2, <2>1, <2>2, <2>3 DEF Remembered
<1> QED BY <1>1, <1>2 DEF Remembered

\* The new call is judged by what the cache remembers.
LEMMA HistoryKeeps ==
  ASSUME NEW rs, NEW s, Len(rs) \in Nat, Len(s) = Len(rs) + 1,
         \A m \in 1..Len(rs) : s[m] = rs[m],
         AcceptedAgain(rs), Refused(rs),
         s[Len(s)].fresh =>
           \A i \in 1..Len(rs) : rs[i].fresh /\ rs[i].key = s[Len(s)].key =>
             Expired(s, Len(s), i) \/ Flooded(rs, Len(rs), i),
         ~s[Len(s)].fresh =>
           \E i \in 1..Len(rs) : /\ rs[i].fresh /\ rs[i].key = s[Len(s)].key
                                 /\ s[Len(s)].at - rs[i].at < Ttl
  PROVE  AcceptedAgain(s) /\ Refused(s)
<1>1. ASSUME NEW j \in 1..Len(s), NEW i \in 1..Len(s),
             s[j].fresh, i < j, s[i].fresh, s[i].key = s[j].key
      PROVE  Expired(s, j, i) \/ Flooded(s, j - 1, i)
  <2>0. i \in 1..Len(rs) /\ s[i] = rs[i]
    BY <1>1
  <2>1. CASE j \in 1..Len(rs)
    <3>1. Expired(rs, j, i) \/ Flooded(rs, j - 1, i)
      BY <1>1, <2>0, <2>1 DEF AcceptedAgain
    <3>2. j \in Nat /\ j - 1 \in Nat /\ i \in 1..(j - 1) /\ i \in 1..j
      BY <1>1, <2>1
    <3>3. (\A m \in 1..j : s[m] = rs[m]) /\ (\A m \in 1..(j - 1) : s[m] = rs[m])
      BY <2>1
    <3>4. Expired(rs, j, i) => Expired(s, j, i)
      BY <3>2, <3>3, HistoryPersists
    <3>5. Flooded(rs, j - 1, i) => Flooded(s, j - 1, i)
      BY <3>2, <3>3, HistoryPersists
    <3> QED BY <3>1, <3>4, <3>5
  <2>2. CASE j = Len(s)
    <3>1. Expired(s, j, i) \/ Flooded(rs, Len(rs), i)
      BY <1>1, <2>0, <2>2
    <3>2. Flooded(rs, Len(rs), i) => Flooded(s, Len(rs), i)
      <4>1. PICK n \in Nat : n = Len(rs) /\ n <= n
        OBVIOUS
      <4>2. Flooded(rs, n, i) => Flooded(s, n, i)
        BY <2>0, <4>1, HistoryPersists
      <4> QED BY <4>1, <4>2
    <3>3. Len(rs) = j - 1
      BY <2>2
    <3> QED BY <3>1, <3>2, <3>3
  <2> QED BY <2>1, <2>2
<1>2. ASSUME NEW j \in 1..Len(s), ~s[j].fresh
      PROVE  \E i \in 1..Len(s) : /\ i < j /\ s[i].fresh /\ s[i].key = s[j].key
                                  /\ s[j].at - s[i].at < Ttl
  <2>1. CASE j \in 1..Len(rs)
    <3>1. PICK i \in 1..Len(rs) : /\ i < j /\ rs[i].fresh /\ rs[i].key = rs[j].key
                                  /\ rs[j].at - rs[i].at < Ttl
      BY <1>2, <2>1 DEF Refused
    <3>2. s[i] = rs[i] /\ s[j] = rs[j] /\ i \in 1..Len(s)
      BY <2>1
    <3> QED BY <3>1, <3>2
  <2>2. CASE j = Len(s)
    <3>1. PICK i \in 1..Len(rs) : /\ rs[i].fresh /\ rs[i].key = s[Len(s)].key
                                  /\ s[Len(s)].at - rs[i].at < Ttl
      BY <1>2, <2>2
    <3>2. s[i] = rs[i] /\ i \in 1..Len(s) /\ i < j
      BY <2>2
    <3> QED BY <2>2, <3>1, <3>2
  <2> QED BY <2>1, <2>2
<1> QED BY <1>1, <1>2 DEF AcceptedAgain, Refused

\* The answers s go on from rs with the acceptance of key at t, and the entries
\* ds from es with key's: of the others those in stay are left, and each of the
\* rest is lost to the window or to a flood.
Accepting(rs, s, es, ds, key, t, stay) ==
  /\ t \in Nat /\ Len(rs) \in Nat /\ Len(s) = Len(rs) + 1
  /\ \A m \in 1..Len(rs) : s[m] = rs[m]
  /\ s[Len(s)].key = key /\ s[Len(s)].at = t /\ s[Len(s)].fresh
  /\ IsFiniteSet(stay) /\ stay \subseteq DOMAIN es /\ key \notin stay
  /\ \A k \in DOMAIN es : es[k] \in Nat
  /\ DOMAIN ds = stay \cup {key} /\ ds[key] = t /\ \A k \in stay : ds[k] = es[k]
  /\ \A k \in (DOMAIN es) \ stay :
       \/ t - es[k] >= Ttl
       \/ /\ k # key /\ Capacity <= Cardinality(stay) + 1
          /\ \A x \in stay : es[x] >= es[k]

\* Accepting a nonce keeps what the cache remembers and refuses.
LEMMA AcceptanceKeeps ==
  ASSUME NEW rs, NEW s, NEW es, NEW ds, NEW key, NEW t, NEW stay,
         Accepting(rs, s, es, ds, key, t, stay),
         Remembered(rs, es), Backed(rs, es), AcceptedAgain(rs), Refused(rs)
  PROVE  Remembered(s, ds) /\ Backed(s, ds) /\ AcceptedAgain(s) /\ Refused(s)
<1> USE DEF Accepting
<1>0. PICK n \in Nat, p \in Nat : n = Len(rs) /\ p = Len(s) /\ p = n + 1 /\ n <= p
  OBVIOUS
<1>1. \A i \in 1..n : (Expired(rs, n, i) => Expired(s, p, i)) /\ (Flooded(rs, n, i) => Flooded(s, p, i))
  BY <1>0, HistoryPersists
<1>2. ASSUME NEW i \in 1..n, rs[i].fresh, rs[i].key \in DOMAIN es, es[rs[i].key] = rs[i].at,
             t - es[rs[i].key] >= Ttl
      PROVE  Expired(s, p, i)
  <2>1. p \in (i + 1)..p /\ s[p].fresh /\ s[p].at - s[i].at >= Ttl
    BY <1>0, <1>2
  <2> QED BY <2>1 DEF Expired
<1>3. ASSUME NEW i \in 1..n, rs[i].fresh, rs[i].key \in DOMAIN es, es[rs[i].key] = rs[i].at,
             rs[i].key \notin stay, rs[i].key # key, Capacity <= Cardinality(stay) + 1,
             \A x \in stay : es[x] >= es[rs[i].key]
      PROVE  Flooded(s, p, i)
  <2> DEFINE S == stay \cup {key}
             Q == Rivals(s, p, i) \ {s[i].key}
  <2>0. s[i] = rs[i] /\ i \in 1..p
    BY <1>0
  <2>1. ASSUME NEW x \in stay PROVE x \in Rivals(s, p, i)
    <3>1. PICK m \in 1..n : rs[m].fresh /\ rs[m].key = x /\ rs[m].at = es[x]
      BY <1>0 DEF Backed
    <3>2. m \in 1..p /\ s[m] = rs[m] /\ s[m].fresh /\ s[m].at >= s[i].at /\ s[m].key = x
      BY <1>0, <1>3, <2>0, <3>1
    <3> QED BY <3>2 DEF Rivals
  <2>2. key \in Rivals(s, p, i)
    <3>1. p \in 1..p /\ s[p].fresh /\ p > i /\ s[p].key = key
      BY <1>0
    <3> QED BY <3>1 DEF Rivals
  <2>3. S \in SUBSET Q
    BY <1>3, <2>0, <2>1, <2>2
  <2>4. IsFiniteSet(S) /\ Cardinality(S) = Cardinality(stay) + 1
    BY FS_AddElement
  <2>5. IsFiniteSet(Q)
    BY RivalsFinite, FS_Difference
  <2>6. Cardinality(S) <= Cardinality(Q)
    BY <2>3, <2>5, FS_Subset
  <2>7. Cardinality(S) \in Nat /\ Cardinality(Q) \in Nat /\ Capacity \in Nat
    BY <2>4, <2>5, FS_CardinalityType, LimitsPositive
  <2> HIDE DEF Q, S
  <2>8. Capacity <= Cardinality(Q)
    BY <1>3, <2>4, <2>6, <2>7
  <2> QED BY <2>8 DEF Flooded, Q
<1>4. ASSUME NEW i \in 1..p, s[i].fresh
      PROVE  \/ Expired(s, p, i) \/ Flooded(s, p, i)
             \/ s[i].key \in DOMAIN ds /\ ds[s[i].key] = s[i].at
  <2>1. CASE i = p
    BY <1>0, <2>1
  <2>2. CASE i \in 1..n
    <3>0. s[i] = rs[i]
      BY <1>0, <2>2
    <3>1. CASE Expired(rs, n, i) \/ Flooded(rs, n, i)
      BY <1>1, <2>2, <3>1
    <3>2. CASE rs[i].key \in DOMAIN es /\ es[rs[i].key] = rs[i].at
      <4>1. CASE rs[i].key \in stay
        BY <3>0, <3>2, <4>1
      <4>2. CASE rs[i].key \notin stay
        BY <1>2, <1>3, <1>4, <2>2, <3>0, <3>2, <4>2
      <4> QED BY <4>1, <4>2
    <3> QED BY <1>0, <1>4, <2>2, <3>0, <3>1, <3>2 DEF Remembered
  <2> QED BY <1>0, <2>1, <2>2
<1>5. Remembered(s, ds)
  BY <1>0, <1>4 DEF Remembered
<1>6. Backed(s, ds)
  <2> SUFFICES ASSUME NEW k \in DOMAIN ds
               PROVE  \E i \in 1..p : s[i].fresh /\ s[i].key = k /\ s[i].at = ds[k]
    BY <1>0 DEF Backed
  <2>1. CASE k = key
    BY <1>0, <2>1
  <2>2. CASE k \in stay
    <3>1. PICK m \in 1..n : rs[m].fresh /\ rs[m].key = k /\ rs[m].at = es[k]
      BY <1>0, <2>2 DEF Backed
    <3>2. m \in 1..p /\ s[m] = rs[m] /\ ds[k] = es[k]
      BY <1>0, <2>2
    <3> QED BY <3>1, <3>2
  <2> QED BY <2>1, <2>2
<1>7. ASSUME NEW i \in 1..n, rs[i].fresh, rs[i].key = key
      PROVE  Expired(s, p, i) \/ Flooded(rs, n, i)
  <2>1. CASE Expired(rs, n, i) \/ Flooded(rs, n, i)
    BY <1>1, <2>1
  <2>2. CASE rs[i].key \in DOMAIN es /\ es[rs[i].key] = rs[i].at
    BY <1>2, <1>7, <2>2
  <2> QED BY <1>0, <1>7, <2>1, <2>2 DEF Remembered
<1>8. AcceptedAgain(s) /\ Refused(s)
  BY <1>0, <1>7, HistoryKeeps
<1> QED BY <1>5, <1>6, <1>8

\* The index loses and gains the pairs the map does.
LEMMA IndexFollows ==
  ASSUME NEW es, NEW ds, NEW key, NEW t, NEW stay, NEW old, NEW new,
         stay \subseteq DOMAIN es, key \notin stay,
         DOMAIN ds = stay \cup {key}, ds[key] = t, \A k \in stay : ds[k] = es[k],
         old = {<<es[k], k>> : k \in DOMAIN es},
         \/ new = {o \in old : o[2] \in stay} \cup {<<t, key>>}
         \/ stay = (DOMAIN es) \ {key} /\ key \in DOMAIN es /\ new = (old \ {<<es[key], key>>}) \cup {<<t, key>>}
  PROVE  new = {<<ds[k], k>> : k \in DOMAIN ds}
<1> DEFINE kept == {<<es[k], k>> : k \in stay}
<1>1. {<<ds[k], k>> : k \in DOMAIN ds} = kept \cup {<<t, key>>}
  OBVIOUS
<1>2. {o \in old : o[2] \in stay} = kept
  <2>1. ASSUME NEW o \in old, o[2] \in stay PROVE o \in kept
    <3>1. PICK k \in DOMAIN es : o = <<es[k], k>>
      OBVIOUS
    <3>2. o[2] = k
      BY <3>1
    <3> QED BY <2>1, <3>1, <3>2
  <2>2. ASSUME NEW o \in kept PROVE o \in old /\ o[2] \in stay
    OBVIOUS
  <2> QED BY <2>1, <2>2
<1>3. stay = (DOMAIN es) \ {key} /\ key \in DOMAIN es => old \ {<<es[key], key>>} = kept
  OBVIOUS
<1> QED BY <1>1, <1>2, <1>3

\* The call that RegisterAnswers puts on record.
LEMMA OnRecord ==
  ASSUME ReplayTypes, NEW key \in Pairs, NEW t \in 0..now, NEW fresh \in BOOLEAN,
         RegisterAnswers(key, t, fresh)
  PROVE  /\ registrations' \in Seq(Registration) /\ now' = now /\ t \in Nat
         /\ Len(registrations) \in Nat /\ Len(registrations') = Len(registrations) + 1
         /\ \A m \in 1..Len(registrations) : registrations'[m] = registrations[m]
         /\ registrations'[Len(registrations')].key = key
         /\ registrations'[Len(registrations')].at = t
         /\ registrations'[Len(registrations')].fresh = fresh
<1>1. PICK e : e = [key |-> key, at |-> t, fresh |-> fresh]
  OBVIOUS
<1>2. e \in Registration /\ e.key = key /\ e.at = t /\ e.fresh = fresh /\ t \in Nat
  BY <1>1 DEF Registration, ReplayTypes
<1>3. registrations' = Append(registrations, e) /\ now' = now
  BY <1>1 DEF RegisterAnswers
<1>4. PICK T : T = Registration
  OBVIOUS
<1>5. registrations \in Seq(T) /\ e \in T
  BY <1>2, <1>4 DEF ReplayTypes
<1>6. /\ Append(registrations, e) \in Seq(T) /\ Len(Append(registrations, e)) = Len(registrations) + 1
      /\ Append(registrations, e)[Len(registrations) + 1] = e /\ Len(registrations) \in Nat
      /\ \A m \in 1..Len(registrations) : Append(registrations, e)[m] = registrations[m]
  BY <1>5, Continued
<1> QED BY <1>2, <1>3, <1>4, <1>6

\* A pair inside its window is refused.
LEMMA RefusesKeeps ==
  ASSUME ReplayInv, NEW key \in Pairs, NEW t \in 0..now, RegisterReplay(key, t)
  PROVE  ReplayInv'
<1> DEFINE rs == registrations
           s == registrations'
<1>0. FALSE \in BOOLEAN /\ RegisterAnswers(key, t, FALSE) /\ ReplayTypes
  BY DEF RegisterReplay, ReplayInv
<1>1. /\ s \in Seq(Registration) /\ now' = now /\ t \in Nat
      /\ Len(rs) \in Nat /\ Len(s) = Len(rs) + 1
      /\ \A m \in 1..Len(rs) : s[m] = rs[m]
      /\ s[Len(s)].key = key /\ s[Len(s)].at = t /\ s[Len(s)].fresh = FALSE
  BY <1>0, OnRecord
<1>2. entries' = entries /\ order' = order /\ key \in LiveKeys /\ Age(key, t) < Ttl
  BY DEF RegisterReplay
<1>3. ReplayTypes'
  BY <1>1, <1>2 DEF ReplayInv, ReplayTypes, LiveKeys
<1>4. IndexMirrorsEntries'
  BY <1>1, <1>2 DEF ReplayInv, IndexMirrorsEntries, LiveKeys
<1>5. Remembered(s, entries) /\ Backed(s, entries)
  BY <1>1, RefusalKeeps DEF ReplayInv
<1>6. PICK i \in 1..Len(rs) : rs[i].fresh /\ rs[i].key = key /\ rs[i].at = entries[key]
  BY <1>2 DEF ReplayInv, Backed, LiveKeys
<1>7. t - entries[key] < Ttl
  BY <1>0, <1>1, <1>2, LimitsPositive DEF Age, ReplayTypes
<1>8. AcceptedAgain(s) /\ Refused(s)
  BY <1>1, <1>6, <1>7, HistoryKeeps DEF ReplayInv
<1> QED BY <1>2, <1>3, <1>4, <1>5, <1>8 DEF ReplayInv

\* A stale duplicate is remembered by its new instant.
LEMMA RefreshKeeps ==
  ASSUME ReplayInv, NEW key \in Pairs, NEW t \in 0..now, RegisterStale(key, t)
  PROVE  ReplayInv'
<1> DEFINE rs == registrations
           s == registrations'
           es == entries
           ds == entries'
           stay == (DOMAIN es) \ {key}
<1>0. TRUE \in BOOLEAN /\ RegisterAnswers(key, t, TRUE) /\ ReplayTypes
  BY DEF RegisterStale, ReplayInv
<1>1. /\ s \in Seq(Registration) /\ now' = now /\ t \in Nat
      /\ Len(rs) \in Nat /\ Len(s) = Len(rs) + 1
      /\ \A m \in 1..Len(rs) : s[m] = rs[m]
      /\ s[Len(s)].key = key /\ s[Len(s)].at = t /\ s[Len(s)].fresh = TRUE
  BY <1>0, OnRecord
<1>2. /\ ds = [es EXCEPT ![key] = t] /\ key \in DOMAIN es /\ Age(key, t) >= Ttl
      /\ order' = (order \ {<<es[key], key>>}) \cup {<<t, key>>}
  BY DEF RegisterStale, LiveKeys
<1>3. /\ es \in [DOMAIN es -> 0..now] /\ IsFiniteSet(DOMAIN es) /\ DOMAIN es \subseteq Pairs
      /\ now \in Nat /\ \A k \in DOMAIN es : es[k] \in Nat
  BY <1>0 DEF ReplayTypes, LiveKeys
<1>4. /\ DOMAIN ds = stay \cup {key} /\ DOMAIN ds = DOMAIN es /\ ds[key] = t
      /\ \A k \in stay : ds[k] = es[k]
  BY <1>2, <1>3
<1>5. ReplayTypes'
  BY <1>1, <1>2, <1>3 DEF ReplayTypes, LiveKeys
<1>6. IndexMirrorsEntries'
  <2>1. order = {<<es[k], k>> : k \in DOMAIN es}
    BY DEF ReplayInv, IndexMirrorsEntries, LiveKeys
  <2>2. stay \subseteq DOMAIN es /\ key \notin stay
    OBVIOUS
  <2>3. order' = {<<ds[k], k>> : k \in DOMAIN ds}
    BY <1>2, <1>4, <2>1, <2>2, IndexFollows
  <2>4. Cardinality(DOMAIN ds) <= Capacity
    BY <1>4 DEF ReplayInv, IndexMirrorsEntries, LiveKeys
  <2>5. \A k \in DOMAIN ds : ds[k] <= now'
    BY <1>1, <1>3, <1>4
  <2> QED BY <2>3, <2>4, <2>5 DEF IndexMirrorsEntries, LiveKeys
<1>7. t - es[key] >= Ttl
  BY <1>1, <1>2, <1>3, LimitsPositive DEF Age
<1>8. IsFiniteSet(stay)
  BY <1>3, FS_Difference
<1>9. \A k \in (DOMAIN es) \ stay : t - es[k] >= Ttl
  BY <1>7
<1>10. Remembered(s, ds) /\ Backed(s, ds) /\ AcceptedAgain(s) /\ Refused(s)
  <2>1. Remembered(rs, es) /\ Backed(rs, es) /\ AcceptedAgain(rs) /\ Refused(rs)
    BY DEF ReplayInv
  <2>2. stay \subseteq DOMAIN es /\ key \notin stay
    OBVIOUS
  <2>3. t \in Nat /\ Len(rs) \in Nat /\ Len(s) = Len(rs) + 1 /\ \A m \in 1..Len(rs) : s[m] = rs[m]
    BY <1>1
  <2>4. s[Len(s)].key = key /\ s[Len(s)].at = t /\ s[Len(s)].fresh
    BY <1>1
  <2>5. \A k \in (DOMAIN es) \ stay :
          \/ t - es[k] >= Ttl
          \/ /\ k # key /\ Capacity <= Cardinality(stay) + 1
             /\ \A x \in stay : es[x] >= es[k]
    BY <1>9
  <2>6. \A k \in DOMAIN es : es[k] \in Nat
    BY <1>3
  <2> HIDE DEF rs, s, es, ds, stay
  <2>7. Accepting(rs, s, es, ds, key, t, stay)
    BY <1>4, <1>8, <2>2, <2>3, <2>4, <2>5, <2>6 DEF Accepting
  <2> QED BY <2>1, <2>7, AcceptanceKeeps
<1> QED BY <1>5, <1>6, <1>10 DEF ReplayInv

\* A fresh pair, after a sweep that is due and the evictions that are needed.
LEMMA AcceptsKeeps ==
  ASSUME ReplayInv, NEW key \in Pairs, NEW t \in 0..now, RegisterFresh(key, t)
  PROVE  ReplayInv'
<1> DEFINE rs == registrations
           s == registrations'
           es == entries
           ds == entries'
<1>0. TRUE \in BOOLEAN /\ RegisterAnswers(key, t, TRUE) /\ ReplayTypes
  BY DEF RegisterFresh, ReplayInv
<1>1. /\ s \in Seq(Registration) /\ now' = now /\ t \in Nat
      /\ Len(rs) \in Nat /\ Len(s) = Len(rs) + 1
      /\ \A m \in 1..Len(rs) : s[m] = rs[m]
      /\ s[Len(s)].key = key /\ s[Len(s)].at = t /\ s[Len(s)].fresh = TRUE
  BY <1>0, OnRecord
<1>2. PICK kept : kept = Kept(t)
  OBVIOUS
<1>3. PICK victims \in SUBSET kept :
        /\ OldestFirst(victims, kept)
        /\ ds = [k \in (kept \ victims) \cup {key} |-> IF k = key THEN t ELSE es[k]]
        /\ order' = {o \in order : o[2] \in kept \ victims} \cup {<<t, key>>}
  BY <1>2 DEF RegisterFresh
<1>4. PICK stay : stay = kept \ victims
  OBVIOUS
<1>5. /\ es \in [DOMAIN es -> 0..now] /\ IsFiniteSet(DOMAIN es) /\ DOMAIN es \subseteq Pairs
      /\ now \in Nat /\ \A k \in DOMAIN es : es[k] \in Nat
  BY <1>0 DEF ReplayTypes, LiveKeys
<1>6. kept \subseteq DOMAIN es /\ key \notin DOMAIN es
  BY <1>2 DEF Kept, Swept, LiveKeys, RegisterFresh
<1>7. \A k \in (DOMAIN es) \ kept : t - es[k] >= Ttl
  BY <1>1, <1>2, <1>5, LimitsPositive DEF Kept, Swept, LiveKeys, Age
<1>8. /\ stay \subseteq DOMAIN es /\ key \notin stay
      /\ DOMAIN ds = stay \cup {key} /\ ds[key] = t /\ \A k \in stay : ds[k] = es[k]
  BY <1>3, <1>4, <1>6
<1>9. IsFiniteSet(kept) /\ IsFiniteSet(stay) /\ IsFiniteSet(DOMAIN ds)
      /\ Cardinality(DOMAIN ds) = Cardinality(stay) + 1
      /\ Cardinality(kept) \in Nat /\ Cardinality(stay) \in Nat
  <2>1. IsFiniteSet(kept) /\ IsFiniteSet(stay)
    BY <1>5, <1>6, <1>8, FS_Subset
  <2> QED BY <1>8, <2>1, FS_AddElement, FS_CardinalityType
<1>10. /\ Cardinality(stay) = IF Cardinality(kept) < Capacity THEN Cardinality(kept) ELSE Capacity - 1
       /\ \A v \in victims, x \in stay : es[v] <= es[x]
  BY <1>3, <1>4 DEF OldestFirst
<1>11. Cardinality(stay) + 1 <= Capacity
  BY <1>9, <1>10, LimitsPositive
<1>12. ASSUME NEW k \in (DOMAIN es) \ stay
       PROVE  \/ t - es[k] >= Ttl
              \/ /\ k # key /\ Capacity <= Cardinality(stay) + 1
                 /\ \A x \in stay : es[x] >= es[k]
  <2>1. CASE k \notin kept
    BY <1>7, <2>1
  <2>2. CASE k \in kept
    <3>1. k \in victims /\ k # key
      BY <1>4, <1>6, <2>2
    <3>2. stay # kept /\ stay \in SUBSET kept
      BY <1>4, <2>2
    <3>3. Cardinality(stay) # Cardinality(kept)
      BY <1>9, <3>2, FS_Subset
    <3>4. Capacity <= Cardinality(stay) + 1
      BY <1>9, <1>10, <3>3, LimitsPositive
    <3>5. \A x \in stay : es[x] >= es[k]
      BY <1>5, <1>8, <1>10, <3>1
    <3> QED BY <3>1, <3>4, <3>5
  <2> QED BY <2>1, <2>2
<1>13. ReplayTypes'
  <2>1. ds \in [DOMAIN ds -> 0..now']
    BY <1>1, <1>3, <1>5, <1>6
  <2>2. DOMAIN ds \subseteq Pairs
    BY <1>5, <1>8
  <2> QED BY <1>1, <1>5, <1>9, <2>1, <2>2 DEF ReplayTypes, LiveKeys
<1>14. IndexMirrorsEntries'
  <2>1. order = {<<es[k], k>> : k \in DOMAIN es}
    BY DEF ReplayInv, IndexMirrorsEntries, LiveKeys
  <2>2. order' = {o \in order : o[2] \in stay} \cup {<<t, key>>}
    BY <1>3, <1>4
  <2>3. order' = {<<ds[k], k>> : k \in DOMAIN ds}
    BY <1>8, <2>1, <2>2, IndexFollows
  <2>4. \A k \in DOMAIN ds : ds[k] <= now'
    BY <1>1, <1>5, <1>8
  <2> QED BY <1>9, <1>11, <2>3, <2>4 DEF IndexMirrorsEntries, LiveKeys
<1>15. Remembered(s, ds) /\ Backed(s, ds) /\ AcceptedAgain(s) /\ Refused(s)
  <2>1. Remembered(rs, es) /\ Backed(rs, es) /\ AcceptedAgain(rs) /\ Refused(rs)
    BY DEF ReplayInv
  <2>2. t \in Nat /\ Len(rs) \in Nat /\ Len(s) = Len(rs) + 1 /\ \A m \in 1..Len(rs) : s[m] = rs[m]
    BY <1>1
  <2>3. s[Len(s)].key = key /\ s[Len(s)].at = t /\ s[Len(s)].fresh
    BY <1>1
  <2>4. IsFiniteSet(stay) /\ \A k \in DOMAIN es : es[k] \in Nat
    BY <1>5, <1>9
  <2> HIDE DEF rs, s, es, ds
  <2>5. Accepting(rs, s, es, ds, key, t, stay)
    BY <1>8, <1>12, <2>2, <2>3, <2>4 DEF Accepting
  <2> QED BY <2>1, <2>5, AcceptanceKeeps
<1> QED BY <1>13, <1>14, <1>15 DEF ReplayInv

\* engine.rs:84 and engine.rs:134: the replay guard refuses every replay its
\* window and its capacity let it see and refuses nothing else, however the
\* instants its callers read are ordered, for any window, capacity and pairs.
THEOREM ReplayGuardIsExact == ReplaySpec => []ReplayExact
<1>1. ReplayInit => ReplayInv
  <2> SUFFICES ASSUME ReplayInit PROVE ReplayInv
    OBVIOUS
  <2>1. DOMAIN entries = {} /\ registrations = <<>> /\ order = {} /\ now = 0
    BY DEF ReplayInit
  <2>2. ReplayTypes
    <3>1. entries \in [{} -> 0..now] /\ registrations \in Seq(Registration)
      BY DEF ReplayInit
    <3> QED BY <2>1, <3>1, FS_EmptySet DEF ReplayTypes, LiveKeys
  <2>3. IndexMirrorsEntries
    BY <2>1, FS_EmptySet, LimitsPositive DEF IndexMirrorsEntries, LiveKeys
  <2>4. Len(registrations) = 0
    BY <2>1
  <2>5. Remembered(registrations, entries) /\ Backed(registrations, entries)
    BY <2>1, <2>4 DEF Remembered, Backed
  <2>6. AcceptedAgain(registrations) /\ Refused(registrations)
    BY <2>4 DEF AcceptedAgain, Refused
  <2> QED BY <2>2, <2>3, <2>5, <2>6 DEF ReplayInv
<1>2. ReplayInv /\ [ReplayNext]_replayVars => ReplayInv'
  <2> SUFFICES ASSUME ReplayInv, [ReplayNext]_replayVars PROVE ReplayInv'
    OBVIOUS
  <2>1. ASSUME NEW key \in Pairs, NEW t \in 0..now, register(key, t) PROVE ReplayInv'
    BY <2>1, RefusesKeeps, RefreshKeeps, AcceptsKeeps DEF register
  <2>2. ASSUME now' \in Nat, now <= now',
               UNCHANGED <<entries, order, live_at_last_sweep, registrations>>
        PROVE  ReplayInv'
    <3>1. ReplayTypes'
      BY <2>2 DEF ReplayInv, ReplayTypes, LiveKeys
    <3>2. IndexMirrorsEntries'
      BY <2>2 DEF ReplayInv, ReplayTypes, IndexMirrorsEntries, LiveKeys
    <3> QED BY <2>2, <3>1, <3>2 DEF ReplayInv
  <2>3. CASE Tick
    BY <2>2, <2>3 DEF Tick, ReplayInv, ReplayTypes
  <2>4. CASE UNCHANGED replayVars
    BY <2>2, <2>4 DEF replayVars, ReplayInv, ReplayTypes
  <2> QED BY <2>1, <2>3, <2>4 DEF ReplayNext
<1>3. ReplayInv => ReplayExact
  <2> SUFFICES ASSUME ReplayInv PROVE ReplayExact
    OBVIOUS
  <2> DEFINE rs == registrations
  <2>0. Len(rs) \in Nat /\ AcceptedAgain(rs) /\ Refused(rs) /\ IndexMirrorsEntries
    BY DEF ReplayInv, ReplayTypes
  <2>1. ASSUME NEW j \in 1..Len(rs), rs[j].fresh, NEW i \in AcceptedBefore(j),
               rs[i].key = rs[j].key
        PROVE  \/ \E m \in (i + 1)..j : rs[m].fresh /\ rs[m].at - rs[i].at >= Ttl
               \/ Capacity <= Cardinality({rs[m].key : m \in {m \in AcceptedBefore(j) :
                                m > i \/ rs[m].at >= rs[i].at}} \ {rs[j].key})
    <3>1. i \in 1..Len(rs) /\ i < j /\ rs[i].fresh
      BY <2>0 DEF AcceptedBefore
    <3>2. Expired(rs, j, i) \/ Flooded(rs, j - 1, i)
      BY <2>0, <2>1, <3>1 DEF AcceptedAgain
    <3>3. Rivals(rs, j - 1, i) = {rs[m].key : m \in {m \in AcceptedBefore(j) :
                                    m > i \/ rs[m].at >= rs[i].at}}
      BY DEF Rivals, AcceptedBefore
    <3> QED BY <2>1, <3>2, <3>3 DEF Expired, Flooded
  <2>2. OncePerWindowUnlessFlooded
    BY <2>1 DEF OncePerWindowUnlessFlooded
  <2>3. NoFalseReplay
    <3> SUFFICES ASSUME NEW j \in 1..Len(rs), ~rs[j].fresh
                 PROVE  \E i \in AcceptedBefore(j) :
                          rs[i].key = rs[j].key /\ rs[j].at - rs[i].at < Ttl
      BY DEF NoFalseReplay
    <3>1. PICK i \in 1..Len(rs) : /\ i < j /\ rs[i].fresh /\ rs[i].key = rs[j].key
                                  /\ rs[j].at - rs[i].at < Ttl
      BY <2>0 DEF Refused
    <3>2. i \in AcceptedBefore(j)
      BY <2>0, <3>1 DEF AcceptedBefore
    <3> QED BY <3>1, <3>2
  <2> QED BY <2>0, <2>2, <2>3 DEF ReplayExact
<1> QED BY <1>1, <1>2, <1>3, PTL DEF ReplaySpec
================================================================================
