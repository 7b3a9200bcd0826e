----------------------------- MODULE BrokerEndpoint -----------------------------
(***************************************************************************)
(* The broker's endpoint (crates/vaultx-broker/src/ipc.rs) and the clients *)
(* that dial it (crates/vaultx-broker-client, used by the CLI, the MCP     *)
(* tools and the TUI's probe).                                             *)
(*                                                                         *)
(* Brokers start, bind the same endpoint, accept, serve, shut down, drain  *)
(* and exit, or are killed at any point and started again.  The endpoint   *)
(* is either a Unix socket, where the file can outlive its listener and    *)
(* can be removed by anybody, or a TCP address behind TLS, which the       *)
(* kernel gives to one listener at a time.                                 *)
(*                                                                         *)
(* A client dials, writes a line, reads a line or gives up after its       *)
(* timeout, and drops the connection after the first error; commands that  *)
(* try again are new clients.  Lines in flight are sequences.              *)
(* The engine is whatever BrokerEngine.tla does with a request: here it    *)
(* executes, answers, may panic and may take forever.                      *)
(***************************************************************************)
EXTENDS Options, Naturals, Sequences, FiniteSets, SequencesExt

CONSTANTS
  Brokers,          \* broker processes that may be started on one endpoint
  Clients,          \* peers that dial it, one connection each
  MaxConnections,   \* effective_connections()
  MaxStarts,        \* bound: how often brokers are started
  MaxCalls,         \* bound: how many exchanges each client begins on its connection
  Speaks            \* the lines each client may write

ASSUME EndpointAssumption ==
  /\ MaxConnections \in Nat \ {0}
  /\ MaxStarts \in Nat /\ MaxCalls \in [Clients -> Nat]
  /\ Speaks \in [Clients -> SUBSET {"ping", "request", "unrecognised", "oversize"}]
  /\ None \notin Brokers
  /\ IsFiniteSet(Clients)

VARIABLES
  kind,     \* "local" (Unix socket) or "remote" (TLS over TCP)
  socket,   \* the broker whose listener the endpoint names, or None
  proc,     \* stage of each broker process
  stop,     \* brokers whose shutdown flag (a watch channel) is set
  live,     \* the count of LiveConnections of each broker
  starts,   \* how many brokers were started
  conn,     \* the connection of each client
  executed, \* history: requests <<client, call>> the engine executed, in order
  outcome   \* what each client was told about each of its calls

vars == <<kind, socket, proc, stop, live, starts, conn, executed, outcome>>

\* A ClientLine, ping or request, of a client's nth exchange; a peer that is no BrokerClient can also send a
\* line that does not parse or one longer than MAX_LINE_BYTES.
Line(l, n) == [line |-> l, call |-> n]

\* ServerLine, with the call a response answers.
Pong == [line |-> "pong", call |-> 0]
ProtocolViolation(error) == [line |-> error, call |-> 0]
Response(n) == [line |-> "response", call |-> n]
Violations == {"unrecognized", "too_long", "connection_limit", "internal"}
ServerLine == [line : {"pong", "response"} \cup Violations, call : Nat]

Slots == {"handshake", "serving", "executing", "answering"}  \* hold a ConnectionSlot
Tasks == Slots \cup {"refusing"}

\* to: the broker; stage: of the server's task; open: the client's end is open;
\* sent, replies: lines in flight; running: the call in the pipeline.
NoConn == [to |-> None, stage |-> "none", open |-> FALSE, sent |-> <<>>, replies |-> <<>>,
           running |-> 0]

Listening(b) == proc[b] \in {"bound", "serving"}
Of(b, stages) == {c \in Clients : conn[c].to = b /\ conn[c].stage \in stages}
Peer(c) == conn[c].to

Outcomes == {"pending", "Usage", "ConnectionFailed", "Timeout", "Io"} \cup
            {"pong", "response"} \cup Violations

TypeOK ==
  /\ kind \in {"local", "remote"}
  /\ socket \in Brokers \cup {None}
  /\ proc \in [Brokers -> {"down", "probed", "removed", "bound", "serving", "wedged", "draining"}]
  /\ stop \subseteq Brokers
  /\ live \in [Brokers -> Nat]
  /\ executed \in Seq(Clients \X Nat)
  /\ \A c \in Clients : /\ outcome[c] \in Seq(Outcomes)
                        /\ conn[c].replies \in Seq(ServerLine)

Init ==
  /\ kind \in {"local", "remote"}
  /\ socket = None
  /\ proc = [b \in Brokers |-> "down"]
  /\ stop = {}
  /\ live = [b \in Brokers |-> 0]
  /\ starts = 0
  /\ conn = [c \in Clients |-> NoConn]
  /\ executed = <<>>
  /\ outcome = [c \in Clients |-> <<>>]

-------------------------------------------------------------------------------
(* A broker process: BrokerServer::bind and cmd_broker_serve.              *)

\* bind's probe: a connection to a leftover path succeeds while somebody listens.
Probed == socket # None /\ Listening(socket)

\* Starting: a probe that succeeds makes bind refuse, and the process ends as if
\* it had never been started.
Start(b) ==
  /\ kind = "local" /\ proc[b] = "down" /\ starts < MaxStarts
  /\ starts' = starts + 1
  /\ proc' = [proc EXCEPT ![b] = IF Probed THEN "down" ELSE "probed"]
  /\ UNCHANGED <<kind, socket, stop, live, conn, executed, outcome>>

\* remove_file, whatever the path names by now.
RemoveStale(b) ==
  /\ proc[b] = "probed"
  /\ socket' = None
  /\ proc' = [proc EXCEPT ![b] = "removed"]
  /\ UNCHANGED <<kind, stop, live, starts, conn, executed, outcome>>

\* UnixListener::bind fails when the path exists (EADDRINUSE).
Bind(b) ==
  /\ proc[b] = "removed"
  /\ proc' = [proc EXCEPT ![b] = IF socket = None THEN "bound" ELSE "down"]
  /\ socket' = IF socket = None THEN b ELSE socket
  /\ UNCHANGED <<kind, stop, live, starts, conn, executed, outcome>>

\* Whether certificate, key and client CA make a rustls configuration.
build_tls_server_config == BOOLEAN

\* bind_remote: the kernel refuses a second listener on the address.
BindRemote(b, material) ==
  /\ kind = "remote" /\ proc[b] = "down" /\ starts < MaxStarts
  /\ starts' = starts + 1
  /\ IF material /\ socket = None
     THEN proc' = [proc EXCEPT ![b] = "bound"] /\ socket' = b
     ELSE UNCHANGED <<proc, socket>>
  /\ UNCHANGED <<kind, stop, live, conn, executed, outcome>>

\* The signal handler fires the shutdown trigger, also before serve subscribes.
Shutdown(b) ==
  /\ proc[b] \in {"bound", "serving", "wedged"}
  /\ b \notin stop
  /\ stop' = stop \cup {b}
  /\ UNCHANGED <<kind, socket, proc, live, starts, conn, executed, outcome>>

\* A connection the server will never read from again.  Lines already written
\* can still be read by the client.
Shut(r) == [r EXCEPT !.to = None, !.stage = "closed", !.sent = <<>>, !.running = 0]
Closed(cs) == [c \in Clients |-> IF c \in cs THEN Shut(conn[c]) ELSE conn[c]]

\* The process is gone.  cleanup_on_exit unlinks the path of a local endpoint,
\* whatever it names; a TCP address is free once its listener is.
Exit(b) ==
  /\ proc' = [proc EXCEPT ![b] = "down"]
  /\ stop' = stop \ {b}
  /\ live' = [live EXCEPT ![b] = 0]
  /\ socket' = IF kind = "local" \/ socket = b THEN None ELSE socket

\* serve: a trigger fired before it subscribed stops it at once.
Serve(b) ==
  /\ proc[b] = "bound"
  /\ IF b \in stop
     THEN Exit(b) /\ conn' = Closed(Of(b, {"backlog"}))
     ELSE /\ proc' = [proc EXCEPT ![b] = "serving"]
          /\ UNCHANGED <<socket, stop, live, conn>>
  /\ UNCHANGED <<kind, starts, executed, outcome>>

\* The accept loop leaves its select: the listener is dropped, and with it the
\* connections nobody accepted.  The socket file stays until the drain is over.
StopAccepting(b) ==
  /\ proc[b] = "serving" /\ b \in stop
  /\ proc' = [proc EXCEPT ![b] = "draining"]
  /\ conn' = Closed(Of(b, {"backlog"}))
  /\ socket' = IF kind = "remote" THEN None ELSE socket
  /\ UNCHANGED <<kind, stop, live, starts, executed, outcome>>

\* drain_connections: every task has ended.
Drained(b) ==
  /\ proc[b] = "draining"
  /\ Of(b, Tasks) = {}
  /\ Exit(b)
  /\ UNCHANGED <<kind, starts, conn, executed, outcome>>

\* Mutant of DrainExpires: requests in the pipeline are waited for without bound.
DrainExpiresIdle(b) ==
  /\ proc[b] = "draining"
  /\ Of(b, Tasks) # {} /\ Of(b, {"executing"}) = {}
  /\ Exit(b)
  /\ conn' = Closed(Of(b, Tasks))
  /\ UNCHANGED <<kind, starts, executed, outcome>>

\* DRAIN_TIMEOUT: the task set is dropped, which aborts the tasks.  A request
\* on the blocking pool cannot be aborted and still executes.
DrainExpires(b) ==
  /\ proc[b] = "draining"
  /\ Of(b, Tasks) # {}
  /\ Exit(b)
  /\ \E finished \in SUBSET Of(b, {"executing"}) :
       executed' = executed \o SetToSeq({<<c, conn[c].running>> : c \in finished})
  /\ conn' = Closed(Of(b, Tasks))
  /\ UNCHANGED <<kind, starts, outcome>>

\* accept fails for good: serve returns, its tasks are aborted and the path stays
\* behind, but cmd_broker_serve looks at the result only after a signal.
AcceptFails(b) ==
  /\ proc[b] = "serving"
  /\ proc' = [proc EXCEPT ![b] = "wedged"]
  /\ live' = [live EXCEPT ![b] = 0]
  /\ conn' = Closed(Of(b, Tasks \cup {"backlog"}))
  /\ socket' = IF kind = "remote" THEN None ELSE socket
  /\ UNCHANGED <<kind, stop, starts, executed, outcome>>

\* The signal has come: the failure is reported and the process ends.
ReportFailure(b) ==
  /\ proc[b] = "wedged" /\ b \in stop
  /\ proc' = [proc EXCEPT ![b] = "down"]
  /\ stop' = stop \ {b}
  /\ UNCHANGED <<kind, socket, live, starts, conn, executed, outcome>>

\* The process is killed: the path stays behind.
Kill(b) ==
  /\ proc[b] # "down"
  /\ proc' = [proc EXCEPT ![b] = "down"]
  /\ stop' = stop \ {b}
  /\ live' = [live EXCEPT ![b] = 0]
  /\ conn' = Closed(Of(b, Tasks \cup {"backlog"}))
  /\ socket' = IF kind = "remote" /\ socket = b THEN None ELSE socket
  /\ UNCHANGED <<kind, starts, executed, outcome>>

-------------------------------------------------------------------------------
(* The server's side of one connection.                                    *)

Enter(c, stage) == conn' = [conn EXCEPT ![c].stage = stage]

\* Dropping the task releases its slot (ConnectionSlot::drop).
Release(c) == live' = [live EXCEPT ![Peer(c)] = @ - 1]
ServerState == <<kind, socket, proc, stop, starts, outcome>>

\* The accept loop takes a connection off the backlog.  At the limit a local
\* peer is refused by a task of its own and a remote one is dropped; a shutdown
\* that is already signalled drops it too.
Accept(c) ==
  /\ conn[c].stage = "backlog" /\ proc[Peer(c)] = "serving"
  /\ LET b == Peer(c) IN
     IF live[b] >= MaxConnections
     THEN /\ IF kind = "local" THEN Enter(c, "refusing") ELSE conn' = Closed({c})
          /\ UNCHANGED live
     ELSE IF b \in stop
     THEN conn' = Closed({c}) /\ UNCHANGED live
     ELSE /\ Enter(c, IF kind = "local" THEN "serving" ELSE "handshake")
          /\ live' = [live EXCEPT ![b] = @ + 1]
  /\ UNCHANGED <<ServerState, executed>>

\* refuse_connection drains at most one line, answers and closes.
Refuse(c) ==
  /\ conn[c].stage = "refusing"
  /\ conn' = [Closed({c}) EXCEPT ![c].replies =
                 IF conn[c].open THEN Append(@, ProtocolViolation("connection_limit")) ELSE @]
  /\ UNCHANGED <<ServerState, live, executed>>

\* The TLS handshake ends: the client certificate is verified, or it is refused
\* or stalls until HANDSHAKE_TIMEOUT.
HandshakeDone(c) ==
  /\ conn[c].stage = "handshake" /\ conn[c].open
  /\ Enter(c, "serving")
  /\ UNCHANGED <<ServerState, live, executed>>

\* Mutant of HandshakeFails: only a served connection gives its slot back.
HandshakeFailsLeaking(c) ==
  /\ conn[c].stage = "handshake"
  /\ conn' = Closed({c})
  /\ UNCHANGED <<ServerState, live, executed>>

HandshakeFails(c) ==
  /\ conn[c].stage = "handshake"
  /\ conn' = Closed({c})
  /\ Release(c)
  /\ UNCHANGED <<ServerState, executed>>

\* write_line fails once the client is gone, and the task ends.
Reply(c, line, after) ==
  IF conn[c].open /\ after = "serving"
  THEN /\ conn' = [conn EXCEPT ![c].stage = "serving", ![c].running = 0, ![c].replies = Append(@, line)]
       /\ UNCHANGED live
  ELSE /\ conn' = [Closed({c}) EXCEPT ![c].replies = IF conn[c].open THEN Append(@, line) ELSE @]
       /\ Release(c)

\* One persistent reader per connection: lines after this one stay buffered.
read_line_capped(c) == Head(conn[c].sent)

\* handle_line_bytes: a request goes to the blocking pool, everything else is
\* answered at once; lost framing ends the connection.
ReadLine(c) ==
  /\ conn[c].stage = "serving" /\ conn[c].sent # <<>>
  /\ LET taken == [conn EXCEPT ![c].sent = Tail(@)] IN
     CASE read_line_capped(c).line = "request" ->
            /\ conn' = [taken EXCEPT ![c].stage = "executing",
                                     ![c].running = read_line_capped(c).call]
            /\ UNCHANGED live
       [] read_line_capped(c).line = "ping" ->
            IF conn[c].open
            THEN conn' = [taken EXCEPT ![c].replies = Append(@, Pong)] /\ UNCHANGED live
            ELSE conn' = Closed({c}) /\ Release(c)
       [] OTHER -> Reply(c, ProtocolViolation(IF read_line_capped(c).line = "oversize" THEN "too_long"
                                              ELSE "unrecognized"), "closed")
  /\ UNCHANGED <<ServerState, executed>>

\* spawn_blocking: the pipeline runs to its end whoever still listens.
Execute(c) ==
  /\ conn[c].stage = "executing"
  /\ executed' = Append(executed, <<c, conn[c].running>>)
  /\ Enter(c, "answering")
  /\ UNCHANGED <<ServerState, live>>

Answer(c) ==
  /\ conn[c].stage = "answering"
  /\ Reply(c, Response(conn[c].running), "serving")
  /\ UNCHANGED <<ServerState, executed>>

\* The pipeline panics before it has had an effect; the connection lives on.
Panic(c) ==
  /\ conn[c].stage = "executing"
  /\ Reply(c, ProtocolViolation("internal"), "serving")
  /\ UNCHANGED <<ServerState, executed>>

\* Between two lines: end of file, IDLE_TIMEOUT or the shutdown signal.
Hangup(c) ==
  /\ conn[c].stage = "serving"
  /\ conn[c].sent = <<>> \/ Peer(c) \in stop
  /\ conn' = Closed({c})
  /\ Release(c)
  /\ UNCHANGED <<ServerState, executed>>

-------------------------------------------------------------------------------
(* BrokerClient.                                                           *)

Told(c, what) == outcome' = [outcome EXCEPT ![c][Len(outcome[c])] = what]
Pending(c) == outcome[c] # <<>> /\ Last(outcome[c]) = "pending"
Untouched == <<kind, socket, proc, stop, live, starts, executed>>

Fresh(c) == conn[c].stage = "none" /\ outcome[c] = <<>>

\* build_dial refuses half a TLS identity.
BadIdentity(c) ==
  /\ kind = "remote" /\ Fresh(c)
  /\ outcome' = [outcome EXCEPT ![c] = <<"Usage">>]
  /\ UNCHANGED <<Untouched, conn>>

\* A command line that does not parse into a request (method, credential,
\* header, body) ends before anything is dialled.
BadArguments(c) ==
  /\ Fresh(c)
  /\ outcome' = [outcome EXCEPT ![c] = <<"Usage">>]
  /\ UNCHANGED <<Untouched, conn>>

\* connect_remote gives up on an unusable endpoint string, CA bundle or identity.
BadRemote(c) ==
  /\ kind = "remote" /\ Fresh(c)
  /\ outcome' = [outcome EXCEPT ![c] = <<"ConnectionFailed">>]
  /\ UNCHANGED <<Untouched, conn>>

\* Dialling: somebody must listen behind the endpoint.
Connect(c) ==
  /\ Fresh(c)
  /\ IF socket # None /\ Listening(socket)
     THEN /\ conn' = [conn EXCEPT ![c] = [NoConn EXCEPT !.to = socket, !.stage = "backlog",
                                                        !.open = TRUE]]
          /\ UNCHANGED outcome
     ELSE outcome' = [outcome EXCEPT ![c] = <<"ConnectionFailed">>] /\ UNCHANGED conn
  /\ UNCHANGED Untouched

\* raw_exchange writes its line.  Over TLS the server must have answered the
\* handshake; a stream the server has closed fails.
Send(c, line) ==
  /\ conn[c].open /\ ~Pending(c) /\ Len(outcome[c]) < MaxCalls[c]
  /\ kind = "remote" => conn[c].stage # "backlog"
  /\ IF conn[c].stage = "closed"
     THEN /\ outcome' = [outcome EXCEPT ![c] = Append(@, "Io")]
          /\ conn' = [conn EXCEPT ![c].open = FALSE, ![c].replies = <<>>]
     ELSE /\ outcome' = [outcome EXCEPT ![c] = Append(@, "pending")]
          /\ conn' = [conn EXCEPT ![c].sent = Append(@, Line(line, Len(outcome[c]) + 1))]
  /\ UNCHANGED Untouched

\* The next line of the stream answers the exchange in progress.  A violation
\* is an error, and callers drop the client after one.
Receive(c) ==
  /\ conn[c].open /\ Pending(c) /\ conn[c].replies # <<>>
  /\ LET reply == Head(conn[c].replies) IN
     /\ Told(c, IF reply.line = "response" /\ reply.call # Len(outcome[c])
                THEN "another" ELSE reply.line)
     /\ conn' = [conn EXCEPT ![c].replies = Tail(@), ![c].open = reply.line \notin Violations]
  /\ UNCHANGED Untouched

\* End of file before a line.
ReceiveEof(c) ==
  /\ conn[c].open /\ Pending(c) /\ conn[c].replies = <<>> /\ conn[c].stage = "closed"
  /\ Told(c, "Io")
  /\ conn' = [conn EXCEPT ![c].open = FALSE, ![c].replies = <<>>]
  /\ UNCHANGED Untouched

\* Mutant of Timeout: the caller keeps the client for its next exchange.
TimeoutKeeping(c) ==
  /\ conn[c].open /\ Pending(c)
  /\ Told(c, "Timeout")
  /\ UNCHANGED <<Untouched, conn>>

\* DEFAULT_TIMEOUT or the probe's own: the error drops the client.
Timeout(c) ==
  /\ conn[c].open /\ Pending(c)
  /\ Told(c, "Timeout")
  /\ conn' = [conn EXCEPT ![c].open = FALSE, ![c].replies = <<>>]
  /\ UNCHANGED Untouched

\* The command or the tool call is over, or its process dies.
Drop(c) ==
  /\ conn[c].open
  /\ conn' = [conn EXCEPT ![c].open = FALSE, ![c].replies = <<>>]
  /\ UNCHANGED <<Untouched, outcome>>

-------------------------------------------------------------------------------
BrokerStep(b) ==
  \/ RemoveStale(b) \/ Bind(b) \/ Serve(b) \/ StopAccepting(b) \/ Drained(b)
  \/ DrainExpires(b) \/ ReportFailure(b)

ConnectionStep(c) ==
  \/ Accept(c) \/ Refuse(c) \/ HandshakeDone(c) \/ HandshakeFails(c) \/ ReadLine(c)
  \/ Execute(c) \/ Answer(c) \/ Panic(c) \/ Hangup(c)

ClientStep(c) ==
  \/ BadIdentity(c) \/ BadArguments(c) \/ BadRemote(c) \/ Connect(c)
  \/ \E line \in Speaks[c] : Send(c, line)
  \/ Receive(c) \/ ReceiveEof(c) \/ Timeout(c) \/ Drop(c)

Next ==
  \/ \E b \in Brokers : \/ Start(b) \/ Shutdown(b) \/ AcceptFails(b) \/ Kill(b)
                        \/ \E material \in build_tls_server_config : BindRemote(b, material)
                        \/ BrokerStep(b)
  \/ \E c \in Clients : ConnectionStep(c) \/ ClientStep(c)

Spec == Init /\ [][Next]_vars

\* The runtime polls the accept loop and its timers; a process that was started
\* runs on.  Nothing is assumed of connections, peers or the engine.
FairSpec == Spec /\ \A b \in Brokers : WF_vars(BrokerStep(b))

-------------------------------------------------------------------------------
(* Properties.                                                             *)

\* LiveConnections counts exactly the tasks that hold a slot, and never more
\* than the limit: no way a connection can end leaks or frees a slot twice.
SlotsAccounted ==
  /\ TypeOK
  /\ \A b \in Brokers : /\ live[b] = Cardinality(Of(b, Slots))
                        /\ live[b] <= MaxConnections

\* What a client is told is the outcome of its own exchange: a response belongs
\* to the request it has just written and that request was executed, once; a
\* peer refused at the limit, or one that never connected, had none executed.
ToldTheTruth ==
  \A c \in Clients :
    /\ "another" \notin Range(outcome[c])
    /\ \A n \in 1..Len(outcome[c]) :
         /\ outcome[c][n] = "response" => <<c, n>> \in Range(executed)
         /\ outcome[c][n] \in {"Usage", "connection_limit", "ConnectionFailed", 
                              "unrecognized", "too_long", "pong"} => <<c, n>> \notin Range(executed)
    /\ \A i, j \in 1..Len(executed) : executed[i] = executed[j] => i = j

\* A broker told to shut down is gone in the end, whatever its peers and the
\* engine do: the drain is bounded.
ShutdownEnds == \A b \in Brokers : (b \in stop) ~> (b \notin stop)

\* bind's promise: a live broker is never displaced, so while a broker accepts
\* connections the endpoint leads to it.
LiveBrokerNotDisplaced == \A b \in Brokers : Listening(b) => socket = b
===============================================================================
