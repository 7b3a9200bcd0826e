------------------------------- MODULE McpServer -------------------------------
(***************************************************************************)
(* The MCP server's loop over standard input and its tools                 *)
(* (crates/vaultx-mcp: server.rs, jsonrpc.rs, tools.rs).  Its start, where *)
(* the session is minted, is in AgentRuns.                                 *)
(*                                                                         *)
(* A line is its length, without the newline that ends it, and what it     *)
(* parses to; a request is its id and its method, and a tool call the tool *)
(* with the arguments that are missing or not acceptable.  Input reaches   *)
(* the server in chunks of any size.  The last line may end with the input *)
(* instead of a newline.                                                   *)
(***************************************************************************)
EXTENDS Options, Integers, Sequences, SequencesExt, FiniteSets

CONSTANTS
  InputLines,       \* what a client may write: [length, parsed, ended]
  MaxLineBytes,     \* MAX_LINE_BYTES
  PackPolicies,     \* capability -> the policy name derived from it
  MaxInput          \* bound on the lines of an input

ASSUME LinesAreTyped ==
  /\ MaxLineBytes \in Nat /\ MaxInput \in Nat
  /\ \A l \in InputLines : /\ l.length \in Nat /\ l.ended \in BOOLEAN
                           /\ l.parsed.kind \in {"blank", "malformed", "request"}

ParseError == -32700
MethodNotFound == -32601
InvalidParams == -32602
ToolFailure == -32000
UnknownCapability == -32001

VARIABLES
  stdin,        \* lines not read yet; the first may be partly read
  unread,       \* bytes of it not read yet, its newline included
  line,         \* bytes kept of it
  oversize,     \* it was found too long
  served,       \* lines read to their end
  stdout,       \* response lines: [id, code], code = 0 for a result
  installed,    \* names of the policies in the project
  dialled       \* for each request sent to the broker: [hint, known]

mcpVars == <<stdin, unread, line, oversize, served, stdout, installed, dialled>>

\* Bytes of the first line of an input: only the last line may lack its newline.
Bytes(input) == IF input = << >> THEN 0 ELSE Head(input).length + (IF Head(input).ended THEN 1 ELSE 0)

mcpInit ==
  /\ stdin = << >> /\ unread = 0 /\ line = 0 /\ oversize = FALSE
  /\ served = << >> /\ stdout = << >>
  /\ installed = {} /\ dialled = << >>

\* The client writes its lines.
ClientWrites(input) ==
  /\ stdin = << >> /\ served = << >>
  /\ stdin' = input /\ unread' = Bytes(input)
  /\ UNCHANGED <<line, oversize, served, stdout, installed, dialled>>

\* A policy document is saved into or removed from the project.
PoliciesChange(names) ==
  /\ installed' = names /\ installed' # installed
  /\ UNCHANGED <<stdin, unread, line, oversize, served, stdout, dialled>>

-------------------------------------------------------------------------------
(* tools.rs *)

Result(code) == [code |-> code, dials |-> << >>]

\* send_via_broker: a denial is a result, a broker that fails is not.
send_via_broker(bad, hint) ==
  IF bad \cap {"credential", "method", "url", "headers", "body"} # {}
  THEN {Result(InvalidParams)}
  ELSE {[code |-> code, dials |-> <<[hint |-> hint, known |-> installed]>>] : code \in {0, ToolFailure}}

\* An unknown capability is refused before the parameters are looked at.
capability_request(call) ==
  IF "capability" \in call.bad THEN {Result(InvalidParams)}
  ELSE IF call.capability \notin DOMAIN PackPolicies THEN {Result(UnknownCapability)}
  ELSE IF PackPolicies[call.capability] \notin installed THEN {Result(UnknownCapability), Result(ToolFailure)}
  ELSE IF "params" \in call.bad THEN {Result(InvalidParams), Result(ToolFailure)}
  ELSE send_via_broker(call.bad, call.capability) \cup {Result(ToolFailure)}

\* Loading the policies, or looking up a value, may fail.
call_tool(call) ==
  IF "arguments" \in call.bad THEN {Result(InvalidParams)}
  ELSE CASE call.tool = "vaultx.list_capabilities" -> {Result(0), Result(ToolFailure)}
         [] call.tool = "vaultx.config_get" ->
              IF "name" \in call.bad THEN {Result(InvalidParams)} ELSE {Result(0), Result(ToolFailure)}
         [] call.tool = "vaultx.http_request" -> send_via_broker(call.bad, None)
         [] call.tool = "vaultx.capability_request" -> capability_request(call)
         [] OTHER -> {Result(InvalidParams)}

-------------------------------------------------------------------------------
(* jsonrpc.rs and server.rs *)

handle_request(request) ==
  CASE request.method \in {"initialize", "tools/list"} -> {Result(0)}
    [] request.method = "tools/call" ->
         IF request.call = None THEN {Result(InvalidParams)} ELSE call_tool(request.call)
    [] OTHER -> {Result(MethodNotFound)}

\* The response to what is not a request.
error_line == [lines |-> <<[id |-> None, code |-> ParseError]>>, dials |-> << >>]

\* The response lines owed to a line, with what was sent to the broker.
handle_line(parsed) ==
  CASE parsed.kind = "blank" -> {[lines |-> << >>, dials |-> << >>]}
    [] parsed.kind = "malformed" -> {error_line}
    [] parsed.kind = "request" /\ parsed.id = None -> {[lines |-> << >>, dials |-> << >>]}
    [] OTHER -> {[lines |-> <<[id |-> parsed.id, code |-> r.code]>>, dials |-> r.dials] :
                   r \in handle_request(parsed)}

\* Mutant of Terminated: an oversize line is given up at once.
Terminated_early(take, too_long) == take = unread \/ too_long

\* The newline was in the chunk, or the input ended; an oversize line is drained.
Terminated(take, too_long) == take = unread

\* One turn of read_line_bounded: a chunk of `take` bytes of the line arrives.
\* When it is the last, the loop of `serve` answers the line.
read_line_bounded(take) ==
  LET first == Head(stdin)
      content == IF take = unread /\ first.ended THEN take - 1 ELSE take
      too_long == oversize \/ line + content > MaxLineBytes
      rest == IF take = unread THEN Tail(stdin) ELSE stdin
  IN /\ stdin # << >>
     /\ stdin' = rest
     /\ unread' = IF take = unread THEN Bytes(rest) ELSE unread - take
     /\ IF Terminated(take, too_long)
        THEN /\ \E h \in IF too_long THEN {error_line} ELSE handle_line(first.parsed) :
                  stdout' = stdout \o h.lines /\ dialled' = dialled \o h.dials
             /\ served' = Append(served, first)
             /\ line' = 0 /\ oversize' = FALSE
        ELSE /\ line' = IF too_long THEN 0 ELSE line + content
             /\ oversize' = too_long
             /\ UNCHANGED <<served, stdout, dialled>>
     /\ UNCHANGED installed

mcpNext ==
  \/ \E input \in BoundedSeq(InputLines, MaxInput) \ {<< >>} :
       (\A i \in 1..(Len(input) - 1) : input[i].ended) /\ ClientWrites(input)
  \/ \E names \in SUBSET {PackPolicies[c] : c \in DOMAIN PackPolicies} : PoliciesChange(names)
  \/ \E take \in 1..unread : read_line_bounded(take)

McpSpec == mcpInit /\ [][mcpNext]_mcpVars

-------------------------------------------------------------------------------
\* The id a response to this line must carry: << >> when none is owed.
OwedId(l) ==
  IF l.length > MaxLineBytes \/ l.parsed.kind = "malformed" THEN <<None>>
  ELSE IF l.parsed.kind = "blank" \/ l.parsed.id = None THEN << >>
  ELSE <<l.parsed.id>>

(***************************************************************************)
(* jsonrpc.rs:4-6 "Requests arrive one per line; responses leave one per   *)
(* line.  Notifications produce no output, and neither do blank lines":    *)
(* however the input is cut into chunks, the responses are those owed to   *)
(* the lines read, in their order and with their ids; an oversize line is  *)
(* answered once, by a parse error, and the lines after it are unharmed    *)
(* (server.rs:127-130).  A capability request reaches the broker only when *)
(* the policy of its pack is installed (tools.rs:308 "refused before any   *)
(* network activity").                                                     *)
(***************************************************************************)
OneAnswerEach ==
  /\ [i \in DOMAIN stdout |-> stdout[i].id] = FlattenSeq([i \in DOMAIN served |-> OwedId(served[i])])
  /\ \A i \in DOMAIN stdout : stdout[i].id = None <=> stdout[i].code = ParseError
  /\ Len(dialled) <= Len(served)
  /\ \A i \in DOMAIN dialled :
       dialled[i].hint # None => PackPolicies[dialled[i].hint] \in dialled[i].known
===============================================================================
