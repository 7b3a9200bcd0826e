---------------------------- MODULE OutboundTransport ----------------------------
(***************************************************************************)
(* What the broker does with one authorized request on its way out:        *)
(* canonicalisation and egress policy (crates/vaultx-http), the injection  *)
(* of the credential (crates/vaultx-broker/src/inject.rs) and the exchange *)
(* with its pinned connections and redirects (http_transport.rs).          *)
(*                                                                         *)
(* The resolver answers every question anew, the peers answer anything,    *)
(* and a connection can fail before or after the peer has acted on what it *)
(* was sent.                                                               *)
(*                                                                         *)
(* A URL as written is a record: its scheme, host, port (None when it is   *)
(* left out), path, query, and what else its authority may hold.  Names of *)
(* headers and query keys come with the way they are spelled.              *)
(***************************************************************************)
EXTENDS Options, Integers, FiniteSets, Sequences, SequencesExt

CONSTANTS
  Outbound,      \* what the engine may be asked to send
  Literals,      \* host -> address, for the hosts that are IP literals
  BadHosts,      \* hosts outside the hostname grammar
  Resolutions,   \* sequences of addresses the resolver may answer
  Locations,     \* values of Location headers, None for a missing one
  MaxHops,       \* of RedirectPolicy
  AllowPrivate,  \* of EgressGuard
  MaxRequestBody

VARIABLES
  phase,       \* new, resolve, dial, answered, done
  req,      \* the agent's request and the credential bound to it
  target,   \* the canonical URL of this hop
  headers,  \* the outbound headers
  method,
  body,     \* size of the outbound body, 0 for none
  hop,
  left,     \* validated addresses not yet tried in this hop
  response, \* the status and Location of the peer
  outcome,
  wire,     \* history: what reached a peer
  dials     \* history: how many connections were attempted

outVars == <<phase, req, target, headers, method, body, hop, left, response, outcome, wire, dials>>

-------------------------------------------------------------------------------
(* netpolicy.rs: an address is its form and four octets; the IPv6 forms    *)
(* that embed no IPv4 address are named by the prefix that decides.        *)

Address ==
  [form : {"v4", "mapped", "nat64", "::1", "::", "fd00:ec2::254", "fe80::/10", "fc00::/7", "ff00::/8", "2000::/3"},
   octets : [1..4 -> 0..255]]

classify_v4(o) ==
  IF o \in {<<169, 254, 169, 254>>, <<169, 254, 170, 2>>} THEN "MetadataService"
  ELSE IF o[1] = 127 THEN "Loopback"
  ELSE IF o[1] = 169 /\ o[2] = 254 THEN "LinkLocal"
  ELSE IF o[1] = 0 THEN "Unspecified"
  ELSE IF \/ o[1] = 10
          \/ o[1] = 172 /\ o[2] \in 16..31
          \/ o[1] = 192 /\ o[2] = 168
          \/ o[1] = 100 /\ o[2] \div 64 = 1 THEN "Private"
  ELSE IF o[1] = 192 /\ o[2] = 0 /\ o[3] = 0 THEN "Private"
  ELSE IF o[1] = 198 /\ o[2] \in {18, 19} THEN "Private"
  ELSE IF o[1] \div 16 = 14 THEN "Multicast"
  ELSE "Global"

classify_ip(ip) ==
  CASE ip.form \in {"v4", "mapped", "nat64"} -> classify_v4(ip.octets)
    [] ip.form = "::1" -> "Loopback"
    [] ip.form = "::" -> "Unspecified"
    [] ip.form = "fd00:ec2::254" -> "MetadataService"
    [] ip.form = "fe80::/10" -> "LinkLocal"
    [] ip.form = "fc00::/7" -> "Private"
    [] ip.form = "ff00::/8" -> "Multicast"
    [] OTHER -> "Global"

is_egress_allowed(class) ==
  CASE class = "Global" -> TRUE [] class = "MetadataService" -> FALSE [] OTHER -> AllowPrivate

\* Host names pass provisionally.
check_host(host) == host \in DOMAIN Literals => is_egress_allowed(classify_ip(Literals[host]))

recheck_resolved(ips) == \A i \in 1..Len(ips) : is_egress_allowed(classify_ip(ips[i]))

-------------------------------------------------------------------------------
(* canonical.rs                                                            *)

validate_host(host) == host \notin BadHosts

\* The first thing that is wrong with a URL, in the order of the checks; a
\* port is 16 bits wide, and not 0.
Flaw(raw) ==
  LET port == IF raw.port = None THEN 443 ELSE raw.port IN
  IF ~raw.ascii THEN "InvalidUrl"
  ELSE IF raw.userinfo THEN "UserInfoDisallowed"
  ELSE IF port >= 2^16 THEN "InvalidPort"
  ELSE IF raw.scheme # "https" THEN "UnsupportedScheme"
  ELSE IF port = 0 THEN "InvalidPort"
  ELSE IF ~validate_host(raw.host) THEN "InvalidUrl"
  ELSE "none"

\* The default port is written out, a fragment is dropped.
parse(raw) == [host |-> raw.host, port |-> IF raw.port = None THEN 443 ELSE raw.port,
               path |-> raw.path, query |-> raw.query]

Origin(url) == <<url.host, url.port>>

-------------------------------------------------------------------------------
(* headers.rs and inject.rs                                                *)

SENSITIVE_REQUEST_HEADERS ==
  {"authorization", "proxy-authorization", "host", "connection", "transfer-encoding",
   "keep-alive", "upgrade", "te", "trailer", "expect"}

\* Caller-supplied pairs: the sensitive and the malformed ones are dropped,
\* the others are spelled in lower case.
filter_request_headers(hs) ==
  LET ok == Filtered(hs, {h \in ToSet(hs) : h.name \notin SENSITIVE_REQUEST_HEADERS /\ h.clean})
  IN [i \in 1..Len(ok) |-> [ok[i] EXCEPT !.spelled = "lower"]]

Secret == "secret"

replace_header(hs, name) ==
  Append(Filtered(hs, {h \in ToSet(hs) : h.name # name}),
         [name |-> name, spelled |-> "lower", value |-> Secret, clean |-> TRUE])

\* Keys are compared decoded, so an escaped spelling is dropped as well.
append_query_parameter(query, name) ==
  Append(Filtered(query, {q \in ToSet(query) : q.name # name}),
         [name |-> name, spelled |-> "plain", value |-> Secret])

\* The header or parameter a template puts the secret in, None when the
\* metadata it needs is missing.
Place(c) ==
  CASE c.template \in {"bearer", "github_bearer"} -> "authorization"
    [] c.template = "basic_password" -> IF c.username = None THEN None ELSE "authorization"
    [] c.template = "api_key_header" -> c.header_name
    [] c.template = "custom_static_header_plus_secret" ->
         IF c.static_prefix = None THEN None ELSE c.header_name
    [] c.template = "query_parameter" -> c.query_param_name

\* What apply_for refuses: an unsupported template, missing or malformed
\* metadata, and a secret that is no header value.
InjectionFlaw(c) ==
  IF c.template = "aws_sigv4" THEN "template_unsupported"
  ELSE IF Place(c) = None \/ ~c.names_valid THEN "injection_failed"
  ELSE IF c.template # "query_parameter" /\ ~c.header_safe THEN "injection_failed"
  ELSE "none"

-------------------------------------------------------------------------------
Templates ==
  {"bearer", "github_bearer", "basic_password", "api_key_header", "custom_static_header_plus_secret",
   "query_parameter", "aws_sigv4"}

\* The shape of the inputs; no answer of the resolver is longer than all others
\* may be, and some answer has an address.
ASSUME OutboundIsTyped ==
  /\ MaxHops \in Nat /\ AllowPrivate \in BOOLEAN
  /\ \A r \in Outbound : /\ r.credential.template \in Templates
                         /\ r.headers \in Seq(ToSet(r.headers)) /\ r.url.query \in Seq(ToSet(r.url.query))
  /\ \A ips \in Resolutions : ips \in Seq(Address)
  /\ \A h \in DOMAIN Literals : Literals[h] \in Address
  /\ \E n \in {Len(ips) : ips \in Resolutions} : n >= 1 /\ \A ips \in Resolutions : Len(ips) <= n

outInit ==
  /\ req \in Outbound
  /\ phase = "new" /\ target = None /\ headers = << >> /\ method = req.method /\ body = 0
  /\ hop = 0 /\ left = << >> /\ response = None /\ outcome = "none"
  /\ wire = {} /\ dials = 0

Finish(result) == /\ phase' = "done" /\ outcome' = result
                  /\ left' = << >> /\ response' = None

\* The engine's stages between the session checks and the transport: the
\* destination, the filtered headers, the credential.
Prepare ==
  /\ phase = "new"
  /\ LET url == parse(req.url)
         c == req.credential
     IN IF Flaw(req.url) # "none"
        THEN Finish("invalid_destination") /\ UNCHANGED <<target, headers, body>>
        ELSE IF ~check_host(url.host)
        THEN Finish("private_destination") /\ UNCHANGED <<target, headers, body>>
        ELSE IF InjectionFlaw(c) # "none"
        THEN Finish(InjectionFlaw(c)) /\ UNCHANGED <<target, headers, body>>
        ELSE /\ target' = IF c.template = "query_parameter"
                          THEN [url EXCEPT !.query = append_query_parameter(@, Place(c))] ELSE url
             /\ headers' = IF c.template = "query_parameter" THEN filter_request_headers(req.headers)
                           ELSE replace_header(filter_request_headers(req.headers), Place(c))
             /\ body' = req.body
             /\ phase' = "resolve" /\ UNCHANGED <<left, response, outcome>>
  /\ UNCHANGED <<req, method, hop, wire, dials>>

\* Every hop asks the resolver again; all the addresses must be allowed.
validate_resolution ==
  /\ phase = "resolve"
  /\ \E ips \in Resolutions \cup {<<Literals[h]>> : h \in DOMAIN Literals \cap {target.host}} :
       /\ target.host \in DOMAIN Literals => ips = <<Literals[target.host]>>
       /\ IF ips = << >> THEN Finish("transport_failure")
          ELSE IF ~recheck_resolved(ips) THEN Finish("destination_denied")
          ELSE phase' = "dial" /\ left' = ips /\ UNCHANGED <<response, outcome>>
  /\ UNCHANGED <<req, target, headers, method, body, hop, wire, dials>>

Sent == [addr |-> left[1], url |-> target, headers |-> headers, method |-> method,
         body |-> body, hop |-> hop]

\* The exchange with the first address left fails: the body is over the limit,
\* or no connection, or it breaks after the peer has read the request.  The
\* next address is tried with the same request.
DispatchFails ==
  /\ phase = "dial" /\ left # << >>
  /\ dials' = dials + 1
  /\ \/ UNCHANGED wire
     \/ body <= MaxRequestBody /\ wire' = wire \cup {Sent}
  /\ IF Len(left) > 1 THEN left' = Tail(left) /\ UNCHANGED <<phase, response, outcome>>
     ELSE Finish("transport_failure")
  /\ UNCHANGED <<req, target, headers, method, body, hop>>

Dispatch ==
  /\ phase = "dial" /\ left # << >> /\ body <= MaxRequestBody
  /\ dials' = dials + 1
  /\ wire' = wire \cup {Sent}
  /\ \E status \in {200, 302, 307} : \E location \in IF status = 200 THEN {None} ELSE Locations :
       response' = [status |-> status, location |-> location]
  /\ phase' = "answered" /\ left' = << >>
  /\ UNCHANGED <<req, target, headers, method, body, hop, outcome>>

is_redirect(status) == status \in {301, 302, 303, 307, 308}

\* A final answer, or a redirect that names no target: the body is read up to
\* the cap.
read_capped ==
  /\ phase = "answered" /\ ~(is_redirect(response.status) /\ response.location # None)
  /\ \E fits \in BOOLEAN : Finish(IF fits THEN "ok" ELSE "response_too_large")
  /\ UNCHANGED <<req, target, headers, method, body, hop, wire, dials>>

\* The location is resolved against the initial target.
Join(base, location) ==
  IF location.relative
  THEN [scheme |-> "https", host |-> base.host, port |-> base.port, path |-> location.path,
        query |-> location.query, ascii |-> TRUE, userinfo |-> FALSE]
  ELSE [scheme |-> location.scheme, host |-> location.host, port |-> location.port,
        path |-> location.path, query |-> location.query, ascii |-> location.ascii,
        userinfo |-> location.userinfo]

\* Mutant: the host decides alone.
authorize_redirect_host(original, next) == original.host = next.host

authorize_redirect(original, next) == Origin(original) = Origin(next)

HopsSpent == hop >= MaxHops

\* The decision on a redirect, anchored to the URL the agent asked for.
evaluate_redirect ==
  /\ phase = "answered" /\ is_redirect(response.status) /\ response.location # None
  /\ LET initial == parse(req.url)
         joined == Join(initial, response.location)
     IN IF HopsSpent \/ Flaw(joined) # "none"
        THEN Finish("destination_denied") /\ UNCHANGED <<target, method, body, hop>>
        ELSE IF ~authorize_redirect(initial, parse(joined))
        THEN Finish("destination_denied") /\ UNCHANGED <<target, method, body, hop>>
        ELSE /\ target' = parse(joined) /\ hop' = hop + 1
             /\ IF response.status \in {301, 302, 303} THEN method' = "GET" /\ body' = 0
                ELSE UNCHANGED <<method, body>>
             /\ phase' = "resolve" /\ response' = None /\ UNCHANGED <<left, outcome>>
  /\ UNCHANGED <<req, headers, wire, dials>>

outNext == Prepare \/ validate_resolution \/ DispatchFails \/ Dispatch \/ read_capped \/ evaluate_redirect

OutboundSpec == outInit /\ [][outNext]_outVars

-------------------------------------------------------------------------------
(* Properties                                                              *)

\* The order of addresses, by the octets that tell the blocks apart.
AtMost(p, q) ==
  \/ p[1] < q[1]
  \/ p[1] = q[1] /\ p[2] < q[2]
  \/ p[1] = q[1] /\ p[2] = q[2] /\ p[3] <= q[3]
Between(o, first, last) == AtMost(first, o) /\ AtMost(o, last)

\* Private, loopback, link-local, multicast and this-network blocks.
Internal(o) ==
  \/ Between(o, <<0, 0, 0>>, <<0, 255, 255>>)
  \/ Between(o, <<10, 0, 0>>, <<10, 255, 255>>)
  \/ Between(o, <<100, 64, 0>>, <<100, 127, 255>>)
  \/ Between(o, <<127, 0, 0>>, <<127, 255, 255>>)
  \/ Between(o, <<169, 254, 0>>, <<169, 254, 255>>)
  \/ Between(o, <<172, 16, 0>>, <<172, 31, 255>>)
  \/ Between(o, <<192, 0, 0>>, <<192, 0, 0>>)
  \/ Between(o, <<192, 168, 0>>, <<192, 168, 255>>)
  \/ Between(o, <<198, 18, 0>>, <<198, 19, 255>>)
  \/ Between(o, <<224, 0, 0>>, <<239, 255, 255>>)

\* Nothing is sent to an internal address unless that is configured, and
\* nothing ever to a metadata endpoint, in whatever form the address comes,
\* although the name is resolved anew for every hop of the exchange.
DialsPermitted ==
  \A w \in wire :
    IF w.addr.form \in {"v4", "mapped", "nat64"}
    THEN /\ w.addr.octets \notin {<<169, 254, 169, 254>>, <<169, 254, 170, 2>>}
         /\ Internal(w.addr.octets) => AllowPrivate
    ELSE w.addr.form # "fd00:ec2::254" /\ (w.addr.form # "2000::/3" => AllowPrivate)

\* Whatever carries the credential goes to the origin the agent was allowed,
\* after any number of redirects.
CredentialStaysAtOrigin ==
  \A w \in wire : Origin(w.url) = Origin(parse(req.url))

\* The credential is there once and is the only value under its name: what the
\* caller sent under that name, however spelled, is not on the wire.
OneCredential ==
  LET c == req.credential
      under(pairs, name) == {i \in 1..Len(pairs) : pairs[i].name = name}
  IN \A w \in wire :
       LET pairs == IF c.template = "query_parameter" THEN w.url.query ELSE w.headers
           mine == under(pairs, Place(c))
       IN (c.template = "query_parameter" => w.hop = 0) =>
            Cardinality(mine) = 1 /\ \A i \in mine : pairs[i].value = Secret

\* An exchange ends within its budget of redirects and addresses, and a body
\* that a redirect dropped does not come back.
LongestAnswer == CHOOSE n \in {Len(s) : s \in Resolutions} : \A s \in Resolutions : Len(s) <= n
ExchangeBounded ==
  /\ dials <= (MaxHops + 1) * LongestAnswer
  /\ method = "GET" /\ req.method # "GET" => body = 0

\* The wire as a whole, over redirects and new resolutions of the name:
\* permitted addresses, the allowed origin, one credential, a bounded exchange.
OutboundPermitted ==
  DialsPermitted /\ CredentialStaysAtOrigin /\ OneCredential /\ ExchangeBounded
===============================================================================
