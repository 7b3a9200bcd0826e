-------------------------------- MODULE MCInputs --------------------------------
(***************************************************************************)
(* What the components of MCComponents are given: the documents, requests, *)
(* files and lines each of them meets, chosen so that every condition of   *)
(* the code is met on both sides.                                          *)
(***************************************************************************)
EXTENDS Options, PathGlob, SessionStore, OutboundTransport, PolicyEngine, ControlPlaneAdmin,
        ManifestDiff, PolicyPacks, AgentRuns, McpServer, Recovery,
        ProjectVariables, BrokerRedaction, TLC

-------------------------------------------------------------------------------
(***************************************************************************)
(* SessionStore for TLC: chains of up to three sessions, two credential    *)
(* names, two hosts, nested and overlapping path patterns, budgets of at   *)
(* most two, and requests that are rejected (nothing narrowed, invalid     *)
(* pattern) beside ones that narrow different dimensions.                  *)
(***************************************************************************)

SessionSetDims == {"credentials", "hosts"}
SessionNames == {"n1", "n2"}

AnyPath == Text(<<"**">>)
UnderA == Text(<<"a", "**">>)
OneBelowA == Text(<<"a", "*">>)
EscapingA == Text(<<"a", "..", "b">>)

SessionPatterns == {AnyPath, UnderA, OneBelowA, EscapingA}
SessionPaths == {Text(<<"a">>), Text(<<"a", "b">>), Text(<<"a", "b", "c">>), Text(<<"b">>)}

Asking(credentials, hosts, paths, remaining) ==
  [sets |-> [d \in SessionSetDims |-> IF d = "hosts" THEN hosts ELSE credentials],
   paths |-> paths, remaining |-> remaining]

SessionRequested ==
  {Asking(None, None, None, None),
   Asking({"n1"}, None, None, 2),
   Asking({"n1", "n2"}, None, {OneBelowA, AnyPath}, None),
   Asking(None, {"n2"}, {UnderA}, 1),
   Asking(None, None, {EscapingA}, None)}

-------------------------------------------------------------------------------
(***************************************************************************)
(* OutboundTransport for TLC: one host that resolves to a public address   *)
(* and, beside it, to one from each side of every boundary the network     *)
(* policy draws; redirects that stay, change port, scheme or host; one     *)
(* request for each way to place a credential.                             *)
(***************************************************************************)

v4(a, b, c, d) == [form |-> "v4", octets |-> <<a, b, c, d>>]
wrapped(f, a, b, c, d) == [form |-> f, octets |-> <<a, b, c, d>>]
v6(f) == [form |-> f, octets |-> <<0, 0, 0, 0>>]
public == v4(8, 8, 8, 8)
HostLiterals == ("literal" :> v4(10, 0, 0, 1)) @@ ("public-literal" :> v4(9, 9, 9, 9))
ResolvedTo == {<< >>, <<public>>, <<public, v4(11, 0, 0, 1)>>} \cup {<<public, a>> : a \in {
  v4(169,254,169,254), v4(127,0,0,1), wrapped("mapped", 10, 0, 0, 1), wrapped("nat64", 169, 254, 170, 2),
  v4(100,127,255,255), v4(100,128,0,0), v4(172,31,255,255), v4(172,32,0,0), v4(192,0,0,255), v4(192,0,1,0),
  v4(198,19,255,255), v4(198,20,0,0), v4(239,255,255,255), v4(240,0,0,0), v4(0,255,0,0), v4(169,254,0,1),
  v6("::1"), v6("::"), v6("fd00:ec2::254"), v6("fe80::/10"), v6("fc00::/7"), v6("ff00::/8"), v6("2000::/3")}}
raw(scheme, host, port) == [scheme |-> scheme, host |-> host, port |-> port, path |-> "/p", query |-> << >>,
   ascii |-> TRUE, userinfo |-> FALSE]
loc(u, relative) == [relative |-> relative] @@ u
RedirectTargets == {None, loc(raw("https", "api", None), TRUE), loc(raw("https", "api", None), FALSE),
  loc(raw("https", "api", 8443), FALSE), loc(raw("http", "api", None), FALSE), loc(raw("https", "elsewhere", None), FALSE)}
header(name, spelled) == [name |-> name, spelled |-> spelled, value |-> "caller's", clean |-> TRUE]
cred(t) == [template |-> t, username |-> None, header_name |-> None, static_prefix |-> None, query_param_name |-> None,
   names_valid |-> TRUE, header_safe |-> TRUE]
sending(u, c, hs) == [url |-> u, credential |-> c, headers |-> hs, method |-> "POST", body |-> 1]
api_url == raw("https", "api", None)
CallerHeaders == <<header("authorization", "upper"), header("x-key", "upper"), header("accept", "lower")>>
OutboundCalls == {
  sending(api_url, cred("bearer"), CallerHeaders),
  sending(api_url, [cred("api_key_header") EXCEPT !.header_name = "x-key"], CallerHeaders),
  sending([api_url EXCEPT !.query = <<[name |-> "key", spelled |-> "escaped", value |-> "caller's"]>>],
     [cred("query_parameter") EXCEPT !.query_param_name = "key"], << >>),
  sending(api_url, cred("basic_password"), << >>), sending(api_url, cred("aws_sigv4"), << >>),
  sending(raw("http", "api", None), cred("bearer"), << >>), sending(raw("https", "literal", None), cred("bearer"), << >>),
  sending(raw("https", "public-literal", None), [cred("custom_static_header_plus_secret") EXCEPT !.header_name = "x-key", !.static_prefix = "p"], CallerHeaders),
  [sending(api_url, cred("github_bearer"), << >>) EXCEPT !.body = 3],
  sending(api_url, [cred("bearer") EXCEPT !.header_safe = FALSE], << >>)}

-------------------------------------------------------------------------------
(***************************************************************************)
(* PolicyEngine for TLC: two policy files that hold documents with other   *)
(* environments, methods, patterns, denials and body limits, one of which  *)
(* fails validation, and requests on both sides of each condition.         *)
(***************************************************************************)

PolicyFiles == <<"p", "q">>
api == [name |-> "api", valid |-> TRUE]
port == [name |-> "api:8443", valid |-> FALSE]
rule(ms, ps) == [methods |-> ms, paths |-> {Text(p) : p \in ps}]
doc(name, envs, hosts, allow, deny, max) ==
  [name |-> name, principal |-> "agent:a", credential |-> "c", environments |-> envs, hosts |-> hosts,
   allow |-> allow, deny |-> deny, max_body |-> max, headers_valid |-> TRUE]
PolicyDocuments ==
  {doc("p", {}, {api}, <<rule({"GET"}, {<<"r", "**">>})>>, << >>, 5),
   doc("p", {"dev"}, {api}, <<rule({"GET", "POST"}, {<<"r">>, <<"r", "x">>})>>, <<rule({"POST"}, {<<"**">>})>>, None),
   doc("q", {}, {api}, <<rule({"GET"}, {<<"r", "*">>})>>, << >>, None),
   doc("q", {"prod"}, {api}, <<rule({"GET", "POST"}, {<<"**">>})>>, <<rule({"GET"}, {<<"r", "x", "**">>})>>, 9),
   doc("q", {}, {api, port}, <<rule({"GET"}, {<<"**">>})>>, << >>, None)}
Asks(p, paths, bodies) == {[principal |-> p, resource |-> "c", context |->
   [host |-> h, method |-> m, path |-> Text(s), body |-> b, environment |-> e]] :
     h \in {api, port}, m \in {"GET", "POST"}, s \in paths, b \in bodies, e \in {None, "dev", "prod"}}
AuthRequestSet ==
  Asks("agent:a", {<<"">>, <<"r">>, <<"r", "x">>, <<"r", "x", "y">>, <<"r", "..">>}, {0, 6, 10})
  \cup Asks("agent:b", {<<"r">>}, {0})

-------------------------------------------------------------------------------
(***************************************************************************)
(* ControlPlaneAdmin for TLC: two members, a user who is not one, and a    *)
(* request for each handler, among them refused and malformed ones.        *)
(***************************************************************************)

TheProject == "project"
ann == Token("ControlSession", "ann")
ci == Token("WorkloadExchange", "ci")
eve == Token("ControlSession", "eve")
asking(op, token, b) == [op |-> op, token |-> token, body |-> b]
login(class, subject, proof) ==
  asking("create_session", None, [class |-> class, subject |-> subject, proof |-> proof])
AdminCalls == {
  login("ControlSession", "ann", "right"), login("ControlSession", "eve", "right"),
  login("WorkloadExchange", "ci", "right"), login("WorkloadExchange", "ann", "malformed"),
  asking("create_workspace", ann, [project |-> TheProject]),
  asking("put_policy", ann, [project |-> TheProject, name |-> "team", document |-> "d"]),
  asking("put_policy", eve, [project |-> TheProject, name |-> "own", document |-> "d"]),
  asking("create_agent", ann, [project |-> TheProject, agent |-> "bot"]),
  asking("put_ref", ann, [project |-> TheProject, ref |-> "main", commit |-> 1, base |-> 0, authorized |-> FALSE]),
  asking("put_ref", ci, [project |-> TheProject, ref |-> "main", commit |-> 2, base |-> 0, authorized |-> FALSE]),
  asking("query_missing", ci, [project |-> TheProject, device |-> "ci", attested |-> TRUE, known |-> {}]),
  asking("query_missing", ci, [project |-> TheProject, device |-> "ci", attested |-> FALSE, known |-> {}]),
  asking("query_missing", ci, [project |-> TheProject, device |-> "ci", attested |-> TRUE, known |-> 1..3]),
  asking("list_workspaces", ann, [project |-> TheProject]),
  asking("project_audit", ann, [project |-> TheProject]),
  asking("list_agents", ann, [project |-> "other"]),
  asking("batch_objects", ann, [project |-> TheProject, entries |-> {1, 2}, tampered |-> {2}]),
  asking("batch_objects", ann, [project |-> TheProject, entries |-> {1}, tampered |-> {}]),
  asking("ingest_audit", ann, [project |-> TheProject, events |-> <<[valid |-> TRUE, actor |-> "zed", sequence |-> 1], [valid |-> FALSE, actor |-> "zed", sequence |-> 2]>>])
}

-------------------------------------------------------------------------------
(* The manifests compared: two variables of any kind, one policy of three *)
(* versions, one of which no longer resolves.                             *)

SubjectNames == <<"0auth", "DATABASE_URL", "STRIPE_KEY">>

Entries ==
  {[kind |-> k, bound |-> 1] : k \in {"config", "secret", "dynamic"}}
    \cup {[kind |-> "brokered", bound |-> <<1, r>>] : r \in {1, 2}}

ManifestSet ==
  [entries : [{"DATABASE_URL", "STRIPE_KEY"} -> {None} \cup Entries], policies : [{"0auth"} -> {None, 1, 2, 3}]]

Rule(paths) == [methods |-> {"GET"}, paths |-> paths]
PolicyObjects ==
  << [hosts |-> {"api"}, allow |-> {Rule({"/v1"})}, deny |-> {}],
     [hosts |-> {"api"}, allow |-> {Rule({"/v1", "/v2"})}, deny |-> {Rule({"/admin"})}],
     None >>

-------------------------------------------------------------------------------
(* A small pack, its variants that break one rule each, and three more     *)
(* that share its file name, its policy name, or both with another.        *)

Plain ==
  [format      |-> 1,
   name        |-> <<"pulls", "create">>,
   provider    |-> "github",
   request     |-> [hosts     |-> {<<"word", "word">>},
                    methods   |-> {"GET"},
                    templates |-> {Text(<<"v1", "{id}">>)},
                    query     |-> None,
                    variables |-> None],
   injection   |-> "bearer",
   constraints |-> [body |-> None, types |-> {}],
   response    |-> None]

HostVariants ==
  {<<"word">>, <<"word", "localhost">>, <<"word", "internal">>, <<"digits", "digits", "digits", "digits">>,
   <<"hex", "digits", "hex", "hex">>, <<"word", "empty">>, <<"hex", "hex", "hex", "hex", "hex">>,
   <<"digits", "word">>}

TemplateVariants ==
  {Text(<<"v1">>), Text(<<"{id}", "**">>), Text(<<"v1", "*">>), Text(<<"v1", "{id}">>),
   Text(<<"{id}", "{no}", "x">>), Text(<<"**", "x">>), Text(<<"v{1}">>), Text(<<"">>),
   [rooted |-> FALSE, segs |-> <<"v1">>]}

Responses ==
  {[body |-> b, headers |-> h, fields |-> f] :
     b \in {None, 0, 2, 3}, h \in {{}, {"set-cookie"}, {"Not-Lower"}}, f \in {{}, {"a.b"}}}

PackSet ==
  {Plain, [Plain EXCEPT !.format = 2], [Plain EXCEPT !.injection = "aws-sigv4"],
   [Plain EXCEPT !.request.hosts = {}], [Plain EXCEPT !.request.methods = {}],
   [Plain EXCEPT !.request.query = {"page", "not bare"}],
   [Plain EXCEPT !.request.variables = {}], [Plain EXCEPT !.request.variables = {"{id}"}],
   [Plain EXCEPT !.constraints.types = {"not a media type"}],
   [Plain EXCEPT !.provider = "gitlab"],
   [Plain EXCEPT !.name = <<"issues", "create">>],
   [Plain EXCEPT !.name = <<"pulls_create">>],
   [Plain EXCEPT !.name = <<"Pulls", "create">>]}
  \cup {[Plain EXCEPT !.request.hosts = {h}] : h \in HostVariants}
  \cup {[Plain EXCEPT !.request.templates = {t}] : t \in TemplateVariants}
  \cup {[Plain EXCEPT !.constraints.body = b] : b \in {0, 1, 3}}
  \cup {[Plain EXCEPT !.response = r] : r \in Responses}

PolicyNameOf ==
  [n \in {p.name : p \in PackSet} |->
     CASE n = <<"issues", "create">> -> "pack-issues_create"
       [] n = <<"Pulls", "create">>  -> "invalid"
       [] OTHER                      -> "pack-pulls_create"]

-------------------------------------------------------------------------------
(* The commits an environment may be pinned to. *)

PinnedCommits ==
  {[n \in {"DB_HOST", "STRIPE_KEY"} |-> IF n = "DB_HOST" THEN "config" ELSE "secret"],
   [n \in {"VAULTX_AGENT"} |-> "config"]}

-------------------------------------------------------------------------------
(* Lines of one to four bytes, the longest allowed having three.           *)

Request(id, m, call) == [kind |-> "request", id |-> id, method |-> m, call |-> call]
Tool(tool, bad, capability) == [tool |-> tool, bad |-> bad, capability |-> capability]

ToolRequests ==
  {Request(1, m, None) : m \in {"initialize", "unknown", "tools/call"}}
    \cup {Request(None, "tools/list", None)}
    \cup {Request(2, "tools/call", c) : c \in
            {Tool("vaultx.list_capabilities", {}, None), Tool("vaultx.config_get", {"name"}, None),
             Tool("vaultx.config_get", {}, None), Tool("unknown", {}, None),
             Tool("vaultx.http_request", {"arguments"}, None), Tool("vaultx.http_request", {"url"}, None),
             Tool("vaultx.http_request", {}, None)}
              \cup {Tool("vaultx.capability_request", b, c) :
                      b \in {{}, {"capability"}, {"params"}}, c \in {"pulls.create", "Unknown"}}}

ClientLines ==
  {[length |-> n, parsed |-> Request(1, "initialize", None), ended |-> e] : n \in {3, 4}, e \in BOOLEAN}
    \cup {[length |-> 1, parsed |-> r, ended |-> TRUE] : r \in ToolRequests}
    \cup {[length |-> 0, parsed |-> [kind |-> "blank"], ended |-> TRUE],
          [length |-> 2, parsed |-> [kind |-> "malformed"], ended |-> TRUE]}

PolicyOfPack == [c \in {"pulls.create"} |-> "pack-pulls_create"]

-------------------------------------------------------------------------------
(* A history of three commits, the last signed with another key.           *)

Parents == <<{}, {1}, {2}>>
Revisions == <<{"r1"}, {"r1", "r2"}, {}>>

-------------------------------------------------------------------------------
(* A plain name and one that looks like a secret; a file that gives a name *)
(* twice, one that looks like a secret, an invalid one and a bad line.     *)

TwoNames == <<"API_TOKEN", "PORT">>
OneEnvFile == {<<<<"PORT", "80">>, <<"API_TOKEN", "81">>, <<"", "">>, <<"1BAD", "80">>, <<"PORT", "81">>>>}

-------------------------------------------------------------------------------
(* "g_", "p_", "s-" and "A" stand for ghp_, github_pat_, sk- and AKIA.     *)

FourRules == <<
  [prefix |-> <<"g", "_">>, min |-> 2, shape |-> "run"],
  [prefix |-> <<"p", "_">>, min |-> 1, shape |-> "pat"],
  [prefix |-> <<"s", "-">>, min |-> 2, shape |-> "run"],
  [prefix |-> <<"A">>, min |-> 2, shape |-> "aws"]>>
===============================================================================
