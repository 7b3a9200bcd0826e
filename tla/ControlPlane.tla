------------------------------ MODULE ControlPlane ------------------------------
(***************************************************************************)
(* The team control plane: the REST handlers of                            *)
(* crates/vaultx-control-plane/src/api.rs, the authorization of auth.rs    *)
(* and the in-memory store of store.rs.                                    *)
(*                                                                         *)
(* Handlers are asynchronous tasks.  Every store call takes the store's    *)
(* mutex for itself, so a handler is as many steps as it makes store calls *)
(* that others can tell apart, and the handlers of several requests        *)
(* interleave.  Calls that only read what never changes (the session of a  *)
(* token, the members of a workspace, the protection registry) are part of *)
(* the step that follows them.                                             *)
(*                                                                         *)
(* A request keeps running when its client goes away: from = None.         *)
(* There is one project besides the unknown ones.  Object and commit ids   *)
(* are numbers; the order of the numbers is the order of the hashes.       *)
(***************************************************************************)
EXTENDS Options, Naturals, FiniteSets, Sequences, SequencesExt

CONSTANTS
  Users,           \* logins in the users table
  Workloads,       \* subjects of the OIDC allowlist
  Members,         \* subjects with a membership of the project's workspace
  ProtectedRefs,   \* names the protection registry marks
  EnvironmentRefs, \* refs of the environments namespace; the others are heads
  RefNames,
  MaxList,         \* MAX_LIST_ITEMS
  MaxMissing       \* max_missing_objects of a response

VARIABLES
  api_sessions,   \* tokens resolve_token knows; a token is its class and subject
  agents,     \* identities of the agents table
  workspaces, \* id -> members; 1 is the project's
  devices,    \* device key -> the subject it was registered under
  store,      \* object ids held for the project
  tips,       \* ref -> commit, 0 while the ref is absent
  policies,   \* name -> document
  trail,      \* the project's audit chain, as the set of its events
  tasks       \* handlers in flight, and answers not yet read

cpVars == <<api_sessions, agents, workspaces, devices, store, tips, policies, trail, tasks>>

Token(class, subject) == [class |-> class, subject |-> subject]
ADMIN_CLASSES == {"ControlSession"}
SYNC_CLASSES == {"ControlSession", "WorkloadExchange"}

\* The status a handler answers with before it looks at its body.
authorize(token, allowed) ==
  CASE token = None              -> 401
    [] token.class \notin allowed -> 403
    [] token \notin api_sessions      -> 401
    [] OTHER                      -> 200

require_project(token, project) ==
  CASE project # "project"               -> 404
    [] token.subject \notin workspaces[1] -> 403
    [] OTHER                              -> 200

\* The routes that accept workload tokens; every other one is administrative.
Classes(op) == IF op \in {"query_missing", "list_policies"} THEN SYNC_CLASSES ELSE ADMIN_CLASSES

\* authorize, then require_project, then the handler's own check of its body.
Screened(t, bad) ==
  LET a == authorize(t.token, Classes(t.op))
      p == require_project(t.token, t.body.project)
  IN CASE a # 200 -> a [] p # 200 -> p [] bad -> 400 [] OTHER -> 200

Answer(status) == [status |-> status]

\* A request that has been routed to its handler.
Task(client, op, token, body) ==
  [from |-> client, op |-> op, token |-> token, body |-> body, pc |-> "recv",
   held |-> Answer(0)]

\* The handler goes on to pc, holding what it has read so far.
Advance(t, pc, held) == (tasks \ {t}) \cup {[t EXCEPT !.pc = pc, !.held = held]}

\* The handler returns; nobody reads the answer to an abandoned request.
Return(t, reply) ==
  (tasks \ {t}) \cup (IF t.from = None THEN {} ELSE {[t EXCEPT !.pc = "done", !.held = reply]})

\* append_audit_event, under the store's mutex: the event joins the chain of
\* the project.
append_audit_event(t, action, what) ==
  trail' = trail \cup {<<action, t.token.subject, what>>}

cpInit ==
  /\ api_sessions = {} /\ agents = {}
  /\ workspaces = <<Members>>
  /\ devices = << >>
  /\ store = {}
  /\ tips = [r \in RefNames |-> 0]
  /\ policies = << >>
  /\ trail = {} /\ tasks = {}

-------------------------------------------------------------------------------
(* POST /auth/session, /workspaces, and the listings                       *)

\* Whether the grant proves its subject: a known user with the right password,
\* or an allowlisted workload.
Proven(grant) == /\ grant.proof = "right"
                 /\ grant.subject \in IF grant.class = "ControlSession" THEN Users ELSE Workloads

create_session(t) ==
  /\ t.op = "create_session" /\ t.pc = "recv"
  /\ IF t.body.proof = "malformed"
     THEN tasks' = Return(t, Answer(400)) /\ UNCHANGED api_sessions
     ELSE IF ~Proven(t.body)
     THEN tasks' = Return(t, Answer(401)) /\ UNCHANGED api_sessions
     ELSE /\ api_sessions' = api_sessions \cup {Token(t.body.class, t.body.subject)}
          /\ tasks' = Return(t, [status |-> 200, token |-> Token(t.body.class, t.body.subject)])
  /\ UNCHANGED <<agents, workspaces, devices, store, tips, policies, trail>>

\* The record and its owner's membership in one store call, then the
\* membership once more in another.
create_workspace(t) ==
  /\ t.op = "create_workspace" /\ t.pc = "recv"
  /\ LET a == authorize(t.token, ADMIN_CLASSES) IN
     IF a # 200 THEN tasks' = Return(t, Answer(a)) /\ UNCHANGED workspaces
     ELSE /\ workspaces' = Append(workspaces, {t.token.subject})
          /\ tasks' = Advance(t, "member", [status |-> 0, id |-> Len(workspaces) + 1])
  /\ UNCHANGED <<api_sessions, agents, devices, store, tips, policies, trail>>

add_workspace_member(t) ==
  /\ t.op = "create_workspace" /\ t.pc = "member"
  /\ workspaces' = [workspaces EXCEPT ![t.held.id] = @ \cup {t.token.subject}]
  /\ tasks' = Return(t, [status |-> 200, id |-> t.held.id])
  /\ UNCHANGED <<api_sessions, agents, devices, store, tips, policies, trail>>

\* The project-scoped reads: each one lists one table under the mutex.
Listing(op) ==
  CASE op = "list_refs"     -> [status |-> 200, refs |-> tips]
    [] op = "list_policies" -> [status |-> 200, policies |-> policies]
    [] op = "list_agents"   -> [status |-> 200, agents |-> agents]
    [] op = "project_audit" -> [status |-> 200, trail |-> trail]
    [] op = "get_project"   -> [status |-> 200, workspace |-> 1]

list_project(t) ==
  /\ t.op \in {"list_refs", "list_policies", "list_agents", "project_audit", "get_project"}
  /\ t.pc = "recv"
  /\ LET s == Screened(t, FALSE) IN
     tasks' = Return(t, IF s # 200 THEN Answer(s) ELSE Listing(t.op))
  /\ UNCHANGED <<api_sessions, agents, workspaces, devices, store, tips, policies, trail>>

list_workspaces(t) ==
  /\ t.op = "list_workspaces" /\ t.pc = "recv"
  /\ LET a == authorize(t.token, ADMIN_CLASSES)
         seen == {w \in 1..Len(workspaces) : t.token.subject \in workspaces[w]}
     IN tasks' = Return(t, IF a # 200 THEN Answer(a)
                           ELSE [status |-> 200, workspaces |-> seen])
  /\ UNCHANGED <<api_sessions, agents, workspaces, devices, store, tips, policies, trail>>

-------------------------------------------------------------------------------
(* Policies, agents, audit ingestion                                       *)

put_policy(t) ==
  /\ t.op = "put_policy" /\ t.pc = "recv"
  /\ LET s == Screened(t, t.body.document = "not JSON") IN
     IF s # 200 THEN tasks' = Return(t, Answer(s)) /\ UNCHANGED policies
     ELSE /\ policies' = [n \in DOMAIN policies \cup {t.body.name} |->
                           IF n = t.body.name THEN t.body.document ELSE policies[n]]
          /\ tasks' = Advance(t, "log", Answer(200))
  /\ UNCHANGED <<api_sessions, agents, workspaces, devices, store, tips, trail>>

\* The identity, its session and the event are three store calls.
create_agent(t) ==
  /\ t.op = "create_agent" /\ t.pc = "recv"
  /\ LET s == Screened(t, FALSE) IN
     IF s # 200 THEN tasks' = Return(t, Answer(s)) /\ UNCHANGED agents
     ELSE /\ agents' = agents \cup {t.body.agent}
          /\ tasks' = Advance(t, "mint", Answer(0))
  /\ UNCHANGED <<api_sessions, workspaces, devices, store, tips, policies, trail>>

\* Agent tokens are kept in a table resolve_token does not look in.
issue_agent_session(t) ==
  /\ t.op = "create_agent" /\ t.pc = "mint"
  /\ tasks' = Advance(t, "log", [status |-> 200, token |-> Token("Agent", t.body.agent)])
  /\ UNCHANGED <<api_sessions, agents, workspaces, devices, store, tips, policies, trail>>

\* append_events: one lock covers the batch; an event that fails validation is
\* reported by its position, the others join the chain.
append_events(t) ==
  /\ t.op = "ingest_audit" /\ t.pc = "recv"
  /\ LET s == Screened(t, Len(t.body.events) > MaxList)
         ev == t.body.events
         fine == {i \in 1..Len(ev) : ev[i].valid}
     IN IF s # 200 THEN tasks' = Return(t, Answer(s)) /\ UNCHANGED trail
        ELSE /\ trail' = trail \cup {<<"ingested", ev[i].actor, ev[i].sequence>> : i \in fine}
             /\ tasks' = Advance(t, "log", [status |-> 200, accepted |-> Cardinality(fine),
                                            rejected |-> (1..Len(ev)) \ fine])
  /\ UNCHANGED <<api_sessions, agents, workspaces, devices, store, tips, policies>>

\* The event of a handler that changed something, and its answer.
EventOf(t) ==
  CASE t.op = "put_policy"   -> [action |-> "policy.update", what |-> t.body.name]
    [] t.op = "create_agent" -> [action |-> "agent.created", what |-> t.body.agent]
    [] t.op = "ingest_audit" -> [action |-> "audit.ingest", what |-> t.held.accepted]
    [] t.op = "put_ref"      -> [action |-> "ref.update", what |-> <<t.body.ref, t.body.commit>>]
    [] t.op = "batch_objects" -> [action |-> "objects.batch_upload", what |-> 0]

\* Mutant: a handler nobody waits for stops before its event.
LogAndReplyHeard(t) ==
  /\ t.pc = "log"
  /\ IF t.from = None THEN UNCHANGED trail
     ELSE append_audit_event(t, EventOf(t).action, EventOf(t).what)
  /\ tasks' = Return(t, t.held)
  /\ UNCHANGED <<api_sessions, agents, workspaces, devices, store, tips, policies>>

LogAndReply(t) ==
  /\ t.pc = "log"
  /\ append_audit_event(t, EventOf(t).action, EventOf(t).what)
  /\ tasks' = Return(t, t.held)
  /\ UNCHANGED <<api_sessions, agents, workspaces, devices, store, tips, policies>>

-------------------------------------------------------------------------------
(* POST objects/batch: entries are validated and stored one by one, in id  *)
(* order; an invalid one ends the request after what was stored before it, *)
(* without an event.                                                       *)

batch_objects(t) ==
  /\ t.op = "batch_objects" /\ t.pc = "recv"
  /\ LET s == Screened(t, Cardinality(t.body.entries) > MaxList) IN
     tasks' = IF s # 200 THEN Return(t, Answer(s))
              ELSE Advance(t, IF t.body.entries = {} THEN "log" ELSE "store",
                           [status |-> 200, stored |-> 0, left |-> t.body.entries])
  /\ UNCHANGED <<api_sessions, agents, workspaces, devices, store, tips, policies, trail>>

Least(S) == CHOOSE x \in S : \A y \in S : x <= y

\* The hash of the canonical bytes is recomputed.
validate_object_entry(t, id) == id \notin t.body.tampered

\* put_object keeps the first copy.
put_object(t) ==
  /\ t.op = "batch_objects" /\ t.pc = "store"
  /\ LET id == Least(t.held.left) IN
     IF ~validate_object_entry(t, id) THEN tasks' = Return(t, Answer(422)) /\ UNCHANGED store
     ELSE /\ store' = store \cup {id}
          /\ tasks' = Advance(t, IF t.held.left = {id} THEN "log" ELSE "store",
               [t.held EXCEPT !.left = @ \ {id},
                              !.stored = @ + (IF id \in store THEN 0 ELSE 1)])
  /\ UNCHANGED <<api_sessions, agents, workspaces, devices, tips, policies, trail>>

-------------------------------------------------------------------------------
(* POST objects/query-missing                                              *)

\* Mutant: members of the workspace are taken for known.
RegisteredIfForeign(d, subject) ==
  IF subject \in Members THEN devices
  ELSE [e \in DOMAIN devices \cup {d} |-> IF e \in DOMAIN devices THEN devices[e] ELSE subject]

\* The table once a device has been seen: the first owner stays.
Registered(d, subject) ==
  [e \in DOMAIN devices \cup {d} |-> IF e \in DOMAIN devices THEN devices[e] ELSE subject]

\* The attestation signs the project and the key with that key.
verify_device_identity(body) == body.attested

\* The keys a client may verify commits against.
list_workspace_device_keys(table) == {d \in DOMAIN table : table[d] \in workspaces[1]}

\* register_device keeps the first owner; the keys served are those of the
\* workspace's members, read before the objects.
register_device(t) ==
  /\ t.op = "query_missing" /\ t.pc = "recv"
  /\ LET a == authorize(t.token, SYNC_CLASSES)
         s == IF a = 200 /\ Cardinality(t.body.known) > MaxList THEN 400 ELSE Screened(t, FALSE)
     IN IF s # 200 THEN tasks' = Return(t, Answer(s)) /\ UNCHANGED devices
        ELSE IF ~verify_device_identity(t.body) THEN tasks' = Return(t, Answer(401)) /\ UNCHANGED devices
        ELSE /\ devices' = Registered(t.body.device, t.token.subject)
             /\ tasks' = Advance(t, "list",
                  [status |-> 0, keys |-> list_workspace_device_keys(devices')])
  /\ UNCHANGED <<api_sessions, agents, workspaces, store, tips, policies, trail>>

\* The n least members of S.
FirstOf(S, n) == {x \in S : Cardinality({y \in S : y < x}) < n}

\* list_object_ids and get_objects; what is listed is never removed.
get_objects(t) ==
  /\ t.op = "query_missing" /\ t.pc = "list"
  /\ LET missing == store \ t.body.known IN
     tasks' = Advance(t, "refs",
       [status |-> 200, keys |-> t.held.keys, ids |-> store,
        missing |-> FirstOf(missing, MaxMissing),
        truncated |-> Cardinality(missing) > MaxMissing])
  /\ UNCHANGED <<api_sessions, agents, workspaces, devices, store, tips, policies, trail>>

list_ref_states(t) ==
  /\ t.op = "query_missing" /\ t.pc = "refs"
  /\ append_audit_event(t, "objects.query_missing", 0)
  /\ tasks' = Return(t, [status |-> 200, keys |-> t.held.keys, ids |-> t.held.ids,
                         missing |-> t.held.missing, truncated |-> t.held.truncated,
                         refs |-> tips])
  /\ UNCHANGED <<api_sessions, agents, workspaces, devices, store, tips, policies>>

-------------------------------------------------------------------------------
(* PUT refs/{name}: the protection check, the compare-and-swap and the     *)
(* event are three store calls.                                            *)

\* Mutant: creating a protected ref is let through.
RefusedExisting(body) ==
  /\ body.ref \in EnvironmentRefs \cap ProtectedRefs
  /\ tips[body.ref] \notin {0, body.commit}
  /\ ~body.authorized

Refused(body) ==
  /\ body.ref \in EnvironmentRefs \cap ProtectedRefs
  /\ tips[body.ref] # body.commit
  /\ ~body.authorized

put_ref(t) ==
  /\ t.op = "put_ref" /\ t.pc = "recv"
  /\ LET s == Screened(t, t.body.ref \notin RefNames)
     IN tasks' = IF s # 200 THEN Return(t, Answer(s))
                 ELSE IF Refused(t.body) THEN Return(t, [status |-> 409, error |-> "protected_environment_ref"])
                 ELSE Advance(t, "swap", Answer(0))
  /\ UNCHANGED <<api_sessions, agents, workspaces, devices, store, tips, policies, trail>>

\* base 0 is "the ref must not exist".
compare_and_swap_ref(t) ==
  /\ t.op = "put_ref" /\ t.pc = "swap"
  /\ IF tips[t.body.ref] = t.body.base
     THEN /\ tips' = [tips EXCEPT ![t.body.ref] = t.body.commit]
          /\ tasks' = Advance(t, "log", Answer(200))
     ELSE /\ tasks' = Return(t, [status |-> 409, error |-> "ref_conflict"])
          /\ UNCHANGED tips
  /\ UNCHANGED <<api_sessions, agents, workspaces, devices, store, policies, trail>>

\* One step of a handler.
HandlerStep(t) ==
  \/ create_session(t) \/ create_workspace(t) \/ add_workspace_member(t)
  \/ list_project(t) \/ list_workspaces(t)
  \/ put_policy(t) \/ create_agent(t) \/ issue_agent_session(t) \/ append_events(t)
  \/ LogAndReply(t)
  \/ batch_objects(t) \/ put_object(t)
  \/ register_device(t) \/ get_objects(t) \/ list_ref_states(t)
  \/ put_ref(t) \/ compare_and_swap_ref(t)
===============================================================================
