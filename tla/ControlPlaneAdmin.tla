---------------------------- MODULE ControlPlaneAdmin ----------------------------
(***************************************************************************)
(* The control plane on its own: a set of requests of every kind, each     *)
(* submitted at most once, in any order and any overlap, by callers that   *)
(* do not wait for the answers.  A request made with a token it has not    *)
(* been issued yet is refused like any unknown token.                      *)
(***************************************************************************)
EXTENDS ControlPlane

CONSTANTS
  AdminRequests,   \* [op, token, body]
  MaxAsked    \* bound on the requests of one behaviour

VARIABLE submitted      \* the requests submitted so far

adminVars == <<cpVars, submitted>>

adminInit == cpInit /\ submitted = {}

Submit(q) ==
  /\ q \notin submitted /\ Cardinality(submitted) < MaxAsked
  /\ submitted' = submitted \cup {q}
  /\ tasks' = tasks \cup {Task(None, q.op, q.token, q.body)}
  /\ UNCHANGED <<api_sessions, agents, workspaces, devices, store, tips, policies, trail>>

Handle == \E t \in tasks : HandlerStep(t) /\ UNCHANGED submitted

adminNext == Handle \/ \E q \in AdminRequests : Submit(q)

AdminSpec == adminInit /\ [][adminNext]_adminVars

-------------------------------------------------------------------------------
(* Properties                                                              *)

\* A handler that is past its change and not yet past its event.
Pending(op, what) == \E t \in tasks : t.op = op /\ t.pc \in {"mint", "log"} /\ EventOf(t).what = what

\* Every policy, agent and ref the project has, has its event in the project's
\* audit chain or a handler that will append it, although the change and the
\* event are separate store calls and nobody waits for the answer.
ChangesAudited ==
  LET logged(action, what) == \E s \in Users : <<action, s, what>> \in trail IN
  /\ \A n \in DOMAIN policies : logged("policy.update", n) \/ Pending("put_policy", n)
  /\ \A g \in agents : logged("agent.created", g) \/ Pending("create_agent", g)
  /\ \A r \in RefNames : tips[r] # 0 =>
       logged("ref.update", <<r, tips[r]>>) \/ Pending("put_ref", <<r, tips[r]>>)

\* What the server itself records of the project was done by a member of its
\* workspace who holds a session: no order of logins and requests lets a token
\* act before it is issued, for another class of route, or for a stranger.
\* Only the ingested events carry the actor their uploader names.
ActorsAreMembers ==
  \A e \in trail : e[1] # "ingested" =>
    /\ e[2] \in Members
    /\ \E class \in IF e[1] = "objects.query_missing" THEN SYNC_CLASSES ELSE ADMIN_CLASSES :
         Token(class, e[2]) \in api_sessions

\* The project's audit chain is complete and true about who acted.
AdminAudited == ChangesAudited /\ ActorsAreMembers
===============================================================================
