------------------------------- MODULE AgentRuns -------------------------------
(***************************************************************************)
(* Agent identities (crates/vaultx-core/src/agents.rs) and the commands    *)
(* that mint sessions for them: `agent session create`, `agent run`        *)
(* (crates/vaultx-cli/src/cli.rs) and the start of the MCP server          *)
(* (crates/vaultx-mcp/src/server.rs).                                      *)
(*                                                                         *)
(* Identity files are read, changed and written back without a lock; a     *)
(* write truncates the file first.  The session store is the one of        *)
(* SessionStore: here a session is only its owner and whether it lives.    *)
(***************************************************************************)
EXTENDS Options, Naturals, Sequences, FiniteSets

CONSTANTS
  TornFile,
  AgentNames, AgentPolicies,
  Workers,            \* processes
  Pinned,             \* commits: variable -> kind of its binding
  Inherited,          \* names set in the environment of the command
  SessionVar,         \* VAULTX_BROKER_SESSION
  IdentityVars,       \* the other variables `agent run` sets
  MaxRuns             \* bound on the commands started

VARIABLES
  identities,   \* agent -> None, TornFile or [enabled, policies, sequence]
  intact,       \* agent -> the last whole file that was written
  running,      \* process -> None or what it is doing
  granted,       \* sessions in the order of their minting
  runs          \* how many commands were started

agentVars == <<identities, intact, running, granted, runs>>

IdentityCommands == {"create", "enable", "disable", "attach"}
SessionCommands == {"session", "run", "serve"}

\* An identity file, and a command with where it is, the file it will write,
\* whether that file was written since it was read, its session and its commit.
Identity == [enabled : BOOLEAN, policies : SUBSET AgentPolicies,
             sequence : {Cardinality(A) + 1 : A \in SUBSET AgentNames}]
Running == [cmd : IdentityCommands \cup SessionCommands, agent : AgentNames,
            at : {"start", "save", "fill", "inspect", "mint", "work", "revoke"},
            copy : Option(Identity), stale : BOOLEAN, session : Option(Nat), commit : Option(Pinned)]

ASSUME MarksAreNoFiles ==
  None \notin Nat \cup Identity \cup Running /\ TornFile \notin Identity /\ TornFile # None

Readable(a) == identities[a] \notin {None, TornFile}

agentInit ==
  /\ identities = [a \in AgentNames |-> None] /\ intact = identities
  /\ running = [p \in Workers |-> None]
  /\ granted = << >> /\ runs = 0

Does(p, cmd, at) == running[p] # None /\ running[p].cmd \in cmd /\ running[p].at = at

MovesTo(p, at) == running' = [running EXCEPT ![p].at = at]

Ends(p) == running' = [running EXCEPT ![p] = None]

StartCommand(p, cmd, a) ==
  /\ running[p] = None /\ runs < MaxRuns /\ runs' = runs + 1
  /\ running' = [running EXCEPT ![p] =
       [cmd |-> cmd, agent |-> a, at |-> "start", copy |-> None, stale |-> FALSE,
        session |-> None, commit |-> None]]
  /\ UNCHANGED <<identities, intact, granted>>

-------------------------------------------------------------------------------
(* Identity files. *)

count_agent_files == Cardinality({a \in AgentNames : identities[a] # None})

\* Mutant of Creatable: an existing file is not looked for.
Creatable_always(a) == TRUE

Creatable(a) == identities[a] = None

\* What the command will write, None when it writes nothing.
Changed(cmd, a) ==
  CASE cmd = "create" /\ Creatable(a) ->
         {[enabled |-> TRUE, policies |-> {}, sequence |-> count_agent_files + 1]}
    [] cmd \in {"enable", "disable"} /\ Readable(a) ->
         {[identities[a] EXCEPT !.enabled = cmd = "enable"]}
    [] cmd = "attach" /\ Readable(a) ->
         {[identities[a] EXCEPT !.policies = @ \cup {n}] : n \in AgentPolicies \ identities[a].policies}
    [] OTHER -> {}

LoadIdentity(p) ==
  /\ Does(p, IdentityCommands, "start")
  /\ LET changed == Changed(running[p].cmd, running[p].agent) IN
       \/ \E file \in changed : running' =
            [running EXCEPT ![p].at = "save", ![p].copy = file, ![p].stale = FALSE]
       \/ changed = {} /\ Ends(p)
  /\ UNCHANGED <<identities, intact, granted, runs>>

TruncateIdentity(p) ==
  /\ Does(p, IdentityCommands, "save")
  /\ identities' = [identities EXCEPT ![running[p].agent] = TornFile]
  /\ MovesTo(p, "fill")
  /\ UNCHANGED <<intact, granted, runs>>

\* Every other process about to write this file now holds an old copy.
FillIdentity(p) ==
  /\ Does(p, IdentityCommands, "fill")
  /\ LET a == running[p].agent IN
       /\ identities' = [identities EXCEPT ![a] = running[p].copy]
       /\ intact' = [intact EXCEPT ![a] = running[p].copy]
       /\ running' = [q \in Workers |->
            IF q = p \/ running[q] = None THEN None
            ELSE [running[q] EXCEPT !.stale = @ \/ running[q].agent = a]]
  /\ UNCHANGED <<granted, runs>>

-------------------------------------------------------------------------------
(* Sessions. *)

\* list_agents decodes every file, so one that does not decode stops it.
ensure_active_agent(p) ==
  /\ Does(p, SessionCommands, "start")
  /\ LET file == identities[running[p].agent] IN
     IF (\A a \in AgentNames : identities[a] # TornFile) /\ file # None /\ file.enabled
     THEN MovesTo(p, "inspect") ELSE Ends(p)
  /\ UNCHANGED <<identities, intact, granted, runs>>

\* `agent run` goes on to the environment's commit, which may be missing.
inspect(p) ==
  /\ Does(p, SessionCommands, "inspect")
  /\ \/ Readable(running[p].agent) /\ running[p].cmd # "run" /\ MovesTo(p, "mint")
     \/ /\ Readable(running[p].agent) /\ running[p].cmd = "run"
        /\ \E c \in Pinned : running' = [running EXCEPT ![p].at = "mint", ![p].commit = c]
     \/ (Readable(running[p].agent) => running[p].cmd = "run") /\ Ends(p)
  /\ UNCHANGED <<identities, intact, granted, runs>>

\* create_expiring; it may fail.  `agent session create` is then done.
Mint(p) ==
  /\ Does(p, SessionCommands, "mint")
  /\ \/ /\ granted' = Append(granted, [by |-> running[p].cmd, live |-> TRUE, lost |-> FALSE])
        /\ running' = [running EXCEPT ![p] =
             IF running[p].cmd = "session" THEN None
             ELSE [running[p] EXCEPT !.at = "work", !.session = Len(granted')]]
     \/ Ends(p) /\ UNCHANGED granted
  /\ UNCHANGED <<identities, intact, runs>>

\* The child exits, dies of a signal, or could not be spawned.
ChildEnds(p) ==
  /\ Does(p, {"run"}, "work")
  /\ MovesTo(p, "revoke")
  /\ UNCHANGED <<identities, intact, granted, runs>>

\* A revocation that fails is swallowed.
RevokeMinted(p) ==
  /\ Does(p, {"run"}, "revoke")
  /\ \E ok \in BOOLEAN : granted' = [granted EXCEPT ![running[p].session].live = @ /\ ~ok,
                                                  ![running[p].session].lost = ~ok]
  /\ Ends(p)
  /\ UNCHANGED <<identities, intact, runs>>

\* The MCP server returns when its input or output closes.
ServeEnds(p) ==
  /\ Does(p, {"serve"}, "work")
  /\ Ends(p)
  /\ UNCHANGED <<identities, intact, granted, runs>>

Killed(p) ==
  /\ running[p] # None
  /\ Ends(p)
  /\ granted' = IF running[p].session = None THEN granted ELSE [granted EXCEPT ![running[p].session].lost = TRUE]
  /\ UNCHANGED <<identities, intact, runs>>

\* `agent session revoke`
cmd_agent_session_revoke(i) ==
  /\ granted[i].live
  /\ granted' = [granted EXCEPT ![i].live = FALSE]
  /\ UNCHANGED <<identities, intact, running, runs>>

agentNext ==
  \/ \E p \in Workers :
       \/ \E cmd \in IdentityCommands \cup SessionCommands, a \in AgentNames : StartCommand(p, cmd, a)
       \/ LoadIdentity(p) \/ TruncateIdentity(p) \/ FillIdentity(p)
       \/ ensure_active_agent(p) \/ inspect(p) \/ Mint(p)
       \/ ChildEnds(p) \/ RevokeMinted(p) \/ ServeEnds(p) \/ Killed(p)
  \/ \E i \in DOMAIN granted : cmd_agent_session_revoke(i)

AgentSpec == agentInit /\ [][agentNext]_agentVars

-------------------------------------------------------------------------------
(* The environment a child of `agent run` gets: name -> what is set. *)

child_env(p, name) ==
  LET managed == running[p].commit IN
  IF name = SessionVar THEN running[p].session
  ELSE IF name \in IdentityVars THEN "identity"
  ELSE IF name \in DOMAIN managed THEN (IF managed[name] = "config" THEN "committed" ELSE None)
  ELSE IF name \in Inherited THEN "inherited" ELSE None

(***************************************************************************)
(* cli.rs:2100-2112.  The child of `agent run` sees its own session and    *)
(* the committed configuration, and of the managed names that are not      *)
(* configuration nothing at all, whatever the caller's environment holds;  *)
(* and when no process works for the session any more it is dead, unless   *)
(* the command was killed or its last store access failed: "so `agent run` *)
(* never leaves a live session behind".                                    *)
(***************************************************************************)
RunsContained ==
  /\ \A p \in Workers : Does(p, {"run"}, "work") =>
       /\ child_env(p, SessionVar) = running[p].session
       /\ \A name \in DOMAIN running[p].commit \ (IdentityVars \cup {SessionVar}) :
            child_env(p, name) = IF running[p].commit[name] = "config" THEN "committed" ELSE None
  /\ \A i \in DOMAIN granted : granted[i].by = "run" /\ granted[i].live /\ ~granted[i].lost =>
       \E p \in Workers : running[p] # None /\ running[p].session = i

(***************************************************************************)
(* agents.rs:31 "there is no delete in v1 so history stays inspectable": a *)
(* command that wrote an identity while no other did changes only what it  *)
(* is about.  The agent a `disable` stopped is not enabled again by an     *)
(* `attach` or a `create`, no policy is detached, and the sequence number  *)
(* stays.  Two commands that overlap may undo each other.                  *)
(***************************************************************************)
IdentityKept == [][\A p \in Workers : FillIdentity(p) =>
  LET was == intact[running[p].agent]
      is == running[p].copy
  IN was # None /\ ~running[p].stale =>
       /\ is.enabled # was.enabled => running[p].cmd \in {"enable", "disable"}
       /\ was.policies \subseteq is.policies
       /\ is.sequence = was.sequence]_agentVars

(***************************************************************************)
(* Agents and their runs: identities change only as commanded, and a run   *)
(* leaks neither variables into its child nor sessions after its end.      *)
(***************************************************************************)
AgentsContained == []RunsContained /\ IdentityKept
===============================================================================
