------------------------------ MODULE SyncProtocol ------------------------------
(***************************************************************************)
(* Push, pull and sync of several working copies of a project against the  *)
(* control plane: crates/vaultx-sync-client (client.rs, local.rs, lib.rs)  *)
(* composed with ControlPlane.                                             *)
(*                                                                         *)
(* A run waits for the answer to each of its requests; between them, and   *)
(* between reading a local ref and writing it, the working copy is open to *)
(* the commits and promotions of other processes.  A run can die at any    *)
(* point (the user interrupts it, the transport gives up on a request);    *)
(* the request it was waiting for goes on at the server.                   *)
(*                                                                         *)
(* A commit has one parent, the tree it snapshots and the device that      *)
(* signed it.  Objects are numbers: commits from 1, and the trees.         *)
(***************************************************************************)
EXTENDS ControlPlane, TLC

CONSTANTS
  Clients,        \* working copies, each with its device key and its login
  Founder,        \* the client that published the first commit
  Commands,       \* the runs each client begins: [what, auth]
  Trees,          \* tree objects
  RefOrder,       \* the refs in listing order: heads, then environments
  LocalProtected, \* the clients that protect their environment refs themselves
  ProbeChunk,     \* PROBE_KNOWN_IDS_CHUNK
  UploadMax,      \* UPLOAD_MAX_ENTRIES
  MaxCommits,     \* bound on the commits of each client
  MaxRuns         \* bound on the runs begun

\* What becomes of a request nobody waits for is told from the clients'.
ASSUME NoneIsNoClient == None \notin Clients
ASSUME FounderIsClient == Founder \in Clients
ASSUME CommandsAreRuns ==
  Commands \in [Clients -> SUBSET [what : {"push", "pull", "sync"}, auth : BOOLEAN]]

\* Tree ids are numbers, and none is the first commit's or "no commit".
ASSUME TreesAreIds == Trees \subseteq Nat \ {0, 1}

\* The listing order is of refs, and environments are refs.
ASSUME RefOrderLists ==
  /\ RefOrder \in Seq(RefNames) /\ Len(RefOrder) > 0
  /\ EnvironmentRefs \subseteq RefNames

VARIABLES
  commits, \* commits[n] = [parent, tree, signer]
  objs,    \* object ids in each working copy
  heads,   \* local refs of each working copy
  pols,    \* the policy documents in each working copy
  run,     \* the push, pull or sync each client is in
  runs     \* how many were begun

syncVars == <<commits, objs, heads, pols, run, runs>>
vars == <<cpVars, syncVars>>

NoReply == [keys |-> {}, ids |-> {}, refs |-> [r \in RefNames |-> 0]]

\* phase: which half of a sync; left: known ids still to declare in this probe;
\* missing, truncated, reply: the probe's merged answer; todo: ids to upload;
\* plan: the local refs a push read; at: the ref it is at.
Idle == [what |-> "idle", phase |-> "none", pc |-> "none", auth |-> FALSE, left |-> {},
         missing |-> {}, truncated |-> FALSE, reply |-> NoReply, todo |-> {},
         plan |-> NoReply.refs, at |-> 0, conflicts |-> {}]

\* What a fresh probe starts from.
Probing(c, r, phase) ==
  [Idle EXCEPT !.what = r.what, !.phase = phase, !.pc = "probe", !.auth = r.auth,
               !.left = objs[c], !.conflicts = r.conflicts]

\* A set that goes on to the parent wherever working copy c has the commit.
FollowsKnown(c, S) == \A n \in (S \ {0}) \cap objs[c] : commits[n].parent \in S

\* Commit a is on the walk from d through the commits at hand; an object that
\* is not there ends the walk and proves nothing.
is_ancestor_or_equal(c, a, d) ==
  \A S \in SUBSET (0..d) : d \in S /\ FollowsKnown(c, S) => a \in S

\* Everybody has been in sync at the first commit.
Init ==
  /\ \E t \in Trees :
       /\ commits = <<[parent |-> 0, tree |-> t, signer |-> Founder]>>
       /\ store = {1, t} /\ objs = [c \in Clients |-> {1, t}]
       /\ devices = [d \in {Founder} |-> Founder]
  /\ heads = [c \in Clients |-> [r \in RefNames |-> IF r = RefOrder[1] THEN 1 ELSE 0]]
  /\ tips = [r \in RefNames |-> IF r = RefOrder[1] THEN 1 ELSE 0]
  /\ api_sessions = {Token("ControlSession", c) : c \in Clients}
  /\ workspaces = <<Members>> /\ agents = {}
  /\ policies = [n \in {"team"} |-> "server's"]
  /\ pols = [c \in Clients |-> << >>]
  /\ trail = {} /\ tasks = {}
  /\ run = [c \in Clients |-> Idle] /\ runs = 0

-------------------------------------------------------------------------------
(* The working copy                                                        *)

\* vaultx commit: the objects, then the branch.  No two objects have one id.
Commit(c, t) ==
  /\ Len(commits) + 1 \notin Trees
  /\ Cardinality({n \in 2..Len(commits) : commits[n].signer = c}) < MaxCommits[c]
  /\ LET n == Len(commits) + 1 IN
     /\ commits' = Append(commits, [parent |-> heads[c][RefOrder[1]], tree |-> t, signer |-> c])
     /\ objs' = [objs EXCEPT ![c] = @ \cup {n, t}]
     /\ heads' = [heads EXCEPT ![c][RefOrder[1]] = n]
  /\ UNCHANGED <<cpVars, pols, run, runs>>

\* vaultx env promote: an environment ref is put on the branch's commit.
Promote(c, e) ==
  /\ e \in EnvironmentRefs
  /\ heads[c][e] # heads[c][RefOrder[1]]
  /\ heads' = [heads EXCEPT ![c][e] = heads[c][RefOrder[1]]]
  /\ UNCHANGED <<cpVars, commits, objs, pols, run, runs>>

-------------------------------------------------------------------------------
(* The transport: at most one request of a run is outstanding              *)

Login(c) == Token("ControlSession", c)
Send(c, op, body) == tasks' = tasks \cup {Task(c, op, Login(c), body)}
Outstanding(c) == {t \in tasks : t.from = c}
Answered(c) == {t \in Outstanding(c) : t.pc = "done"}
Consume(t) == tasks' = tasks \ {t}

Step(c, r) == run' = [run EXCEPT ![c] = r]
At(c, what) == run[c].pc = what

\* The run fails or is interrupted, or the transport's timeout fires; the
\* handler of its request goes on without it.
Abandon(c) ==
  /\ run[c].what # "idle"
  /\ Step(c, Idle)
  /\ tasks' = {t \in tasks : t.from # c} \cup
              {[t EXCEPT !.from = None] : t \in Outstanding(c) \ Answered(c)}
  /\ UNCHANGED <<api_sessions, agents, workspaces, devices, store, tips, policies, trail,
                 commits, objs, heads, pols, runs>>

Begin(c, cmd) ==
  /\ run[c].what = "idle" /\ runs < MaxRuns
  /\ runs' = runs + 1
  /\ Step(c, Probing(c, [Idle EXCEPT !.what = cmd.what, !.auth = cmd.auth],
                     IF cmd.what = "pull" THEN "pull" ELSE "push"))
  /\ UNCHANGED <<cpVars, commits, objs, heads, pols>>

-------------------------------------------------------------------------------
(* The probe shared by push and pull                                       *)

\* One chunk of the known ids, with a fresh attestation.
Probe(c) ==
  /\ At(c, "probe")
  /\ LET chunk == FirstOf(run[c].left, ProbeChunk) IN
     /\ Send(c, "query_missing", [project |-> "project", device |-> c, attested |-> TRUE, known |-> chunk])
     /\ Step(c, [run[c] EXCEPT !.pc = "probed", !.left = @ \ chunk])
  /\ UNCHANGED <<api_sessions, agents, workspaces, devices, store, tips, policies, trail,
                 commits, objs, heads, pols, runs>>

\* The missing sets are united, truncation sticks, the rest is the last answer's.
Merged(r, a) ==
  [r EXCEPT !.missing = @ \cup a.missing, !.truncated = @ \/ a.truncated,
            !.reply = [keys |-> a.keys, ids |-> a.ids, refs |-> a.refs]]

\* Every signed commit must verify against a key the server serves.
Verified(r) ==
  \A n \in r.missing \cap (1..Len(commits)) : commits[n].signer \in r.reply.keys

\* After the last chunk a push collects what the server lacks, and a pull
\* verifies everything before it applies anything.
Probed(c) ==
  /\ At(c, "probed")
  /\ \E t \in Answered(c) :
       /\ Consume(t)
       /\ LET r == Merged(run[c], t.held) IN
          Step(c, IF t.held.status # 200 THEN Idle
                  ELSE IF r.left # {} THEN [r EXCEPT !.pc = "probe"]
                  ELSE IF r.phase = "push"
                  THEN [r EXCEPT !.pc = "upload", !.todo = objs[c] \ r.reply.ids,
                                 !.missing = {}, !.truncated = FALSE,
                                 !.reply = [NoReply EXCEPT !.refs = r.reply.refs]]
                  ELSE IF Verified(r)
                  THEN [r EXCEPT !.pc = "apply", !.reply = [NoReply EXCEPT !.refs = r.reply.refs]]
                  ELSE Idle)
  /\ UNCHANGED <<api_sessions, agents, workspaces, devices, store, tips, policies, trail,
                 commits, objs, heads, pols, runs>>

-------------------------------------------------------------------------------
(* Push                                                                    *)

UploadBatch(c) ==
  /\ At(c, "upload") /\ run[c].todo # {}
  /\ Send(c, "batch_objects", [project |-> "project", tampered |-> {},
                               entries |-> FirstOf(run[c].todo, UploadMax)])
  /\ Step(c, [run[c] EXCEPT !.pc = "uploading"])
  /\ UNCHANGED <<api_sessions, agents, workspaces, devices, store, tips, policies, trail,
                 commits, objs, heads, pols, runs>>

\* publish_local_refs reads the local refs anew.
Publishing(c) == [run[c] EXCEPT !.pc = "publish", !.todo = {}, !.plan = heads[c], !.at = 1]

\* A batch that stored nothing stops the uploads.
Uploaded(c) ==
  /\ At(c, "uploading")
  /\ \E t \in Answered(c) :
       /\ Consume(t)
       /\ Step(c, IF t.held.status # 200 THEN Idle
                  ELSE LET rest == IF t.held.stored = 0 THEN {}
                                   ELSE run[c].todo \ t.body.entries
                       IN IF rest = {} THEN Publishing(c)
                          ELSE [run[c] EXCEPT !.pc = "upload", !.todo = rest])
  /\ UNCHANGED <<api_sessions, agents, workspaces, devices, store, tips, policies, trail,
                 commits, objs, heads, pols, runs>>

\* There was nothing to upload.
StartPublish(c) ==
  /\ At(c, "upload") /\ run[c].todo = {}
  /\ Step(c, Publishing(c))
  /\ UNCHANGED <<cpVars, commits, objs, heads, pols, runs>>

\* On to the next ref; after the last one push_then_pull goes on with a pull.
NextRef(c, r) ==
  IF r.at < Len(RefOrder) THEN [r EXCEPT !.at = @ + 1]
  ELSE IF r.what = "sync" THEN Probing(c, r, "pull") ELSE Idle

\* Mutant: the compare-and-swap is relied on alone.
PublishableAny(c, base, mine) == TRUE

\* Only a descendant of the tip the probe saw is sent.
Publishable(c, base, mine) == base = 0 \/ is_ancestor_or_equal(c, base, mine)

PublishRef(c) ==
  /\ At(c, "publish")
  /\ LET ref == RefOrder[run[c].at]
         mine == run[c].plan[ref]
         base == run[c].reply.refs[ref]
         skip == mine = 0 \/ mine = base
     IN IF ~skip /\ Publishable(c, base, mine)
        THEN /\ Send(c, "put_ref", [project |-> "project", ref |-> ref, commit |-> mine, base |-> base,
                                    authorized |-> run[c].auth])
             /\ Step(c, [run[c] EXCEPT !.pc = "putting"])
        ELSE /\ UNCHANGED tasks
             /\ Step(c, NextRef(c, [run[c] EXCEPT
                  !.conflicts = IF skip \/ is_ancestor_or_equal(c, mine, base) THEN @
                                ELSE @ \cup {ref}]))
  /\ UNCHANGED <<api_sessions, agents, workspaces, devices, store, tips, policies, trail,
                 commits, objs, heads, pols, runs>>

\* A conflict answer is recorded and the next ref is tried; any other refusal
\* ends the run.
Put(c) ==
  /\ At(c, "putting")
  /\ \E t \in Answered(c) :
       /\ Consume(t)
       /\ Step(c, IF t.held.status \notin {200, 409} THEN Idle
                  ELSE NextRef(c, [run[c] EXCEPT !.pc = "publish",
                         !.conflicts = IF t.held.status = 409 THEN @ \cup {t.body.ref} ELSE @]))
  /\ UNCHANGED <<api_sessions, agents, workspaces, devices, store, tips, policies, trail,
                 commits, objs, heads, pols, runs>>

-------------------------------------------------------------------------------
(* Pull                                                                    *)

\* Mutant: truncation alone asks for more.
ProbeAgainAlways(r, downloaded) == r.truncated

\* A truncated answer that brought something new is followed by another probe.
ProbeAgain(r, downloaded) == r.truncated /\ downloaded # {}

ApplyObjects(c) ==
  /\ At(c, "apply")
  /\ LET new == run[c].missing \ objs[c] IN
     /\ objs' = [objs EXCEPT ![c] = @ \cup new]
     /\ Step(c, IF ProbeAgain(run[c], new)
                THEN [Probing(c, run[c], "pull") EXCEPT !.left = objs'[c]]
                ELSE [run[c] EXCEPT !.pc = "refs", !.at = 1, !.missing = {}, !.truncated = FALSE])
  /\ UNCHANGED <<cpVars, commits, heads, pols, runs>>

\* The process dies with some of the objects applied.
DieApplying(c) ==
  /\ At(c, "apply")
  /\ \E k \in 1..Cardinality(run[c].missing) :
       objs' = [objs EXCEPT ![c] = @ \cup FirstOf(run[c].missing, k)]
  /\ Step(c, Idle)
  /\ UNCHANGED <<cpVars, commits, heads, pols, runs>>

\* Mutant: the tip is believed to be there.
ResolvesAlways(c, n) == TRUE

Resolves(c, n) == n \in objs[c]

\* reconcile_remote_refs decides from the local ref as it is now ...
Reconcile(c) ==
  /\ At(c, "refs") /\ run[c].at <= Len(RefOrder)
  /\ LET ref == RefOrder[run[c].at]
         theirs == run[c].reply.refs[ref]
         mine == heads[c][ref]
         next == [run[c] EXCEPT !.at = @ + 1]
         conflict == [next EXCEPT !.conflicts = @ \cup {ref}]
     IN Step(c, CASE theirs = 0 -> next
                  [] theirs # 0 /\ ~Resolves(c, theirs) -> conflict
                  [] OTHER -> IF mine = theirs THEN next
                              ELSE IF mine = 0 \/ is_ancestor_or_equal(c, mine, theirs)
                              THEN [run[c] EXCEPT !.pc = "write"]
                              ELSE IF is_ancestor_or_equal(c, theirs, mine) THEN next
                              ELSE conflict)
  /\ UNCHANGED <<cpVars, commits, objs, heads, pols, runs>>

\* ... and apply_ref writes it, whatever it is by then.
apply_ref(c) ==
  /\ At(c, "write")
  /\ LET ref == RefOrder[run[c].at]
         theirs == run[c].reply.refs[ref]
         refused == /\ ref \in EnvironmentRefs /\ c \in LocalProtected
                    /\ heads[c][ref] # theirs /\ ~run[c].auth
     IN /\ heads' = IF refused THEN heads ELSE [heads EXCEPT ![c][ref] = theirs]
        /\ Step(c, [run[c] EXCEPT !.pc = "refs", !.at = @ + 1,
                     !.conflicts = IF refused THEN @ \cup {ref} ELSE @])
  /\ UNCHANGED <<cpVars, commits, objs, pols, runs>>

AskPolicies(c) ==
  /\ At(c, "refs") /\ run[c].at > Len(RefOrder)
  /\ Send(c, "list_policies", [project |-> "project"])
  /\ Step(c, [run[c] EXCEPT !.pc = "policies"])
  /\ UNCHANGED <<api_sessions, agents, workspaces, devices, store, tips, policies, trail,
                 commits, objs, heads, pols, runs>>

\* Documents the server serves overwrite local ones; others stay.
apply_remote_policies(c) ==
  /\ At(c, "policies")
  /\ \E t \in Answered(c) :
       /\ Consume(t)
       /\ pols' = IF t.held.status # 200 THEN pols
                  ELSE [pols EXCEPT ![c] = t.held.policies @@ @]
  /\ Step(c, Idle)
  /\ UNCHANGED <<api_sessions, agents, workspaces, devices, store, tips, policies, trail,
                 commits, objs, heads, runs>>

-------------------------------------------------------------------------------
ClientStep(c) ==
  \/ Probe(c) \/ Probed(c) \/ UploadBatch(c) \/ Uploaded(c) \/ StartPublish(c)
  \/ PublishRef(c) \/ Put(c)
  \/ ApplyObjects(c) \/ Reconcile(c) \/ apply_ref(c) \/ AskPolicies(c)
  \/ apply_remote_policies(c)

ServerStep(client) ==
  /\ \E t \in tasks : t.from = client /\ HandlerStep(t)
  /\ UNCHANGED syncVars

Next ==
  \/ \E c \in Clients :
       \/ ClientStep(c) \/ Abandon(c) \/ DieApplying(c)
       \/ \E t \in Trees : Commit(c, t)
       \/ \E e \in EnvironmentRefs : Promote(c, e)
       \/ \E cmd \in Commands[c] : Begin(c, cmd)
  \/ \E c \in Clients \cup {None} : ServerStep(c)

Spec == Init /\ [][Next]_vars

\* The control plane runs its handlers and a client goes on with its run; one
\* fair scheduler of everything that can move is all that is assumed.
FairSpec == Spec /\ WF_vars(\E c \in Clients : ClientStep(c) \/ ServerStep(c))

-------------------------------------------------------------------------------
(* Properties                                                              *)

\* What SharedRefs speaks of: the parent of every commit and the server's refs.
Parents(cs) == [n \in 1..Len(cs) |-> cs[n].parent]
Shared == INSTANCE SharedRefs WITH parents <- Parents(commits), tips <- tips

\* The refs the team shares only move forward along the history, whoever
\* publishes, whenever, and whatever became of the run that sent the update:
\* the ancestry guard of publish_local_refs and the server's compare-and-swap
\* together.
SharedForward == Shared!Spec

\* A protected environment ref moves at the server only for a request that
\* carried the authorization, although the check and the swap are two store
\* calls and other publishers work in between.
ProtectedMovesAuthorized ==
  [][\A r \in EnvironmentRefs \cap ProtectedRefs : tips'[r] # tips[r] =>
        \E t \in tasks : /\ t.op = "put_ref" /\ t.body.ref = r
                          /\ t.body.commit = tips'[r] /\ t.body.authorized]_vars

\* A commit at the server was signed by a device the server knows: its key is
\* registered by the probe that precedes every upload, so a pull that starts
\* now can verify whatever it is offered; and the commit a shared ref names
\* has its event in the project's audit chain, or the handler that put it
\* there is about to append it.
CommitsAttributable ==
  /\ \A n \in store \cap (1..Len(commits)) : commits[n].signer \in DOMAIN devices
  /\ \A r \in RefNames : tips[r] \notin {0, 1} =>
       \/ \E c \in Clients : <<"ref.update", c, <<r, tips[r]>>>> \in trail
       \/ \E t \in tasks : t.op = "put_ref" /\ t.pc = "log" /\ EventOf(t).what = <<r, tips[r]>>

\* A local ref names a commit that is there, also after a pull that was cut
\* short, truncated or raced by a publisher.
LocalTipsResolve ==
  \A c \in Clients, r \in RefNames : heads[c][r] # 0 => heads[c][r] \in objs[c]

\* Every run ends: a pull that is answered in pieces stops asking, and no two
\* runs keep each other going.
RunsEnd == []<>(\A c \in Clients : run[c].what = "idle")

\* A local branch never loses a commit to a pull.
NeverSilentlyPicked ==
  [][\A c \in Clients : LET h == heads[c][RefOrder[1]] IN
        heads'[c][RefOrder[1]] # h =>
          h \in Shared!Lineage(Parents(commits'), heads'[c][RefOrder[1]])]_vars
===============================================================================
