--------------------------- MODULE SyncProtocolProofs ---------------------------
(***************************************************************************)
(* Proofs about SyncProtocol, for any number of clients, refs, commits and *)
(* runs, with runs abandoned anywhere: the shared refs move forward along  *)
(* the history (a refinement of SharedRefs), protected ones only with      *)
(* authorization, commits at the server are attributable, local refs       *)
(* resolve.  And about ControlPlaneAdmin, for any requests in any overlap: *)
(* the audit chain is complete and true about who acted.                   *)
(***************************************************************************)
EXTENDS SyncProtocol, ControlPlaneAdmin, TLAPS, WellFoundedInduction

-------------------------------------------------------------------------------
(* The inductive invariant.  Its parts are relations between values, so    *)
(* that they can be carried from one state to the next by lemmas.          *)

CommitRecord == [parent : Nat, tree : Trees, signer : Clients]

\* A history: every parent is older than its child.
History(cs) ==
  /\ cs \in Seq(CommitRecord) /\ Len(cs) > 0
  /\ \A n \in 1..Len(cs) : cs[n].parent \in 0..(n - 1) /\ n \notin Trees

Ids(cs) == Trees \cup (1..Len(cs))
RefMap(cs) == [RefNames -> 0..Len(cs)]

\* Objects whose commits were signed by devices of ds.
Signed(cs, ds, S) == /\ S \subseteq Ids(cs)
                     /\ \A n \in S \cap (1..Len(cs)) : cs[n].signer \in ds

Kind == {"idle", "push", "pull", "sync"}
Phase == {"none", "push", "pull"}
Place == {"none", "probe", "probed", "upload", "uploading", "publish", "putting", "apply",
          "refs", "write", "policies"}
ReplyRecord == [keys : SUBSET Clients, ids : SUBSET Nat, refs : [RefNames -> Nat]]
RunRecord ==
  [what : Kind, phase : Phase, pc : Place, auth : BOOLEAN, left : SUBSET Nat,
   missing : SUBSET Nat, truncated : BOOLEAN,
   reply : ReplyRecord,
   todo : SUBSET Nat, plan : [RefNames -> Nat], at : Nat, conflicts : SUBSET RefNames]

\* What a run holds is real: objects the server offered, uploads the server can
\* attribute, refs of the history; and a local ref is about to be written only
\* with a commit that is there.
RunOK(r, cs, ds, st, ob) ==
  /\ r \in RunRecord
  /\ r.what = "idle" <=> r.pc = "none"
  /\ r.missing \subseteq st
  /\ Signed(cs, ds, r.todo)
  /\ r.reply.refs \in RefMap(cs) /\ r.plan \in RefMap(cs)
  /\ r.pc \in {"publish", "putting", "write"} => r.at \in 1..Len(RefOrder)
  /\ r.pc = "refs" => r.at > 0
  /\ r.pc = "write" => r.reply.refs[RefOrder[r.at]] \in ob

Succeeded(t) == t.pc = "done" /\ t.held.status = 200

\* A probe: its device is registered before anything else is read.
ProbeOK(t, cs, ds, st) ==
  /\ t.pc \in {"recv", "list", "refs", "done"}
  /\ t.body.device \in Clients
  /\ t.from \in Clients => t.body.device = t.from
  /\ t.pc \in {"list", "refs"} \/ Succeeded(t) => t.body.device \in ds /\ t.held.keys \subseteq Clients
  /\ t.pc = "refs" \/ Succeeded(t) => /\ t.held.ids \subseteq st /\ t.held.missing \subseteq st
                                      /\ t.held.truncated \in BOOLEAN
  /\ Succeeded(t) => t.held.refs \in RefMap(cs)

\* An upload: of objects the server can attribute.
UploadOK(t, cs, ds) ==
  /\ t.pc \in {"recv", "store", "log", "done"}
  /\ Signed(cs, ds, t.body.entries)
  /\ t.pc = "store" =>
       /\ t.held = [status |-> 200, stored |-> t.held.stored, left |-> t.held.left]
       /\ t.held.left \subseteq t.body.entries /\ t.held.left # {}

\* A publication: of a descendant of its base; and where the protection check
\* let it through without authorization, the ref has passed the base already.
PublishOK(t, cs, tp) ==
  /\ t.pc \in {"recv", "swap", "log", "done"}
  /\ t.token.subject \in Clients
  /\ t.body.ref \in RefNames /\ t.body.commit \in 1..Len(cs)
  /\ t.body.base \in 0..(t.body.commit - 1)
  /\ t.body.base = 0 \/ t.body.base \in Shared!Lineage(Parents(cs), t.body.commit)
  /\ t.pc = "swap" /\ t.body.ref \in EnvironmentRefs \cap ProtectedRefs /\ ~t.body.authorized
       => tp[t.body.ref] >= t.body.commit

TaskOK(t, cs, ds, st, tp) ==
  /\ DOMAIN t = {"from", "op", "token", "body", "pc", "held"}
  /\ t.from \in Clients \cup {None}
  /\ \/ t.op = "query_missing" /\ ProbeOK(t, cs, ds, st)
     \/ t.op = "batch_objects" /\ UploadOK(t, cs, ds)
     \/ t.op = "put_ref" /\ PublishOK(t, cs, tp)
     \/ t.op = "list_policies" /\ t.pc \in {"recv", "done"}

\* The request a run is waiting for.
Awaits(r, op) ==
  \/ r.pc = "probed" /\ op = "query_missing"
  \/ r.pc = "uploading" /\ op = "batch_objects"
  \/ r.pc = "putting" /\ op = "put_ref"
  \/ r.pc = "policies" /\ op = "list_policies"

TypeInv ==
  /\ History(commits)
  /\ heads \in [Clients -> RefMap(commits)] /\ tips \in RefMap(commits)
  /\ DOMAIN devices \subseteq Clients
  /\ objs \in [Clients -> SUBSET Ids(commits)]
  /\ run \in [Clients -> RunRecord]

StoreInv == Signed(commits, DOMAIN devices, store)
ObjsInv == \A c \in Clients : Signed(commits, DOMAIN devices \cup {c}, objs[c])
RunsInv == \A c \in Clients : RunOK(run[c], commits, DOMAIN devices, store, objs[c])
TasksInv == \A t \in tasks : TaskOK(t, commits, DOMAIN devices, store, tips)

\* A run has at most one request outstanding, the one it waits for.
Paired ==
  /\ \A t \in tasks : t.from \in Clients => Awaits(run[t.from], t.op)
  /\ \A t, u \in tasks : t.from \in Clients /\ t.from = u.from => t = u

\* The commit a shared ref names has its event, or its handler is about to
\* append it.
Published ==
  \A r \in RefNames : tips[r] \notin {0, 1} =>
    \/ \E c \in Clients : <<"ref.update", c, <<r, tips[r]>>>> \in trail
    \/ \E t \in tasks : t.op = "put_ref" /\ t.pc = "log" /\ t.body.ref = r /\ t.body.commit = tips[r]

IInv == /\ TypeInv /\ StoreInv /\ ObjsInv /\ RunsInv /\ TasksInv /\ Paired
        /\ LocalTipsResolve /\ Published

-------------------------------------------------------------------------------
(* Lemmas about the operators.                                             *)

\* A set of ids that is not empty has a least member, and Least is in it.
LEMMA LeastIn ==
  ASSUME NEW S \in SUBSET Nat, S # {}
  PROVE  Least(S) \in S
<1>1. PICK n \in S : \A m \in S : <<m, n>> \notin OpToRel(<, Nat)
  BY NatLessThanWellFounded, WFMin
<1>2. \A m \in S : ~(m < n)
  BY <1>1 DEF OpToRel
<1>3. n \in S /\ \A m \in S : n <= m
  BY <1>2
<1> QED BY <1>3 DEF Least

\* The first n of a set are of the set.
LEMMA FirstOfSubset ==
  ASSUME NEW S, NEW n
  PROVE  FirstOf(S, n) \subseteq S
BY DEF FirstOf

\* The shape of a history.
LEMMA HistoryFacts ==
  ASSUME NEW cs, History(cs)
  PROVE  /\ Len(cs) \in Nat \ {0}
         /\ \A n \in 1..Len(cs) : /\ cs[n] \in CommitRecord /\ cs[n].parent \in 0..(n - 1)
                                  /\ cs[n].signer \in Clients /\ n \notin Trees
<1> DEFINE R == CommitRecord
<1>1. cs \in Seq(R) /\ Len(cs) > 0
  BY DEF History
<1> HIDE DEF R
<1>2. Len(cs) \in Nat \ {0} /\ \A n \in 1..Len(cs) : cs[n] \in R
  BY <1>1
<1>3. \A n \in 1..Len(cs) : cs[n].signer \in Clients
  BY <1>2 DEF R, CommitRecord
<1> QED BY <1>2, <1>3 DEF History, R

\* Later histories extend earlier ones.
Extends(cs, ds) == /\ History(cs) /\ History(ds) /\ Len(cs) <= Len(ds)
                   /\ \A n \in 1..Len(cs) : ds[n] = cs[n]

\* A history extends itself.
LEMMA ExtendsItself ==
  ASSUME NEW cs, History(cs)
  PROVE  Extends(cs, cs)
BY HistoryFacts DEF Extends

\* A commit's lineage is settled when it is made.
LEMMA LineageKept ==
  ASSUME NEW cs, NEW ds, Extends(cs, ds), NEW n \in 1..Len(cs)
  PROVE  Shared!Lineage(Parents(ds), n) = Shared!Lineage(Parents(cs), n)
<1>1. Len(cs) \in Nat /\ Len(ds) \in Nat /\ Len(cs) <= Len(ds)
  BY HistoryFacts DEF Extends
<1>2. \A m \in 1..Len(cs) : Parents(ds)[m] = Parents(cs)[m]
  BY <1>1 DEF Parents, Extends
<1>3. ASSUME NEW S \in SUBSET (0..n)
      PROVE  Shared!ParentClosed(Parents(ds), S) <=> Shared!ParentClosed(Parents(cs), S)
  <2>1. \A m \in S \ {0} : m \in 1..Len(cs)
    BY <1>1, <1>3
  <2> QED BY <1>2, <2>1 DEF Shared!ParentClosed
<1> QED BY <1>3 DEF Shared!Lineage

\* What the walk through the commits at hand finds is an ancestor.
LEMMA WalkFindsAncestors ==
  ASSUME History(commits), NEW c, NEW a, NEW d \in 1..Len(commits), is_ancestor_or_equal(c, a, d)
  PROVE  a \in Shared!Lineage(Parents(commits), d)
<1>1. Len(commits) \in Nat /\ \A n \in 1..Len(commits) : commits[n].parent \in 0..(n - 1)
  BY HistoryFacts
<1>2. a \in 0..d
  <2>1. FollowsKnown(c, 0..d)
    BY <1>1 DEF FollowsKnown
  <2> QED BY <2>1, <1>1 DEF is_ancestor_or_equal
<1>3. ASSUME NEW S \in SUBSET (0..d), d \in S, Shared!ParentClosed(Parents(commits), S)
      PROVE  a \in S
  <2>1. \A n \in S \ {0} : n \in 1..Len(commits)
    BY <1>1
  <2>2. FollowsKnown(c, S)
    BY <1>3, <2>1 DEF FollowsKnown, Shared!ParentClosed, Parents
  <2> QED BY <1>3, <2>2 DEF is_ancestor_or_equal
<1> QED BY <1>2, <1>3 DEF Shared!Lineage

\* Signatures stay attributable.
LEMMA SignedKept ==
  ASSUME NEW cs, NEW ds, Extends(cs, ds), NEW D, NEW E, D \subseteq E, NEW S, Signed(cs, D, S)
  PROVE  Signed(ds, E, S)
<1>1. Len(cs) \in Nat /\ Len(ds) \in Nat /\ Len(cs) <= Len(ds)
  BY HistoryFacts DEF Extends
<1>2. Ids(cs) \subseteq Ids(ds)
  BY <1>1 DEF Ids
<1>3. ASSUME NEW n \in S \cap (1..Len(ds)) PROVE n \in 1..Len(cs)
  BY <1>1 DEF Signed, Ids, Extends, History
<1> QED BY <1>1, <1>2, <1>3 DEF Signed, Extends

\* A map of refs into a history is one into each longer history.
LEMMA RefMapKept ==
  ASSUME NEW cs, NEW ds, Extends(cs, ds)
  PROVE  RefMap(cs) \subseteq RefMap(ds)
<1>1. Len(cs) \in Nat /\ Len(ds) \in Nat /\ Len(cs) <= Len(ds)
  BY HistoryFacts DEF Extends
<1> QED BY <1>1 DEF RefMap

\* What a run holds stays real while history, devices, the store and the
\* working copy grow.
LEMMA RunKept ==
  ASSUME NEW cs, NEW ds, Extends(cs, ds), NEW D, NEW E, D \subseteq E, NEW st, NEW su, st \subseteq su,
         NEW ob, NEW oc, ob \subseteq oc, NEW r, RunOK(r, cs, D, st, ob)
  PROVE  RunOK(r, ds, E, su, oc)
<1>1. Signed(ds, E, r.todo)
  BY SignedKept DEF RunOK
<1>2. RefMap(cs) \subseteq RefMap(ds)
  BY RefMapKept
<1> QED BY <1>1, <1>2 DEF RunOK

\* A handler's assumptions stay true while history, devices and the store grow
\* and the shared refs move forward.
LEMMA TaskKept ==
  ASSUME NEW cs, NEW ds, Extends(cs, ds), NEW D, NEW E, D \subseteq E, NEW st, NEW su, st \subseteq su,
         NEW tp \in RefMap(cs), NEW tq \in RefMap(ds), \A r \in RefNames : tp[r] <= tq[r],
         NEW t, TaskOK(t, cs, D, st, tp)
  PROVE  TaskOK(t, ds, E, su, tq)
<1>1. Len(cs) \in Nat /\ Len(ds) \in Nat /\ Len(cs) <= Len(ds)
  BY HistoryFacts DEF Extends
<1>2. RefMap(cs) \subseteq RefMap(ds)
  BY RefMapKept
<1>3. ASSUME ProbeOK(t, cs, D, st) PROVE ProbeOK(t, ds, E, su)
  BY <1>2, <1>3 DEF ProbeOK
<1>4. ASSUME UploadOK(t, cs, D) PROVE UploadOK(t, ds, E)
  BY <1>4, SignedKept DEF UploadOK
<1>5. ASSUME PublishOK(t, cs, tp) PROVE PublishOK(t, ds, tq)
  <2>1. Shared!Lineage(Parents(ds), t.body.commit) = Shared!Lineage(Parents(cs), t.body.commit)
    BY <1>5, LineageKept DEF PublishOK
  <2>2. t.body.commit \in 1..Len(ds) /\ t.body.commit \in Nat
    BY <1>1, <1>5 DEF PublishOK
  <2>3. t.body.ref \in RefNames /\ tp[t.body.ref] \in Nat /\ tq[t.body.ref] \in Nat
        /\ tp[t.body.ref] <= tq[t.body.ref]
    BY <1>1, <1>5 DEF PublishOK, RefMap
  <2> QED BY <1>5, <2>1, <2>2, <2>3 DEF PublishOK
<1> QED BY <1>3, <1>4, <1>5 DEF TaskOK

-------------------------------------------------------------------------------
(* Steps, by what they do to runs and to requests.                         *)

Waiting == {"probed", "uploading", "putting", "policies"}

\* A run that waits for nothing has no request outstanding.
LEMMA NothingOutstanding ==
  ASSUME Paired, NEW c \in Clients, run[c].pc \notin Waiting
  PROVE  \A t \in tasks : t.from # c
BY DEF Paired, Awaits, Waiting

\* A run goes on, and requests and refs stay.
LEMMA PairedQuiet ==
  ASSUME Paired, run \in [Clients -> RunRecord], NEW c \in Clients, run[c].pc \notin Waiting,
         NEW r, Step(c, r), UNCHANGED tasks
  PROVE  Paired'
<1>1. \A t \in tasks : t.from # c
  BY NothingOutstanding
<1>2. \A d \in Clients : d # c => run'[d] = run[d]
  BY DEF Step
<1>3. \A t \in tasks' : t.from \in Clients => Awaits(run'[t.from], t.op)
  BY <1>1, <1>2 DEF Paired
<1> QED BY <1>3 DEF Paired

\* A run sends a request and waits for it.
LEMMA PairedSend ==
  ASSUME Paired, run \in [Clients -> RunRecord], NEW c \in Clients, run[c].pc \notin Waiting,
         NEW r, Step(c, r), NEW op, NEW body, Send(c, op, body), Awaits(r, op)
  PROVE  Paired'
<1>1. \A t \in tasks : t.from # c
  BY NothingOutstanding
<1>2. run'[c] = r /\ \A d \in Clients : d # c => run'[d] = run[d]
  BY DEF Step
<1>3. PICK u : u = Task(c, op, Login(c), body)
  OBVIOUS
<1>4. tasks' = tasks \cup {u} /\ u.from = c /\ u.op = op
  BY <1>3 DEF Send, Task
<1>5. \A t \in tasks' : t.from \in Clients => Awaits(run'[t.from], t.op)
  BY <1>1, <1>2, <1>4 DEF Paired
<1>6. \A t, v \in tasks' : t.from \in Clients /\ t.from = v.from => t = v
  BY <1>1, <1>4 DEF Paired
<1> QED BY <1>5, <1>6 DEF Paired

\* A run reads its answer and goes on.
LEMMA PairedConsume ==
  ASSUME Paired, run \in [Clients -> RunRecord], NEW c \in Clients, NEW t \in Answered(c),
         NEW r, Step(c, r), Consume(t)
  PROVE  Paired'
<1>1. t \in tasks /\ t.from = c
  BY DEF Answered, Outstanding
<1>2. \A d \in Clients : d # c => run'[d] = run[d]
  BY DEF Step
<1>3. tasks' = tasks \ {t}
  BY DEF Consume
<1>4. \A u \in tasks' : u.from # c
  BY <1>1, <1>3 DEF Paired
<1>5. \A u \in tasks' : u.from \in Clients => Awaits(run'[u.from], u.op)
  BY <1>2, <1>3, <1>4 DEF Paired
<1> QED BY <1>3, <1>5 DEF Paired

\* The shared state grows.
Grows == /\ Extends(commits, commits') /\ DOMAIN devices \subseteq DOMAIN devices'
         /\ store \subseteq store' /\ trail \subseteq trail'
         /\ tips \in RefMap(commits) /\ tips' \in RefMap(commits')
         /\ \A r \in RefNames : tips[r] <= tips'[r]

\* Leaving the shared state alone lets it grow by nothing.
LEMMA GrowsUnchanged ==
  ASSUME TypeInv, UNCHANGED <<commits, devices, store, trail, tips>>
  PROVE  Grows
<1>1. Extends(commits, commits')
  BY ExtendsItself DEF TypeInv
<1>2. tips \in RefMap(commits) /\ \A r \in RefNames : tips[r] \in Nat
  BY HistoryFacts DEF TypeInv, RefMap
<1> QED BY <1>1, <1>2 DEF Grows

\* Handlers that are not touched keep what they rely on.
LEMMA TasksKept ==
  ASSUME TasksInv, Grows, NEW t \in tasks
  PROVE  TaskOK(t, commits', DOMAIN devices', store', tips')
<1>1. TaskOK(t, commits, DOMAIN devices, store, tips)
  BY DEF TasksInv
<1> QED BY <1>1, TaskKept DEF Grows

\* Runs: one of them goes on, the others keep what they rely on.
LEMMA RunsKept ==
  ASSUME TypeInv, RunsInv, Grows, NEW c \in Clients, NEW r, Step(c, r),
         RunOK(r, commits', DOMAIN devices', store', objs'[c]),
         \A d \in Clients : objs[d] \subseteq objs'[d]
  PROVE  RunsInv' /\ run' \in [Clients -> RunRecord]
<1>1. run \in [Clients -> RunRecord]
  BY DEF TypeInv
<1>2. run' \in [Clients -> RunRecord] /\ run'[c] = r /\ \A d \in Clients : d # c => run'[d] = run[d]
  BY <1>1 DEF Step, RunOK
<1>3. ASSUME NEW d \in Clients, d # c
      PROVE  RunOK(run[d], commits', DOMAIN devices', store', objs'[d])
  <2>1. RunOK(run[d], commits, DOMAIN devices, store, objs[d])
    BY DEF RunsInv
  <2> QED BY <2>1, RunKept DEF Grows
<1> QED BY <1>2, <1>3 DEF RunsInv

\* Events stay, and a handler about to append one stays until it has.
LEMMA PublishedKept ==
  ASSUME Published, UNCHANGED tips, trail \subseteq trail',
         \A t \in tasks : t.op = "put_ref" /\ t.pc = "log" =>
           \E u \in tasks' : u.op = "put_ref" /\ u.pc = "log" /\ u.body = t.body
  PROVE  Published'
<1> SUFFICES ASSUME NEW r \in RefNames, tips[r] \notin {0, 1}
             PROVE  \/ \E c \in Clients : <<"ref.update", c, <<r, tips[r]>>>> \in trail'
                    \/ \E t \in tasks' : t.op = "put_ref" /\ t.pc = "log" /\ t.body.ref = r
                                         /\ t.body.commit = tips[r]
  BY DEF Published
<1>1. CASE \E c \in Clients : <<"ref.update", c, <<r, tips[r]>>>> \in trail
  BY <1>1
<1>2. CASE \E t \in tasks : t.op = "put_ref" /\ t.pc = "log" /\ t.body.ref = r
                            /\ t.body.commit = tips[r]
  BY <1>2
<1> QED BY <1>1, <1>2 DEF Published

\* A client's step that only moves its run and its request.
LEMMA ClientMoves ==
  ASSUME IInv, NEW c \in Clients, NEW r, Step(c, r),
         RunOK(r, commits, DOMAIN devices, store, objs[c]),
         UNCHANGED <<devices, store, tips, trail, commits, objs, heads>>,
         Paired', \A t \in tasks' : t \in tasks \/ TaskOK(t, commits, DOMAIN devices, store, tips),
         \A t \in tasks : t.pc # "done" => t \in tasks'
  PROVE  IInv'
<1>1. Grows
  BY GrowsUnchanged DEF IInv
<1>2. RunsInv' /\ run' \in [Clients -> RunRecord]
  BY <1>1, RunsKept DEF IInv
<1>3. TasksInv'
  BY DEF IInv, TasksInv
<1>4. Published'
  <2>1. \A t \in tasks : t.op = "put_ref" /\ t.pc = "log" => t \in tasks'
    OBVIOUS
  <2> QED BY <2>1, PublishedKept DEF IInv
<1>5. TypeInv' /\ StoreInv' /\ ObjsInv' /\ LocalTipsResolve'
  BY <1>2 DEF IInv, TypeInv, StoreInv, ObjsInv, LocalTipsResolve
<1> QED BY <1>2, <1>3, <1>4, <1>5 DEF IInv

-------------------------------------------------------------------------------
(* What runs hold.                                                         *)

\* The shape of a run.
LEMMA RunFields ==
  ASSUME NEW r \in RunRecord
  PROVE  /\ r.what \in Kind /\ r.phase \in Phase /\ r.pc \in Place /\ r.auth \in BOOLEAN
         /\ r.left \in SUBSET Nat /\ r.missing \in SUBSET Nat /\ r.truncated \in BOOLEAN
         /\ r.reply \in ReplyRecord
         /\ r.todo \in SUBSET Nat /\ r.plan \in [RefNames -> Nat] /\ r.at \in Nat
         /\ r.conflicts \in SUBSET RefNames
BY DEF RunRecord

\* The commits of a history are numbered from 1.
LEMMA IdsAreNumbers ==
  ASSUME NEW cs, History(cs)
  PROVE  Ids(cs) \subseteq Nat
<1>1. Len(cs) \in Nat
  BY HistoryFacts
<1>2. 1..Len(cs) \subseteq Nat
  BY <1>1
<1> QED BY <1>2, TreesAreIds DEF Ids

\* A fresh run, and a run that has come to an end, hold nothing.
LEMMA IdleOK ==
  ASSUME NEW cs, History(cs), NEW D, NEW st, NEW ob
  PROVE  RunOK(Idle, cs, D, st, ob) /\ Idle.pc = "none"
<1>1. Len(cs) \in Nat
  BY HistoryFacts
<1>2. [r \in RefNames |-> 0] \in RefMap(cs)
  BY <1>1 DEF RefMap
<1>3. Idle \in RunRecord
  <2>1. NoReply \in ReplyRecord /\ NoReply.refs \in [RefNames -> Nat]
    BY DEF NoReply, ReplyRecord
  <2> QED BY <2>1 DEF Idle, RunRecord, Kind, Phase, Place
<1>4. Idle.what = "idle" /\ Idle.missing = {} /\ Idle.todo = {} /\ Idle.pc = "none"
      /\ Idle.reply.refs = [r \in RefNames |-> 0] /\ Idle.plan = [r \in RefNames |-> 0]
  BY DEF Idle, NoReply
<1> QED BY <1>2, <1>3, <1>4 DEF RunOK, Signed

\* A client that looks for the next missing commit stays well-formed.
LEMMA ProbingOK ==
  ASSUME TypeInv, NEW c \in Clients, NEW r \in RunRecord, r.what # "idle", NEW phase \in Phase,
         NEW D, NEW st, NEW ob
  PROVE  RunOK(Probing(c, r, phase), commits, D, st, ob) /\ Probing(c, r, phase).pc = "probe"
<1>1. PICK p : p = Probing(c, r, phase)
  OBVIOUS
<1>2. objs[c] \in SUBSET Nat
  BY IdsAreNumbers DEF TypeInv
<1>3. r.what \in Kind /\ r.auth \in BOOLEAN /\ r.conflicts \in SUBSET RefNames
  BY RunFields
<1>4. p \in RunRecord
  BY <1>1, <1>2, <1>3, IdleOK DEF Probing, RunRecord, RunOK, TypeInv, Place
<1>5. p.what = r.what /\ p.missing = {} /\ p.todo = {} /\ p.pc = "probe"
      /\ p.reply.refs = [x \in RefNames |-> 0] /\ p.plan = [x \in RefNames |-> 0]
  BY <1>1 DEF Probing, Idle, NoReply
<1>6. [x \in RefNames |-> 0] \in RefMap(commits)
  BY HistoryFacts DEF RefMap, TypeInv
<1> QED BY <1>1, <1>4, <1>5, <1>6 DEF RunOK, Signed

\* A run that moves to another place among the refs, and may note a conflict,
\* keeps what it holds.
LEMMA MovedOK ==
  ASSUME NEW cs, NEW D, NEW st, NEW ob, NEW r, RunOK(r, cs, D, st, ob),
         NEW pc \in Place \ {"none"}, r.pc # "none",
         NEW at \in Nat, NEW k \in SUBSET RefNames,
         pc \in {"publish", "putting", "write"} => at \in 1..Len(RefOrder),
         pc = "refs" => at > 0,
         pc = "write" => r.reply.refs[RefOrder[at]] \in ob
  PROVE  RunOK([r EXCEPT !.pc = pc, !.at = at, !.conflicts = k], cs, D, st, ob)
<1>1. PICK q : q = [r EXCEPT !.pc = pc, !.at = at, !.conflicts = k]
  OBVIOUS
<1>2. r \in RunRecord
  BY DEF RunOK
<1>3. q \in RunRecord
  BY <1>1, <1>2 DEF RunRecord
<1>4. /\ q.what = r.what /\ q.pc = pc /\ q.at = at /\ q.missing = r.missing /\ q.todo = r.todo
      /\ q.reply = r.reply /\ q.plan = r.plan
  BY <1>1, <1>2 DEF RunRecord
<1>5. /\ q.pc \in {"publish", "putting", "write"} => q.at \in 1..Len(RefOrder)
      /\ q.pc = "refs" => q.at > 0
      /\ q.pc = "write" => q.reply.refs[RefOrder[q.at]] \in ob
  BY <1>4
<1>6. /\ q.what # "idle" /\ q.pc # "none" /\ q.missing \subseteq st /\ Signed(cs, D, q.todo)
      /\ q.reply.refs \in RefMap(cs) /\ q.plan \in RefMap(cs)
  BY <1>4 DEF RunOK
<1>7. RunOK(q, cs, D, st, ob)
  BY <1>3, <1>5, <1>6 DEF RunOK
<1> QED BY <1>1, <1>7

\* Going on to the next ref.
LEMMA NextRefOK ==
  ASSUME TypeInv, NEW c \in Clients, NEW D, NEW st, NEW ob,
         NEW r, RunOK(r, commits, D, st, ob), r.pc = "publish"
  PROVE  RunOK(NextRef(c, r), commits, D, st, ob)
<1>1. r \in RunRecord /\ r.at \in 1..Len(RefOrder) /\ Len(RefOrder) \in Nat
  BY RefOrderLists DEF RunOK
<1>2. CASE r.at < Len(RefOrder)
  <2>1. r.at + 1 \in 1..Len(RefOrder) /\ r.at + 1 \in Nat /\ r.conflicts \in SUBSET RefNames
    BY <1>1, <1>2, RunFields
  <2> "publish" \in Place \ {"none"}
    BY DEF Place
  <2>2. RunOK([r EXCEPT !.pc = "publish", !.at = r.at + 1, !.conflicts = r.conflicts], commits, D, st, ob)
    BY <2>1, MovedOK
  <2>3. [r EXCEPT !.pc = "publish", !.at = r.at + 1, !.conflicts = r.conflicts] = [r EXCEPT !.at = @ + 1]
    BY <1>1 DEF RunRecord
  <2> QED BY <1>2, <2>2, <2>3 DEF NextRef
<1>3. CASE ~(r.at < Len(RefOrder)) /\ r.what = "sync"
  BY <1>1, <1>3, ProbingOK DEF NextRef, Phase
<1>4. CASE ~(r.at < Len(RefOrder)) /\ r.what # "sync"
  BY <1>4, IdleOK DEF NextRef, TypeInv
<1> QED BY <1>2, <1>3, <1>4

-------------------------------------------------------------------------------
(* The client's steps.                                                     *)

\* The parts of the invariant for one run.
LEMMA RunHolds ==
  ASSUME IInv, NEW c \in Clients
  PROVE  /\ RunOK(run[c], commits, DOMAIN devices, store, objs[c]) /\ run[c] \in RunRecord
         /\ History(commits) /\ run \in [Clients -> RunRecord]
BY DEF IInv, TypeInv, RunsInv

\* What a request consists of when it is sent.
LEMMA NewTask ==
  ASSUME NEW c, NEW op, NEW body, NEW t, t = Task(c, op, Login(c), body)
  PROVE  /\ DOMAIN t = {"from", "op", "token", "body", "pc", "held"}
         /\ t.from = c /\ t.op = op /\ t.token.subject = c /\ t.body = body /\ t.pc = "recv"
BY DEF Task, Login, Token

\* A run goes on by itself.
LEMMA QuietMove ==
  ASSUME IInv, NEW c \in Clients, run[c].pc \notin Waiting, NEW r, Step(c, r),
         RunOK(r, commits, DOMAIN devices, store, objs[c]),
         UNCHANGED <<cpVars, commits, objs, heads>>
  PROVE  IInv'
<1>1. UNCHANGED <<devices, store, tips, trail, tasks, commits, objs, heads>>
  BY DEF cpVars
<1>2. Paired'
  BY <1>1, RunHolds, PairedQuiet DEF IInv
<1> QED BY <1>1, <1>2, ClientMoves

\* A run sends a request.
LEMMA SendMove ==
  ASSUME IInv, NEW c \in Clients, run[c].pc \notin Waiting, NEW r, Step(c, r),
         NEW op, NEW body, Send(c, op, body), Awaits(r, op),
         RunOK(r, commits, DOMAIN devices, store, objs[c]),
         TaskOK(Task(c, op, Login(c), body), commits, DOMAIN devices, store, tips),
         UNCHANGED <<devices, store, tips, trail, commits, objs, heads>>
  PROVE  IInv'
<1>1. Paired'
  BY RunHolds, PairedSend DEF IInv
<1>2. tasks' = tasks \cup {Task(c, op, Login(c), body)}
  BY DEF Send
<1>3. /\ \A t \in tasks' : t \in tasks \/ TaskOK(t, commits, DOMAIN devices, store, tips)
      /\ \A t \in tasks : t.pc # "done" => t \in tasks'
  BY <1>2
<1> QED BY <1>1, <1>3, ClientMoves

\* A run reads its answer.
LEMMA ConsumeMove ==
  ASSUME IInv, NEW c \in Clients, NEW t \in Answered(c), Consume(t), NEW r, Step(c, r),
         RunOK(r, commits, DOMAIN devices, store, objs[c]),
         UNCHANGED <<devices, store, tips, trail, commits, objs, heads>>
  PROVE  IInv'
<1>1. Paired'
  BY RunHolds, PairedConsume DEF IInv
<1>2. tasks' = tasks \ {t} /\ t.pc = "done"
  BY DEF Consume, Answered
<1>3. /\ \A u \in tasks' : u \in tasks \/ TaskOK(u, commits, DOMAIN devices, store, tips)
      /\ \A u \in tasks : u.pc # "done" => u \in tasks'
  BY <1>2
<1> QED BY <1>1, <1>3, ClientMoves

\* The answer a run reads is to the request it waits for.
LEMMA AnswerFits ==
  ASSUME IInv, NEW c \in Clients, NEW t \in Answered(c)
  PROVE  /\ t \in tasks /\ t.from = c /\ t.pc = "done" /\ Awaits(run[c], t.op)
         /\ TaskOK(t, commits, DOMAIN devices, store, tips)
BY DEF IInv, Answered, Outstanding, Paired, TasksInv

\* The action Begin keeps the invariant.
LEMMA BeginSafe ==
  ASSUME IInv, NEW c \in Clients, NEW cmd \in Commands[c], Begin(c, cmd)
  PROVE  IInv'
<1> DEFINE q == [Idle EXCEPT !.what = cmd.what, !.auth = cmd.auth]
           phase == IF cmd.what = "pull" THEN "pull" ELSE "push"
<1>1. cmd.what \in {"push", "pull", "sync"} /\ cmd.auth \in BOOLEAN
  BY CommandsAreRuns
<1>2. Idle \in RunRecord
  BY RunHolds, IdleOK DEF RunOK
<1>3. q \in RunRecord /\ q.what # "idle" /\ phase \in Phase
  BY <1>1, <1>2 DEF RunRecord, Kind, Phase
<1>4. RunOK(Probing(c, q, phase), commits, DOMAIN devices, store, objs[c])
  BY <1>3, ProbingOK DEF IInv
<1>5. run[c].pc \notin Waiting
  BY RunHolds DEF Begin, RunOK, Waiting
<1> QED BY <1>4, <1>5, QuietMove DEF Begin

\* The action Probe keeps the invariant.
LEMMA ProbeSafe ==
  ASSUME IInv, NEW c \in Clients, Probe(c)
  PROVE  IInv'
<1> DEFINE chunk == FirstOf(run[c].left, ProbeChunk)
           body == [project |-> "project", device |-> c, attested |-> TRUE, known |-> chunk]
           r == [run[c] EXCEPT !.pc = "probed", !.left = @ \ chunk]
<1>1. r \in RunRecord /\ r.what = run[c].what /\ r.pc = "probed" /\ r.missing = run[c].missing /\ r.todo = run[c].todo
      /\ r.reply = run[c].reply /\ r.plan = run[c].plan
  <2>1. run[c] \in RunRecord /\ run[c].left \ chunk \in SUBSET Nat
    BY RunHolds, RunFields
  <2> HIDE DEF chunk
  <2> QED BY <2>1 DEF RunRecord, Place
<1>2. RunOK(r, commits, DOMAIN devices, store, objs[c])
  <2>1. run[c].pc # "none"
    BY DEF Probe, At
  <2> HIDE DEF r
  <2> QED BY <1>1, <2>1, RunHolds DEF RunOK
<1>3. TaskOK(Task(c, "query_missing", Login(c), body), commits, DOMAIN devices, store, tips)
  <2>1. PICK t : t = Task(c, "query_missing", Login(c), body)
    OBVIOUS
  <2>2. t.body.device = c
    BY <2>1, NewTask
  <2> QED BY <2>1, <2>2, NewTask DEF TaskOK, ProbeOK, Succeeded
<1>4. run[c].pc \notin Waiting /\ Awaits(r, "query_missing")
  BY <1>1 DEF Probe, At, Waiting, Awaits
<1>5. Send(c, "query_missing", body) /\ Step(c, r)
      /\ UNCHANGED <<devices, store, tips, trail, commits, objs, heads>>
  BY DEF Probe
<1> HIDE DEF r, body
<1> QED BY <1>2, <1>3, <1>4, <1>5, SendMove

\* The merged answer of a probe that succeeded.
LEMMA MergedOK ==
  ASSUME IInv, NEW c \in Clients, run[c].pc = "probed", NEW t \in Answered(c), t.held.status = 200
  PROVE  LET r == Merged(run[c], t.held) IN
         /\ RunOK(r, commits, DOMAIN devices, store, objs[c])
         /\ r.pc = "probed" /\ c \in DOMAIN devices
<1>1. ProbeOK(t, commits, DOMAIN devices, store) /\ t.from = c /\ Succeeded(t)
  BY AnswerFits DEF TaskOK, Awaits, Succeeded
<1>2. /\ t.held.keys \subseteq Clients /\ t.held.ids \subseteq store /\ t.held.missing \subseteq store
      /\ t.held.truncated \in BOOLEAN /\ t.held.refs \in RefMap(commits) /\ c \in DOMAIN devices
  BY <1>1 DEF ProbeOK
<1>3. store \subseteq Nat
  BY IdsAreNumbers DEF IInv, TypeInv, StoreInv, Signed
<1>4. t.held.refs \in [RefNames -> Nat]
  BY <1>2, HistoryFacts, RunHolds DEF RefMap
<1> DEFINE a == [keys |-> t.held.keys, ids |-> t.held.ids, refs |-> t.held.refs]
<1>5. a \in ReplyRecord /\ a.refs = t.held.refs
  BY <1>2, <1>3, <1>4 DEF ReplyRecord
<1> HIDE DEF a
<1>6. PICK r : r = Merged(run[c], t.held)
  OBVIOUS
<1>7. r = [run[c] EXCEPT !.missing = @ \cup t.held.missing, !.truncated = @ \/ t.held.truncated,
                         !.reply = a]
  BY <1>6 DEF Merged, a
<1>8. run[c] \in RunRecord /\ run[c].missing \subseteq store
      /\ run[c].truncated \in BOOLEAN /\ run[c].missing \cup t.held.missing \in SUBSET Nat
  BY <1>2, <1>3, RunHolds, RunFields DEF RunOK
<1>9. (run[c].truncated \/ t.held.truncated) \in BOOLEAN
  OBVIOUS
<1>10. /\ r.what = run[c].what /\ r.pc = run[c].pc /\ r.missing = run[c].missing \cup t.held.missing
       /\ r.todo = run[c].todo /\ r.reply = a /\ r.plan = run[c].plan
  BY <1>7, <1>8 DEF RunRecord
<1>11. r \in RunRecord
  BY <1>5, <1>7, <1>8, <1>9 DEF RunRecord
<1>12. RunOK(r, commits, DOMAIN devices, store, objs[c])
  BY <1>2, <1>5, <1>8, <1>10, <1>11, RunHolds DEF RunOK
<1> QED BY <1>2, <1>6, <1>10, <1>12

\* The action Probed keeps the invariant.
LEMMA ProbedSafe ==
  ASSUME IInv, NEW c \in Clients, Probed(c)
  PROVE  IInv'
<1>1. PICK t \in Answered(c) :
        /\ Consume(t)
        /\ LET r == Merged(run[c], t.held) IN
           Step(c, IF t.held.status # 200 THEN Idle
                   ELSE IF r.left # {} THEN [r EXCEPT !.pc = "probe"]
                   ELSE IF r.phase = "push"
                   THEN [r EXCEPT !.pc = "upload", !.todo = objs[c] \ r.reply.ids,
                                  !.missing = {}, !.truncated = FALSE,
                                  !.reply = [NoReply EXCEPT !.refs = r.reply.refs]]
                   ELSE IF Verified(r)
                   THEN [r EXCEPT !.pc = "apply", !.reply = [NoReply EXCEPT !.refs = r.reply.refs]]
                   ELSE Idle)
  BY DEF Probed
<1>2. UNCHANGED <<devices, store, tips, trail, commits, objs, heads>>
  BY DEF Probed
<1>3. RunOK(Idle, commits, DOMAIN devices, store, objs[c])
  BY IdleOK, RunHolds
<1>4. CASE t.held.status # 200
  BY <1>1, <1>2, <1>3, <1>4, ConsumeMove
<1>5. CASE t.held.status = 200
  <2>1. PICK r : r = Merged(run[c], t.held)
    OBVIOUS
  <2>2. RunOK(r, commits, DOMAIN devices, store, objs[c]) /\ r.pc = "probed" /\ c \in DOMAIN devices
    BY <1>5, <2>1, MergedOK DEF Probed, At
  <2>3. r \in RunRecord /\ r.reply \in ReplyRecord
    BY <2>2, RunFields DEF RunOK
  <2> DEFINE kept == [NoReply EXCEPT !.refs = r.reply.refs]
  <2>4. kept \in ReplyRecord /\ kept.refs = r.reply.refs
    BY <2>3 DEF ReplyRecord, NoReply
  <2> HIDE DEF kept
  <2>5. RunOK([r EXCEPT !.pc = "probe"], commits, DOMAIN devices, store, objs[c])
    <3>1. PICK q : q = [r EXCEPT !.pc = "probe"]
      OBVIOUS
    <3>2. q \in RunRecord /\ q.pc = "probe" /\ q.what = r.what /\ q.missing = r.missing
          /\ q.todo = r.todo /\ q.reply = r.reply /\ q.plan = r.plan
      BY <2>3, <3>1 DEF RunRecord, Place
    <3> QED BY <2>2, <3>1, <3>2 DEF RunOK
  <2>6. RunOK([r EXCEPT !.pc = "upload", !.todo = objs[c] \ r.reply.ids, !.missing = {},
                        !.truncated = FALSE, !.reply = kept], commits, DOMAIN devices, store, objs[c])
    <3>1. PICK q : q = [r EXCEPT !.pc = "upload", !.todo = objs[c] \ r.reply.ids, !.missing = {},
                                 !.truncated = FALSE, !.reply = kept]
      OBVIOUS
    <3>2. Signed(commits, DOMAIN devices, objs[c] \ r.reply.ids)
      BY <2>2 DEF IInv, ObjsInv, Signed
    <3>3. objs[c] \ r.reply.ids \in SUBSET Nat
      BY IdsAreNumbers DEF IInv, TypeInv
    <3>4. q \in RunRecord /\ q.pc = "upload" /\ q.what = r.what /\ q.missing = {}
          /\ q.todo = objs[c] \ r.reply.ids /\ q.reply = kept /\ q.plan = r.plan
      BY <2>3, <2>4, <3>1, <3>3 DEF RunRecord, Place
    <3> QED BY <2>2, <2>4, <3>1, <3>2, <3>4 DEF RunOK
  <2>7. RunOK([r EXCEPT !.pc = "apply", !.reply = kept], commits, DOMAIN devices, store, objs[c])
    <3>1. PICK q : q = [r EXCEPT !.pc = "apply", !.reply = kept]
      OBVIOUS
    <3>2. q \in RunRecord /\ q.pc = "apply" /\ q.what = r.what /\ q.missing = r.missing
          /\ q.todo = r.todo /\ q.reply = kept /\ q.plan = r.plan
      BY <2>3, <2>4, <3>1 DEF RunRecord, Place
    <3> QED BY <2>2, <2>4, <3>1, <3>2 DEF RunOK
  <2>8. \/ Step(c, [r EXCEPT !.pc = "probe"])
        \/ Step(c, [r EXCEPT !.pc = "upload", !.todo = objs[c] \ r.reply.ids, !.missing = {},
                             !.truncated = FALSE, !.reply = kept])
        \/ Step(c, [r EXCEPT !.pc = "apply", !.reply = kept])
        \/ Step(c, Idle)
    BY <1>1, <1>5, <2>1 DEF kept
  <2> QED BY <1>1, <1>2, <1>3, <2>5, <2>6, <2>7, <2>8, ConsumeMove
<1> QED BY <1>4, <1>5

\* The action UploadBatch keeps the invariant.
LEMMA UploadBatchSafe ==
  ASSUME IInv, NEW c \in Clients, UploadBatch(c)
  PROVE  IInv'
<1> DEFINE batch == FirstOf(run[c].todo, UploadMax)
           body == [project |-> "project", tampered |-> {}, entries |-> batch]
           r == [run[c] EXCEPT !.pc = "uploading"]
<1>1. r \in RunRecord /\ r.what = run[c].what /\ r.pc = "uploading" /\ r.missing = run[c].missing
      /\ r.todo = run[c].todo /\ r.reply = run[c].reply /\ r.plan = run[c].plan
  BY RunHolds DEF RunRecord, Place
<1>2. RunOK(r, commits, DOMAIN devices, store, objs[c])
  <2>1. run[c].pc # "none"
    BY DEF UploadBatch, At
  <2> HIDE DEF r
  <2> QED BY <1>1, <2>1, RunHolds DEF RunOK
<1>3. TaskOK(Task(c, "batch_objects", Login(c), body), commits, DOMAIN devices, store, tips)
  <2>1. PICK t : t = Task(c, "batch_objects", Login(c), body)
    OBVIOUS
  <2>2. t.body.entries = batch
    BY <2>1, NewTask
  <2>3. Signed(commits, DOMAIN devices, batch)
    BY FirstOfSubset, RunHolds DEF RunOK, Signed
  <2> QED BY <2>1, <2>2, <2>3, NewTask DEF TaskOK, UploadOK
<1>4. run[c].pc \notin Waiting /\ Awaits(r, "batch_objects")
  BY <1>1 DEF UploadBatch, At, Waiting, Awaits
<1>5. Send(c, "batch_objects", body) /\ Step(c, r)
      /\ UNCHANGED <<devices, store, tips, trail, commits, objs, heads>>
  BY DEF UploadBatch
<1> HIDE DEF r, body
<1> QED BY <1>2, <1>3, <1>4, <1>5, SendMove

\* Publication starts from the local refs as they are.
LEMMA PublishingOK ==
  ASSUME IInv, NEW c \in Clients, run[c].pc # "none"
  PROVE  RunOK(Publishing(c), commits, DOMAIN devices, store, objs[c])
<1>1. heads[c] \in RefMap(commits) /\ heads[c] \in [RefNames -> Nat]
  BY HistoryFacts DEF IInv, TypeInv, RefMap
<1>2. PICK q : q = Publishing(c)
  OBVIOUS
<1>3. q \in RunRecord /\ q.what = run[c].what /\ q.pc = "publish" /\ q.missing = run[c].missing
      /\ q.todo = {} /\ q.reply = run[c].reply /\ q.plan = heads[c] /\ q.at = 1
  BY <1>1, <1>2, RunHolds, ZenonT(40) DEF Publishing, RunRecord, Place
<1>4. 1 \in 1..Len(RefOrder)
  BY RefOrderLists
<1> QED BY <1>1, <1>2, <1>3, <1>4, RunHolds DEF RunOK, Signed

\* The action Uploaded keeps the invariant.
LEMMA UploadedSafe ==
  ASSUME IInv, NEW c \in Clients, Uploaded(c)
  PROVE  IInv'
<1>1. PICK t \in Answered(c) :
        /\ Consume(t)
        /\ Step(c, IF t.held.status # 200 THEN Idle
                   ELSE LET rest == IF t.held.stored = 0 THEN {}
                                    ELSE run[c].todo \ t.body.entries
                        IN IF rest = {} THEN Publishing(c)
                           ELSE [run[c] EXCEPT !.pc = "upload", !.todo = rest])
  BY DEF Uploaded
<1>2. UNCHANGED <<devices, store, tips, trail, commits, objs, heads>> /\ run[c].pc = "uploading"
  BY DEF Uploaded, At
<1>3. RunOK(Idle, commits, DOMAIN devices, store, objs[c])
      /\ RunOK(Publishing(c), commits, DOMAIN devices, store, objs[c])
  BY <1>2, IdleOK, RunHolds, PublishingOK
<1>4. ASSUME NEW rest \in SUBSET run[c].todo
      PROVE  RunOK([run[c] EXCEPT !.pc = "upload", !.todo = rest],
                   commits, DOMAIN devices, store, objs[c])
  <2>1. PICK q : q = [run[c] EXCEPT !.pc = "upload", !.todo = rest]
    OBVIOUS
  <2>2. rest \in SUBSET Nat
    BY RunHolds, RunFields
  <2>3. q \in RunRecord /\ q.what = run[c].what /\ q.pc = "upload" /\ q.missing = run[c].missing
        /\ q.todo = rest /\ q.reply = run[c].reply /\ q.plan = run[c].plan
    BY <2>1, <2>2, RunHolds, ZenonT(40) DEF RunRecord, Place
  <2>4. Signed(commits, DOMAIN devices, rest)
    BY RunHolds DEF RunOK, Signed
  <2> QED BY <1>2, <2>1, <2>3, <2>4, RunHolds DEF RunOK
<1>5. \/ Step(c, Idle) \/ Step(c, Publishing(c))
      \/ \E rest \in SUBSET run[c].todo : Step(c, [run[c] EXCEPT !.pc = "upload", !.todo = rest])
  <2>1. PICK rest : rest = IF t.held.stored = 0 THEN {} ELSE run[c].todo \ t.body.entries
    OBVIOUS
  <2>2. rest \in SUBSET run[c].todo
    BY <2>1
  <2>3. \/ Step(c, Idle) \/ Step(c, Publishing(c))
        \/ Step(c, [run[c] EXCEPT !.pc = "upload", !.todo = rest])
    BY <1>1, <2>1
  <2> QED BY <2>2, <2>3
<1>6. PICK r : Step(c, r) /\ RunOK(r, commits, DOMAIN devices, store, objs[c])
  BY <1>3, <1>4, <1>5
<1> QED BY <1>1, <1>2, <1>6, ConsumeMove

\* The action StartPublish keeps the invariant.
LEMMA StartPublishSafe ==
  ASSUME IInv, NEW c \in Clients, StartPublish(c)
  PROVE  IInv'
<1>1. run[c].pc = "upload"
  BY DEF StartPublish, At
<1>2. RunOK(Publishing(c), commits, DOMAIN devices, store, objs[c])
  BY <1>1, PublishingOK
<1> QED BY <1>1, <1>2, QuietMove DEF StartPublish, Waiting

\* The action PublishRef keeps the invariant.
LEMMA PublishRefSafe ==
  ASSUME IInv, NEW c \in Clients, PublishRef(c)
  PROVE  IInv'
<1>1. run[c].pc = "publish" /\ run[c].at \in 1..Len(RefOrder) /\ run[c].at \in Nat
  BY RunHolds, RunFields DEF PublishRef, At, RunOK
<1>2. PICK ref, mine, base : /\ ref = RefOrder[run[c].at]
                             /\ mine = run[c].plan[ref] /\ base = run[c].reply.refs[ref]
  OBVIOUS
<1>3. ref \in RefNames
  BY <1>1, <1>2, RefOrderLists
<1>4. mine \in 0..Len(commits) /\ base \in 0..Len(commits) /\ Len(commits) \in Nat
  BY <1>2, <1>3, RunHolds, HistoryFacts DEF RunOK, RefMap
<1>5. CASE ~(mine = 0 \/ mine = base) /\ Publishable(c, base, mine)
  <2> DEFINE body == [project |-> "project", ref |-> ref, commit |-> mine, base |-> base,
                      authorized |-> run[c].auth]
             r == [run[c] EXCEPT !.pc = "putting"]
  <2>1. Send(c, "put_ref", body) /\ Step(c, r)
        /\ UNCHANGED <<devices, store, tips, trail, commits, objs, heads>>
    BY <1>2, <1>5 DEF PublishRef
  <2>2. r.pc = "putting" /\ RunOK(r, commits, DOMAIN devices, store, objs[c])
    <3>1. r \in RunRecord /\ r.what = run[c].what /\ r.pc = "putting" /\ r.missing = run[c].missing
          /\ r.todo = run[c].todo /\ r.reply = run[c].reply /\ r.plan = run[c].plan
          /\ r.at = run[c].at
      BY RunHolds DEF RunRecord, Place
    <3> HIDE DEF r
    <3> QED BY <1>1, <3>1, RunHolds DEF RunOK
  <2>3. mine \in 1..Len(commits)
    BY <1>4, <1>5
  <2>4. base = 0 \/ base \in Shared!Lineage(Parents(commits), mine)
    BY <1>5, <2>3, WalkFindsAncestors, RunHolds DEF Publishable
  <2>5. base \in 0..(mine - 1)
    <3>1. base \in 0..mine
      BY <2>3, <2>4 DEF Shared!Lineage
    <3> QED BY <1>5, <2>3, <3>1
  <2>6. TaskOK(Task(c, "put_ref", Login(c), body), commits, DOMAIN devices, store, tips)
    <3>1. PICK t : t = Task(c, "put_ref", Login(c), body)
      OBVIOUS
    <3>2. t.body.ref = ref /\ t.body.commit = mine /\ t.body.base = base
      BY <3>1, NewTask
    <3>3. PublishOK(t, commits, tips)
      BY <1>3, <2>3, <2>4, <2>5, <3>1, <3>2, NewTask DEF PublishOK
    <3> QED BY <3>1, <3>3, NewTask DEF TaskOK
  <2>7. run[c].pc \notin Waiting /\ Awaits(r, "put_ref")
    BY <1>1, <2>2 DEF Waiting, Awaits
  <2> HIDE DEF body, r
  <2> QED BY <2>1, <2>2, <2>6, <2>7, SendMove, SMTT(40)
<1>6. CASE ~(~(mine = 0 \/ mine = base) /\ Publishable(c, base, mine))
  <2>1. PICK k \in SUBSET RefNames : Step(c, NextRef(c, [run[c] EXCEPT !.conflicts = k]))
    <3>1. run[c].conflicts \in SUBSET RefNames
      BY RunHolds, RunFields
    <3> QED BY <1>2, <1>3, <1>6, <3>1 DEF PublishRef
  <2>2. UNCHANGED <<cpVars, commits, objs, heads>>
    BY <1>2, <1>6 DEF PublishRef, cpVars
  <2>3. [run[c] EXCEPT !.conflicts = k] = [run[c] EXCEPT !.pc = "publish", !.at = run[c].at, !.conflicts = k]
    BY <1>1, RunHolds DEF RunRecord
  <2>4. [run[c] EXCEPT !.conflicts = k].pc = "publish"
    BY <1>1, RunHolds DEF RunRecord
  <2>5. RunOK([run[c] EXCEPT !.conflicts = k], commits, DOMAIN devices, store, objs[c])
    <3>1. "publish" \in Place \ {"none"}
      BY DEF Place
    <3>2. PICK r : r = run[c]
      OBVIOUS
    <3>3. RunOK(r, commits, DOMAIN devices, store, objs[c]) /\ r.pc = "publish" /\ r.at \in Nat
          /\ r.at \in 1..Len(RefOrder)
      BY <1>1, <3>2, RunHolds
    <3>4. RunOK([r EXCEPT !.pc = "publish", !.at = r.at, !.conflicts = k],
                commits, DOMAIN devices, store, objs[c])
      BY <3>1, <3>3, MovedOK
    <3> QED BY <2>3, <3>2, <3>4
  <2>6. RunOK(NextRef(c, [run[c] EXCEPT !.conflicts = k]), commits, DOMAIN devices, store, objs[c])
    BY <2>4, <2>5, NextRefOK DEF IInv
  <2> QED BY <1>1, <2>1, <2>2, <2>6, QuietMove DEF Waiting
<1> QED BY <1>5, <1>6

\* The action Put keeps the invariant.
LEMMA PutSafe ==
  ASSUME IInv, NEW c \in Clients, Put(c)
  PROVE  IInv'
<1>1. PICK t \in Answered(c) :
        /\ Consume(t)
        /\ Step(c, IF t.held.status \notin {200, 409} THEN Idle
                   ELSE NextRef(c, [run[c] EXCEPT !.pc = "publish",
                          !.conflicts = IF t.held.status = 409 THEN @ \cup {t.body.ref} ELSE @]))
  BY DEF Put
<1>2. /\ UNCHANGED <<devices, store, tips, trail, commits, objs, heads>>
      /\ run[c].pc = "putting" /\ run[c].at \in 1..Len(RefOrder) /\ run[c].at \in Nat
  BY RunHolds, RunFields DEF Put, At, RunOK
<1>3. t.body.ref \in RefNames
  BY <1>2, AnswerFits DEF TaskOK, Awaits, PublishOK
<1>4. PICK k \in SUBSET RefNames :
        Step(c, Idle) \/ Step(c, NextRef(c, [run[c] EXCEPT !.pc = "publish", !.conflicts = k]))
  <2>1. run[c].conflicts \in SUBSET RefNames
    BY RunHolds, RunFields
  <2>2. PICK k : k = IF t.held.status = 409 THEN run[c].conflicts \cup {t.body.ref}
                     ELSE run[c].conflicts
    OBVIOUS
  <2>3. k \in SUBSET RefNames
    BY <1>3, <2>1, <2>2
  <2>4. Step(c, Idle) \/ Step(c, NextRef(c, [run[c] EXCEPT !.pc = "publish", !.conflicts = k]))
    BY <1>1, <2>2
  <2> QED BY <2>3, <2>4
<1>5. [run[c] EXCEPT !.pc = "publish", !.conflicts = k]
        = [run[c] EXCEPT !.pc = "publish", !.at = run[c].at, !.conflicts = k]
  BY RunHolds DEF RunRecord
<1>6. [run[c] EXCEPT !.pc = "publish", !.conflicts = k].pc = "publish"
  BY RunHolds DEF RunRecord
<1>7. RunOK([run[c] EXCEPT !.pc = "publish", !.conflicts = k], commits, DOMAIN devices, store, objs[c])
  <2>1. "publish" \in Place \ {"none"}
    BY DEF Place
  <2>2. PICK r : r = run[c]
    OBVIOUS
  <2>3. RunOK(r, commits, DOMAIN devices, store, objs[c]) /\ r.pc = "putting" /\ r.at \in Nat
        /\ r.at \in 1..Len(RefOrder)
    BY <1>2, <2>2, RunHolds
  <2>4. RunOK([r EXCEPT !.pc = "publish", !.at = r.at, !.conflicts = k],
              commits, DOMAIN devices, store, objs[c])
    BY <2>1, <2>3, MovedOK
  <2> QED BY <1>5, <2>2, <2>4
<1>8. RunOK(NextRef(c, [run[c] EXCEPT !.pc = "publish", !.conflicts = k]),
            commits, DOMAIN devices, store, objs[c])
  BY <1>6, <1>7, NextRefOK DEF IInv
<1>9. RunOK(Idle, commits, DOMAIN devices, store, objs[c])
  BY IdleOK, RunHolds
<1> QED BY <1>1, <1>2, <1>4, <1>8, <1>9, ConsumeMove

\* Objects the server offered join the working copy.
LEMMA ObjectsMove ==
  ASSUME IInv, NEW c \in Clients, run[c].pc \notin Waiting, NEW new \in SUBSET store,
         objs' = [objs EXCEPT ![c] = @ \cup new], NEW r, Step(c, r),
         RunOK(r, commits, DOMAIN devices, store, objs'[c]),
         UNCHANGED <<cpVars, commits, heads>>
  PROVE  IInv'
<1>1. UNCHANGED <<devices, store, tips, trail, tasks, commits, heads>>
  BY DEF cpVars
<1>2. Grows
  BY <1>1, GrowsUnchanged DEF IInv
<1>3. objs \in [Clients -> SUBSET Ids(commits)] /\ new \subseteq Ids(commits)
  BY DEF IInv, TypeInv, StoreInv, Signed
<1>4. /\ objs' \in [Clients -> SUBSET Ids(commits)] /\ objs'[c] = objs[c] \cup new
      /\ \A d \in Clients : d # c => objs'[d] = objs[d]
  BY <1>3
<1>5. \A d \in Clients : objs[d] \subseteq objs'[d]
  BY <1>4
<1>6. RunsInv' /\ run' \in [Clients -> RunRecord]
  BY <1>1, <1>2, <1>5, RunsKept DEF IInv
<1>7. TasksInv'
  BY <1>1 DEF IInv, TasksInv
<1>8. Paired'
  BY <1>1, RunHolds, PairedQuiet DEF IInv
<1>9. Published'
  BY <1>1 DEF IInv, Published
<1>10. ObjsInv'
  <2>1. ASSUME NEW d \in Clients PROVE Signed(commits, DOMAIN devices \cup {d}, objs'[d])
    BY <1>4 DEF IInv, ObjsInv, StoreInv, Signed
  <2> QED BY <1>1, <2>1 DEF ObjsInv
<1>11. LocalTipsResolve'
  BY <1>1, <1>5 DEF IInv, LocalTipsResolve
<1>12. TypeInv' /\ StoreInv'
  BY <1>1, <1>4, <1>6 DEF IInv, TypeInv, StoreInv
<1> QED BY <1>6, <1>7, <1>8, <1>9, <1>10, <1>11, <1>12 DEF IInv

\* The action ApplyObjects keeps the invariant.
LEMMA ApplyObjectsSafe ==
  ASSUME IInv, NEW c \in Clients, ApplyObjects(c)
  PROVE  IInv'
<1>1. PICK new : new = run[c].missing \ objs[c]
  OBVIOUS
<1>2. new \in SUBSET store /\ run[c].pc = "apply" /\ run[c].what # "idle"
  BY <1>1, RunHolds DEF RunOK, ApplyObjects, At
<1>3. objs' = [objs EXCEPT ![c] = @ \cup new] /\ UNCHANGED <<cpVars, commits, heads>>
  BY <1>1 DEF ApplyObjects
<1>4. PICK ob : ob = objs'[c]
  OBVIOUS
<1>5. ob \in SUBSET Nat
  <2>1. objs[c] \in SUBSET Ids(commits) /\ new \in SUBSET Ids(commits)
    BY <1>2 DEF IInv, TypeInv, StoreInv, Signed
  <2>2. objs'[c] = objs[c] \cup new
    BY <1>3 DEF IInv, TypeInv
  <2> QED BY <1>4, <2>1, <2>2, IdsAreNumbers, RunHolds
<1> DEFINE again == [Probing(c, run[c], "pull") EXCEPT !.left = ob]
           on == [run[c] EXCEPT !.pc = "refs", !.at = 1, !.missing = {}, !.truncated = FALSE]
<1>6. Step(c, again) \/ Step(c, on)
  BY <1>1, <1>4 DEF ApplyObjects
<1>7. RunOK(again, commits, DOMAIN devices, store, ob)
  <2>1. PICK p : p = Probing(c, run[c], "pull")
    OBVIOUS
  <2>2. RunOK(p, commits, DOMAIN devices, store, ob) /\ p.pc = "probe"
    BY <1>2, <2>1, RunHolds, ProbingOK DEF Phase, IInv
  <2>3. p \in RunRecord
    BY <2>2 DEF RunOK
  <2>4. PICK q : q = [p EXCEPT !.left = ob]
    OBVIOUS
  <2>5. q \in RunRecord /\ q.what = p.what /\ q.pc = p.pc /\ q.missing = p.missing
        /\ q.todo = p.todo /\ q.reply = p.reply /\ q.plan = p.plan
    BY <1>5, <2>3, <2>4 DEF RunRecord
  <2> QED BY <2>1, <2>2, <2>4, <2>5 DEF RunOK
<1>8. RunOK(on, commits, DOMAIN devices, store, ob)
  <2>1. on \in RunRecord /\ on.what = run[c].what /\ on.pc = "refs" /\ on.missing = {} /\ on.at = 1
        /\ on.todo = run[c].todo /\ on.reply = run[c].reply /\ on.plan = run[c].plan
    BY RunHolds, ZenonT(40) DEF RunRecord, Place
  <2> HIDE DEF on
  <2> QED BY <1>2, <2>1, RunHolds DEF RunOK
<1>9. PICK r : Step(c, r) /\ RunOK(r, commits, DOMAIN devices, store, objs'[c])
  BY <1>4, <1>6, <1>7, <1>8
<1>10. run[c].pc \notin Waiting
  BY <1>2 DEF Waiting
<1> QED BY <1>2, <1>3, <1>9, <1>10, ObjectsMove

\* The action DieApplying keeps the invariant.
LEMMA DieApplyingSafe ==
  ASSUME IInv, NEW c \in Clients, DieApplying(c)
  PROVE  IInv'
<1>1. PICK k : objs' = [objs EXCEPT ![c] = @ \cup FirstOf(run[c].missing, k)]
  BY DEF DieApplying
<1>2. FirstOf(run[c].missing, k) \in SUBSET store
  BY FirstOfSubset, RunHolds DEF RunOK
<1>3. RunOK(Idle, commits, DOMAIN devices, store, objs'[c])
  BY IdleOK, RunHolds
<1>4. run[c].pc \notin Waiting /\ Step(c, Idle) /\ UNCHANGED <<cpVars, commits, heads>>
  BY DEF DieApplying, At, Waiting
<1> QED BY <1>1, <1>2, <1>3, <1>4, ObjectsMove

\* The action Reconcile keeps the invariant.
LEMMA ReconcileSafe ==
  ASSUME IInv, NEW c \in Clients, Reconcile(c)
  PROVE  IInv'
<1>1. run[c].pc = "refs" /\ run[c].at \in 1..Len(RefOrder) /\ run[c].at \in Nat
  <2>1. run[c].pc = "refs" /\ run[c].at <= Len(RefOrder)
    BY DEF Reconcile, At
  <2>2. run[c].at \in Nat
    BY RunHolds, RunFields
  <2>3. run[c].at > 0
    BY <2>1, RunHolds DEF RunOK
  <2>4. Len(RefOrder) \in Nat
    BY RefOrderLists
  <2> QED BY <2>1, <2>2, <2>3, <2>4
<1>2. PICK ref, theirs : ref = RefOrder[run[c].at] /\ theirs = run[c].reply.refs[ref]
  OBVIOUS
<1>3. ref \in RefNames /\ run[c].conflicts \in SUBSET RefNames
  BY <1>1, <1>2, RefOrderLists, RunHolds, RunFields
<1> DEFINE next == [run[c] EXCEPT !.at = @ + 1]
           conflict == [next EXCEPT !.conflicts = @ \cup {ref}]
           write == [run[c] EXCEPT !.pc = "write"]
<1>4. Step(c, next) \/ Step(c, conflict) \/ (Step(c, write) /\ Resolves(c, theirs))
  <2>1. Step(c, CASE theirs = 0 -> next
                  [] theirs # 0 /\ ~Resolves(c, theirs) -> conflict
                  [] OTHER -> IF heads[c][ref] = theirs THEN next
                              ELSE IF heads[c][ref] = 0 \/ is_ancestor_or_equal(c, heads[c][ref], theirs)
                              THEN write
                              ELSE IF is_ancestor_or_equal(c, theirs, heads[c][ref]) THEN next
                              ELSE conflict)
    BY <1>2 DEF Reconcile
  <2> HIDE DEF next, conflict, write
  <2>2. CASE theirs = 0
    BY <2>1, <2>2
  <2>3. CASE theirs # 0 /\ ~Resolves(c, theirs)
    BY <2>1, <2>3
  <2>4. CASE theirs # 0 /\ Resolves(c, theirs)
    BY <2>1, <2>4
  <2> QED BY <2>2, <2>3, <2>4, SMTT(40)
<1>5. PICK r : r = run[c]
  OBVIOUS
<1>6. /\ RunOK(r, commits, DOMAIN devices, store, objs[c]) /\ r \in RunRecord /\ r.pc = "refs"
      /\ r.at \in Nat /\ r.at + 1 \in Nat /\ r.at + 1 > 0 /\ r.conflicts \in SUBSET RefNames
      /\ r.conflicts \cup {ref} \in SUBSET RefNames
  BY <1>1, <1>3, <1>5, RunHolds
<1>7. "refs" \in Place \ {"none"} /\ "write" \in Place \ {"none"}
  BY DEF Place
<1>8. RunOK(next, commits, DOMAIN devices, store, objs[c])
  <2>1. RunOK([r EXCEPT !.pc = "refs", !.at = r.at + 1, !.conflicts = r.conflicts],
              commits, DOMAIN devices, store, objs[c])
    BY <1>6, <1>7, MovedOK
  <2>2. [r EXCEPT !.pc = "refs", !.at = r.at + 1, !.conflicts = r.conflicts] = [r EXCEPT !.at = @ + 1]
    BY <1>6 DEF RunRecord
  <2> QED BY <1>5, <2>1, <2>2
<1>9. RunOK(conflict, commits, DOMAIN devices, store, objs[c])
  <2>1. RunOK([r EXCEPT !.pc = "refs", !.at = r.at + 1, !.conflicts = r.conflicts \cup {ref}],
              commits, DOMAIN devices, store, objs[c])
    BY <1>6, <1>7, MovedOK
  <2>2. [r EXCEPT !.pc = "refs", !.at = r.at + 1, !.conflicts = r.conflicts \cup {ref}]
          = [[r EXCEPT !.at = @ + 1] EXCEPT !.conflicts = @ \cup {ref}]
    BY <1>6 DEF RunRecord
  <2> QED BY <1>5, <2>1, <2>2
<1>10. ASSUME Resolves(c, theirs) PROVE RunOK(write, commits, DOMAIN devices, store, objs[c])
  <2>1. r.reply.refs[RefOrder[r.at]] \in objs[c] /\ r.at \in 1..Len(RefOrder)
    BY <1>1, <1>2, <1>5, <1>10 DEF Resolves
  <2>2. RunOK([r EXCEPT !.pc = "write", !.at = r.at, !.conflicts = r.conflicts],
              commits, DOMAIN devices, store, objs[c])
    BY <1>6, <1>7, <2>1, MovedOK
  <2>3. [r EXCEPT !.pc = "write", !.at = r.at, !.conflicts = r.conflicts] = [r EXCEPT !.pc = "write"]
    BY <1>6 DEF RunRecord
  <2> QED BY <1>5, <2>2, <2>3
<1>11. PICK q : Step(c, q) /\ RunOK(q, commits, DOMAIN devices, store, objs[c])
  <2> HIDE DEF next, conflict, write
  <2> QED BY <1>4, <1>8, <1>9, <1>10
<1>12. run[c].pc \notin Waiting /\ UNCHANGED <<cpVars, commits, objs, heads>>
  BY <1>1 DEF Waiting, Reconcile
<1> QED BY <1>11, <1>12, QuietMove

\* The action ApplyRef keeps the invariant.
LEMMA ApplyRefSafe ==
  ASSUME IInv, NEW c \in Clients, apply_ref(c)
  PROVE  IInv'
<1>1. run[c].pc = "write" /\ run[c].at \in 1..Len(RefOrder) /\ run[c].at \in Nat
  BY RunHolds, RunFields DEF apply_ref, At, RunOK
<1>2. PICK ref, theirs : ref = RefOrder[run[c].at] /\ theirs = run[c].reply.refs[ref]
  OBVIOUS
<1>3. ref \in RefNames /\ run[c].conflicts \in SUBSET RefNames
  BY <1>1, <1>2, RefOrderLists, RunHolds, RunFields
<1>4. theirs \in 0..Len(commits) /\ theirs \in objs[c]
  BY <1>1, <1>2, <1>3, RunHolds, SMTT(40) DEF RunOK, RefMap
<1>5. heads' = heads \/ heads' = [heads EXCEPT ![c][ref] = theirs]
  BY <1>2 DEF apply_ref
<1>6. PICK k \in SUBSET RefNames :
        Step(c, [run[c] EXCEPT !.pc = "refs", !.at = @ + 1, !.conflicts = k])
  <2>1. PICK k : /\ k \in {run[c].conflicts, run[c].conflicts \cup {ref}}
                 /\ Step(c, [run[c] EXCEPT !.pc = "refs", !.at = @ + 1, !.conflicts = k])
    BY <1>2 DEF apply_ref
  <2>2. k \in SUBSET RefNames
    BY <1>3, <2>1
  <2> QED BY <2>1, <2>2
<1>7. RunOK([run[c] EXCEPT !.pc = "refs", !.at = @ + 1, !.conflicts = k],
            commits, DOMAIN devices, store, objs[c])
  <2>1. PICK r : r = run[c]
    OBVIOUS
  <2>2. RunOK(r, commits, DOMAIN devices, store, objs[c]) /\ r.pc = "write"
        /\ r.at + 1 \in Nat /\ r.at + 1 > 0
    BY <1>1, <2>1, RunHolds
  <2>3. "refs" \in Place \ {"none"}
    BY DEF Place
  <2>4. RunOK([r EXCEPT !.pc = "refs", !.at = r.at + 1, !.conflicts = k],
              commits, DOMAIN devices, store, objs[c])
    BY <2>2, <2>3, MovedOK
  <2> QED BY <2>1, <2>4
<1>8. UNCHANGED <<devices, store, tips, trail, tasks, commits, objs>>
  BY DEF apply_ref, cpVars
<1>9. Grows
  BY <1>8, GrowsUnchanged DEF IInv
<1>10. RunsInv' /\ run' \in [Clients -> RunRecord]
  BY <1>6, <1>7, <1>8, <1>9, RunsKept DEF IInv
<1>11. Paired'
  <2>1. run[c].pc \notin Waiting
    BY <1>1 DEF Waiting
  <2> QED BY <1>6, <1>8, <2>1, RunHolds, PairedQuiet DEF IInv
<1>12. heads \in [Clients -> [RefNames -> 0..Len(commits)]]
  BY DEF IInv, TypeInv, RefMap
<1>13. heads' \in [Clients -> [RefNames -> 0..Len(commits)]]
  <2>1. CASE heads' = heads
    BY <1>12, <2>1
  <2>2. CASE heads' = [heads EXCEPT ![c][ref] = theirs]
    <3>1. [heads[c] EXCEPT ![ref] = theirs] \in [RefNames -> 0..Len(commits)]
      BY <1>4, <1>12
    <3> QED BY <1>12, <2>2, <3>1
  <2> QED BY <1>5, <2>1, <2>2
<1>14. LocalTipsResolve'
  <2>1. ASSUME NEW d \in Clients, NEW x \in RefNames, heads'[d][x] # 0
        PROVE  heads'[d][x] \in objs[d]
    <3>1. heads'[d][x] = heads[d][x] \/ (d = c /\ heads'[d][x] = theirs)
      BY <1>5, <1>12
    <3> QED BY <1>4, <2>1, <3>1 DEF IInv, LocalTipsResolve
  <2> QED BY <1>8, <2>1 DEF LocalTipsResolve
<1>15. TypeInv' /\ StoreInv' /\ ObjsInv' /\ TasksInv' /\ Published'
  BY <1>8, <1>10, <1>13 DEF IInv, TypeInv, StoreInv, ObjsInv, TasksInv, Published, RefMap
<1> QED BY <1>10, <1>11, <1>14, <1>15 DEF IInv

\* The action AskPolicies keeps the invariant.
LEMMA AskPoliciesSafe ==
  ASSUME IInv, NEW c \in Clients, AskPolicies(c)
  PROVE  IInv'
<1> DEFINE body == [project |-> "project"]
           r == [run[c] EXCEPT !.pc = "policies"]
<1>1. r.pc = "policies" /\ RunOK(r, commits, DOMAIN devices, store, objs[c])
  <2>1. r \in RunRecord /\ r.what = run[c].what /\ r.pc = "policies" /\ r.missing = run[c].missing
        /\ r.todo = run[c].todo /\ r.reply = run[c].reply /\ r.plan = run[c].plan
    BY RunHolds DEF RunRecord, Place
  <2>2. run[c].pc = "refs"
    BY DEF AskPolicies, At
  <2> HIDE DEF r
  <2> QED BY <2>1, <2>2, RunHolds DEF RunOK
<1>2. TaskOK(Task(c, "list_policies", Login(c), body), commits, DOMAIN devices, store, tips)
  <2>1. PICK t : t = Task(c, "list_policies", Login(c), body)
    OBVIOUS
  <2> QED BY <2>1, NewTask DEF TaskOK
<1>3. run[c].pc \notin Waiting /\ Awaits(r, "list_policies")
  BY <1>1 DEF AskPolicies, At, Waiting, Awaits
<1>4. Send(c, "list_policies", body) /\ Step(c, r)
      /\ UNCHANGED <<devices, store, tips, trail, commits, objs, heads>>
  BY DEF AskPolicies
<1> HIDE DEF r, body
<1> QED BY <1>1, <1>2, <1>3, <1>4, SendMove

\* The action ApplyPolicies keeps the invariant.
LEMMA ApplyPoliciesSafe ==
  ASSUME IInv, NEW c \in Clients, apply_remote_policies(c)
  PROVE  IInv'
<1>1. PICK t \in Answered(c) : Consume(t)
  BY DEF apply_remote_policies
<1>2. Step(c, Idle) /\ UNCHANGED <<devices, store, tips, trail, commits, objs, heads>>
  BY DEF apply_remote_policies
<1>3. RunOK(Idle, commits, DOMAIN devices, store, objs[c])
  BY IdleOK, RunHolds
<1> QED BY <1>1, <1>2, <1>3, ConsumeMove

\* The request of an abandoned run goes on for nobody.
LEMMA AbandonSafe ==
  ASSUME IInv, NEW c \in Clients, Abandon(c)
  PROVE  IInv'
<1>1. /\ tasks' = {t \in tasks : t.from # c} \cup
                  {[t EXCEPT !.from = None] : t \in Outstanding(c) \ Answered(c)}
      /\ Step(c, Idle) /\ UNCHANGED <<devices, store, tips, trail, commits, objs, heads>>
  BY DEF Abandon
<1>2. RunOK(Idle, commits, DOMAIN devices, store, objs[c])
  BY IdleOK, RunHolds
<1>3. Grows
  BY <1>1, GrowsUnchanged DEF IInv
<1>4. RunsInv' /\ run' \in [Clients -> RunRecord]
  BY <1>1, <1>2, <1>3, RunsKept DEF IInv
<1>5. ASSUME NEW t \in tasks
      PROVE  LET u == [t EXCEPT !.from = None] IN
             /\ u.from = None /\ u.op = t.op /\ u.pc = t.pc /\ u.body = t.body
             /\ TaskOK(u, commits, DOMAIN devices, store, tips)
  <2>1. PICK u : u = [t EXCEPT !.from = None]
    OBVIOUS
  <2>2. DOMAIN t = {"from", "op", "token", "body", "pc", "held"}
        /\ TaskOK(t, commits, DOMAIN devices, store, tips)
    BY DEF IInv, TasksInv, TaskOK
  <2>3. DOMAIN u = DOMAIN t /\ u.from = None /\ u.op = t.op /\ u.pc = t.pc /\ u.body = t.body
        /\ u.held = t.held /\ u.token = t.token
    BY <2>1, <2>2
  <2>4. ASSUME ProbeOK(t, commits, DOMAIN devices, store)
        PROVE  ProbeOK(u, commits, DOMAIN devices, store)
    BY <2>3, <2>4, NoneIsNoClient DEF ProbeOK, Succeeded
  <2>5. ASSUME UploadOK(t, commits, DOMAIN devices) PROVE UploadOK(u, commits, DOMAIN devices)
    BY <2>3, <2>5 DEF UploadOK
  <2>6. ASSUME PublishOK(t, commits, tips) PROVE PublishOK(u, commits, tips)
    BY <2>3, <2>6 DEF PublishOK
  <2>7. TaskOK(u, commits, DOMAIN devices, store, tips)
    BY <2>2, <2>3, <2>4, <2>5, <2>6 DEF TaskOK
  <2> QED BY <2>1, <2>3, <2>7
<1>6. \A u \in tasks' : \/ u \in tasks /\ u.from # c
                        \/ \E t \in tasks : u = [t EXCEPT !.from = None]
  BY <1>1 DEF Outstanding
<1>7. \A u \in tasks' : u.from \in Clients => u \in tasks /\ u.from # c
  BY <1>5, <1>6, NoneIsNoClient
<1>8. TasksInv'
  <2>1. ASSUME NEW u \in tasks' PROVE TaskOK(u, commits, DOMAIN devices, store, tips)
    BY <1>5, <1>6 DEF IInv, TasksInv
  <2> QED BY <1>1, <2>1 DEF TasksInv
<1>9. Paired'
  <2>1. \A d \in Clients : d # c => run'[d] = run[d]
    BY <1>1, RunHolds DEF Step
  <2>2. \A u \in tasks' : u.from \in Clients => Awaits(run'[u.from], u.op)
    BY <1>7, <2>1 DEF IInv, Paired
  <2>3. \A u, v \in tasks' : u.from \in Clients /\ u.from = v.from => u = v
    BY <1>7 DEF IInv, Paired
  <2> QED BY <2>2, <2>3 DEF Paired
<1>10. Published'
  <2>1. ASSUME NEW t \in tasks, t.op = "put_ref", t.pc = "log"
        PROVE  \E u \in tasks' : u.op = "put_ref" /\ u.pc = "log" /\ u.body = t.body
    <3>1. CASE t.from # c
      BY <1>1, <2>1, <3>1
    <3>2. CASE t.from = c
      <4>1. t \in Outstanding(c) \ Answered(c)
        BY <2>1, <3>2 DEF Outstanding, Answered
      <4>2. [t EXCEPT !.from = None] \in tasks'
        BY <1>1, <4>1
      <4> QED BY <1>5, <2>1, <4>2
    <3> QED BY <3>1, <3>2
  <2> QED BY <1>1, <2>1, PublishedKept DEF IInv
<1>11. TypeInv' /\ StoreInv' /\ ObjsInv' /\ LocalTipsResolve'
  BY <1>1, <1>4 DEF IInv, TypeInv, StoreInv, ObjsInv, LocalTipsResolve
<1> QED BY <1>4, <1>8, <1>9, <1>10, <1>11 DEF IInv

-------------------------------------------------------------------------------
(* The working copy.                                                       *)

\* The action Commit keeps the invariant.
LEMMA CommitSafe ==
  ASSUME IInv, NEW c \in Clients, NEW tree \in Trees, Commit(c, tree)
  PROVE  IInv'
<1> DEFINE main == RefOrder[1]
           n == Len(commits) + 1
           new == [parent |-> heads[c][main], tree |-> tree, signer |-> c]
<1>1. /\ commits' = Append(commits, new) /\ objs' = [objs EXCEPT ![c] = @ \cup {n, tree}]
      /\ heads' = [heads EXCEPT ![c][main] = n] /\ n \notin Trees
      /\ UNCHANGED <<devices, store, tips, trail, tasks, run>>
  BY DEF Commit, cpVars
<1>2. History(commits) /\ Len(commits) \in Nat \ {0} /\ commits \in Seq(CommitRecord)
  BY HistoryFacts DEF IInv, TypeInv, History
<1>3. main \in RefNames
  BY RefOrderLists
<1>4. heads \in [Clients -> [RefNames -> 0..Len(commits)]]
  BY DEF IInv, TypeInv, RefMap
<1>5. new \in CommitRecord /\ new.parent \in 0..(n - 1) /\ new.signer = c
  <2>1. heads[c][main] \in 0..Len(commits)
    BY <1>3, <1>4
  <2> QED BY <1>2, <2>1 DEF CommitRecord
<1>6. /\ commits' \in Seq(CommitRecord) /\ Len(commits') = n /\ commits'[n] = new
      /\ \A i \in 1..Len(commits) : commits'[i] = commits[i]
  <2> HIDE DEF new
  <2> QED BY <1>1, <1>2, <1>5
<1>7. History(commits') /\ Extends(commits, commits')
  <2>1. ASSUME NEW i \in 1..n PROVE commits'[i].parent \in 0..(i - 1) /\ i \notin Trees
    <3>1. CASE i = n
      BY <1>1, <1>5, <1>6, <3>1
    <3>2. CASE i \in 1..Len(commits)
      BY <1>2, <1>6, <3>2 DEF History
    <3> QED BY <1>2, <3>1, <3>2
  <2>2. History(commits')
    BY <1>2, <1>6, <2>1 DEF History
  <2> QED BY <1>2, <1>6, <2>2 DEF Extends
<1>8. Grows
  <2>1. tips \in RefMap(commits) /\ \A r \in RefNames : tips[r] \in Nat
    BY <1>2 DEF IInv, TypeInv, RefMap
  <2>2. tips \in RefMap(commits')
    BY <1>7, <2>1, RefMapKept
  <2> QED BY <1>1, <1>7, <2>1, <2>2 DEF Grows
<1>9. Ids(commits) \subseteq Ids(commits') /\ n \in Ids(commits') /\ tree \in Ids(commits')
  BY <1>2, <1>6 DEF Ids
<1>10. objs \in [Clients -> SUBSET Ids(commits)]
  BY DEF IInv, TypeInv
<1>11. /\ objs' \in [Clients -> SUBSET Ids(commits')] /\ objs'[c] = objs[c] \cup {n, tree}
       /\ \A d \in Clients : d # c => objs'[d] = objs[d]
  BY <1>1, <1>9, <1>10
<1>12. \A d \in Clients : objs[d] \subseteq objs'[d]
  BY <1>11
<1>13. RunsInv' /\ run' \in [Clients -> RunRecord]
  <2>1. Step(c, run[c])
    BY <1>1, RunHolds DEF Step
  <2>2. RunOK(run[c], commits', DOMAIN devices', store', objs'[c])
    BY <1>8, <1>12, RunHolds, RunKept DEF Grows
  <2> QED BY <1>8, <1>12, <2>1, <2>2, RunsKept DEF IInv
<1>14. TasksInv'
  BY <1>1, <1>8, TasksKept DEF IInv, TasksInv
<1>15. Paired' /\ Published'
  BY <1>1 DEF IInv, Paired, Published
<1>16. StoreInv'
  BY <1>1, <1>7, SignedKept DEF IInv, StoreInv
<1>17. ObjsInv'
  <2>1. ASSUME NEW d \in Clients PROVE Signed(commits', DOMAIN devices \cup {d}, objs'[d])
    <3>1. Signed(commits', DOMAIN devices \cup {d}, objs[d])
      BY <1>7, SignedKept DEF IInv, ObjsInv
    <3>2. CASE d # c
      BY <1>11, <3>1, <3>2
    <3>3. CASE d = c
      <4>1. ASSUME NEW i \in objs'[d] \cap (1..Len(commits'))
            PROVE  commits'[i].signer \in DOMAIN devices \cup {d}
        <5>1. CASE i \in objs[d]
          BY <3>1, <4>1, <5>1 DEF Signed
        <5>2. CASE i = n
          BY <1>5, <1>6, <3>3, <5>2
        <5>3. i # tree
          BY <1>7, <4>1 DEF History
        <5> QED BY <1>11, <3>3, <5>1, <5>2, <5>3
      <4> QED BY <1>11, <4>1 DEF Signed
    <3> QED BY <3>2, <3>3
  <2> QED BY <1>1, <2>1 DEF ObjsInv
<1>18. heads' \in [Clients -> RefMap(commits')]
  <2>1. heads \in [Clients -> RefMap(commits')]
    BY <1>4, <1>7, RefMapKept DEF RefMap
  <2>2. [heads[c] EXCEPT ![main] = n] \in RefMap(commits')
    BY <1>2, <1>3, <1>6, <2>1 DEF RefMap
  <2> QED BY <1>1, <2>1, <2>2
<1>19. LocalTipsResolve'
  <2>1. ASSUME NEW d \in Clients, NEW x \in RefNames, heads'[d][x] # 0
        PROVE  heads'[d][x] \in objs'[d]
    <3>1. (heads'[d][x] = heads[d][x]) \/ (d = c /\ heads'[d][x] = n)
      BY <1>1, <1>4
    <3> QED BY <1>11, <1>12, <2>1, <3>1 DEF IInv, LocalTipsResolve
  <2> QED BY <2>1 DEF LocalTipsResolve
<1>20. TypeInv'
  BY <1>1, <1>7, <1>8, <1>11, <1>13, <1>18 DEF IInv, TypeInv, Grows
<1> QED BY <1>13, <1>14, <1>15, <1>16, <1>17, <1>19, <1>20 DEF IInv

\* The action Promote keeps the invariant.
LEMMA PromoteSafe ==
  ASSUME IInv, NEW c \in Clients, NEW e, Promote(c, e)
  PROVE  IInv'
<1> DEFINE main == RefOrder[1]
<1>1. /\ heads' = [heads EXCEPT ![c][e] = heads[c][main]] /\ e \in RefNames /\ main \in RefNames
      /\ UNCHANGED <<devices, store, tips, trail, tasks, run, commits, objs>>
  BY RefOrderLists DEF Promote, cpVars
<1>2. heads \in [Clients -> RefMap(commits)]
  BY DEF IInv, TypeInv
<1>3. [heads[c] EXCEPT ![e] = heads[c][main]] \in RefMap(commits)
  BY <1>1, <1>2 DEF RefMap
<1>4. heads' \in [Clients -> RefMap(commits)]
  BY <1>1, <1>2, <1>3
<1>5. LocalTipsResolve'
  <2>1. ASSUME NEW d \in Clients, NEW x \in RefNames, heads'[d][x] # 0
        PROVE  heads'[d][x] \in objs[d]
    <3>1. heads'[d][x] = heads[d][x] \/ (d = c /\ heads'[d][x] = heads[d][main])
      BY <1>1, <1>2 DEF RefMap
    <3> QED BY <1>1, <2>1, <3>1 DEF IInv, LocalTipsResolve
  <2> QED BY <1>1, <2>1 DEF LocalTipsResolve
<1>6. TypeInv' /\ StoreInv' /\ ObjsInv' /\ RunsInv' /\ TasksInv' /\ Paired' /\ Published'
  BY <1>1, <1>4 DEF IInv, TypeInv, StoreInv, ObjsInv, RunsInv, TasksInv, Paired, Published
<1> QED BY <1>5, <1>6 DEF IInv

-------------------------------------------------------------------------------
(* The handlers.                                                           *)

\* Advancing a request changes its place and what it holds, nothing else.
LEMMA AdvancedFields ==
  ASSUME IInv, NEW t \in tasks, NEW pc, NEW held
  PROVE  LET u == [t EXCEPT !.pc = pc, !.held = held] IN
         /\ DOMAIN u = {"from", "op", "token", "body", "pc", "held"}
         /\ u.from = t.from /\ u.op = t.op /\ u.token = t.token /\ u.body = t.body
         /\ u.pc = pc /\ u.held = held
         /\ TaskOK(t, commits, DOMAIN devices, store, tips)
<1>1. TaskOK(t, commits, DOMAIN devices, store, tips)
      /\ DOMAIN t = {"from", "op", "token", "body", "pc", "held"}
  BY DEF IInv, TasksInv, TaskOK
<1> QED BY <1>1

\* One handler goes on as u, or is gone.
LEMMA HandlerMove ==
  ASSUME IInv, NEW t \in tasks, NEW u, u.from = t.from, u.op = t.op,
         TaskOK(u, commits, DOMAIN devices', store', tips'),
         tasks' = (tasks \ {t}) \cup {u} \/ tasks' = tasks \ {t},
         UNCHANGED syncVars, Grows, StoreInv', DOMAIN devices' \subseteq Clients, Published'
  PROVE  IInv'
<1>1. UNCHANGED <<commits, objs, heads, run>>
  BY DEF syncVars
<1>2. TasksInv'
  <2>1. ASSUME NEW v \in tasks PROVE TaskOK(v, commits', DOMAIN devices', store', tips')
    BY TasksKept DEF IInv
  <2> QED BY <1>1, <2>1 DEF TasksInv
<1>3. Paired'
  <2>1. \A v \in tasks' : v.from \in Clients => Awaits(run[v.from], v.op)
    BY DEF IInv, Paired
  <2>2. \A v, w \in tasks' : v.from \in Clients /\ v.from = w.from => v = w
    BY DEF IInv, Paired
  <2> QED BY <1>1, <2>1, <2>2 DEF Paired
<1>4. RunsInv'
  <2>1. ASSUME NEW d \in Clients
        PROVE  RunOK(run[d], commits', DOMAIN devices', store', objs[d])
    <3>1. RunOK(run[d], commits, DOMAIN devices, store, objs[d])
      BY DEF IInv, RunsInv
    <3> QED BY <3>1, RunKept DEF Grows
  <2> QED BY <1>1, <2>1 DEF RunsInv
<1>5. ObjsInv'
  <2>1. ASSUME NEW d \in Clients
        PROVE  Signed(commits', DOMAIN devices' \cup {d}, objs[d])
    <3>1. Signed(commits, DOMAIN devices \cup {d}, objs[d])
          /\ DOMAIN devices \cup {d} \subseteq DOMAIN devices' \cup {d}
      BY DEF IInv, ObjsInv, Grows
    <3> QED BY <3>1, SignedKept DEF Grows
  <2> QED BY <1>1, <2>1 DEF ObjsInv
<1>6. TypeInv' /\ LocalTipsResolve'
  BY <1>1 DEF IInv, TypeInv, LocalTipsResolve, Grows
<1> QED BY <1>2, <1>3, <1>4, <1>5, <1>6 DEF IInv

\* A handler that only looks: the tables stay, no event is due.
LEMMA LookMove ==
  ASSUME IInv, NEW t \in tasks, t.pc # "log", NEW u, u.from = t.from, u.op = t.op,
         TaskOK(u, commits, DOMAIN devices, store, tips),
         tasks' = (tasks \ {t}) \cup {u} \/ tasks' = tasks \ {t},
         UNCHANGED <<devices, store, tips>>, trail \subseteq trail', UNCHANGED syncVars
  PROVE  IInv'
<1>1. Grows
  <2>1. Extends(commits, commits')
    BY ExtendsItself DEF IInv, TypeInv, syncVars
  <2>2. tips \in RefMap(commits) /\ \A r \in RefNames : tips[r] \in Nat
    BY HistoryFacts DEF IInv, TypeInv, RefMap
  <2> QED BY <2>1, <2>2 DEF Grows, syncVars
<1>2. Published'
  <2>1. \A v \in tasks : v.op = "put_ref" /\ v.pc = "log" => v \in tasks'
    OBVIOUS
  <2> QED BY <2>1, PublishedKept DEF IInv
<1>3. StoreInv' /\ DOMAIN devices' \subseteq Clients
  BY DEF IInv, TypeInv, StoreInv, syncVars
<1> QED BY <1>1, <1>2, <1>3, HandlerMove

\* A handler answers; a probe's answer other than 200 carries nothing.
LEMMA ReturnMove ==
  ASSUME IInv, NEW t \in tasks, t.pc # "log", NEW reply, tasks' = Return(t, reply),
         t.op = "query_missing" => reply.status # 200,
         UNCHANGED <<devices, store, tips>>, trail \subseteq trail', UNCHANGED syncVars
  PROVE  IInv'
<1>1. PICK u : u = [t EXCEPT !.pc = "done", !.held = reply]
  OBVIOUS
<1>2. /\ DOMAIN u = {"from", "op", "token", "body", "pc", "held"}
      /\ u.from = t.from /\ u.op = t.op /\ u.token = t.token /\ u.body = t.body
      /\ u.pc = "done" /\ u.held = reply
      /\ TaskOK(t, commits, DOMAIN devices, store, tips)
  BY <1>1, AdvancedFields
<1>3. tasks' = (tasks \ {t}) \cup {u} \/ tasks' = tasks \ {t}
  BY <1>1 DEF Return
<1>4. TaskOK(u, commits, DOMAIN devices, store, tips)
  <2>1. CASE t.op = "query_missing" /\ ProbeOK(t, commits, DOMAIN devices, store)
    BY <1>2, <2>1 DEF TaskOK, ProbeOK, Succeeded
  <2>2. CASE t.op = "batch_objects" /\ UploadOK(t, commits, DOMAIN devices)
    BY <1>2, <2>2 DEF TaskOK, UploadOK
  <2>3. CASE t.op = "put_ref" /\ PublishOK(t, commits, tips)
    BY <1>2, <2>3 DEF TaskOK, PublishOK
  <2>4. CASE t.op = "list_policies"
    BY <1>2, <2>4 DEF TaskOK
  <2> QED BY <1>2, <2>1, <2>2, <2>3, <2>4 DEF TaskOK
<1> QED BY <1>2, <1>3, <1>4, LookMove

\* The handlers of other routes have no request here.
LEMMA OtherRoutes ==
  ASSUME IInv, NEW t \in tasks
  PROVE  /\ t.op \in {"query_missing", "batch_objects", "put_ref", "list_policies"}
         /\ t.pc = "log" => t.op \in {"batch_objects", "put_ref"}
BY DEF IInv, TasksInv, TaskOK, ProbeOK, UploadOK, PublishOK

\* The action List keeps the invariant.
LEMMA ListSafe ==
  ASSUME IInv, NEW t \in tasks, list_project(t), UNCHANGED syncVars
  PROVE  IInv'
<1>1. PICK reply : tasks' = Return(t, reply)
  BY DEF list_project
<1>2. t.op = "list_policies" /\ t.pc = "recv" /\ UNCHANGED <<devices, store, tips, trail>>
  BY OtherRoutes DEF list_project
<1> QED BY <1>1, <1>2, ReturnMove

\* The action Batch keeps the invariant.
LEMMA BatchSafe ==
  ASSUME IInv, NEW t \in tasks, batch_objects(t), UNCHANGED syncVars
  PROVE  IInv'
<1>1. t.op = "batch_objects" /\ t.pc = "recv" /\ UNCHANGED <<devices, store, tips, trail>>
  BY DEF batch_objects
<1>2. CASE \E reply : tasks' = Return(t, reply)
  BY <1>1, <1>2, ReturnMove
<1>3. CASE tasks' = Advance(t, IF t.body.entries = {} THEN "log" ELSE "store",
                            [status |-> 200, stored |-> 0, left |-> t.body.entries])
  <2>1. PICK pc, held, u :
          /\ pc = IF t.body.entries = {} THEN "log" ELSE "store"
          /\ held = [status |-> 200, stored |-> 0, left |-> t.body.entries]
          /\ u = [t EXCEPT !.pc = pc, !.held = held]
    OBVIOUS
  <2>2. /\ DOMAIN u = {"from", "op", "token", "body", "pc", "held"}
        /\ u.from = t.from /\ u.op = t.op /\ u.body = t.body /\ u.pc = pc /\ u.held = held
        /\ TaskOK(t, commits, DOMAIN devices, store, tips)
    BY <2>1, AdvancedFields
  <2>3. tasks' = (tasks \ {t}) \cup {u}
    BY <1>3, <2>1 DEF Advance
  <2>4. u.held = [status |-> 200, stored |-> u.held.stored, left |-> u.held.left]
        /\ u.held.left = t.body.entries
    BY <2>1, <2>2
  <2>5. UploadOK(u, commits, DOMAIN devices)
    BY <1>1, <2>1, <2>2, <2>4 DEF TaskOK, UploadOK
  <2>6. TaskOK(u, commits, DOMAIN devices, store, tips)
    BY <1>1, <2>2, <2>5 DEF TaskOK
  <2> QED BY <1>1, <2>2, <2>3, <2>6, LookMove
<1> QED BY <1>2, <1>3 DEF batch_objects

\* An object is stored: one of the entries the server can attribute.
LEMMA PutObjectSafe ==
  ASSUME IInv, NEW t \in tasks, put_object(t), UNCHANGED syncVars
  PROVE  IInv'
<1>1. t.op = "batch_objects" /\ t.pc = "store" /\ UNCHANGED <<devices, tips, trail>>
  BY DEF put_object
<1>2. UploadOK(t, commits, DOMAIN devices)
  BY <1>1 DEF IInv, TasksInv, TaskOK
<1>3. PICK id : id = Least(t.held.left)
  OBVIOUS
<1>4. id \in t.held.left /\ id \in t.body.entries
  <2>1. t.held.left \in SUBSET Nat /\ t.held.left # {}
    BY <1>1, <1>2, IdsAreNumbers DEF UploadOK, Signed, IInv, TypeInv
  <2>2. id \in t.held.left
    BY <1>3, <2>1, LeastIn
  <2> QED BY <1>1, <1>2, <2>2 DEF UploadOK
<1>5. CASE tasks' = Return(t, Answer(422)) /\ UNCHANGED store
  BY <1>1, <1>5, ReturnMove
<1>6. CASE /\ store' = store \cup {id}
           /\ tasks' = Advance(t, IF t.held.left = {id} THEN "log" ELSE "store",
                [t.held EXCEPT !.left = @ \ {id}, !.stored = @ + (IF id \in store THEN 0 ELSE 1)])
  <2>1. PICK pc, held, u :
          /\ pc = IF t.held.left = {id} THEN "log" ELSE "store"
          /\ held = [t.held EXCEPT !.left = @ \ {id}, !.stored = @ + (IF id \in store THEN 0 ELSE 1)]
          /\ u = [t EXCEPT !.pc = pc, !.held = held]
    OBVIOUS
  <2>2. /\ DOMAIN u = {"from", "op", "token", "body", "pc", "held"}
        /\ u.from = t.from /\ u.op = t.op /\ u.body = t.body /\ u.pc = pc /\ u.held = held
        /\ TaskOK(t, commits, DOMAIN devices, store, tips)
    BY <2>1, AdvancedFields
  <2>3. tasks' = (tasks \ {t}) \cup {u}
    BY <1>6, <2>1 DEF Advance
  <2>4. held = [status |-> 200, stored |-> held.stored, left |-> held.left]
        /\ held.left = t.held.left \ {id}
    <3>1. PICK h : h = t.held
      OBVIOUS
    <3>2. PICK a, b : h = [status |-> 200, stored |-> a, left |-> b]
      BY <1>1, <1>2, <3>1, ZenonT(40) DEF UploadOK
    <3>3. PICK s : s = h.stored + (IF id \in store THEN 0 ELSE 1)
      OBVIOUS
    <3>4. held = [h EXCEPT !.left = h.left \ {id}, !.stored = s]
      BY <2>1, <3>1, <3>3
    <3>5. held = [status |-> 200, stored |-> s, left |-> h.left \ {id}]
      BY <3>2, <3>4
    <3> QED BY <3>1, <3>5
  <2>5. UploadOK(u, commits, DOMAIN devices)
    <3>1. t.held.left \subseteq t.body.entries /\ u.held.left = t.held.left \ {id}
      BY <1>1, <1>2, <2>2, <2>4 DEF UploadOK
    <3>2. u.held.left \subseteq u.body.entries
      BY <2>2, <3>1
    <3>3. u.pc = "store" => u.held.left # {}
      <4>1. u.pc = "store" => t.held.left # {id}
        BY <2>1, <2>2
      <4> QED BY <1>4, <3>1, <4>1
    <3>4. u.held = [status |-> 200, stored |-> u.held.stored, left |-> u.held.left]
      BY <2>2, <2>4
    <3>5. Signed(commits, DOMAIN devices, u.body.entries) /\ u.pc \in {"store", "log"}
      BY <1>2, <2>1, <2>2 DEF UploadOK
    <3> QED BY <3>2, <3>3, <3>4, <3>5 DEF UploadOK
  <2>6. TaskOK(u, commits, DOMAIN devices', store', tips')
    BY <1>1, <2>2, <2>5, <1>2 DEF TaskOK
  <2>7. Grows
    <3>1. Extends(commits, commits')
      BY ExtendsItself DEF IInv, TypeInv, syncVars
    <3>2. tips \in RefMap(commits) /\ \A r \in RefNames : tips[r] \in Nat
      BY HistoryFacts DEF IInv, TypeInv, RefMap
    <3> QED BY <1>1, <1>6, <3>1, <3>2 DEF Grows, syncVars
  <2>8. StoreInv' /\ DOMAIN devices' \subseteq Clients
    <3>1. Signed(commits, DOMAIN devices, store \cup {id})
      BY <1>2, <1>4 DEF IInv, StoreInv, UploadOK, Signed
    <3> QED BY <1>1, <1>6, <3>1 DEF IInv, TypeInv, StoreInv, syncVars
  <2>9. Published'
    <3>1. \A v \in tasks : v.op = "put_ref" /\ v.pc = "log" => v \in tasks'
      BY <1>1, <2>3
    <3> QED BY <1>1, <3>1, PublishedKept DEF IInv
  <2> QED BY <2>2, <2>3, <2>6, <2>7, <2>8, <2>9, HandlerMove
<1> QED BY <1>3, <1>5, <1>6 DEF put_object

\* The probe's device is registered before the probe reads anything.
LEMMA RegisterSafe ==
  ASSUME IInv, NEW t \in tasks, register_device(t), UNCHANGED syncVars
  PROVE  IInv'
<1>1. t.op = "query_missing" /\ t.pc = "recv" /\ UNCHANGED <<store, tips, trail>>
  BY DEF register_device
<1>2. ProbeOK(t, commits, DOMAIN devices, store)
  BY <1>1 DEF IInv, TasksInv, TaskOK
<1>3. CASE (\E s : s # 200 /\ tasks' = Return(t, Answer(s))) /\ UNCHANGED devices
  <2>1. PICK s : s # 200 /\ tasks' = Return(t, Answer(s))
    BY <1>3
  <2>2. Answer(s).status # 200
    BY <2>1 DEF Answer
  <2> QED BY <1>1, <1>3, <2>1, <2>2, ReturnMove
<1>4. CASE /\ devices' = Registered(t.body.device, t.token.subject)
           /\ tasks' = Advance(t, "list", [status |-> 0, keys |-> list_workspace_device_keys(devices')])
  <2>1. DOMAIN devices' = DOMAIN devices \cup {t.body.device}
    BY <1>4 DEF Registered
  <2>2. DOMAIN devices' \subseteq Clients
    BY <1>2, <2>1 DEF IInv, TypeInv, ProbeOK
  <2>3. list_workspace_device_keys(devices') \subseteq Clients
    BY <2>2 DEF list_workspace_device_keys
  <2>4. PICK held : /\ tasks' = Advance(t, "list", held) /\ held.keys \subseteq Clients
    BY <1>4, <2>3
  <2>5. PICK u : u = [t EXCEPT !.pc = "list", !.held = held]
    OBVIOUS
  <2>6. /\ DOMAIN u = {"from", "op", "token", "body", "pc", "held"}
        /\ u.from = t.from /\ u.op = t.op /\ u.body = t.body /\ u.pc = "list" /\ u.held = held
        /\ TaskOK(t, commits, DOMAIN devices, store, tips)
    BY <2>5, AdvancedFields
  <2>7. tasks' = (tasks \ {t}) \cup {u}
    BY <2>4, <2>5 DEF Advance
  <2>8. ProbeOK(u, commits, DOMAIN devices', store')
    BY <1>2, <2>1, <2>4, <2>6 DEF ProbeOK, Succeeded
  <2>9. TaskOK(u, commits, DOMAIN devices', store', tips')
    BY <1>1, <2>6, <2>8 DEF TaskOK
  <2>10. Grows
    <3>1. Extends(commits, commits')
      BY ExtendsItself DEF IInv, TypeInv, syncVars
    <3>2. tips \in RefMap(commits) /\ \A r \in RefNames : tips[r] \in Nat
      BY HistoryFacts DEF IInv, TypeInv, RefMap
    <3> QED BY <1>1, <2>1, <3>1, <3>2 DEF Grows, syncVars
  <2>11. StoreInv'
    BY <1>1, <2>1 DEF IInv, StoreInv, Signed, syncVars
  <2>12. Published'
    <3>1. \A v \in tasks : v.op = "put_ref" /\ v.pc = "log" => v \in tasks'
      BY <1>1, <2>7
    <3> QED BY <1>1, <3>1, PublishedKept DEF IInv
  <2> QED BY <2>2, <2>6, <2>7, <2>9, <2>10, <2>11, <2>12, HandlerMove
<1>5. \/ (\E s : s # 200 /\ tasks' = Return(t, Answer(s))) /\ UNCHANGED devices
      \/ /\ devices' = Registered(t.body.device, t.token.subject)
         /\ tasks' = Advance(t, "list", [status |-> 0, keys |-> list_workspace_device_keys(devices')])
  <2> DEFINE a == authorize(t.token, SYNC_CLASSES)
             s == IF a = 200 /\ Cardinality(t.body.known) > MaxList THEN 400 ELSE Screened(t, FALSE)
  <2>1. IF s # 200 THEN tasks' = Return(t, Answer(s)) /\ UNCHANGED devices
        ELSE IF ~verify_device_identity(t.body) THEN tasks' = Return(t, Answer(401)) /\ UNCHANGED devices
        ELSE /\ devices' = Registered(t.body.device, t.token.subject)
             /\ tasks' = Advance(t, "list",
                  [status |-> 0, keys |-> list_workspace_device_keys(devices')])
    BY DEF register_device
  <2>2. 401 # 200
    OBVIOUS
  <2> HIDE DEF s
  <2> QED BY <2>1, <2>2
<1> QED BY <1>3, <1>4, <1>5

\* The action GetObjects keeps the invariant.
LEMMA GetObjectsSafe ==
  ASSUME IInv, NEW t \in tasks, get_objects(t), UNCHANGED syncVars
  PROVE  IInv'
<1>1. t.op = "query_missing" /\ t.pc = "list" /\ UNCHANGED <<devices, store, tips, trail>>
  BY DEF get_objects
<1>2. ProbeOK(t, commits, DOMAIN devices, store)
  BY <1>1 DEF IInv, TasksInv, TaskOK
<1>3. PICK missing : missing = store \ t.body.known
  OBVIOUS
<1>4. PICK held : held = [status |-> 200, keys |-> t.held.keys, ids |-> store,
                          missing |-> FirstOf(missing, MaxMissing),
                          truncated |-> Cardinality(missing) > MaxMissing]
  OBVIOUS
<1>5. tasks' = Advance(t, "refs", held)
  BY <1>3, <1>4 DEF get_objects
<1>6. /\ held.keys = t.held.keys /\ held.ids = store /\ held.missing = FirstOf(missing, MaxMissing)
  BY <1>4
<1>7. held.truncated \in BOOLEAN
  BY <1>4
<1>8. held.missing \subseteq store
  BY <1>3, <1>6, FirstOfSubset
<1>9. PICK u : u = [t EXCEPT !.pc = "refs", !.held = held]
  OBVIOUS
<1>10. /\ DOMAIN u = {"from", "op", "token", "body", "pc", "held"}
       /\ u.from = t.from /\ u.op = t.op /\ u.body = t.body /\ u.pc = "refs" /\ u.held = held
       /\ TaskOK(t, commits, DOMAIN devices, store, tips)
  BY <1>9, AdvancedFields
<1>11. tasks' = (tasks \ {t}) \cup {u}
  BY <1>5, <1>9 DEF Advance
<1>12. ProbeOK(u, commits, DOMAIN devices, store)
  BY <1>1, <1>2, <1>6, <1>7, <1>8, <1>10 DEF ProbeOK, Succeeded
<1>13. TaskOK(u, commits, DOMAIN devices, store, tips)
  BY <1>1, <1>10, <1>12 DEF TaskOK
<1> QED BY <1>1, <1>10, <1>11, <1>13, LookMove

\* The action ListRefs keeps the invariant.
LEMMA ListRefsSafe ==
  ASSUME IInv, NEW t \in tasks, list_ref_states(t), UNCHANGED syncVars
  PROVE  IInv'
<1>1. /\ t.op = "query_missing" /\ t.pc = "refs" /\ UNCHANGED <<devices, store, tips>>
      /\ trail \subseteq trail'
  BY DEF list_ref_states, append_audit_event
<1>2. ProbeOK(t, commits, DOMAIN devices, store)
  BY <1>1 DEF IInv, TasksInv, TaskOK
<1>3. PICK held : held = [status |-> 200, keys |-> t.held.keys, ids |-> t.held.ids,
                          missing |-> t.held.missing, truncated |-> t.held.truncated, refs |-> tips]
  OBVIOUS
<1>4. /\ held.keys = t.held.keys /\ held.ids = t.held.ids /\ held.missing = t.held.missing
      /\ held.truncated = t.held.truncated /\ held.refs = tips
  BY <1>3
<1>5. tasks' = Return(t, held)
  BY <1>3 DEF list_ref_states
<1>6. PICK u : u = [t EXCEPT !.pc = "done", !.held = held]
  OBVIOUS
<1>7. /\ DOMAIN u = {"from", "op", "token", "body", "pc", "held"}
      /\ u.from = t.from /\ u.op = t.op /\ u.body = t.body /\ u.pc = "done" /\ u.held = held
      /\ TaskOK(t, commits, DOMAIN devices, store, tips)
  BY <1>6, AdvancedFields
<1>8. tasks' = (tasks \ {t}) \cup {u} \/ tasks' = tasks \ {t}
  BY <1>5, <1>6 DEF Return
<1>9. ProbeOK(u, commits, DOMAIN devices, store)
  <2>1. tips \in RefMap(commits)
    BY DEF IInv, TypeInv
  <2> QED BY <1>1, <1>2, <1>4, <1>7, <2>1 DEF ProbeOK, Succeeded
<1>10. TaskOK(u, commits, DOMAIN devices, store, tips)
  BY <1>1, <1>7, <1>9 DEF TaskOK
<1> QED BY <1>1, <1>7, <1>8, <1>10, LookMove

\* The protection check: what passes it unauthorized is already published.
LEMMA PutRefSafe ==
  ASSUME IInv, NEW t \in tasks, put_ref(t), UNCHANGED syncVars
  PROVE  IInv'
<1>1. t.op = "put_ref" /\ t.pc = "recv" /\ UNCHANGED <<devices, store, tips, trail>>
  BY DEF put_ref
<1>2. PublishOK(t, commits, tips)
  BY <1>1 DEF IInv, TasksInv, TaskOK
<1>3. CASE \E reply : tasks' = Return(t, reply)
  BY <1>1, <1>3, ReturnMove
<1>4. CASE ~Refused(t.body) /\ tasks' = Advance(t, "swap", Answer(0))
  <2>1. PICK u : u = [t EXCEPT !.pc = "swap", !.held = Answer(0)]
    OBVIOUS
  <2>2. /\ DOMAIN u = {"from", "op", "token", "body", "pc", "held"}
        /\ u.from = t.from /\ u.op = t.op /\ u.token = t.token /\ u.body = t.body /\ u.pc = "swap"
        /\ TaskOK(t, commits, DOMAIN devices, store, tips)
    BY <2>1, AdvancedFields
  <2>3. tasks' = (tasks \ {t}) \cup {u}
    BY <1>4, <2>1 DEF Advance
  <2>4. t.body.ref \in EnvironmentRefs \cap ProtectedRefs /\ ~t.body.authorized
          => tips[t.body.ref] >= t.body.commit
    <3>1. t.body.commit \in Nat
      BY <1>2 DEF PublishOK
    <3> QED BY <1>4, <3>1 DEF Refused
  <2>5. PublishOK(u, commits, tips)
    BY <1>2, <2>2, <2>4 DEF PublishOK
  <2>6. TaskOK(u, commits, DOMAIN devices, store, tips)
    BY <1>1, <2>2, <2>5 DEF TaskOK
  <2> QED BY <1>1, <2>2, <2>3, <2>6, LookMove
<1> QED BY <1>3, <1>4 DEF put_ref

\* The swap moves a ref to a descendant of what it was.
LEMMA SwapMoves ==
  ASSUME IInv, NEW t \in tasks, t.op = "put_ref", t.pc = "swap",
         tips[t.body.ref] = t.body.base, tips' = [tips EXCEPT ![t.body.ref] = t.body.commit]
  PROVE  /\ t.body.ref \in RefNames /\ t.body.commit \in 1..Len(commits) /\ t.body.commit > t.body.base
         /\ tips[t.body.ref] = 0 \/ tips[t.body.ref] \in Shared!Lineage(Parents(commits), t.body.commit)
         /\ tips' \in RefMap(commits) /\ tips'[t.body.ref] = t.body.commit
         /\ \A r \in RefNames : r # t.body.ref => tips'[r] = tips[r]
         /\ \A r \in RefNames : tips[r] <= tips'[r]
         /\ t.body.ref \in EnvironmentRefs \cap ProtectedRefs => t.body.authorized
<1>1. PublishOK(t, commits, tips)
  BY DEF IInv, TasksInv, TaskOK
<1>2. tips \in [RefNames -> 0..Len(commits)] /\ Len(commits) \in Nat
  BY HistoryFacts DEF IInv, TypeInv, RefMap
<1>3. /\ t.body.ref \in RefNames /\ t.body.commit \in 1..Len(commits)
      /\ t.body.base \in 0..(t.body.commit - 1)
      /\ t.body.base = 0 \/ t.body.base \in Shared!Lineage(Parents(commits), t.body.commit)
      /\ t.body.ref \in EnvironmentRefs \cap ProtectedRefs /\ ~t.body.authorized
           => tips[t.body.ref] >= t.body.commit
  BY <1>1 DEF PublishOK
<1>4. t.body.commit > t.body.base /\ t.body.commit \in Nat /\ t.body.base \in Nat
  BY <1>2, <1>3
<1>5. tips' \in [RefNames -> 0..Len(commits)] /\ tips'[t.body.ref] = t.body.commit
      /\ \A r \in RefNames : r # t.body.ref => tips'[r] = tips[r]
  BY <1>2, <1>3
<1>6. ASSUME NEW r \in RefNames PROVE tips[r] <= tips'[r]
  <2>1. tips[r] \in Nat
    BY <1>2
  <2>2. CASE r = t.body.ref
    BY <1>4, <1>5, <2>2
  <2>3. CASE r # t.body.ref
    BY <1>5, <2>1, <2>3
  <2> QED BY <2>2, <2>3
<1>7. t.body.ref \in EnvironmentRefs \cap ProtectedRefs => t.body.authorized
  BY <1>3, <1>4
<1> QED BY <1>3, <1>4, <1>5, <1>6, <1>7 DEF RefMap

\* The action Swap keeps the invariant.
LEMMA SwapSafe ==
  ASSUME IInv, NEW t \in tasks, compare_and_swap_ref(t), UNCHANGED syncVars
  PROVE  IInv'
<1>1. t.op = "put_ref" /\ t.pc = "swap" /\ UNCHANGED <<devices, store, trail>>
  BY DEF compare_and_swap_ref
<1>2. CASE (\E reply : tasks' = Return(t, reply)) /\ UNCHANGED tips
  BY <1>1, <1>2, ReturnMove
<1>3. CASE /\ tips[t.body.ref] = t.body.base
           /\ tips' = [tips EXCEPT ![t.body.ref] = t.body.commit]
           /\ tasks' = Advance(t, "log", Answer(200))
  <2>1. PICK u : u = [t EXCEPT !.pc = "log", !.held = Answer(200)]
    OBVIOUS
  <2>2. /\ DOMAIN u = {"from", "op", "token", "body", "pc", "held"}
        /\ u.from = t.from /\ u.op = t.op /\ u.token = t.token /\ u.body = t.body /\ u.pc = "log"
        /\ TaskOK(t, commits, DOMAIN devices, store, tips)
    BY <2>1, AdvancedFields
  <2>3. tasks' = (tasks \ {t}) \cup {u}
    BY <1>3, <2>1 DEF Advance
  <2>4. PublishOK(u, commits, tips')
    BY <1>1, <2>2 DEF TaskOK, PublishOK
  <2>5. TaskOK(u, commits, DOMAIN devices', store', tips')
    BY <1>1, <2>2, <2>4 DEF TaskOK
  <2>6. /\ tips' \in RefMap(commits) /\ tips'[t.body.ref] = t.body.commit
        /\ \A r \in RefNames : r # t.body.ref => tips'[r] = tips[r]
        /\ \A r \in RefNames : tips[r] <= tips'[r]
    BY <1>1, <1>3, SwapMoves
  <2>7. Grows
    <3>1. Extends(commits, commits')
      BY ExtendsItself DEF IInv, TypeInv, syncVars
    <3>2. tips \in RefMap(commits)
      BY DEF IInv, TypeInv
    <3> QED BY <1>1, <2>6, <3>1, <3>2 DEF Grows, syncVars
  <2>8. StoreInv' /\ DOMAIN devices' \subseteq Clients
    BY <1>1 DEF IInv, TypeInv, StoreInv, syncVars
  <2>9. Published'
    <3> SUFFICES ASSUME NEW r \in RefNames, tips'[r] \notin {0, 1}
                 PROVE  \/ \E c \in Clients : <<"ref.update", c, <<r, tips'[r]>>>> \in trail'
                        \/ \E v \in tasks' : v.op = "put_ref" /\ v.pc = "log" /\ v.body.ref = r
                                             /\ v.body.commit = tips'[r]
      BY DEF Published
    <3>1. CASE r = t.body.ref
      BY <1>1, <2>2, <2>3, <2>6, <3>1
    <3>2. CASE r # t.body.ref
      <4>1. tips'[r] = tips[r]
        BY <2>6, <3>2
      <4>2. \A v \in tasks : v.pc = "log" => v \in tasks'
        BY <1>1, <2>3
      <4> QED BY <1>1, <4>1, <4>2 DEF IInv, Published
    <3> QED BY <3>1, <3>2
  <2> QED BY <2>2, <2>3, <2>5, <2>7, <2>8, <2>9, HandlerMove
<1> QED BY <1>2, <1>3 DEF compare_and_swap_ref

\* The event is appended before the handler is gone.
LEMMA LogSafe ==
  ASSUME IInv, NEW t \in tasks, LogAndReply(t), UNCHANGED syncVars
  PROVE  IInv'
<1>1. t.pc = "log" /\ UNCHANGED <<devices, store, tips>> /\ trail \subseteq trail'
      /\ tasks' = Return(t, t.held) /\ t.op \in {"batch_objects", "put_ref"}
  BY OtherRoutes DEF LogAndReply, append_audit_event
<1>2. PICK u : u = [t EXCEPT !.pc = "done", !.held = t.held]
  OBVIOUS
<1>3. /\ DOMAIN u = {"from", "op", "token", "body", "pc", "held"}
      /\ u.from = t.from /\ u.op = t.op /\ u.token = t.token /\ u.body = t.body /\ u.pc = "done"
      /\ TaskOK(t, commits, DOMAIN devices, store, tips)
  BY <1>2, AdvancedFields
<1>4. tasks' = (tasks \ {t}) \cup {u} \/ tasks' = tasks \ {t}
  BY <1>1, <1>2 DEF Return
<1>5. TaskOK(u, commits, DOMAIN devices', store', tips')
  <2>1. CASE t.op = "batch_objects"
    BY <1>1, <1>3, <2>1 DEF TaskOK, UploadOK
  <2>2. CASE t.op = "put_ref"
    BY <1>1, <1>3, <2>2 DEF TaskOK, PublishOK
  <2> QED BY <1>1, <2>1, <2>2
<1>6. Grows
  <2>1. Extends(commits, commits')
    BY ExtendsItself DEF IInv, TypeInv, syncVars
  <2>2. tips \in RefMap(commits) /\ \A r \in RefNames : tips[r] \in Nat
    BY HistoryFacts DEF IInv, TypeInv, RefMap
  <2> QED BY <1>1, <2>1, <2>2 DEF Grows, syncVars
<1>7. StoreInv' /\ DOMAIN devices' \subseteq Clients
  BY <1>1 DEF IInv, TypeInv, StoreInv, syncVars
<1>8. Published'
  <2> SUFFICES ASSUME NEW r \in RefNames, tips[r] \notin {0, 1}
               PROVE  \/ \E c \in Clients : <<"ref.update", c, <<r, tips[r]>>>> \in trail'
                      \/ \E v \in tasks' : v.op = "put_ref" /\ v.pc = "log" /\ v.body.ref = r
                                           /\ v.body.commit = tips[r]
    BY <1>1 DEF Published
  <2>1. CASE \E c \in Clients : <<"ref.update", c, <<r, tips[r]>>>> \in trail
    BY <1>1, <2>1
  <2>2. CASE \E v \in tasks : v.op = "put_ref" /\ v.pc = "log" /\ v.body.ref = r
                              /\ v.body.commit = tips[r]
    <3>1. PICK v \in tasks : v.op = "put_ref" /\ v.pc = "log" /\ v.body.ref = r
                             /\ v.body.commit = tips[r]
      BY <2>2
    <3>2. CASE v # t
      BY <1>4, <3>1, <3>2
    <3>3. CASE v = t
      <4>1. EventOf(t).action = "ref.update" /\ EventOf(t).what = <<r, tips[r]>>
        BY <3>1, <3>3 DEF EventOf
      <4>2. <<"ref.update", t.token.subject, <<r, tips[r]>>>> \in trail'
        BY <4>1 DEF LogAndReply, append_audit_event
      <4>3. t.token.subject \in Clients
        BY <1>3, <3>1, <3>3 DEF TaskOK, PublishOK
      <4> QED BY <4>2, <4>3
    <3> QED BY <3>2, <3>3
  <2> QED BY <2>1, <2>2 DEF IInv, Published
<1> QED BY <1>3, <1>4, <1>5, <1>6, <1>7, <1>8, HandlerMove

\* Every step of a handler keeps the invariant.
LEMMA HandlerSafe ==
  ASSUME IInv, NEW t \in tasks, HandlerStep(t), UNCHANGED syncVars
  PROVE  IInv'
<1>1. t.op \in {"query_missing", "batch_objects", "put_ref", "list_policies"}
  BY OtherRoutes
<1>2. ~create_session(t) /\ ~create_workspace(t) /\ ~add_workspace_member(t) /\ ~list_workspaces(t)
  BY <1>1 DEF create_session, create_workspace, add_workspace_member, list_workspaces
<1>3. ~put_policy(t) /\ ~create_agent(t) /\ ~issue_agent_session(t) /\ ~append_events(t)
  BY <1>1 DEF put_policy, create_agent, issue_agent_session, append_events
<1> QED BY <1>2, <1>3, ListSafe, LogSafe, BatchSafe, PutObjectSafe, RegisterSafe, GetObjectsSafe,
           ListRefsSafe, PutRefSafe, SwapSafe DEF HandlerStep

-------------------------------------------------------------------------------
(* The theorems.                                                           *)

\* The invariant holds at first.
LEMMA InitSafe == Init => IInv
<1> SUFFICES ASSUME Init PROVE IInv
  OBVIOUS
<1>1. PICK tree \in Trees :
        /\ commits = <<[parent |-> 0, tree |-> tree, signer |-> Founder]>>
        /\ store = {1, tree} /\ objs = [c \in Clients |-> {1, tree}]
        /\ devices = [d \in {Founder} |-> Founder]
  BY DEF Init
<1>2. /\ heads = [c \in Clients |-> [r \in RefNames |-> IF r = RefOrder[1] THEN 1 ELSE 0]]
      /\ tips = [r \in RefNames |-> IF r = RefOrder[1] THEN 1 ELSE 0]
      /\ tasks = {} /\ run = [c \in Clients |-> Idle]
  BY DEF Init
<1>3. /\ Len(commits) = 1 /\ commits \in Seq(CommitRecord) /\ commits[1].parent = 0
      /\ commits[1].signer = Founder
  <2>1. PICK first : first = [parent |-> 0, tree |-> tree, signer |-> Founder]
    OBVIOUS
  <2>2. first \in CommitRecord /\ first.parent = 0 /\ first.signer = Founder
    BY <2>1, FounderIsClient DEF CommitRecord
  <2>3. commits = <<first>>
    BY <1>1, <2>1
  <2> QED BY <2>2, <2>3
<1>4. History(commits)
  <2>1. \A n \in 1..Len(commits) : n = 1
    BY <1>3
  <2> QED BY <1>3, <2>1, TreesAreIds DEF History
<1>5. {1, tree} \subseteq Ids(commits) /\ DOMAIN devices = {Founder}
  BY <1>1, <1>3 DEF Ids
<1>6. Signed(commits, {Founder}, {1, tree})
  <2>1. \A n \in 1..Len(commits) : n = 1
    BY <1>3
  <2> QED BY <1>3, <1>5, <2>1 DEF Signed
<1>7. heads \in [Clients -> RefMap(commits)] /\ tips \in RefMap(commits)
  BY <1>2, <1>3 DEF RefMap
<1>8. objs \in [Clients -> SUBSET Ids(commits)] /\ \A c \in Clients : objs[c] = {1, tree}
  BY <1>1, <1>5
<1>9. ASSUME NEW c \in Clients
      PROVE  RunOK(run[c], commits, DOMAIN devices, store, objs[c])
  BY <1>2, <1>4, IdleOK
<1>10. run \in [Clients -> RunRecord]
  <2>1. Idle \in RunRecord
    BY <1>4, IdleOK DEF RunOK
  <2> QED BY <1>2, <2>1
<1>11. TypeInv
  BY <1>4, <1>5, <1>7, <1>8, <1>10, FounderIsClient DEF TypeInv
<1>12. StoreInv /\ ObjsInv
  <2>1. \A c \in Clients : Signed(commits, DOMAIN devices \cup {c}, objs[c])
    BY <1>5, <1>6, <1>8 DEF Signed
  <2> QED BY <1>1, <1>5, <1>6, <2>1 DEF StoreInv, ObjsInv
<1>13. TasksInv /\ Paired
  BY <1>2 DEF TasksInv, Paired
<1>14. LocalTipsResolve /\ Published
  BY <1>2, <1>8 DEF LocalTipsResolve, Published
<1> QED BY <1>9, <1>11, <1>12, <1>13, <1>14 DEF IInv, RunsInv

\* Every step of a client keeps the invariant.
LEMMA ClientSafe ==
  ASSUME IInv, NEW c \in Clients, ClientStep(c)
  PROVE  IInv'
BY ProbeSafe, ProbedSafe, UploadBatchSafe, UploadedSafe, StartPublishSafe, PublishRefSafe, PutSafe,
   ApplyObjectsSafe, ReconcileSafe, ApplyRefSafe, AskPoliciesSafe, ApplyPoliciesSafe DEF ClientStep

\* Every step keeps the invariant.
LEMMA StepSafe == IInv /\ [Next]_vars => IInv'
<1> SUFFICES ASSUME IInv, [Next]_vars PROVE IInv'
  OBVIOUS
<1>1. CASE UNCHANGED vars
  BY <1>1 DEF vars, cpVars, syncVars, IInv, TypeInv, StoreInv, ObjsInv, RunsInv, TasksInv, Paired,
              LocalTipsResolve, Published
<1>2. ASSUME NEW c \in Clients, ClientStep(c) \/ Abandon(c) \/ DieApplying(c) PROVE IInv'
  BY <1>2, ClientSafe, AbandonSafe, DieApplyingSafe
<1>3. ASSUME NEW c \in Clients, NEW t \in Trees, Commit(c, t) PROVE IInv'
  BY <1>3, CommitSafe
<1>4. ASSUME NEW c \in Clients, NEW e \in EnvironmentRefs, Promote(c, e) PROVE IInv'
  BY <1>4, PromoteSafe
<1>5. ASSUME NEW c \in Clients, NEW cmd \in Commands[c], Begin(c, cmd) PROVE IInv'
  BY <1>5, BeginSafe
<1>6. ASSUME NEW c \in Clients \cup {None}, ServerStep(c) PROVE IInv'
  BY <1>6, HandlerSafe DEF ServerStep
<1> QED BY <1>1, <1>2, <1>3, <1>4, <1>5, <1>6 DEF Next

\* The inductive invariant: whatever clients, their abandoned requests and the
\* handlers do, and in whatever order, histories and refs are well formed, a
\* run has one request at most and it is the one it waits for, uploads are of
\* attributable commits, publications of descendants of their base.
THEOREM SyncInvariant == Spec => []IInv
BY InitSafe, StepSafe, PTL DEF Spec

\* A commit at the server was signed by a registered device, and the commit a
\* shared ref names has its event, or its handler is about to append it.
THEOREM CommitsAreAttributable == Spec => []CommitsAttributable
<1>1. IInv => CommitsAttributable
  <2> SUFFICES ASSUME IInv PROVE CommitsAttributable
    OBVIOUS
  <2>1. \A n \in store \cap (1..Len(commits)) : commits[n].signer \in DOMAIN devices
    BY DEF IInv, StoreInv, Signed
  <2>2. \A t \in tasks : t.op = "put_ref" => EventOf(t).what = <<t.body.ref, t.body.commit>>
    BY DEF EventOf
  <2>3. ASSUME NEW r \in RefNames, tips[r] \notin {0, 1}
        PROVE  \/ \E c \in Clients : <<"ref.update", c, <<r, tips[r]>>>> \in trail
               \/ \E t \in tasks : t.op = "put_ref" /\ t.pc = "log" /\ EventOf(t).what = <<r, tips[r]>>
    BY <2>2, <2>3 DEF IInv, Published
  <2> QED BY <2>1, <2>3 DEF CommitsAttributable
<1> QED BY <1>1, SyncInvariant, PTL

\* A local ref names a commit that is in the working copy.
THEOREM LocalTipsAlwaysResolve == Spec => []LocalTipsResolve
<1>1. IInv => LocalTipsResolve
  BY DEF IInv
<1> QED BY <1>1, SyncInvariant, PTL

\* Only the compare-and-swap moves a shared ref, only a commit extends the
\* history.
LEMMA SharedMoves ==
  ASSUME IInv, [Next]_vars
  PROVE  \/ UNCHANGED <<tips, commits>>
         \/ /\ UNCHANGED commits
            /\ \E t \in tasks : /\ t.op = "put_ref" /\ t.pc = "swap" /\ tips[t.body.ref] = t.body.base
                                /\ tips' = [tips EXCEPT ![t.body.ref] = t.body.commit]
         \/ /\ UNCHANGED tips
            /\ \E c \in Clients, t \in Trees : Commit(c, t)
<1>1. CASE UNCHANGED vars
  BY <1>1, SMTT(40) DEF vars, cpVars, syncVars
<1>2. ASSUME NEW c \in Clients, ClientStep(c) PROVE UNCHANGED <<tips, commits>>
  BY <1>2 DEF ClientStep, Probe, Probed, UploadBatch, Uploaded, StartPublish, PublishRef, Put,
              ApplyObjects, Reconcile, apply_ref, AskPolicies, apply_remote_policies, cpVars
<1>3. ASSUME NEW c \in Clients,
             \/ Abandon(c) \/ DieApplying(c) \/ (\E e \in EnvironmentRefs : Promote(c, e))
             \/ (\E cmd \in Commands[c] : Begin(c, cmd))
      PROVE  UNCHANGED <<tips, commits>>
  BY <1>3 DEF Abandon, DieApplying, Promote, Begin, cpVars
<1>4. ASSUME NEW c \in Clients, NEW t \in Trees, Commit(c, t) PROVE UNCHANGED tips
  BY <1>4 DEF Commit, cpVars
<1>5. ASSUME NEW c, ServerStep(c)
      PROVE  /\ UNCHANGED commits
             /\ \/ UNCHANGED tips
                \/ \E t \in tasks : /\ t.op = "put_ref" /\ t.pc = "swap" /\ tips[t.body.ref] = t.body.base
                                    /\ tips' = [tips EXCEPT ![t.body.ref] = t.body.commit]
  <2>1. PICK t \in tasks : HandlerStep(t)
    BY <1>5 DEF ServerStep
  <2>2. CASE compare_and_swap_ref(t)
    BY <1>5, <2>2 DEF compare_and_swap_ref, ServerStep, syncVars
  <2>3. CASE ~compare_and_swap_ref(t)
    <3>1. UNCHANGED tips
      BY <2>1, <2>3 DEF HandlerStep, create_session, create_workspace, add_workspace_member,
         list_workspaces, list_project, put_policy, create_agent, issue_agent_session, append_events,
         LogAndReply, batch_objects, put_object, register_device, get_objects, list_ref_states, put_ref
    <3> QED BY <1>5, <3>1, SMTT(40) DEF ServerStep, syncVars
  <2> QED BY <2>2, <2>3
<1> QED BY <1>1, <1>2, <1>3, <1>4, <1>5 DEF Next

\* A protected environment ref moves at the server only for a request that
\* carried the authorization: what the check let through without it was
\* published by then, and a ref never comes back to an earlier commit.
THEOREM ProtectedMovesAreAuthorized == Spec => ProtectedMovesAuthorized
<1>1. ASSUME IInv, [Next]_vars
      PROVE  \A r \in EnvironmentRefs \cap ProtectedRefs : tips'[r] # tips[r] =>
               \E t \in tasks : /\ t.op = "put_ref" /\ t.body.ref = r
                                 /\ t.body.commit = tips'[r] /\ t.body.authorized
  <2> SUFFICES ASSUME NEW r \in EnvironmentRefs \cap ProtectedRefs, tips'[r] # tips[r]
               PROVE  \E t \in tasks : /\ t.op = "put_ref" /\ t.body.ref = r
                                        /\ t.body.commit = tips'[r] /\ t.body.authorized
    OBVIOUS
  <2>1. PICK t \in tasks : /\ t.op = "put_ref" /\ t.pc = "swap" /\ tips[t.body.ref] = t.body.base
                           /\ tips' = [tips EXCEPT ![t.body.ref] = t.body.commit]
    BY <1>1, SharedMoves
  <2>2. /\ tips'[t.body.ref] = t.body.commit /\ \A x \in RefNames : x # t.body.ref => tips'[x] = tips[x]
        /\ t.body.ref \in EnvironmentRefs \cap ProtectedRefs => t.body.authorized
    BY <1>1, <2>1, SwapMoves
  <2>3. r = t.body.ref
    BY <2>2, RefOrderLists
  <2> QED BY <2>1, <2>2, <2>3
<1>2. IInv /\ [Next]_vars =>
        [\A r \in EnvironmentRefs \cap ProtectedRefs : tips'[r] # tips[r] =>
           \E t \in tasks : /\ t.op = "put_ref" /\ t.body.ref = r
                             /\ t.body.commit = tips'[r] /\ t.body.authorized]_vars
  BY <1>1
<1> QED BY <1>2, SyncInvariant, PTL DEF Spec, ProtectedMovesAuthorized

\* The detailed protocol implements SharedRefs: the shared refs only move
\* forward along a history that only grows.
THEOREM SharedRefsMoveForward == Spec => SharedForward
<1>1. Init => Shared!Init
  <2> SUFFICES ASSUME Init PROVE Shared!Init
    OBVIOUS
  <2>1. History(commits) /\ tips \in RefMap(commits)
    BY InitSafe DEF IInv, TypeInv
  <2>2. Len(commits) \in Nat /\ \A n \in 1..Len(commits) : commits[n].parent \in Nat
    BY <2>1, HistoryFacts
  <2>3. Parents(commits) \in Seq(Nat) /\ Len(Parents(commits)) = Len(commits)
    BY <2>2 DEF Parents
  <2> QED BY <2>1, <2>3 DEF Shared!Init, RefMap
<1>2. ASSUME IInv, [Next]_vars
      PROVE  [Shared!Next]_<<Parents(commits), tips>>
  <2>1. CASE UNCHANGED <<tips, commits>>
    BY <2>1 DEF Parents
  <2>2. CASE /\ UNCHANGED commits
             /\ \E t \in tasks : /\ t.op = "put_ref" /\ t.pc = "swap" /\ tips[t.body.ref] = t.body.base
                                 /\ tips' = [tips EXCEPT ![t.body.ref] = t.body.commit]
    <3>1. PICK t \in tasks : /\ t.op = "put_ref" /\ t.pc = "swap" /\ tips[t.body.ref] = t.body.base
                             /\ tips' = [tips EXCEPT ![t.body.ref] = t.body.commit]
      BY <2>2
    <3>2. /\ t.body.ref \in RefNames /\ t.body.commit \in 1..Len(commits)
          /\ tips[t.body.ref] = 0
             \/ tips[t.body.ref] \in Shared!Lineage(Parents(commits), t.body.commit)
      BY <1>2, <3>1, SwapMoves
    <3>3. Len(Parents(commits)) = Len(commits)
      BY <1>2, HistoryFacts DEF IInv, TypeInv, Parents
    <3>4. Shared!Publish(t.body.ref, t.body.commit)
      BY <2>2, <3>1, <3>2, <3>3 DEF Shared!Publish, Parents
    <3> QED BY <3>2, <3>3, <3>4 DEF Shared!Next
  <2>3. CASE UNCHANGED tips /\ \E c \in Clients, t \in Trees : Commit(c, t)
    <3>1. PICK c \in Clients, t \in Trees : Commit(c, t)
      BY <2>3
    <3>2. PICK new : /\ new = [parent |-> heads[c][RefOrder[1]], tree |-> t, signer |-> c]
                     /\ commits' = Append(commits, new)
      BY <3>1 DEF Commit
    <3>3. Len(commits) \in Nat /\ commits \in Seq(CommitRecord)
          /\ \A n \in 1..Len(commits) : commits[n].parent \in Nat
      BY <1>2, HistoryFacts DEF IInv, TypeInv, History
    <3>4. new.parent \in 0..Len(commits)
      BY <1>2, <3>2, RefOrderLists DEF IInv, TypeInv, RefMap
    <3>5. Len(commits') = Len(commits) + 1 /\ commits'[Len(commits) + 1] = new
          /\ \A n \in 1..Len(commits) : commits'[n] = commits[n]
      BY <3>2, <3>3
    <3>6. Len(Parents(commits)) = Len(commits)
      BY <3>3 DEF Parents
    <3>7. Parents(commits') = Append(Parents(commits), new.parent)
      BY <3>3, <3>4, <3>5, <3>6 DEF Parents
    <3>8. Shared!Commit(new.parent)
      BY <2>3, <3>4, <3>6, <3>7 DEF Shared!Commit, Parents
    <3> QED BY <3>4, <3>6, <3>8 DEF Shared!Next
  <2> QED BY <1>2, <2>1, <2>2, <2>3, SharedMoves
<1>3. IInv /\ [Next]_vars => [Shared!Next]_<<Parents(commits), tips>>
  BY <1>2
<1> QED BY <1>1, <1>3, SyncInvariant, PTL DEF Spec, SharedForward, Shared!Spec

-------------------------------------------------------------------------------
(* The control plane under requests of every kind.                         *)

\* What a session proves, whoever asked for it.
SessionsProven(sessions) ==
  \A k \in sessions : /\ k = Token(k.class, k.subject)
                      /\ k.class = "ControlSession" => k.subject \in Users

TaskFields(H) == [from : {None}, op : H, token : H, body : H, pc : H, held : H]
Running(t) == \E H : t \in TaskFields(H)

\* Past its checks a handler of the project acts for a member who has a session
\* of the route's class.
Clear(t, sessions) ==
  t.token \in sessions /\ t.token.class \in Classes(t.op) /\ t.token.subject \in Members

Logging == {"put_policy", "create_agent", "ingest_audit", "put_ref", "batch_objects"}

\* Where a handler is in its sequence of store calls.
Placed(t, sessions, size) ==
  /\ t.pc \in {"store", "swap", "list", "refs", "log", "mint"} => Clear(t, sessions)
  /\ t.pc = "log" => t.op \in Logging
  /\ t.pc = "mint" => t.op = "create_agent"
  /\ t.pc = "member" => t.held.id \in 2..size

\* The project's workspace is the first, and nothing is taken from the table.
Spaces(ws) == (\E D : ws \in Seq(D)) /\ Len(ws) > 0 /\ ws[1] = Members

\* A handler that owes the trail its event, and a change that is accounted for.
Owes(t, op, what) == t.op = op /\ t.pc \in {"mint", "log"} /\ EventOf(t).what = what
Settled(op, action, what, events, ts) ==
  \/ \E s \in Users : <<action, s, what>> \in events
  \/ \E t \in ts : Owes(t, op, what)

AllSettled(named, ids, refs, events, ts) ==
  /\ \A n \in named : Settled("put_policy", "policy.update", n, events, ts)
  /\ \A g \in ids : Settled("create_agent", "agent.created", g, events, ts)
  /\ \A r \in RefNames : refs[r] # 0 =>
       Settled("put_ref", "ref.update", <<r, refs[r]>>, events, ts)

\* The actor of one event.
ActorKnown(e, sessions) ==
  e[1] # "ingested" =>
    /\ e[2] \in Members
    /\ \E class \in IF e[1] = "objects.query_missing" THEN SYNC_CLASSES ELSE ADMIN_CLASSES :
         Token(class, e[2]) \in sessions

AdminInv ==
  /\ SessionsProven(api_sessions) /\ Spaces(workspaces)
  /\ DOMAIN tips = RefNames /\ tips = [r \in RefNames |-> tips[r]]
  /\ \A t \in tasks : Running(t) /\ Placed(t, api_sessions, Len(workspaces))
  /\ AllSettled(DOMAIN policies, agents, tips, trail, tasks)
  /\ \A e \in trail : ActorKnown(e, api_sessions)

\* The invariant says that every change is audited.
LEMMA InvIsAudited == AdminInv => AdminAudited
<1> SUFFICES ASSUME AdminInv PROVE AdminAudited
  OBVIOUS
<1>1. ActorsAreMembers
  BY DEF AdminInv, ActorKnown, ActorsAreMembers
<1>2. ChangesAudited
  BY DEF AdminInv, AllSettled, Settled, Owes, ChangesAudited, Pending
<1> QED BY <1>1, <1>2 DEF AdminAudited

\* The handler goes on, or returns to a caller that is not waiting.
LEMMA Advanced ==
  ASSUME NEW t, Running(t), NEW pc, NEW held, tasks' = Advance(t, pc, held)
  PROVE  \E u : /\ Running(u) /\ tasks' = (tasks \ {t}) \cup {u}
                /\ u.op = t.op /\ u.token = t.token /\ u.body = t.body /\ u.pc = pc /\ u.held = held
<1>1. PICK H : t \in TaskFields(H)
  BY DEF Running
<1>2. PICK K : K = H \cup {pc, held}
  OBVIOUS
<1>3. t \in TaskFields(K) /\ pc \in K /\ held \in K
  BY <1>1, <1>2 DEF TaskFields
<1>4. PICK u : u = [t EXCEPT !.pc = pc, !.held = held]
  OBVIOUS
<1>5. /\ u \in TaskFields(K) /\ u.op = t.op /\ u.token = t.token /\ u.body = t.body
      /\ u.pc = pc /\ u.held = held
  BY <1>3, <1>4 DEF TaskFields
<1>6. tasks' = (tasks \ {t}) \cup {u}
  BY <1>4 DEF Advance
<1> QED BY <1>5, <1>6 DEF Running

\* The tasks after one of them has returned its reply.
LEMMA Returned ==
  ASSUME NEW t, Running(t), NEW reply, tasks' = Return(t, reply)
  PROVE  tasks' = tasks \ {t}
<1>1. t.from = None
  BY DEF Running, TaskFields
<1> QED BY <1>1 DEF Return

\* What the checks establish.
LEMMA ScreenedClears ==
  ASSUME Spaces(workspaces), NEW t, NEW bad, Screened(t, bad) = 200
  PROVE  Clear(t, api_sessions)
<1>1. PICK a, p : /\ a = authorize(t.token, Classes(t.op)) /\ p = require_project(t.token, t.body.project)
                  /\ 200 = CASE a # 200 -> a [] p # 200 -> p [] bad -> 400 [] OTHER -> 200
  BY DEF Screened
<1>2. a = 200 /\ p = 200
  BY <1>1
<1>3. t.token \in api_sessions /\ t.token.class \in Classes(t.op)
  BY <1>1, <1>2 DEF authorize
<1>4. t.token.subject \in Members
  BY <1>1, <1>2 DEF require_project, Spaces
<1> QED BY <1>3, <1>4 DEF Clear

\* One handler is replaced by what it becomes: `new` is empty or its next stage.
Steps(t, new) == tasks' = (tasks \ {t}) \cup new

\* What a step must respect for everyone else, and the stage it leads to.
Respects(t, new) ==
  /\ Steps(t, new)
  /\ api_sessions \subseteq api_sessions' /\ SessionsProven(api_sessions')
  /\ Spaces(workspaces') /\ Len(workspaces) <= Len(workspaces')
  /\ DOMAIN tips' = RefNames /\ tips' = [r \in RefNames |-> tips'[r]]
  /\ \A v \in new : Running(v) /\ Placed(v, api_sessions', Len(workspaces'))
  /\ trail \subseteq trail' /\ \A e \in trail' : e \in trail \/ ActorKnown(e, api_sessions')

\* A handler that changes its own task only keeps the invariant.
LEMMA HandlerKeeps ==
  ASSUME AdminInv, NEW t \in tasks, NEW new, Respects(t, new),
         AllSettled(DOMAIN policies', agents', tips', trail', tasks')
  PROVE  AdminInv'
<1>1. /\ api_sessions \subseteq api_sessions' /\ SessionsProven(api_sessions')
      /\ Spaces(workspaces') /\ DOMAIN tips' = RefNames /\ tips' = [r \in RefNames |-> tips'[r]]
  BY DEF Respects
<1>2. Len(workspaces) \in Nat /\ Len(workspaces') \in Nat /\ Len(workspaces) <= Len(workspaces')
  BY DEF Respects, Spaces, AdminInv
<1>3. ASSUME NEW v \in tasks' PROVE Running(v) /\ Placed(v, api_sessions', Len(workspaces'))
  <2>1. CASE v \in new
    BY <2>1 DEF Respects
  <2>2. CASE v \in tasks
    <3>1. Running(v) /\ Placed(v, api_sessions, Len(workspaces))
      BY <2>2 DEF AdminInv
    <3>2. v.held.id \in 2..Len(workspaces) => v.held.id \in 2..Len(workspaces')
      BY <1>2
    <3> QED BY <1>1, <3>1, <3>2 DEF Placed, Clear
  <2> QED BY <1>3, <2>1, <2>2 DEF Respects, Steps
<1>4. ASSUME NEW e \in trail' PROVE ActorKnown(e, api_sessions')
  <2>1. CASE e \in trail
    BY <1>1, <2>1 DEF AdminInv, ActorKnown
  <2> QED BY <1>4, <2>1 DEF Respects
<1> QED BY <1>1, <1>3, <1>4 DEF AdminInv

\* A change that was accounted for stays so, if the handler that moved did not
\* owe its event or has seen to it.
LEMMA StaysSettled ==
  ASSUME NEW t \in tasks, NEW new, Steps(t, new), trail \subseteq trail',
         NEW op, NEW action, NEW what, Settled(op, action, what, trail, tasks),
         Owes(t, op, what) => Settled(op, action, what, trail', new)
  PROVE  Settled(op, action, what, trail', tasks')
BY DEF Settled, Steps

\* The steps of handlers that owe nothing yet and change none of the three tables.
LEMMA QuietHandler ==
  ASSUME AdminInv, NEW t \in tasks, NEW new, Respects(t, new), t.pc \notin {"mint", "log"},
         UNCHANGED <<policies, agents, tips>>
  PROVE  AdminInv'
<1>1. \A op, what : ~Owes(t, op, what)
  BY DEF Owes
<1>2. Steps(t, new) /\ trail \subseteq trail'
  BY DEF Respects
<1>3. AllSettled(DOMAIN policies', agents', tips', trail', tasks')
  BY <1>1, <1>2, StaysSettled DEF AdminInv, AllSettled
<1> QED BY <1>3, HandlerKeeps

\* A handler that returns without a change to report keeps the invariant.
LEMMA ReturnsQuietly ==
  ASSUME AdminInv, NEW t \in tasks, NEW reply, t.pc \notin {"mint", "log"},
         tasks' = Return(t, reply),
         UNCHANGED <<api_sessions, agents, workspaces, tips, policies, trail>>
  PROVE  AdminInv'
<1>1. tasks' = tasks \ {t}
  BY Returned DEF AdminInv
<1>2. Respects(t, {})
  BY <1>1 DEF Respects, Steps, AdminInv, Spaces
<1> QED BY <1>2, QuietHandler

\* A cleared handler goes on to a stage in which it owes nothing.
LEMMA AdvancesQuietly ==
  ASSUME AdminInv, NEW t \in tasks, NEW pc \in {"store", "swap", "list", "refs", "log"}, NEW held,
         t.pc \notin {"mint", "log"}, Clear(t, api_sessions), pc = "log" => t.op \in Logging,
         tasks' = Advance(t, pc, held), trail \subseteq trail',
         \A e \in trail' : e \in trail \/ ActorKnown(e, api_sessions),
         UNCHANGED <<api_sessions, agents, workspaces, tips, policies>>
  PROVE  AdminInv'
<1>1. PICK u : /\ Running(u) /\ tasks' = (tasks \ {t}) \cup {u}
               /\ u.op = t.op /\ u.token = t.token /\ u.body = t.body /\ u.pc = pc /\ u.held = held
  BY Advanced DEF AdminInv
<1>2. Placed(u, api_sessions, Len(workspaces))
  BY <1>1 DEF Placed, Clear
<1>3. Respects(t, {u})
  BY <1>1, <1>2 DEF Respects, Steps, AdminInv, Spaces
<1> QED BY <1>3, QuietHandler

-------------------------------------------------------------------------------
(* Sessions, workspaces, listings.                                         *)

\* The handler create_session keeps the invariant.
LEMMA create_sessionKeeps ==
  ASSUME AdminInv, NEW t \in tasks, create_session(t), UNCHANGED submitted
  PROVE  AdminInv'
<1>1. t.pc = "recv" /\ UNCHANGED <<agents, workspaces, tips, policies, trail>>
  BY DEF create_session
<1>2. ASSUME NEW reply, tasks' = Return(t, reply), UNCHANGED api_sessions PROVE AdminInv'
  BY <1>1, <1>2, ReturnsQuietly
<1>3. ASSUME Proven(t.body), NEW reply, tasks' = Return(t, reply),
             api_sessions' = api_sessions \cup {Token(t.body.class, t.body.subject)}
      PROVE  AdminInv'
  <2>1. PICK k : k = Token(t.body.class, t.body.subject)
    OBVIOUS
  <2>2. k = Token(k.class, k.subject) /\ (k.class = "ControlSession" => k.subject \in Users)
    BY <1>3, <2>1 DEF Token, Proven
  <2>3. SessionsProven(api_sessions') /\ api_sessions \subseteq api_sessions'
    BY <1>3, <2>1, <2>2 DEF SessionsProven, AdminInv
  <2>4. tasks' = tasks \ {t}
    BY <1>3, Returned DEF AdminInv
  <2>5. Respects(t, {})
    BY <1>1, <2>3, <2>4 DEF Respects, Steps, AdminInv, Spaces
  <2> QED BY <1>1, <2>5, QuietHandler
<1> QED BY <1>2, <1>3 DEF create_session

\* The handler create_workspace keeps the invariant.
LEMMA create_workspaceKeeps ==
  ASSUME AdminInv, NEW t \in tasks, create_workspace(t), UNCHANGED submitted
  PROVE  AdminInv'
<1>1. t.pc = "recv" /\ UNCHANGED <<api_sessions, agents, tips, policies, trail>>
  BY DEF create_workspace
<1>2. ASSUME NEW a, tasks' = Return(t, Answer(a)), UNCHANGED workspaces PROVE AdminInv'
  BY <1>1, <1>2, ReturnsQuietly
<1>3. ASSUME workspaces' = Append(workspaces, {t.token.subject}),
             tasks' = Advance(t, "member", [status |-> 0, id |-> Len(workspaces) + 1])
      PROVE  AdminInv'
  <2>1. PICK D : workspaces \in Seq(D)
    BY DEF AdminInv, Spaces
  <2>2. PICK x : x = {t.token.subject}
    OBVIOUS
  <2>3. PICK E : D \subseteq E /\ x \in E
    <3>1. D \subseteq D \cup {x} /\ x \in D \cup {x}
      OBVIOUS
    <3> QED BY <3>1
  <2>4. workspaces \in Seq(E) /\ workspaces' = Append(workspaces, x)
    BY <1>3, <2>1, <2>2, <2>3
  <2>5. workspaces' \in Seq(E) /\ Len(workspaces') = Len(workspaces) + 1 /\ Len(workspaces) \in Nat
    BY <2>3, <2>4
  <2>6. workspaces'[1] = Members
    BY <2>4, <2>5 DEF AdminInv, Spaces
  <2>7. Spaces(workspaces') /\ Len(workspaces) <= Len(workspaces')
    BY <2>5, <2>6 DEF Spaces
  <2>8. PICK h : h = [status |-> 0, id |-> Len(workspaces) + 1]
    OBVIOUS
  <2>9. PICK u : /\ Running(u) /\ tasks' = (tasks \ {t}) \cup {u}
                 /\ u.op = t.op /\ u.pc = "member" /\ u.held = h
    BY <1>3, <2>8, Advanced DEF AdminInv
  <2>10. u.held.id \in 2..Len(workspaces')
    BY <2>5, <2>8, <2>9 DEF AdminInv, Spaces
  <2>11. Placed(u, api_sessions', Len(workspaces'))
    BY <2>9, <2>10 DEF Placed
  <2>12. Respects(t, {u})
    BY <1>1, <2>7, <2>9, <2>11 DEF Respects, Steps, AdminInv
  <2> QED BY <1>1, <2>12, QuietHandler
<1> QED BY <1>2, <1>3 DEF create_workspace

\* The handler add_workspace_member keeps the invariant.
LEMMA add_workspace_memberKeeps ==
  ASSUME AdminInv, NEW t \in tasks, add_workspace_member(t), UNCHANGED submitted
  PROVE  AdminInv'
<1>1. t.pc = "member" /\ UNCHANGED <<api_sessions, agents, tips, policies, trail>>
  BY DEF add_workspace_member
<1>2. PICK n, x : /\ n = t.held.id /\ x = workspaces[n] \cup {t.token.subject}
                  /\ workspaces' = [workspaces EXCEPT ![n] = x]
  BY DEF add_workspace_member
<1>3. n \in 2..Len(workspaces)
  BY <1>1, <1>2 DEF AdminInv, Placed
<1>4. PICK D : workspaces \in Seq(D)
  BY DEF AdminInv, Spaces
<1>5. PICK E : D \subseteq E /\ x \in E
  <2>1. D \subseteq D \cup {x} /\ x \in D \cup {x}
    OBVIOUS
  <2> QED BY <2>1
<1>6. workspaces \in Seq(E)
  BY <1>4, <1>5
<1>7. workspaces' \in Seq(E) /\ Len(workspaces') = Len(workspaces) /\ Len(workspaces) \in Nat
  BY <1>2, <1>3, <1>5, <1>6
<1>8. workspaces'[1] = Members
  BY <1>2, <1>3, <1>6 DEF AdminInv, Spaces
<1>9. Spaces(workspaces') /\ Len(workspaces) <= Len(workspaces')
  BY <1>7, <1>8 DEF AdminInv, Spaces
<1>10. tasks' = tasks \ {t}
  BY Returned DEF AdminInv, add_workspace_member
<1>11. Respects(t, {})
  BY <1>1, <1>9, <1>10 DEF Respects, Steps, AdminInv
<1> QED BY <1>1, <1>11, QuietHandler

\* The listings keep the invariant.
LEMMA ListingsKeep ==
  ASSUME AdminInv, NEW t \in tasks, list_project(t) \/ list_workspaces(t), UNCHANGED submitted
  PROVE  AdminInv'
<1>1. /\ t.pc = "recv" /\ UNCHANGED <<api_sessions, agents, workspaces, tips, policies, trail>>
      /\ \E reply : tasks' = Return(t, reply)
  BY DEF list_project, list_workspaces
<1> QED BY <1>1, ReturnsQuietly

-------------------------------------------------------------------------------
(* Policies, agents and refs: the change is made, the event is owed.       *)

\* A handler goes on to a stage in which it owes `what`, which it has added to
\* its table; the other entries of the tables are those there were.
LEMMA ChangeIsOwed ==
  ASSUME AdminInv, NEW t \in tasks, NEW pc \in {"mint", "log"}, NEW held, NEW what,
         t.pc \notin {"mint", "log"}, Clear(t, api_sessions), t.op \in Logging,
         pc = "mint" => t.op = "create_agent",
         tasks' = Advance(t, pc, held), UNCHANGED <<api_sessions, workspaces, trail>>,
         DOMAIN tips' = RefNames, tips' = [r \in RefNames |-> tips'[r]],
         \A u : u.op = t.op /\ u.body = t.body => EventOf(u).what = what,
         \A n \in DOMAIN policies' : n \in DOMAIN policies \/ (t.op = "put_policy" /\ n = what),
         \A g \in agents' : g \in agents \/ (t.op = "create_agent" /\ g = what),
         \A r \in RefNames : tips'[r] = tips[r] \/ (t.op = "put_ref" /\ <<r, tips'[r]>> = what)
  PROVE  AdminInv'
<1>1. PICK u : /\ Running(u) /\ tasks' = (tasks \ {t}) \cup {u}
               /\ u.op = t.op /\ u.token = t.token /\ u.body = t.body /\ u.pc = pc /\ u.held = held
  BY Advanced DEF AdminInv
<1>2. Placed(u, api_sessions, Len(workspaces))
  BY <1>1 DEF Placed, Clear
<1>3. Respects(t, {u})
  BY <1>1, <1>2 DEF Respects, Steps, AdminInv, Spaces
<1>4. Owes(u, t.op, what) /\ u \in tasks'
  BY <1>1 DEF Owes
<1>5. \A action : Settled(t.op, action, what, trail', tasks')
  BY <1>4 DEF Settled
<1>6. ASSUME NEW op, NEW action, NEW w, Settled(op, action, w, trail, tasks)
      PROVE  Settled(op, action, w, trail', tasks')
  BY <1>1, <1>6 DEF Settled, Owes
<1>7. \A n \in DOMAIN policies' : Settled("put_policy", "policy.update", n, trail', tasks')
  BY <1>5, <1>6 DEF AdminInv, AllSettled
<1>8. \A g \in agents' : Settled("create_agent", "agent.created", g, trail', tasks')
  BY <1>5, <1>6 DEF AdminInv, AllSettled
<1>9. ASSUME NEW r \in RefNames, tips'[r] # 0
      PROVE  Settled("put_ref", "ref.update", <<r, tips'[r]>>, trail', tasks')
  <2>1. CASE tips'[r] = tips[r]
    BY <1>6, <1>9, <2>1 DEF AdminInv, AllSettled
  <2>2. CASE t.op = "put_ref" /\ <<r, tips'[r]>> = what
    BY <1>5, <2>2
  <2> QED BY <2>1, <2>2
<1>10. AllSettled(DOMAIN policies', agents', tips', trail', tasks')
  BY <1>7, <1>8, <1>9 DEF AllSettled
<1> QED BY <1>3, <1>10, HandlerKeeps

\* The handler put_policy keeps the invariant.
LEMMA put_policyKeeps ==
  ASSUME AdminInv, NEW t \in tasks, put_policy(t), UNCHANGED submitted
  PROVE  AdminInv'
<1>1. t.op = "put_policy" /\ t.pc = "recv" /\ UNCHANGED <<api_sessions, agents, workspaces, tips, trail>>
  BY DEF put_policy
<1>2. PICK s : /\ s = Screened(t, t.body.document = "not JSON")
               /\ \/ s # 200 /\ tasks' = Return(t, Answer(s)) /\ UNCHANGED policies
                  \/ /\ s = 200 /\ tasks' = Advance(t, "log", Answer(200))
                     /\ policies' = [n \in DOMAIN policies \cup {t.body.name} |->
                                      IF n = t.body.name THEN t.body.document ELSE policies[n]]
  BY DEF put_policy
<1>3. CASE tasks' = Return(t, Answer(s)) /\ UNCHANGED policies
  BY <1>1, <1>3, ReturnsQuietly
<1>4. CASE /\ s = 200 /\ tasks' = Advance(t, "log", Answer(200))
           /\ policies' = [n \in DOMAIN policies \cup {t.body.name} |->
                            IF n = t.body.name THEN t.body.document ELSE policies[n]]
  <2>1. Clear(t, api_sessions) /\ t.op \in Logging
    <3>1. PICK bad : Screened(t, bad) = 200 /\ Spaces(workspaces)
      <4>1. PICK x : x = (t.body.document = "not JSON")
        OBVIOUS
      <4>2. Screened(t, x) = 200
        BY <1>2, <1>4, <4>1
      <4> QED BY <4>2 DEF AdminInv
    <3>2. Clear(t, api_sessions)
      BY <3>1, ScreenedClears
    <3> QED BY <1>1, <3>2 DEF Logging
  <2>2. \A u : u.op = t.op /\ u.body = t.body => EventOf(u).what = t.body.name
    BY <1>1 DEF EventOf
  <2>3. DOMAIN policies' = DOMAIN policies \cup {t.body.name}
    BY <1>4
  <2>4. DOMAIN tips' = RefNames /\ tips' = [r \in RefNames |-> tips'[r]]
    BY <1>1 DEF AdminInv
  <2> QED BY <1>1, <1>4, <2>1, <2>2, <2>3, <2>4, ChangeIsOwed
<1> QED BY <1>2, <1>3, <1>4

\* The handler create_agent keeps the invariant.
LEMMA create_agentKeeps ==
  ASSUME AdminInv, NEW t \in tasks, create_agent(t), UNCHANGED submitted
  PROVE  AdminInv'
<1>1. t.op = "create_agent" /\ t.pc = "recv" /\ UNCHANGED <<api_sessions, workspaces, tips, policies, trail>>
  BY DEF create_agent
<1>2. PICK s : /\ s = Screened(t, FALSE)
               /\ \/ s # 200 /\ tasks' = Return(t, Answer(s)) /\ UNCHANGED agents
                  \/ /\ s = 200 /\ tasks' = Advance(t, "mint", Answer(0))
                     /\ agents' = agents \cup {t.body.agent}
  BY DEF create_agent
<1>3. CASE tasks' = Return(t, Answer(s)) /\ UNCHANGED agents
  BY <1>1, <1>3, ReturnsQuietly
<1>4. CASE s = 200 /\ tasks' = Advance(t, "mint", Answer(0)) /\ agents' = agents \cup {t.body.agent}
  <2>1. Clear(t, api_sessions) /\ t.op \in Logging
    <3>1. Screened(t, FALSE) = 200 /\ Spaces(workspaces)
      BY <1>2, <1>4 DEF AdminInv
    <3>2. Clear(t, api_sessions)
      BY <3>1, ScreenedClears
    <3> QED BY <1>1, <3>2 DEF Logging
  <2>2. \A u : u.op = t.op /\ u.body = t.body => EventOf(u).what = t.body.agent
    BY <1>1 DEF EventOf
  <2>3. DOMAIN tips' = RefNames /\ tips' = [r \in RefNames |-> tips'[r]]
    BY <1>1 DEF AdminInv
  <2> QED BY <1>1, <1>4, <2>1, <2>2, <2>3, ChangeIsOwed
<1> QED BY <1>2, <1>3, <1>4

\* The handler compare_and_swap_ref keeps the invariant.
LEMMA compare_and_swap_refKeeps ==
  ASSUME AdminInv, NEW t \in tasks, compare_and_swap_ref(t), UNCHANGED submitted
  PROVE  AdminInv'
<1>1. t.op = "put_ref" /\ t.pc = "swap" /\ UNCHANGED <<api_sessions, agents, workspaces, policies, trail>>
  BY DEF compare_and_swap_ref
<1>2. CASE UNCHANGED tips /\ tasks' = Return(t, [status |-> 409, error |-> "ref_conflict"])
  BY <1>1, <1>2, ReturnsQuietly
<1>3. CASE tips' = [tips EXCEPT ![t.body.ref] = t.body.commit] /\ tasks' = Advance(t, "log", Answer(200))
  <2>1. Clear(t, api_sessions) /\ t.op \in Logging
    BY <1>1 DEF AdminInv, Placed, Logging
  <2>2. PICK what : what = <<t.body.ref, t.body.commit>>
    OBVIOUS
  <2>3. \A u : u.op = t.op /\ u.body = t.body => EventOf(u).what = what
    BY <1>1, <2>2 DEF EventOf
  <2>4. /\ DOMAIN tips' = RefNames /\ tips' = [r \in RefNames |-> tips'[r]]
        /\ \A r \in RefNames : tips'[r] = tips[r] \/ (r = t.body.ref /\ tips'[r] = t.body.commit)
    BY <1>3 DEF AdminInv
  <2>5. \A r \in RefNames : tips'[r] = tips[r] \/ <<r, tips'[r]>> = what
    BY <2>4, <2>2
  <2>6. \A r \in RefNames : tips'[r] = tips[r] \/ (t.op = "put_ref" /\ <<r, tips'[r]>> = what)
    BY <1>1, <2>5
  <2>7. /\ \A n \in DOMAIN policies' : n \in DOMAIN policies \/ (t.op = "put_policy" /\ n = what)
        /\ \A g \in agents' : g \in agents \/ (t.op = "create_agent" /\ g = what)
    BY <1>1
  <2>8. tasks' = Advance(t, "log", Answer(200)) /\ t.pc \notin {"mint", "log"}
    BY <1>1, <1>3
  <2>9. UNCHANGED <<api_sessions, workspaces, trail>> /\ DOMAIN tips' = RefNames
        /\ tips' = [r \in RefNames |-> tips'[r]]
    BY <1>1, <2>4
  <2> QED BY <2>1, <2>3, <2>6, <2>7, <2>8, <2>9, ChangeIsOwed
<1> QED BY <1>2, <1>3 DEF compare_and_swap_ref

\* The handler issue_agent_session keeps the invariant.
LEMMA issue_agent_sessionKeeps ==
  ASSUME AdminInv, NEW t \in tasks, issue_agent_session(t), UNCHANGED submitted
  PROVE  AdminInv'
<1>1. /\ t.op = "create_agent" /\ t.pc = "mint"
      /\ UNCHANGED <<api_sessions, agents, workspaces, tips, policies, trail>>
      /\ \E held : tasks' = Advance(t, "log", held)
  BY DEF issue_agent_session
<1>2. PICK u : /\ Running(u) /\ tasks' = (tasks \ {t}) \cup {u}
               /\ u.op = t.op /\ u.token = t.token /\ u.body = t.body /\ u.pc = "log"
  BY <1>1, Advanced DEF AdminInv
<1>3. Clear(t, api_sessions)
  BY <1>1 DEF AdminInv, Placed
<1>4. Placed(u, api_sessions, Len(workspaces))
  BY <1>1, <1>2, <1>3 DEF Placed, Clear, Logging
<1>5. Respects(t, {u})
  BY <1>1, <1>2, <1>4 DEF Respects, Steps, AdminInv, Spaces
<1>6. EventOf(t).what = t.body.agent /\ EventOf(u).what = t.body.agent
  BY <1>1, <1>2 DEF EventOf
<1>7. \A op, action, what : Owes(t, op, what) => Settled(op, action, what, trail', {u})
  BY <1>2, <1>6 DEF Owes, Settled
<1>8. Steps(t, {u}) /\ trail \subseteq trail'
  BY <1>5 DEF Respects
<1>9. AllSettled(DOMAIN policies', agents', tips', trail', tasks')
  BY <1>1, <1>7, <1>8, StaysSettled DEF AdminInv, AllSettled
<1> QED BY <1>5, <1>9, HandlerKeeps

-------------------------------------------------------------------------------
(* Audit ingestion, objects, the missing ones; the events themselves.      *)

\* The handler append_events keeps the invariant.
LEMMA append_eventsKeeps ==
  ASSUME AdminInv, NEW t \in tasks, append_events(t), UNCHANGED submitted
  PROVE  AdminInv'
<1>1. /\ t.op = "ingest_audit" /\ t.pc = "recv"
      /\ UNCHANGED <<api_sessions, agents, workspaces, tips, policies>>
  BY DEF append_events
<1>2. PICK s, fine, held :
        /\ s = 200 => Screened(t, Len(t.body.events) > MaxList) = 200
        /\ \/ s # 200 /\ tasks' = Return(t, Answer(s)) /\ UNCHANGED trail
           \/ /\ s = 200 /\ tasks' = Advance(t, "log", held)
              /\ trail' = trail \cup {<<"ingested", t.body.events[i].actor, t.body.events[i].sequence>> : i \in fine}
  <2> DEFINE ev == t.body.events
             ok == {i \in 1..Len(ev) : ev[i].valid}
             got == [status |-> 200, accepted |-> Cardinality(ok), rejected |-> (1..Len(ev)) \ ok]
             s == Screened(t, Len(ev) > MaxList)
  <2>1. IF s # 200 THEN tasks' = Return(t, Answer(s)) /\ UNCHANGED trail
        ELSE /\ trail' = trail \cup {<<"ingested", ev[i].actor, ev[i].sequence>> : i \in ok}
             /\ tasks' = Advance(t, "log", got)
    BY DEF append_events
  <2> HIDE DEF ok, got, s
  <2>2. s = 200 => Screened(t, Len(t.body.events) > MaxList) = 200
    BY DEF s
  <2>3. CASE s # 200
    <3>1. WITNESS s, ok, got
    <3> QED BY <2>1, <2>3
  <2>4. CASE s = 200
    <3>1. WITNESS s, ok, got
    <3> QED BY <2>1, <2>2, <2>4
  <2> QED BY <2>3, <2>4
<1>3. CASE tasks' = Return(t, Answer(s)) /\ UNCHANGED trail
  BY <1>1, <1>3, ReturnsQuietly
<1>4. CASE /\ s = 200 /\ tasks' = Advance(t, "log", held)
           /\ trail' = trail \cup {<<"ingested", t.body.events[i].actor, t.body.events[i].sequence>> : i \in fine}
  <2>1. Screened(t, Len(t.body.events) > MaxList) = 200 /\ Spaces(workspaces)
    BY <1>2, <1>4 DEF AdminInv
  <2>2. Clear(t, api_sessions)
    BY <2>1, ScreenedClears
  <2>3. trail \subseteq trail' /\ \A e \in trail' : e \in trail \/ ActorKnown(e, api_sessions)
    <3>1. \A i : ActorKnown(<<"ingested", t.body.events[i].actor, t.body.events[i].sequence>>, api_sessions)
      BY DEF ActorKnown
    <3> QED BY <1>4, <3>1
  <2>4. t.op \in Logging /\ "log" \in {"store", "swap", "list", "refs", "log"} /\ t.pc \notin {"mint", "log"}
    BY <1>1 DEF Logging
  <2> QED BY <1>1, <1>4, <2>2, <2>3, <2>4, AdvancesQuietly
<1> QED BY <1>2, <1>3, <1>4

\* The object uploads keep the invariant.
LEMMA ObjectsKeep ==
  ASSUME AdminInv, NEW t \in tasks, batch_objects(t) \/ put_object(t), UNCHANGED submitted
  PROVE  AdminInv'
<1>1. /\ t.op = "batch_objects" /\ t.pc \in {"recv", "store"}
      /\ UNCHANGED <<api_sessions, agents, workspaces, tips, policies, trail>>
  BY DEF batch_objects, put_object
<1>2. t.pc \notin {"mint", "log"} /\ t.op \in Logging
  BY <1>1 DEF Logging
<1>3. ASSUME NEW reply, tasks' = Return(t, reply) PROVE AdminInv'
  BY <1>1, <1>2, <1>3, ReturnsQuietly
<1>4. ASSUME NEW pc \in {"log", "store"}, NEW held, Clear(t, api_sessions), tasks' = Advance(t, pc, held)
      PROVE  AdminInv'
  BY <1>1, <1>2, <1>4, AdvancesQuietly
<1>5. CASE batch_objects(t)
  <2>1. PICK s, pc, held : /\ s = Screened(t, Cardinality(t.body.entries) > MaxList)
                           /\ pc \in {"log", "store"}
                           /\ tasks' = IF s # 200 THEN Return(t, Answer(s)) ELSE Advance(t, pc, held)
    BY <1>5 DEF batch_objects
  <2>2. s = 200 => Clear(t, api_sessions)
    <3>1. SUFFICES ASSUME Screened(t, Cardinality(t.body.entries) > MaxList) = 200
                   PROVE  Clear(t, api_sessions)
      BY <2>1
    <3>2. Spaces(workspaces)
      BY DEF AdminInv
    <3> QED BY <3>1, <3>2, ScreenedClears
  <2> QED BY <1>3, <1>4, <2>1, <2>2
<1>6. CASE put_object(t)
  <2>1. Clear(t, api_sessions)
    BY <1>6 DEF AdminInv, Placed, put_object
  <2>2. \/ \E reply : tasks' = Return(t, reply)
        \/ \E pc \in {"log", "store"} : \E held : tasks' = Advance(t, pc, held)
    BY <1>6 DEF put_object
  <2> QED BY <1>3, <1>4, <2>1, <2>2
<1> QED BY <1>5, <1>6

\* Registering a device, reading objects and the refused put_ref keep the invariant.
LEMMA QueriesKeep ==
  ASSUME AdminInv, NEW t \in tasks, register_device(t) \/ get_objects(t) \/ put_ref(t), UNCHANGED submitted
  PROVE  AdminInv'
<1>1. /\ t.pc \in {"recv", "list"} /\ t.pc \notin {"mint", "log"}
      /\ UNCHANGED <<api_sessions, agents, workspaces, tips, policies, trail>>
  BY DEF register_device, get_objects, put_ref
<1>2. ASSUME NEW reply, tasks' = Return(t, reply) PROVE AdminInv'
  BY <1>1, <1>2, ReturnsQuietly
<1>3. ASSUME NEW pc \in {"swap", "list", "refs"}, NEW held, Clear(t, api_sessions), tasks' = Advance(t, pc, held)
      PROVE  AdminInv'
  BY <1>1, <1>3, AdvancesQuietly
<1>4. Spaces(workspaces)
  BY DEF AdminInv
<1>5. CASE register_device(t)
  <2> DEFINE a == authorize(t.token, SYNC_CLASSES)
             s == IF a = 200 /\ Cardinality(t.body.known) > MaxList THEN 400 ELSE Screened(t, FALSE)
             keys == [status |-> 0, keys |-> list_workspace_device_keys(devices')]
  <2>1. IF s # 200 THEN tasks' = Return(t, Answer(s)) /\ UNCHANGED devices
        ELSE IF ~verify_device_identity(t.body) THEN tasks' = Return(t, Answer(401)) /\ UNCHANGED devices
        ELSE /\ devices' = Registered(t.body.device, t.token.subject)
             /\ tasks' = Advance(t, "list", keys)
    BY <1>5 DEF register_device
  <2>2. PICK x : x = Screened(t, FALSE)
    OBVIOUS
  <2>3. s = 400 \/ s = x
    BY <2>2, Zenon
  <2>4. x = 200 => Clear(t, api_sessions)
    BY <1>4, <2>2, ScreenedClears
  <2> HIDE DEF a, s, keys
  <2>5. s = 200 => Clear(t, api_sessions)
    BY <2>3, <2>4
  <2> QED BY <1>2, <1>3, <2>1, <2>5
<1>6. CASE get_objects(t)
  <2>1. Clear(t, api_sessions) /\ \E held : tasks' = Advance(t, "refs", held)
    BY <1>6 DEF AdminInv, Placed, get_objects
  <2> QED BY <1>3, <2>1
<1>7. CASE put_ref(t)
  <2>1. PICK s : /\ s = Screened(t, t.body.ref \notin RefNames)
                 /\ \/ \E reply : tasks' = Return(t, reply)
                    \/ s = 200 /\ tasks' = Advance(t, "swap", Answer(0))
    BY <1>7 DEF put_ref
  <2>2. s = 200 => Clear(t, api_sessions)
    <3>1. SUFFICES ASSUME Screened(t, t.body.ref \notin RefNames) = 200
                   PROVE  Clear(t, api_sessions)
      BY <2>1
    <3> QED BY <1>4, <3>1, ScreenedClears
  <2> QED BY <1>2, <1>3, <2>1, <2>2
<1> QED BY <1>5, <1>6, <1>7

\* The handler list_ref_states keeps the invariant.
LEMMA list_ref_statesKeeps ==
  ASSUME AdminInv, NEW t \in tasks, list_ref_states(t), UNCHANGED submitted
  PROVE  AdminInv'
<1>1. /\ t.op = "query_missing" /\ t.pc = "refs"
      /\ trail' = trail \cup {<<"objects.query_missing", t.token.subject, 0>>}
      /\ UNCHANGED <<api_sessions, agents, workspaces, tips, policies>>
      /\ \E reply : tasks' = Return(t, reply)
  BY DEF list_ref_states, append_audit_event
<1>2. Clear(t, api_sessions)
  BY <1>1 DEF AdminInv, Placed
<1>3. PICK e : e = <<"objects.query_missing", t.token.subject, 0>>
  OBVIOUS
<1>4. e[1] = "objects.query_missing" /\ e[2] = t.token.subject
  BY <1>3
<1>5. /\ t.token.class \in SYNC_CLASSES /\ t.token.subject \in Members
      /\ Token(t.token.class, t.token.subject) \in api_sessions
  BY <1>1, <1>2 DEF Clear, Classes, AdminInv, SessionsProven
<1>6. ActorKnown(e, api_sessions)
  BY <1>4, <1>5 DEF ActorKnown
<1>7. tasks' = tasks \ {t}
  BY <1>1, Returned DEF AdminInv
<1>8. Respects(t, {})
  BY <1>1, <1>3, <1>6, <1>7, SMTT(40) DEF Respects, Steps, AdminInv, Spaces
<1> QED BY <1>1, <1>8, QuietHandler

\* Writing the audit record and replying keeps the invariant.
LEMMA LogAndReplyKeeps ==
  ASSUME AdminInv, NEW t \in tasks, LogAndReply(t), UNCHANGED submitted
  PROVE  AdminInv'
<1>1. PICK action, what : action = EventOf(t).action /\ what = EventOf(t).what
  OBVIOUS
<1>2. /\ t.pc = "log" /\ trail' = trail \cup {<<action, t.token.subject, what>>}
      /\ UNCHANGED <<api_sessions, agents, workspaces, tips, policies>>
      /\ \E reply : tasks' = Return(t, reply)
  BY <1>1 DEF LogAndReply, append_audit_event
<1>3. Clear(t, api_sessions) /\ t.op \in Logging
  BY <1>2 DEF AdminInv, Placed
<1>4. /\ t.op = "put_policy" => action = "policy.update"
      /\ t.op = "create_agent" => action = "agent.created"
      /\ t.op = "ingest_audit" => action = "audit.ingest"
      /\ t.op = "put_ref" => action = "ref.update"
      /\ t.op = "batch_objects" => action = "objects.batch_upload"
  BY <1>1 DEF EventOf
<1>5. /\ t.token.class = "ControlSession" /\ t.token.subject \in Members /\ t.token.subject \in Users
      /\ Token(t.token.class, t.token.subject) \in api_sessions
  BY <1>3 DEF Clear, Classes, ADMIN_CLASSES, Logging, AdminInv, SessionsProven
<1>6. PICK e : e = <<action, t.token.subject, what>>
  OBVIOUS
<1>7. e[1] = action /\ e[2] = t.token.subject
  BY <1>6
<1>8. action # "objects.query_missing"
  BY <1>3, <1>4 DEF Logging
<1>9. ActorKnown(e, api_sessions)
  BY <1>5, <1>7, <1>8 DEF ActorKnown, ADMIN_CLASSES
<1>10. tasks' = tasks \ {t}
  BY <1>2, Returned DEF AdminInv
<1>11. Respects(t, {})
  BY <1>2, <1>6, <1>9, <1>10 DEF Respects, Steps, AdminInv, Spaces
<1>12. e \in trail'
  BY <1>2, <1>6
<1>13. ASSUME NEW op, NEW verb, NEW w, Owes(t, op, w), t.op = op => action = verb
       PROVE  Settled(op, verb, w, trail', {})
  BY <1>1, <1>5, <1>6, <1>12, <1>13 DEF Owes, Settled
<1>14. Steps(t, {}) /\ trail \subseteq trail'
  BY <1>11 DEF Respects
<1>15. ASSUME NEW n \in DOMAIN policies PROVE Settled("put_policy", "policy.update", n, trail', tasks')
  <2>1. Settled("put_policy", "policy.update", n, trail, tasks)
    BY DEF AdminInv, AllSettled
  <2> QED BY <1>4, <1>13, <1>14, <2>1, StaysSettled
<1>16. ASSUME NEW g \in agents PROVE Settled("create_agent", "agent.created", g, trail', tasks')
  <2>1. Settled("create_agent", "agent.created", g, trail, tasks)
    BY DEF AdminInv, AllSettled
  <2> QED BY <1>4, <1>13, <1>14, <2>1, StaysSettled
<1>17. ASSUME NEW r \in RefNames, tips[r] # 0
       PROVE  Settled("put_ref", "ref.update", <<r, tips[r]>>, trail', tasks')
  <2>1. PICK w : w = <<r, tips[r]>>
    OBVIOUS
  <2>2. Settled("put_ref", "ref.update", w, trail, tasks)
    BY <1>17, <2>1 DEF AdminInv, AllSettled
  <2>3. Settled("put_ref", "ref.update", w, trail', tasks')
    BY <1>4, <1>13, <1>14, <2>2, StaysSettled
  <2> QED BY <2>1, <2>3
<1>18. AllSettled(DOMAIN policies', agents', tips', trail', tasks')
  BY <1>2, <1>15, <1>16, <1>17 DEF AllSettled
<1> QED BY <1>11, <1>18, HandlerKeeps

\* A new request keeps the invariant.
LEMMA SubmitKeeps ==
  ASSUME AdminInv, NEW q, Submit(q)
  PROVE  AdminInv'
<1>1. PICK u : u = Task(None, q.op, q.token, q.body)
  OBVIOUS
<1>2. tasks' = tasks \cup {u} /\ UNCHANGED <<api_sessions, agents, workspaces, tips, policies, trail>>
  BY <1>1 DEF Submit
<1>3. Running(u) /\ u.pc = "recv"
  <2>1. PICK H : {q.op, q.token, q.body, "recv", Answer(0)} \subseteq H
    OBVIOUS
  <2>2. u \in TaskFields(H) /\ u.pc = "recv"
    BY <1>1, <2>1 DEF Task, TaskFields
  <2> QED BY <2>2 DEF Running
<1>4. Placed(u, api_sessions, Len(workspaces))
  BY <1>3 DEF Placed
<1>5. AllSettled(DOMAIN policies', agents', tips', trail', tasks')
  BY <1>2 DEF AdminInv, AllSettled, Settled
<1> QED BY <1>2, <1>3, <1>4, <1>5 DEF AdminInv

(***************************************************************************)
(* api.rs, store.rs: however the requests of any number of callers         *)
(* overlap, every policy, agent and ref has its event in the audit chain   *)
(* or a handler about to append it, and what the server records was done   *)
(* by a member who holds a session of the right class.                     *)
(***************************************************************************)
THEOREM AdminStaysAudited == AdminSpec => []AdminAudited
<1>1. adminInit => AdminInv
  <2> SUFFICES ASSUME adminInit PROVE AdminInv
    OBVIOUS
  <2>1. Spaces(workspaces)
    <3>1. PICK ws : ws = <<Members>>
      OBVIOUS
    <3>2. ws \in Seq({Members}) /\ Len(ws) > 0 /\ ws[1] = Members
      BY <3>1
    <3>3. Spaces(ws)
      BY <3>2 DEF Spaces
    <3> QED BY <3>1, <3>3 DEF adminInit, cpInit
  <2>2. /\ api_sessions = {} /\ agents = {} /\ trail = {} /\ tasks = {}
        /\ tips = [r \in RefNames |-> 0] /\ policies = << >>
    BY DEF adminInit, cpInit
  <2>3. DOMAIN policies = {}
    BY <2>2
  <2>4. AllSettled(DOMAIN policies, agents, tips, trail, tasks)
    BY <2>2, <2>3 DEF AllSettled
  <2> QED BY <2>1, <2>2, <2>4 DEF AdminInv, SessionsProven
<1>2. AdminInv /\ [adminNext]_adminVars => AdminInv'
  <2> SUFFICES ASSUME AdminInv, [adminNext]_adminVars PROVE AdminInv'
    OBVIOUS
  <2>1. CASE UNCHANGED adminVars
    BY <2>1 DEF adminVars, cpVars, AdminInv
  <2>2. ASSUME NEW q \in AdminRequests, Submit(q) PROVE AdminInv'
    BY <2>2, SubmitKeeps
  <2>3. ASSUME NEW t \in tasks, HandlerStep(t), UNCHANGED submitted PROVE AdminInv'
    BY <2>3, create_sessionKeeps, create_workspaceKeeps, add_workspace_memberKeeps, ListingsKeep,
       put_policyKeeps, create_agentKeeps, issue_agent_sessionKeeps, append_eventsKeeps,
       LogAndReplyKeeps, ObjectsKeep, QueriesKeep, list_ref_statesKeeps, compare_and_swap_refKeeps
       DEF HandlerStep
  <2> QED BY <2>1, <2>2, <2>3 DEF adminNext, Handle
<1> QED BY <1>1, <1>2, InvIsAudited, PTL DEF AdminSpec
===============================================================================
