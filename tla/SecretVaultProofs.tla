--------------------------- MODULE SecretVaultProofs ---------------------------
(***************************************************************************)
(* Proofs about SecretVault, for every set of processes and every bound,   *)
(* and about the other file protocols that commands of one project run     *)
(* without a lock: SyncFiles, ProjectKeys, AgentRuns and ProjectVariables, *)
(* for any number of processes, servers, keys, agents, events and          *)
(* variables.                                                              *)
(***************************************************************************)
EXTENDS SecretVault, SyncFiles, SequenceTheorems, TLAPS, ProjectKeys,
        AgentRuns, ProjectVariables, WellFoundedInduction

\* What a process has at hand at each step of its command.
Progress ==
  \A p \in Procs :
    /\ at[p] # "idle" => job[p] \in Jobs
    /\ at[p] = "read" => listed[p] \in 0..Len(records)
    /\ at[p] \notin {"idle", "list", "read"} => job[p].op # "resolve"
    /\ at[p] \notin {"idle", "list", "read"} /\ job[p].op # "set" => latest[p] # None
    /\ at[p] \in {"stamp", "publish"} => job[p].op \in {"set", "rotate"}
    /\ at[p] \in {"revoke", "shred", "decrypt"} => job[p].op # "set"
    /\ at[p] \in {"keys", "fill_root", "read_bundle", "publish_bundle"} => job[p].op # "destroy"
    /\ at[p] \in {"read_bundle", "publish_bundle"} => held[p] # None
    /\ at[p] = "publish" => fresh[p] \in 1..MaxRevisions
    /\ at[p] \in {"revoke", "stage"} => fresh[p] \in DOMAIN records
    /\ latest[p] # None => latest[p].id \in DOMAIN records

TypeInv == VaultTypeOK /\ Progress

\* root.key is filled by the one process that created it, and a root key that
\* is held is the one in the file.
RootKey ==
  /\ \A p \in Procs : at[p] = "fill_root" => root = "empty"
  /\ \A p, q \in Procs : at[p] = "fill_root" /\ at[q] = "fill_root" => p = q
  /\ \A p \in Procs : held[p] # None => held[p] = root

\* A copy of a record is wrapped under the project key, too.
CopiedKey ==
  \A p \in Procs :
    latest[p] # None /\ latest[p].rec.dek # None => bundle # None /\ latest[p].rec.dek = bundle.key

KeyInv == RootKey /\ CopiedKey /\ OneKeyHierarchy

\* A copy differs from its record in state and data key alone, and a copy of a
\* destroyed record is no use to anyone.
Copies ==
  \A p \in Procs : latest[p] # None =>
    /\ latest[p].rec.kind = records[latest[p].id].kind
    /\ latest[p].rec.created = records[latest[p].id].created
    /\ latest[p].rec.state # "destroyed"

\* The revision a rotation makes is younger than the one it revokes.
Younger ==
  \A p \in Procs :
    /\ at[p] = "publish" /\ latest[p] # None => fresh[p] > latest[p].rec.created
    /\ at[p] = "revoke" => records[fresh[p]].created > latest[p].rec.created

\* A revoked revision has a younger one beside it.
Superseded ==
  \A i \in DOMAIN records : records[i].state = "revoked"
    => \E j \in DOMAIN records : records[j].created > records[i].created

\* Records are stamped with the clock, and destruction shreds.
Sane ==
  \A i \in DOMAIN records :
    /\ records[i].created <= clock
    /\ records[i].state = "destroyed" => records[i].dek = None

\* A creation time that is waiting to be used was read from the clock.
Stamped == \A p \in Procs : at[p] = "publish" => fresh[p] <= clock

RecordInv ==
  /\ Sane
  /\ Stamped
  /\ Copies
  /\ Younger
  /\ Superseded
  /\ StagedResolves

-------------------------------------------------------------------------------
\* Every step of a process is one of its actions.
LEMMA StepCases ==
  ASSUME [VaultNext]_vaultVars
  PROVE  \/ UNCHANGED vaultVars
         \/ \E p \in Procs :
              \/ \E j \in Jobs : Call(p, j)
              \/ Stop(p)
              \/ ListRecords(p)
              \/ ReadRecords(p)
              \/ UseCachedKeys(p)
              \/ ObtainRoot(p)
              \/ FillRoot(p)
              \/ ReadBundle(p)
              \/ PublishBundle(p)
              \/ Stamp(p)
              \/ Publish(p)
              \/ RevokeOld(p)
              \/ StageBinding(p)
              \/ Shred(p)
              \/ Decrypt(p)
BY DEF VaultNext

\* The initial state has the types and nobody is at work.
LEMMA TypeInit == VaultInit => TypeInv
BY VaultBounds DEF VaultInit, TypeInv, VaultTypeOK, Progress, Steps

\* Rewriting one record keeps the others, the length and the types.
LEMMA Rewritten ==
  ASSUME records \in Seq(RevisionRecord), NEW i \in DOMAIN records, NEW r \in RevisionRecord
  PROVE  /\ [records EXCEPT ![i] = r] \in Seq(RevisionRecord)
         /\ DOMAIN [records EXCEPT ![i] = r] = DOMAIN records
         /\ Len([records EXCEPT ![i] = r]) = Len(records)
         /\ [records EXCEPT ![i] = r][i] = r
         /\ \A j \in DOMAIN records \ {i} : [records EXCEPT ![i] = r][j] = records[j]
OBVIOUS

\* Creation times are numbers.
LEMMA CreatedTyped ==
  ASSUME TypeInv, NEW i \in DOMAIN records
  PROVE  records[i].created \in Nat
<1>1. records[i] \in RevisionRecord
  BY DEF TypeInv, VaultTypeOK
<1>2. records[i].created \in 1..MaxRevisions
  BY <1>1 DEF RevisionRecord
<1> QED
  BY <1>2, VaultBounds

\* A new record comes after the others.
LEMMA RecordAppended ==
  ASSUME records \in Seq(RevisionRecord), NEW r \in RevisionRecord
  PROVE  /\ Append(records, r) \in Seq(RevisionRecord)
         /\ DOMAIN Append(records, r) = DOMAIN records \cup {Len(records) + 1}
         /\ Len(Append(records, r)) = Len(records) + 1
         /\ Append(records, r)[Len(records) + 1] = r
         /\ \A j \in DOMAIN records : Append(records, r)[j] = records[j]
OBVIOUS

\* A process that picks among the records it listed picks a stored one.
LEMMA PickedIsStored ==
  ASSUME records \in Seq(RevisionRecord), NEW n \in 0..Len(records),
         NEW i \in pick_latest(SubSeq(records, 1, n))
  PROVE  i \in DOMAIN records /\ records[i] \in RevisionRecord
BY DEF pick_latest

\* A process about to use its copy has one, of a stored record.
LEMMA LatestTyped ==
  ASSUME TypeInv, NEW p \in Procs, at[p] \in {"revoke", "shred", "decrypt"}
  PROVE  /\ latest[p] # None
         /\ latest[p].id \in DOMAIN records
         /\ latest[p].rec \in RevisionRecord
<1>1. latest[p] # None
  BY DEF TypeInv, Progress
<1>2. latest[p] \in [id : Nat, rec : RevisionRecord]
  BY <1>1 DEF TypeInv, VaultTypeOK
<1> QED
  BY <1>1, <1>2 DEF TypeInv, Progress

\* What a process publishes is a record.
LEMMA MintedTyped ==
  ASSUME TypeInv, NEW p \in Procs, at[p] = "publish"
  PROVE  Minted(p) \in RevisionRecord
BY DEF TypeInv, VaultTypeOK, Progress, Minted, RevisionRecord, Jobs

\* A command that ends keeps the types and leaves its process idle; the
\* records may have been rewritten, none is lost.
LEMMA EndedTyped ==
  ASSUME TypeInv, NEW p \in Procs, Ended(p),
         keys' \in [Procs -> Procs \cup {None}], root' \in Procs \cup {None, "empty"},
         bundle' \in [root : Procs, key : Procs] \cup {None},
         records' \in Seq(RevisionRecord), Len(records') = Len(records),
         staged' \in Nat \cup {None}, UNCHANGED <<clock, started>>
  PROVE  TypeInv'
<1>1. DOMAIN records' = DOMAIN records
  BY DEF TypeInv, VaultTypeOK
<1> QED
  BY <1>1 DEF TypeInv, VaultTypeOK, Progress, Ended, Goto, Steps

\* A process that has the keys goes on, with the types kept.
LEMMA WithKeysTyped ==
  ASSUME TypeInv, NEW p \in Procs, NEW k \in Procs, WithKeys(p, k),
         at[p] \in {"keys", "read_bundle", "publish_bundle"},
         bundle' \in [root : Procs, key : Procs] \cup {None},
         UNCHANGED <<root, records, staged, clock, started>>
  PROVE  TypeInv'
<1>1. AfterKeys(p) \in {"decrypt", "stamp"} /\ AfterKeys(p) \in Steps
  BY DEF AfterKeys, Steps
<1>2. VaultTypeOK'
  BY <1>1 DEF TypeInv, VaultTypeOK, WithKeys, Goto
<1>3. /\ AfterKeys(p) = "decrypt" => job[p].op # "set"
      /\ AfterKeys(p) = "stamp" => job[p].op \in {"set", "rotate"}
      /\ job[p].op # "resolve"
      /\ job[p].op # "set" => latest[p] # None
      /\ job[p] \in Jobs
  <2>1. job[p] \in Jobs
    BY DEF TypeInv, Progress
  <2>2. job[p].op \in {"set", "rotate", "reveal"}
    BY <2>1 DEF TypeInv, Progress, Jobs
  <2> QED
    BY <2>1, <2>2 DEF TypeInv, Progress, AfterKeys
<1>4. Progress'
  BY <1>1, <1>3 DEF TypeInv, VaultTypeOK, Progress, WithKeys, Goto
<1> QED
  BY <1>2, <1>4 DEF TypeInv

\* So does one that reads the stored bundle, or it ends with an error.
LEMMA UnwrappedTyped ==
  ASSUME TypeInv, NEW p \in Procs, bundle # None, Unwrapped(p, bundle),
         at[p] \in {"read_bundle", "publish_bundle"},
         UNCHANGED <<root, bundle, records, staged, clock, started>>
  PROVE  TypeInv'
<1>1. bundle.key \in Procs /\ bundle' \in [root : Procs, key : Procs] \cup {None}
  BY DEF TypeInv, VaultTypeOK
<1>2. CASE bundle.root = held[p]
  BY <1>1, <1>2, WithKeysTyped DEF Unwrapped
<1>3. CASE bundle.root # held[p]
  BY <1>1, <1>3, EndedTyped DEF Unwrapped, TypeInv, VaultTypeOK
<1> QED
  BY <1>2, <1>3

\* Types and progress are kept by every step.
LEMMA TypeStep == TypeInv /\ [VaultNext]_vaultVars => TypeInv'
<1> SUFFICES ASSUME TypeInv, [VaultNext]_vaultVars PROVE TypeInv'
  OBVIOUS
<1> USE DEF TypeInv
<1>1. CASE UNCHANGED vaultVars
  BY <1>1 DEF VaultTypeOK, Progress, vaultVars, vaultFiles, procs
<1>2. ASSUME NEW p \in Procs, NEW j \in Jobs, Call(p, j) PROVE TypeInv'
  BY <1>2, VaultBounds DEF VaultTypeOK, Progress, Call, Goto, Steps
<1>3. ASSUME NEW p \in Procs, Stop(p) PROVE TypeInv'
  <2>1. keys' \in [Procs -> Procs \cup {None}]
    BY <1>3 DEF Stop, VaultTypeOK
  <2> QED
    BY <1>3, <2>1, EndedTyped DEF Stop, vaultFiles, VaultTypeOK
<1>4. ASSUME NEW p \in Procs, ListRecords(p) PROVE TypeInv'
  BY <1>4 DEF VaultTypeOK, Progress, ListRecords, Goto, Steps, vaultFiles
<1>5. ASSUME NEW p \in Procs, ReadRecords(p) PROVE TypeInv'
  <2>1. CASE ReadForSet(p)
    BY <1>5, <2>1 DEF VaultTypeOK, Progress, ReadRecords, ReadForSet, Goto, Steps, vaultFiles
  <2>2. CASE ReadForLookup(p)
    <3>1. listed[p] \in Nat /\ [job[p] EXCEPT !.op = "reveal"] \in Jobs
      BY <1>5, <2>2 DEF VaultTypeOK, Progress, ReadRecords, ReadForLookup, Jobs
    <3> QED
      BY <1>5, <2>2, <3>1 DEF VaultTypeOK, Progress, ReadRecords, ReadForLookup, Goto, Steps, vaultFiles
  <2>3. ASSUME NEW i \in pick_latest(SubSeq(records, 1, listed[p])), ReadForUse(p, i) PROVE TypeInv'
    <3>1. i \in DOMAIN records /\ records[i] \in RevisionRecord
      BY <1>5, <2>3, PickedIsStored DEF VaultTypeOK, Progress, ReadRecords
    <3>2. [id |-> i, rec |-> records[i]] \in [id : Nat, rec : RevisionRecord]
      BY <3>1 DEF VaultTypeOK
    <3> QED
      BY <1>5, <2>3, <3>1, <3>2, NoneIsNoFile
      DEF VaultTypeOK, Progress, ReadRecords, ReadForUse, Goto, Steps, vaultFiles
  <2>4. CASE Ended(p)
    BY <1>5, <2>4, EndedTyped DEF VaultTypeOK, ReadRecords, vaultFiles
  <2> QED
    BY <1>5, <2>1, <2>2, <2>3, <2>4 DEF ReadRecords
<1>6. ASSUME NEW p \in Procs, UseCachedKeys(p) PROVE TypeInv'
  BY <1>6, WithKeysTyped DEF VaultTypeOK, UseCachedKeys, vaultFiles
<1>7. ASSUME NEW p \in Procs, ObtainRoot(p) PROVE TypeInv'
  <2>1. CASE root = None
    BY <1>7, <2>1, NoneIsNoFile DEF VaultTypeOK, Progress, ObtainRoot, Goto, Steps
  <2>2. CASE root = "empty"
    BY <1>7, <2>2, EndedTyped, NoneIsNoFile DEF VaultTypeOK, ObtainRoot
  <2>3. CASE root \in Procs
    <3>1. /\ held' = [held EXCEPT ![p] = root]
          /\ Goto(p, "read_bundle")
          /\ UNCHANGED <<root, job, listed, looked, latest, fresh>>
      BY <1>7, <2>3, NoneIsNoFile DEF ObtainRoot
    <3> QED
      BY <1>7, <2>3, <3>1, NoneIsNoFile DEF VaultTypeOK, Progress, ObtainRoot, Goto, Steps
  <2> QED
    BY <1>7, <2>1, <2>2, <2>3 DEF VaultTypeOK
<1>8. ASSUME NEW p \in Procs, FillRoot(p) PROVE TypeInv'
  BY <1>8, NoneIsNoFile DEF VaultTypeOK, Progress, FillRoot, Goto, Steps
<1>9. ASSUME NEW p \in Procs, ReadBundle(p) PROVE TypeInv'
  <2>1. CASE bundle = None
    BY <1>9, <2>1, ZenonT(40) DEF VaultTypeOK, Progress, ReadBundle, Goto, Steps, vaultFiles
  <2>2. CASE bundle # None
    BY <1>9, <2>2, UnwrappedTyped DEF VaultTypeOK, ReadBundle, vaultFiles
  <2> QED
    BY <2>1, <2>2
<1>10. ASSUME NEW p \in Procs, PublishBundle(p) PROVE TypeInv'
  <2>1. held[p] \in Procs
    BY <1>10 DEF VaultTypeOK, Progress, PublishBundle
  <2>2. CASE bundle = None
    BY <1>10, <2>1, <2>2, WithKeysTyped DEF VaultTypeOK, PublishBundle
  <2>3. CASE bundle # None
    BY <1>10, <2>3, UnwrappedTyped DEF VaultTypeOK, PublishBundle
  <2> QED
    BY <2>2, <2>3
<1>11. ASSUME NEW p \in Procs, Stamp(p) PROVE TypeInv'
  BY <1>11, VaultBounds DEF VaultTypeOK, Progress, Stamp, Goto, Steps
<1>12. ASSUME NEW p \in Procs, Publish(p) PROVE TypeInv'
  <2>1. Minted(p) \in RevisionRecord
    BY <1>12, MintedTyped DEF Publish
  <2> DEFINE new == Append(records, Minted(p))
  <2>2. /\ new \in Seq(RevisionRecord)
        /\ DOMAIN new = DOMAIN records \cup {Len(records) + 1}
        /\ Len(new) = Len(records) + 1
    BY <2>1, RecordAppended DEF VaultTypeOK
  <2> HIDE DEF new
  <2>3. records' = new
    BY <1>12 DEF Publish, new
  <2>4. Len(records) \in Nat
    BY DEF VaultTypeOK
  <2> QED
    BY <1>12, <2>2, <2>3, <2>4 DEF VaultTypeOK, Progress, Publish, Goto, Steps, Jobs
<1>13. ASSUME NEW p \in Procs, RevokeOld(p) PROVE TypeInv'
  <2>1. latest[p].id \in DOMAIN records /\ [latest[p].rec EXCEPT !.state = "revoked"] \in RevisionRecord
    BY <1>13, LatestTyped DEF RevokeOld, RevisionRecord
  <2>2. records' \in Seq(RevisionRecord) /\ DOMAIN records' = DOMAIN records /\ Len(records') = Len(records)
    BY <1>13, <2>1, Rewritten DEF VaultTypeOK, RevokeOld
  <2> QED
    BY <1>13, <2>2 DEF VaultTypeOK, Progress, RevokeOld, Goto, Steps
<1>14. ASSUME NEW p \in Procs, StageBinding(p) PROVE TypeInv'
  <2>1. fresh[p] \in Nat
    BY <1>14 DEF VaultTypeOK, Progress, StageBinding
  <2> QED
    BY <1>14, <2>1, EndedTyped DEF VaultTypeOK, StageBinding
<1>15. ASSUME NEW p \in Procs, Shred(p) PROVE TypeInv'
  <2>1. latest[p].id \in DOMAIN records
        /\ Shredded(p) \in RevisionRecord
    BY <1>15, LatestTyped DEF Shred, Shredded, RevisionRecord
  <2>2. records' \in Seq(RevisionRecord) /\ Len(records') = Len(records)
    BY <1>15, <2>1, Rewritten DEF VaultTypeOK, Shred
  <2> QED
    BY <1>15, <2>2, EndedTyped DEF VaultTypeOK, Shred
<1>16. ASSUME NEW p \in Procs, Decrypt(p) PROVE TypeInv'
  BY <1>16, EndedTyped DEF VaultTypeOK, Decrypt, vaultFiles
<1> QED
  BY StepCases, <1>1, <1>2, <1>3, <1>4, <1>5, <1>6, <1>7, <1>8, <1>9, <1>10, <1>11, <1>12, <1>13,
     <1>14, <1>15, <1>16

-------------------------------------------------------------------------------
\* No key exists at first.
LEMMA KeyInit == VaultInit => KeyInv
BY DEF VaultInit, KeyInv, RootKey, CopiedKey, OneKeyHierarchy

\* Nothing happens to the keys when a command ends, whatever it keeps cached.
LEMMA EndedKeys ==
  ASSUME TypeInv, KeyInv, NEW p \in Procs, Ended(p), UNCHANGED <<root, bundle>>,
         NEW k \in {keys[p], None}, keys' = [keys EXCEPT ![p] = k],
         \A i \in DOMAIN records' :
           records'[i].dek # None => bundle # None /\ records'[i].dek = bundle.key
  PROVE  KeyInv'
<1>1. RootKey'
  BY DEF TypeInv, VaultTypeOK, KeyInv, RootKey, Ended, Goto
<1>2. CopiedKey'
  BY DEF TypeInv, VaultTypeOK, KeyInv, CopiedKey, Ended
<1>3. OneKeyHierarchy'
  BY DEF TypeInv, VaultTypeOK, KeyInv, OneKeyHierarchy
<1> QED
  BY <1>1, <1>2, <1>3 DEF KeyInv

\* The keys a process goes on with are those of the bundle.
LEMMA WithKeysKeys ==
  ASSUME TypeInv, KeyInv, NEW p \in Procs, NEW k \in Procs, WithKeys(p, k), UNCHANGED <<root, records>>,
         bundle' # None, bundle'.root = root, bundle'.key = k, bundle # None => bundle' = bundle
  PROVE  KeyInv'
<1>1. AfterKeys(p) # "fill_root"
  BY DEF AfterKeys
<1>2. RootKey'
  BY <1>1 DEF TypeInv, VaultTypeOK, KeyInv, RootKey, WithKeys, Goto
<1>3. CopiedKey'
  BY DEF TypeInv, VaultTypeOK, KeyInv, CopiedKey, WithKeys
<1>4. OneKeyHierarchy'
  BY DEF TypeInv, VaultTypeOK, KeyInv, OneKeyHierarchy, WithKeys
<1> QED
  BY <1>2, <1>3, <1>4 DEF KeyInv

\* A bundle is unwrapped with the root key it was wrapped under.
LEMMA UnwrappedKeys ==
  ASSUME TypeInv, KeyInv, NEW p \in Procs, bundle # None, Unwrapped(p, bundle),
         UNCHANGED <<root, bundle, records>>
  PROVE  KeyInv'
<1>1. bundle.key \in Procs /\ bundle.root = root
  BY DEF TypeInv, VaultTypeOK, KeyInv, OneKeyHierarchy
<1>2. CASE bundle.root = held[p]
  BY <1>1, <1>2, WithKeysKeys DEF Unwrapped
<1>3. CASE bundle.root # held[p]
  <2>1. keys' = [keys EXCEPT ![p] = keys[p]]
    BY <1>3 DEF Unwrapped, TypeInv, VaultTypeOK
  <2> QED
    BY <1>3, <2>1, EndedKeys DEF Unwrapped, KeyInv, OneKeyHierarchy
<1> QED
  BY <1>2, <1>3

\* The key hierarchy is kept by every step.
LEMMA KeyStep == TypeInv /\ KeyInv /\ [VaultNext]_vaultVars => KeyInv'
<1> SUFFICES ASSUME TypeInv, KeyInv, [VaultNext]_vaultVars PROVE KeyInv'
  OBVIOUS
<1>a. \A p \in Procs : keys = [keys EXCEPT ![p] = keys[p]]
  BY DEF TypeInv, VaultTypeOK
<1>b. \A i \in DOMAIN records : records[i].dek # None => bundle # None /\ records[i].dek = bundle.key
  BY DEF KeyInv, OneKeyHierarchy
<1> USE DEF KeyInv, RootKey, CopiedKey, OneKeyHierarchy
<1>1. CASE UNCHANGED vaultVars
  BY <1>1 DEF vaultVars, vaultFiles, procs
<1>2. ASSUME NEW p \in Procs, NEW j \in Jobs, Call(p, j) PROVE KeyInv'
  BY <1>2 DEF TypeInv, VaultTypeOK, Call, Goto
<1>3. ASSUME NEW p \in Procs, Stop(p) PROVE KeyInv'
  BY <1>3, <1>b, EndedKeys DEF Stop, vaultFiles
<1>4. ASSUME NEW p \in Procs, ListRecords(p) PROVE KeyInv'
  BY <1>4 DEF TypeInv, VaultTypeOK, ListRecords, Goto, vaultFiles
<1>5. ASSUME NEW p \in Procs, ReadRecords(p) PROVE KeyInv'
  <2>1. CASE ReadForSet(p)
    BY <1>5, <2>1 DEF TypeInv, VaultTypeOK, ReadRecords, ReadForSet, Goto, vaultFiles
  <2>2. CASE ReadForLookup(p)
    BY <1>5, <2>2 DEF TypeInv, VaultTypeOK, ReadRecords, ReadForLookup, Goto, vaultFiles
  <2>3. ASSUME NEW i \in pick_latest(SubSeq(records, 1, listed[p])), ReadForUse(p, i) PROVE KeyInv'
    <3>1. i \in DOMAIN records /\ records[i] \in RevisionRecord
      BY <1>5, <2>3, PickedIsStored DEF TypeInv, VaultTypeOK, Progress, ReadRecords
    <3>2. CopiedKey'
      BY <1>5, <2>3, <3>1, <1>b DEF TypeInv, VaultTypeOK, ReadRecords, ReadForUse, vaultFiles
    <3> QED
      BY <1>5, <2>3, <3>2 DEF TypeInv, VaultTypeOK, ReadRecords, ReadForUse, Goto, vaultFiles
  <2>4. CASE Ended(p)
    BY <1>5, <2>4, <1>a, <1>b, EndedKeys DEF ReadRecords, vaultFiles
  <2> QED
    BY <1>5, <2>1, <2>2, <2>3, <2>4 DEF ReadRecords
<1>6. ASSUME NEW p \in Procs, UseCachedKeys(p) PROVE KeyInv'
  BY <1>6, WithKeysKeys DEF TypeInv, VaultTypeOK, UseCachedKeys, vaultFiles
<1>7. ASSUME NEW p \in Procs, ObtainRoot(p) PROVE KeyInv'
  <2>1. CASE root = None
    <3>1. root' = "empty" /\ Goto(p, "fill_root") /\ UNCHANGED <<bundle, held, latest, keys, records>>
      BY <1>7, <2>1, NoneIsNoFile DEF ObtainRoot
    <3>2. bundle = None
      BY <2>1, NoneIsNoFile DEF TypeInv, VaultTypeOK
    <3>3. \A q \in Procs : held[q] = None /\ at[q] # "fill_root"
      BY <2>1, NoneIsNoFile DEF TypeInv, VaultTypeOK
    <3> QED
      BY <3>1, <3>2, <3>3 DEF TypeInv, VaultTypeOK, Goto
  <2>2. CASE root = "empty"
    BY <1>7, <2>2, <1>a, <1>b, EndedKeys, NoneIsNoFile DEF ObtainRoot
  <2>3. CASE root \in Procs
    <3>1. /\ held' = [held EXCEPT ![p] = root]
          /\ Goto(p, "read_bundle")
          /\ UNCHANGED <<root, bundle, latest, keys, records>>
      BY <1>7, <2>3, NoneIsNoFile DEF ObtainRoot
    <3> QED
      BY <3>1 DEF TypeInv, VaultTypeOK, Goto
  <2> QED
    BY <1>7, <2>1, <2>2, <2>3 DEF TypeInv, VaultTypeOK
<1>8. ASSUME NEW p \in Procs, FillRoot(p) PROVE KeyInv'
  <2>1. root = "empty" /\ bundle = None /\ \A q \in Procs : held[q] = None
    BY <1>8, NoneIsNoFile DEF FillRoot, TypeInv, VaultTypeOK
  <2> QED
    BY <1>8, <2>1 DEF FillRoot, TypeInv, VaultTypeOK, Goto
<1>9. ASSUME NEW p \in Procs, ReadBundle(p) PROVE KeyInv'
  <2>1. CASE bundle = None
    BY <1>9, <2>1 DEF TypeInv, VaultTypeOK, ReadBundle, Goto, vaultFiles
  <2>2. CASE bundle # None
    BY <1>9, <2>2, UnwrappedKeys DEF ReadBundle, vaultFiles
  <2> QED
    BY <2>1, <2>2
<1>10. ASSUME NEW p \in Procs, PublishBundle(p) PROVE KeyInv'
  <2>1. held[p] = root /\ held[p] \in Procs
    BY <1>10 DEF TypeInv, VaultTypeOK, Progress, PublishBundle
  <2>2. CASE bundle = None
    <3>1. bundle' \in [root : Procs, key : Procs] /\ bundle'.root = root /\ bundle'.key = p
      BY <1>10, <2>1, <2>2 DEF PublishBundle
    <3> QED
      BY <1>10, <2>2, <3>1, NoneIsNoFile, WithKeysKeys DEF PublishBundle
  <2>3. CASE bundle # None
    BY <1>10, <2>3, UnwrappedKeys DEF PublishBundle
  <2> QED
    BY <2>2, <2>3
<1>11. ASSUME NEW p \in Procs, Stamp(p) PROVE KeyInv'
  BY <1>11 DEF TypeInv, VaultTypeOK, Stamp, Goto
<1>12. ASSUME NEW p \in Procs, Publish(p) PROVE KeyInv'
  <2>1. Minted(p) \in RevisionRecord /\ Minted(p).dek = keys[p]
    BY <1>12, MintedTyped DEF Publish, Minted
  <2>2. \A i \in DOMAIN records' : records'[i].dek # None => bundle # None /\ records'[i].dek = bundle.key
    BY <1>12, <2>1, <1>b, RecordAppended DEF TypeInv, VaultTypeOK, Publish
  <2> QED
    BY <1>12, <2>2 DEF TypeInv, VaultTypeOK, Publish, Goto
<1>13. ASSUME NEW p \in Procs, RevokeOld(p) PROVE KeyInv'
  <2>1. /\ latest[p] # None
        /\ latest[p].id \in DOMAIN records
        /\ [latest[p].rec EXCEPT !.state = "revoked"] \in RevisionRecord
        /\ [latest[p].rec EXCEPT !.state = "revoked"].dek = latest[p].rec.dek
    BY <1>13, LatestTyped DEF RevokeOld, RevisionRecord
  <2>2. \A i \in DOMAIN records' : records'[i].dek # None => bundle # None /\ records'[i].dek = bundle.key
    BY <1>13, <2>1, <1>b, Rewritten DEF TypeInv, VaultTypeOK, RevokeOld
  <2> QED
    BY <1>13, <2>2 DEF TypeInv, VaultTypeOK, RevokeOld, Goto
<1>14. ASSUME NEW p \in Procs, StageBinding(p) PROVE KeyInv'
  BY <1>14, <1>a, <1>b, EndedKeys DEF StageBinding
<1>15. ASSUME NEW p \in Procs, Shred(p) PROVE KeyInv'
  <2>1. latest[p].id \in DOMAIN records /\ Shredded(p) \in RevisionRecord /\ Shredded(p).dek = None
    BY <1>15, LatestTyped DEF Shred, Shredded, RevisionRecord
  <2>2. \A i \in DOMAIN records' : records'[i].dek # None => bundle # None /\ records'[i].dek = bundle.key
    BY <1>15, <2>1, <1>b, Rewritten DEF TypeInv, VaultTypeOK, Shred
  <2> QED
    BY <1>15, <2>2, <1>a, EndedKeys DEF Shred
<1>16. ASSUME NEW p \in Procs, Decrypt(p) PROVE KeyInv'
  BY <1>16, <1>a, <1>b, EndedKeys DEF Decrypt, vaultFiles
<1> QED
  BY StepCases, <1>1, <1>2, <1>3, <1>4, <1>5, <1>6, <1>7, <1>8, <1>9, <1>10, <1>11, <1>12, <1>13,
     <1>14, <1>15, <1>16

-------------------------------------------------------------------------------
\* There is no record at first.
LEMMA RecordInit == VaultInit => RecordInv
BY DEF VaultInit, RecordInv, Sane, Stamped, Copies, Younger, Superseded, StagedResolves

\* A process that touches no record and is not about to write one.
Aside(p) ==
  /\ UNCHANGED <<records, staged, clock>>
  /\ \A q \in Procs \ {p} : at'[q] = at[q] /\ latest'[q] = latest[q] /\ fresh'[q] = fresh[q]
  /\ at'[p] \notin {"publish", "revoke"}
  /\ latest'[p] \in {None, latest[p]}

\* Such a step changes nothing of what is known of the records.
LEMMA AsideKeeps ==
  ASSUME RecordInv, NEW p \in Procs, Aside(p)
  PROVE  RecordInv'
<1>1. Sane' /\ Superseded' /\ StagedResolves'
  BY DEF Aside, RecordInv, Sane, Superseded, StagedResolves
<1>2. Copies'
  BY DEF Aside, RecordInv, Copies
<1>3. Younger' /\ Stamped'
  BY DEF Aside, RecordInv, Younger, Stamped
<1> QED
  BY <1>1, <1>2, <1>3 DEF RecordInv

\* The end of a command is such a step.
LEMMA EndedAside ==
  ASSUME TypeInv, NEW p \in Procs, Ended(p), UNCHANGED <<records, staged, clock>>
  PROVE  Aside(p)
BY DEF TypeInv, VaultTypeOK, Ended, Goto, Aside

\* So is making sure of the keys.
LEMMA WithKeysAside ==
  ASSUME TypeInv, NEW p \in Procs, NEW k, WithKeys(p, k), UNCHANGED <<records, staged, clock>>
  PROVE  Aside(p)
BY DEF TypeInv, VaultTypeOK, WithKeys, AfterKeys, Goto, Aside

\* What destruction writes: the copy without its data key.
LEMMA ShreddedIs ==
  ASSUME TypeInv, NEW p \in Procs, at[p] = "shred"
  PROVE  /\ Shredded(p) \in RevisionRecord
         /\ Shredded(p).kind = latest[p].rec.kind
         /\ Shredded(p).created = latest[p].rec.created
         /\ Shredded(p).state = "destroyed"
         /\ Shredded(p).dek = None
BY LatestTyped DEF Shredded, RevisionRecord

\* What is known of the records is kept by every step.
LEMMA RecordStep == TypeInv /\ RecordInv /\ [VaultNext]_vaultVars => RecordInv'
<1> SUFFICES ASSUME TypeInv, RecordInv, [VaultNext]_vaultVars PROVE RecordInv'
  OBVIOUS
<1>1. CASE UNCHANGED vaultVars
  BY <1>1 DEF vaultVars, vaultFiles, procs, RecordInv, Sane, Stamped, Copies, Younger, Superseded, StagedResolves
<1>2. ASSUME NEW p \in Procs, NEW j \in Jobs, Call(p, j) PROVE RecordInv'
  <2>1. Aside(p)
    BY <1>2 DEF TypeInv, VaultTypeOK, Call, Goto, Aside
  <2> QED
    BY <2>1, AsideKeeps
<1>3. ASSUME NEW p \in Procs, Stop(p) PROVE RecordInv'
  BY <1>3, EndedAside, AsideKeeps DEF Stop, vaultFiles
<1>4. ASSUME NEW p \in Procs, ListRecords(p) PROVE RecordInv'
  <2>1. Aside(p)
    BY <1>4 DEF TypeInv, VaultTypeOK, ListRecords, Goto, Aside, vaultFiles
  <2> QED
    BY <2>1, AsideKeeps
<1>5. ASSUME NEW p \in Procs, ReadRecords(p) PROVE RecordInv'
  <2>1. CASE ReadForSet(p)
    <3>1. Aside(p)
      BY <1>5, <2>1 DEF TypeInv, VaultTypeOK, ReadRecords, ReadForSet, Goto, Aside, vaultFiles
    <3> QED
      BY <3>1, AsideKeeps
  <2>2. CASE ReadForLookup(p)
    <3>1. Aside(p)
      BY <1>5, <2>2 DEF TypeInv, VaultTypeOK, ReadRecords, ReadForLookup, Goto, Aside, vaultFiles
    <3> QED
      BY <3>1, AsideKeeps
  <2>3. ASSUME NEW i \in pick_latest(SubSeq(records, 1, listed[p])), Accepts(job[p].op, records[i]),
               ReadForUse(p, i)
        PROVE  RecordInv'
    <3>1. i \in DOMAIN records
      BY <1>5, <2>3, PickedIsStored DEF TypeInv, VaultTypeOK, Progress, ReadRecords
    <3>2. records[i].state # "destroyed"
      BY <2>3 DEF Accepts, ReadForUse
    <3>3. UNCHANGED <<records, staged, clock, fresh>>
      BY <1>5, <2>3 DEF ReadRecords, ReadForUse, vaultFiles
    <3>4. Copies'
      BY <2>3, <3>1, <3>2, <3>3 DEF TypeInv, VaultTypeOK, ReadForUse, RecordInv, Copies
    <3>5. Younger' /\ Stamped'
      BY <2>3, <3>3 DEF TypeInv, VaultTypeOK, ReadForUse, Goto, RecordInv, Younger, Stamped
    <3> QED
      BY <3>3, <3>4, <3>5 DEF RecordInv, Sane, Superseded, StagedResolves
  <2>4. CASE Ended(p)
    BY <1>5, <2>4, EndedAside, AsideKeeps DEF ReadRecords, vaultFiles
  <2> QED
    BY <1>5, <2>1, <2>2, <2>3, <2>4 DEF ReadRecords
<1>6. ASSUME NEW p \in Procs, UseCachedKeys(p) PROVE RecordInv'
  BY <1>6, WithKeysAside, AsideKeeps DEF UseCachedKeys, vaultFiles
<1>7. ASSUME NEW p \in Procs, ObtainRoot(p) PROVE RecordInv'
  <2>1. CASE Ended(p)
    BY <1>7, <2>1, EndedAside, AsideKeeps DEF ObtainRoot
  <2>2. CASE /\ Goto(p, "fill_root") \/ Goto(p, "read_bundle")
             /\ UNCHANGED <<latest, fresh>>
    <3>1. Aside(p)
      BY <1>7, <2>2 DEF TypeInv, VaultTypeOK, ObtainRoot, Goto, Aside
    <3> QED
      BY <3>1, AsideKeeps
  <2> QED
    BY <1>7, <2>1, <2>2 DEF ObtainRoot
<1>8. ASSUME NEW p \in Procs, FillRoot(p) PROVE RecordInv'
  <2>1. Aside(p)
    BY <1>8 DEF TypeInv, VaultTypeOK, FillRoot, Goto, Aside
  <2> QED
    BY <2>1, AsideKeeps
<1>9. ASSUME NEW p \in Procs, ReadBundle(p) PROVE RecordInv'
  <2>1. CASE bundle = None
    <3>1. Aside(p)
      BY <1>9, <2>1 DEF TypeInv, VaultTypeOK, ReadBundle, Goto, Aside, vaultFiles
    <3> QED
      BY <3>1, AsideKeeps
  <2>2. CASE bundle # None
    BY <1>9, <2>2, WithKeysAside, EndedAside, AsideKeeps DEF ReadBundle, Unwrapped, vaultFiles
  <2> QED
    BY <2>1, <2>2
<1>10. ASSUME NEW p \in Procs, PublishBundle(p) PROVE RecordInv'
  BY <1>10, WithKeysAside, EndedAside, AsideKeeps DEF PublishBundle, Unwrapped
<1>11. ASSUME NEW p \in Procs, Stamp(p) PROVE RecordInv'
  <2>1. /\ UNCHANGED <<records, staged, latest>> /\ clock \in Nat /\ clock' = clock + 1
        /\ fresh' = [fresh EXCEPT ![p] = clock + 1] /\ at' = [at EXCEPT ![p] = "publish"]
    BY <1>11, VaultBounds DEF TypeInv, VaultTypeOK, Stamp, Goto
  <2>2. \A i \in DOMAIN records : records[i].created \in Nat
    BY CreatedTyped
  <2>3. latest[p] # None => clock + 1 > latest[p].rec.created
    BY <2>1, <2>2 DEF TypeInv, Progress, RecordInv, Sane, Copies
  <2>4. Younger'
    BY <2>1, <2>3 DEF TypeInv, VaultTypeOK, RecordInv, Younger
  <2>6. Stamped'
    <3>1. \A q \in Procs : at[q] = "publish" => fresh[q] \in Nat
      BY DEF TypeInv, Progress
    <3> QED
      BY <2>1, <3>1 DEF TypeInv, VaultTypeOK, RecordInv, Stamped
  <2>5. Sane'
    BY <2>1, <2>2 DEF RecordInv, Sane
  <2> QED
    BY <2>1, <2>4, <2>5, <2>6 DEF RecordInv, Copies, Superseded, StagedResolves
<1>12. ASSUME NEW p \in Procs, Publish(p) PROVE RecordInv'
  <2> DEFINE new == Append(records, Minted(p))
             n == Len(records) + 1
  <2>1. /\ Minted(p) \in RevisionRecord
        /\ Minted(p).created = fresh[p]
        /\ Minted(p).state = "active"
    BY <1>12, MintedTyped DEF Publish, Minted
  <2>2. /\ DOMAIN new = DOMAIN records \cup {n}
        /\ new[n] = Minted(p)
        /\ \A j \in DOMAIN records : new[j] = records[j]
    BY <2>1, RecordAppended DEF TypeInv, VaultTypeOK
  <2>3. n \notin DOMAIN records
    BY DEF TypeInv, VaultTypeOK
  <2>4. /\ records' = new
        /\ UNCHANGED <<staged, clock, latest>>
        /\ fresh' = [fresh EXCEPT ![p] = n]
        /\ at' = [at EXCEPT ![p] = IF job[p].op = "rotate" THEN "revoke" ELSE "stage"]
    BY <1>12 DEF Publish, Goto
  <2> HIDE DEF new, n
  <2>5. Sane' /\ fresh[p] <= clock
    <3>1. fresh[p] <= clock
      BY <1>12 DEF Publish, RecordInv, Stamped
    <3> QED
      BY <2>1, <2>2, <2>4, <3>1 DEF RecordInv, Sane
  <2>6. Copies'
    BY <2>2, <2>4 DEF TypeInv, Progress, RecordInv, Copies
  <2>7. Younger'
    <3>1. job[p].op = "rotate" => latest[p] # None
      BY <1>12 DEF TypeInv, Progress, Publish
    <3>2. job[p].op = "rotate" => new[n].created > latest[p].rec.created
      BY <1>12, <2>1, <2>2, <3>1 DEF Publish, RecordInv, Younger
    <3>3. \A q \in Procs \ {p} : at[q] = "revoke" => fresh[q] \in DOMAIN records
      BY DEF TypeInv, Progress
    <3> QED
      BY <2>2, <2>4, <3>2, <3>3 DEF TypeInv, VaultTypeOK, RecordInv, Younger
  <2>8. Superseded'
    BY <2>1, <2>2, <2>4 DEF RecordInv, Superseded
  <2>9. StagedResolves'
    BY <2>2, <2>4 DEF RecordInv, StagedResolves
  <2>10. Stamped'
    BY <2>4 DEF TypeInv, VaultTypeOK, RecordInv, Stamped
  <2> QED
    BY <2>5, <2>6, <2>7, <2>8, <2>9, <2>10 DEF RecordInv
<1>13. ASSUME NEW p \in Procs, RevokeOld(p) PROVE RecordInv'
  <2> DEFINE i == latest[p].id
             old == [latest[p].rec EXCEPT !.state = "revoked"]
  <2>1. latest[p] # None /\ i \in DOMAIN records /\ latest[p].rec \in RevisionRecord
    BY <1>13, LatestTyped DEF RevokeOld
  <2>2. /\ old \in RevisionRecord
        /\ old.kind = records[i].kind
        /\ old.created = records[i].created
        /\ old.state = "revoked"
    BY <2>1 DEF RecordInv, Copies, RevisionRecord
  <2> HIDE DEF old
  <2>3. records' = [records EXCEPT ![i] = old]
    BY <1>13 DEF RevokeOld, old
  <2> HIDE DEF i
  <2>4. /\ DOMAIN records' = DOMAIN records
        /\ records'[i] = old
        /\ \A j \in DOMAIN records \ {i} : records'[j] = records[j]
    BY <2>1, <2>2, <2>3, Rewritten DEF TypeInv, VaultTypeOK
  <2>5. UNCHANGED <<staged, clock, latest, fresh>> /\ at' = [at EXCEPT ![p] = "stage"]
    BY <1>13 DEF RevokeOld, Goto
  <2>6. \A j \in DOMAIN records : /\ records'[j].kind = records[j].kind
                                 /\ records'[j].created = records[j].created
    BY <2>2, <2>4
  <2>7. Copies'
    BY <2>5, <2>6 DEF TypeInv, Progress, RecordInv, Copies
  <2>8. Younger' /\ Stamped'
    <3>1. \A q \in Procs : at[q] = "revoke" => fresh[q] \in DOMAIN records
      BY DEF TypeInv, Progress
    <3> QED
      BY <2>5, <2>6, <3>1 DEF TypeInv, VaultTypeOK, RecordInv, Younger, Stamped
  <2>9. Sane'
    BY <2>2, <2>4, <2>5, <2>6 DEF RecordInv, Sane
  <2>10. Superseded'
    <3>1. fresh[p] \in DOMAIN records /\ records[fresh[p]].created > records[i].created
      BY <1>13, <2>1 DEF TypeInv, Progress, RecordInv, Younger, Copies, RevokeOld, i
    <3> QED
      BY <2>4, <2>6, <3>1 DEF RecordInv, Superseded
  <2> QED
    BY <2>4, <2>5, <2>7, <2>8, <2>9, <2>10 DEF RecordInv, StagedResolves
<1>14. ASSUME NEW p \in Procs, StageBinding(p) PROVE RecordInv'
  <2>1. fresh[p] \in DOMAIN records
    BY <1>14 DEF TypeInv, Progress, StageBinding
  <2>2. StagedResolves'
    BY <1>14, <2>1 DEF StageBinding, StagedResolves
  <2>3. UNCHANGED <<records, clock>> /\ Ended(p)
    BY <1>14 DEF StageBinding
  <2>4. Copies' /\ Younger' /\ Stamped'
    BY <2>3 DEF TypeInv, VaultTypeOK, Ended, Goto, RecordInv, Copies, Younger, Stamped
  <2> QED
    BY <2>2, <2>3, <2>4 DEF RecordInv, Sane, Superseded
<1>15. ASSUME NEW p \in Procs, Shred(p) PROVE RecordInv'
  <2> DEFINE i == latest[p].id
  <2>1. latest[p] # None /\ i \in DOMAIN records
    BY <1>15, LatestTyped DEF Shred
  <2>2. /\ Shredded(p) \in RevisionRecord
        /\ Shredded(p).kind = records[i].kind
        /\ Shredded(p).created = records[i].created
        /\ Shredded(p).state = "destroyed"
        /\ Shredded(p).dek = None
    BY <1>15, <2>1, ShreddedIs DEF Shred, RecordInv, Copies
  <2>3. records' = [records EXCEPT ![i] = Shredded(p)] /\ UNCHANGED <<staged, clock>> /\ Ended(p)
    BY <1>15 DEF Shred
  <2> HIDE DEF i
  <2>4. /\ DOMAIN records' = DOMAIN records
        /\ records'[i] = Shredded(p)
        /\ \A j \in DOMAIN records \ {i} : records'[j] = records[j]
    BY <2>1, <2>2, <2>3, Rewritten DEF TypeInv, VaultTypeOK
  <2>5. \A j \in DOMAIN records : /\ records'[j].kind = records[j].kind
                                 /\ records'[j].created = records[j].created
    BY <2>2, <2>4
  <2>6. Copies'
    BY <2>3, <2>5 DEF TypeInv, VaultTypeOK, Progress, Ended, RecordInv, Copies
  <2>7. Younger' /\ Stamped'
    <3>1. \A q \in Procs : at[q] = "revoke" => fresh[q] \in DOMAIN records
      BY DEF TypeInv, Progress
    <3> QED
      BY <2>3, <2>5, <3>1 DEF TypeInv, VaultTypeOK, Ended, Goto, RecordInv, Younger, Stamped
  <2>8. Sane'
    BY <2>2, <2>3, <2>4, <2>5 DEF RecordInv, Sane
  <2>9. Superseded'
    <3>1. \A j \in DOMAIN records : records'[j].state = "revoked" => records[j].state = "revoked"
      BY <2>2, <2>4
    <3> QED
      BY <2>4, <2>5, <3>1 DEF RecordInv, Superseded
  <2> QED
    BY <2>3, <2>4, <2>6, <2>7, <2>8, <2>9 DEF RecordInv, StagedResolves
<1>16. ASSUME NEW p \in Procs, Decrypt(p) PROVE RecordInv'
  BY <1>16, EndedAside, AsideKeeps DEF Decrypt, vaultFiles
<1> QED
  BY StepCases, <1>1, <1>2, <1>3, <1>4, <1>5, <1>6, <1>7, <1>8, <1>9, <1>10, <1>11, <1>12, <1>13,
     <1>14, <1>15, <1>16

-------------------------------------------------------------------------------
\* The three invariants hold together.
LEMMA VaultInvariant == VaultSpec => [](TypeInv /\ KeyInv /\ RecordInv)
<1>1. VaultInit => TypeInv /\ KeyInv /\ RecordInv
  BY TypeInit, KeyInit, RecordInit
<1>2. (TypeInv /\ KeyInv /\ RecordInv) /\ [VaultNext]_vaultVars => (TypeInv /\ KeyInv /\ RecordInv)'
  BY TypeStep, KeyStep, RecordStep
<1> QED
  BY <1>1, <1>2, PTL DEF VaultSpec

\* Files and processes stay well typed, however many commands overlap.
THEOREM VaultTypeCorrect == VaultSpec => []VaultTypeOK
BY VaultInvariant, PTL DEF TypeInv

\* Any number of processes that start on an empty vault, and stop anywhere,
\* agree on one root key and one project key (obtain, load_or_init_keys).
THEOREM VaultNeverForks == VaultSpec => []OneKeyHierarchy
BY VaultInvariant, PTL DEF KeyInv

\* A rotation never leaves the variable with a revoked latest revision, since
\* the revision it publishes first is younger than the one it revokes.
THEOREM LatestIsUsable == VaultSpec => []LatestNeverRevoked
<1>1. TypeInv /\ RecordInv => LatestNeverRevoked
  <2> SUFFICES ASSUME TypeInv, RecordInv, NEW i \in pick_latest(records), records[i].state = "revoked"
               PROVE  FALSE
    BY DEF LatestNeverRevoked
  <2>1. i \in DOMAIN records /\ \A j \in DOMAIN records : records[j].created <= records[i].created
    BY DEF pick_latest
  <2>2. \A j \in DOMAIN records : records[j].created \in Int
    BY CreatedTyped
  <2> QED
    BY <2>1, <2>2 DEF RecordInv, Superseded
<1> QED
  BY <1>1, VaultInvariant, PTL

\* The staging index names stored revisions only.
THEOREM StagedIsStored == VaultSpec => []StagedResolves
BY VaultInvariant, PTL DEF RecordInv

\* Destruction is undone by nothing but the stale copy of a rotation.
THEOREM DestructionHolds == VaultSpec => DestroyedUnlessStale
<1> DEFINE Kept == \A i \in DOMAIN records :
                     records[i].state = "destroyed" /\ records'[i] # records[i]
                       => \E p \in Procs : /\ at[p] = "revoke"
                                           /\ latest[p].id = i
                                           /\ latest[p].rec.state # "destroyed"
<1>1. TypeInv /\ RecordInv /\ [VaultNext]_vaultVars => [Kept]_vaultVars
  <2> SUFFICES ASSUME TypeInv, RecordInv, [VaultNext]_vaultVars,
                      NEW i \in DOMAIN records, records[i].state = "destroyed", records'[i] # records[i]
               PROVE  \E p \in Procs : /\ at[p] = "revoke"
                                       /\ latest[p].id = i
                                       /\ latest[p].rec.state # "destroyed"
    OBVIOUS
  <2>1. ASSUME NEW p \in Procs, Publish(p) PROVE FALSE
    BY <2>1, MintedTyped, RecordAppended DEF TypeInv, VaultTypeOK, Publish
  <2>2. ASSUME NEW p \in Procs, RevokeOld(p)
        PROVE  /\ at[p] = "revoke" /\ latest[p].id = i /\ latest[p].rec.state # "destroyed"
    BY <2>2, LatestTyped DEF TypeInv, VaultTypeOK, RevokeOld, RecordInv, Copies
  <2>3. ASSUME NEW p \in Procs, Shred(p) PROVE FALSE
    <3>1. latest[p] # None /\ latest[p].id \in DOMAIN records
      BY <2>3, LatestTyped DEF Shred
    <3>2. records' = [records EXCEPT ![latest[p].id] = Shredded(p)]
      BY <2>3 DEF Shred
    <3>3. latest[p].id = i /\ records'[i] = Shredded(p)
      BY <3>1, <3>2 DEF TypeInv, VaultTypeOK
    <3>4. records[i] \in RevisionRecord /\ records[i].dek = None
      BY DEF TypeInv, VaultTypeOK, RecordInv, Sane
    <3>5. /\ Shredded(p) \in RevisionRecord
          /\ Shredded(p).kind = records[i].kind /\ Shredded(p).created = records[i].created
          /\ Shredded(p).state = records[i].state /\ Shredded(p).dek = records[i].dek
      BY <2>3, <3>1, <3>3, <3>4, ShreddedIs DEF Shred, RecordInv, Copies
    <3>6. Shredded(p) = records[i]
      BY <3>4, <3>5 DEF RevisionRecord
    <3> QED
      BY <3>3, <3>6
  <2>4. ASSUME UNCHANGED records PROVE FALSE
    BY <2>4
  <2>5. \/ UNCHANGED records
        \/ \E p \in Procs : Publish(p) \/ RevokeOld(p) \/ Shred(p)
    BY DEF VaultNext, vaultVars, vaultFiles, Call, Stop, ListRecords, ReadRecords, UseCachedKeys, ObtainRoot, FillRoot,
           ReadBundle, PublishBundle, Stamp, StageBinding, Decrypt
  <2> QED
    BY <2>1, <2>2, <2>3, <2>4, <2>5
<1> QED
  BY <1>1, VaultInvariant, PTL DEF VaultSpec, DestroyedUnlessStale

(***************************************************************************)
(* secrets.rs: set, rotate, destroy and the commands that read, overlapping*)
(* and dying anywhere, keep the vault sound.                               *)
(***************************************************************************)
THEOREM VaultStaysSound == VaultSpec => VaultSound
BY VaultNeverForks, LatestIsUsable, StagedIsStored, DestructionHolds, PTL DEF VaultSound

-------------------------------------------------------------------------------
(* The files of team sync.                                                 *)

\* What a process holds: a command that has resolved its remote has a token
\* and the server it belongs to.
Homebound(r) ==
  /\ r.pc = "fill" => r.name = "sign"
  /\ r.pc = "generate" => r.name \in {"sign", "probe"}
  /\ r.pc = "attest" => r.held[1] = r.held[2]
  /\ r.pc = "probe" \/ (r.pc = "generate" /\ r.name = "probe") => r.held[1][1] = r.held[1][2]

\* Everything the events up to n must have been at the server for.
Uploaded(n, got) == \A e \in 1..n : e \notin Unacceptable => got[e] > 0

\* An upload under way has the events before its place at the server.
Uploading(r, total, got) ==
  r.pc = "upload" => /\ r.at \in 0..total /\ r.upto \in 0..total /\ r.at <= r.upto
                     /\ Uploaded(r.at, got)

Fields(H) == [pc : H, held : H, name : H, upto : H, at : H]
Command(r) == \E H : r \in Fields(H)

FilesInv ==
  /\ logged \in 0..MaxEvents /\ watermark \in 0..logged
  /\ ingested \in [1..MaxEvents -> Nat]
  /\ DOMAIN proc = Processes /\ proc = [p \in Processes |-> proc[p]]
  /\ \A p \in Processes : Command(proc[p]) /\ Homebound(proc[p]) /\ Uploading(proc[p], logged, ingested)
  /\ TokenStaysHome /\ Uploaded(watermark, ingested)

\* One command moves on; what it leaves to the others is no less than before.
LEMMA CommandMoves ==
  ASSUME FilesInv, NEW p \in Processes, NEW r, proc' = [proc EXCEPT ![p] = r],
         Command(r), Homebound(r), Uploading(r, logged', ingested'),
         logged' = logged, watermark' \in 0..logged, Uploaded(watermark', ingested'),
         ingested' \in [1..MaxEvents -> Nat],
         \A e \in 1..MaxEvents : ingested[e] <= ingested'[e], TokenStaysHome'
  PROVE  FilesInv'
<1>1. DOMAIN proc' = Processes /\ proc' = [q \in Processes |-> proc'[q]]
  BY DEF FilesInv
<1>2. ASSUME NEW q \in Processes
      PROVE  Command(proc'[q]) /\ Homebound(proc'[q]) /\ Uploading(proc'[q], logged', ingested')
  <2>1. CASE q = p
    BY <2>1 DEF FilesInv
  <2>2. CASE q # p
    <3>1. proc'[q] = proc[q] /\ Command(proc[q]) /\ Homebound(proc[q])
          /\ Uploading(proc[q], logged, ingested)
      BY <2>2 DEF FilesInv
    <3>2. ASSUME NEW n \in 0..logged, Uploaded(n, ingested) PROVE Uploaded(n, ingested')
      BY <3>2, UploadBounds DEF Uploaded, FilesInv
    <3>3. Uploading(proc[q], logged', ingested')
      BY <3>1, <3>2 DEF Uploading
    <3> QED BY <3>1, <3>3
  <2> QED BY <2>1, <2>2
<1> QED BY <1>1, <1>2 DEF FilesInv

\* A command that touches neither log nor watermark, and is not uploading.
LEMMA QuietlyMoves ==
  ASSUME FilesInv, NEW p \in Processes, NEW r, proc' = [proc EXCEPT ![p] = r],
         Command(r), Homebound(r), r.pc # "upload",
         UNCHANGED <<logged, watermark, ingested>>, TokenStaysHome'
  PROVE  FilesInv'
<1>1. Uploading(r, logged', ingested')
  BY DEF Uploading
<1>2. /\ logged' = logged /\ watermark' \in 0..logged /\ Uploaded(watermark', ingested')
      /\ ingested' \in [1..MaxEvents -> Nat]
      /\ \A e \in 1..MaxEvents : ingested[e] <= ingested'[e]
  BY DEF FilesInv
<1> QED BY <1>1, <1>2, CommandMoves

\* Steps at which nothing is held that the invariant speaks of.
Unserved == {"ready", "over", "store", "add", "save", "resolve", "sign"}

\* The resting states of a command hold nothing the invariant speaks of.
LEMMA PlainSteps ==
  /\ Command(Ready) /\ Ready.pc = "ready"
  /\ Command(Over) /\ Over.pc \in Unserved
  /\ \A r : r.pc \in Unserved => Homebound(r) /\ r.pc # "upload"
<1>1. Ready \in Fields({"ready", Nil, 0}) /\ Ready.pc = "ready"
  BY DEF Ready, Fields
<1>2. Over \in Fields({"ready", "over", Nil, 0}) /\ Over.pc = "over"
  BY DEF Over, Ready, Fields
<1>3. Over.pc \in Unserved
  BY <1>2 DEF Unserved
<1>4. \A r : r.pc \in Unserved => Homebound(r) /\ r.pc # "upload"
  BY DEF Unserved, Homebound
<1> QED BY <1>1, <1>2, <1>3, <1>4 DEF Command

\* Whatever its fields are to become, a command is one over a larger set.
LEMMA Widened ==
  ASSUME NEW r, Command(r), NEW x, NEW y, NEW z
  PROVE  \E K : r \in Fields(K) /\ x \in K /\ y \in K /\ z \in K
<1>1. PICK H : r \in Fields(H)
  BY DEF Command
<1>2. PICK K : K = H \cup {x, y, z}
  OBVIOUS
<1>3. r \in Fields(K) /\ x \in K /\ y \in K /\ z \in K
  BY <1>1, <1>2 DEF Fields
<1> QED BY <1>3

\* vaultx login, remote and workspace: the stored pair is a token and its home.
LEMMA RemoteCommandsKeep ==
  ASSUME FilesInv, NEW p \in Processes,
         \/ \E s \in Servers : cmd_login(p, s)
         \/ \E n \in Remotes : cmd_remote_add(p, n) \/ cmd_remote_remove(p, n)
         \/ \E n \in Remotes \cup {Nil} : load_session(p, n)
         \/ store_session(p) \/ cmd_workspace(p) \/ load_for_add(p) \/ save_remote_config(p)
  PROVE  FilesInv'
<1> DEFINE Quiet == UNCHANGED <<logged, watermark, ingested>>
<1>1. ASSUME NEW x, Contact(x, x) PROVE TokenStaysHome'
  BY <1>1 DEF Contact, TokenStaysHome, FilesInv
<1>2. contacted' = contacted => TokenStaysHome'
  BY DEF TokenStaysHome, FilesInv
<1>3. ASSUME NEW r, Command(r), r.pc \in Unserved, proc' = [proc EXCEPT ![p] = r], Quiet, TokenStaysHome'
      PROVE  FilesInv'
  BY <1>3, PlainSteps, QuietlyMoves
<1>4. ASSUME NEW pc \in Unserved, NEW target, NEW name
      PROVE  LET r == [Ready EXCEPT !.pc = pc, !.held = target, !.name = name]
             IN  Command(r) /\ r.pc \in Unserved
  <2>1. PICK K : Ready \in Fields(K) /\ pc \in K /\ target \in K /\ name \in K
    BY PlainSteps, Widened
  <2>2. LET r == [Ready EXCEPT !.pc = pc, !.held = target, !.name = name]
        IN  r \in Fields(K) /\ r.pc = pc
    BY <2>1 DEF Fields
  <2> QED BY <2>2 DEF Command
<1>5. Over.pc \in Unserved /\ Command(Over)
  BY PlainSteps
<1>6. ASSUME NEW pc \in Unserved, NEW target
      PROVE  LET r == [Ready EXCEPT !.pc = pc, !.held = target] IN Command(r) /\ r.pc \in Unserved
  <2>1. PICK K : Ready \in Fields(K) /\ pc \in K /\ target \in K
    BY PlainSteps, Widened
  <2>2. LET r == [Ready EXCEPT !.pc = pc, !.held = target] IN r \in Fields(K) /\ r.pc = pc
    BY <2>1 DEF Fields
  <2> QED BY <2>2 DEF Command
<1>7. ASSUME NEW s \in Servers, cmd_login(p, s) PROVE FilesInv'
  <2>1. PICK taken \in BOOLEAN :
          Become(p, IF taken THEN [Ready EXCEPT !.pc = "store", !.held = s] ELSE Over)
    BY <1>7 DEF cmd_login
  <2>2. PICK r : /\ r = IF taken THEN [Ready EXCEPT !.pc = "store", !.held = s] ELSE Over
                 /\ Command(r) /\ r.pc \in Unserved
    BY <1>5, <1>6 DEF Unserved
  <2> QED BY <1>1, <1>3, <1>7, <2>1, <2>2 DEF cmd_login, Become
<1>8. ASSUME NEW n \in Remotes, cmd_remote_add(p, n) PROVE FilesInv'
  <2>1. PICK seen \in BOOLEAN :
          Become(p, IF seen THEN [Ready EXCEPT !.pc = "add", !.held = session, !.name = n] ELSE Over)
    BY <1>8 DEF cmd_remote_add
  <2>2. PICK r : /\ r = IF seen THEN [Ready EXCEPT !.pc = "add", !.held = session, !.name = n] ELSE Over
                 /\ Command(r) /\ r.pc \in Unserved
    BY <1>4, <1>5 DEF Unserved
  <2> QED BY <1>1, <1>3, <1>8, <2>1, <2>2 DEF cmd_remote_add, Become
<1>9. ASSUME NEW n \in Remotes, cmd_remote_remove(p, n) PROVE FilesInv'
  <2>1. PICK f : f = [m \in DOMAIN remotes \ {n} |-> remotes[m]]
    OBVIOUS
  <2>2. PICK r : /\ r = IF n \notin DOMAIN remotes THEN Over ELSE [Ready EXCEPT !.pc = "save", !.held = f]
                 /\ Command(r) /\ r.pc \in Unserved
    BY <1>5, <1>6 DEF Unserved
  <2>3. Become(p, r) /\ Quiet /\ contacted' = contacted
    BY <1>9, <2>1, <2>2 DEF cmd_remote_remove
  <2> QED BY <1>2, <1>3, <2>2, <2>3 DEF Become
<1>10. ASSUME NEW n \in Remotes \cup {Nil}, load_session(p, n) PROVE FilesInv'
  <2>1. PICK r : /\ r = IF session = Nil THEN Over
                        ELSE [Ready EXCEPT !.pc = "resolve", !.held = session, !.name = n]
                 /\ Command(r) /\ r.pc \in Unserved
    BY <1>4, <1>5 DEF Unserved
  <2> QED BY <1>2, <1>3, <1>10, <2>1 DEF load_session, Become
<1>11. CASE store_session(p) \/ save_remote_config(p)
  BY <1>2, <1>3, <1>5, <1>11 DEF store_session, save_remote_config, Become
<1>12. CASE cmd_workspace(p)
  BY <1>1, <1>3, <1>5, <1>12 DEF cmd_workspace, Become
<1>13. CASE load_for_add(p)
  <2>1. PICK f : f = [n \in DOMAIN remotes \cup {proc[p].name} |->
                        IF n = proc[p].name THEN proc[p].held ELSE remotes[n]]
    OBVIOUS
  <2>2. Command(proc[p])
    BY DEF FilesInv
  <2>3. LET u == [proc[p] EXCEPT !.pc = "save", !.held = f] IN Command(u) /\ u.pc = "save"
    <3>1. PICK K : proc[p] \in Fields(K) /\ "save" \in K /\ f \in K
      BY <2>2, Widened
    <3>2. LET u == [proc[p] EXCEPT !.pc = "save", !.held = f] IN u \in Fields(K) /\ u.pc = "save"
      BY <3>1 DEF Fields
    <3> QED BY <3>2 DEF Command
  <2>4. PICK r : /\ r = IF proc[p].name \in DOMAIN remotes THEN Over
                        ELSE [proc[p] EXCEPT !.pc = "save", !.held = f]
                 /\ Command(r) /\ r.pc \in Unserved
    BY <1>5, <2>3 DEF Unserved
  <2>5. Become(p, r) /\ Quiet /\ contacted' = contacted
    BY <1>13, <2>1, <2>4 DEF load_for_add
  <2> QED BY <1>2, <1>3, <2>4, <2>5 DEF Become
<1> QED BY <1>7, <1>8, <1>9, <1>10, <1>11, <1>12, <1>13

\* The device key: obtaining it leaves token and server together.
LEMMA KeyObtained ==
  ASSUME FilesInv, NEW p \in Processes, NEW r, Command(r), NEW next \in {"sign", "probe"},
         next = "probe" => r.held[1] = r.held[2],
         ObtainKey(p, r, next), UNCHANGED <<logged, watermark, ingested, contacted>>
  PROVE  FilesInv'
<1> DEFINE g == [r EXCEPT !.pc = "generate", !.held = <<r.held, p>>, !.name = next]
           h == [r EXCEPT !.pc = next, !.held = <<r.held, key>>]
<1>1. TokenStaysHome'
  BY DEF TokenStaysHome, FilesInv
<1>2. Command(g) /\ Homebound(g) /\ g.pc # "upload"
  <2>1. PICK y : y = <<r.held, p>>
    OBVIOUS
  <2>2. PICK K : r \in Fields(K) /\ "generate" \in K /\ y \in K /\ next \in K
    BY Widened
  <2>3. LET u == [r EXCEPT !.pc = "generate", !.held = y, !.name = next]
        IN  u \in Fields(K) /\ u.pc = "generate" /\ u.held = y /\ u.name = next
    BY <2>2 DEF Fields
  <2>4. g \in Fields(K) /\ g.pc = "generate" /\ g.held = y /\ g.name = next
    BY <2>1, <2>3
  <2>5. y[1] = r.held
    BY <2>1
  <2> HIDE DEF g
  <2>6. Homebound(g) /\ g.pc # "upload"
    BY <2>4, <2>5 DEF Homebound
  <2> QED BY <2>4, <2>6 DEF Command
<1>3. Command(h) /\ Homebound(h) /\ h.pc # "upload"
  <2>1. PICK y : y = <<r.held, key>>
    OBVIOUS
  <2>2. PICK K : r \in Fields(K) /\ next \in K /\ y \in K
    BY Widened
  <2>3. LET u == [r EXCEPT !.pc = next, !.held = y]
        IN  u \in Fields(K) /\ u.pc = next /\ u.held = y
    BY <2>2 DEF Fields
  <2>4. h \in Fields(K) /\ h.pc = next /\ h.held = y
    BY <2>1, <2>3
  <2>5. y[1] = r.held
    BY <2>1
  <2> HIDE DEF h
  <2>6. Homebound(h) /\ h.pc # "upload"
    BY <2>4, <2>5 DEF Homebound
  <2> QED BY <2>4, <2>6 DEF Command
<1>4. Command(Over) /\ Homebound(Over) /\ Over.pc # "upload"
  BY PlainSteps
<1>5. \/ proc' = [proc EXCEPT ![p] = g] \/ proc' = [proc EXCEPT ![p] = Over]
      \/ proc' = [proc EXCEPT ![p] = h]
  <2>1. CASE key = Nil
    <3>1. proc' = [proc EXCEPT ![p] = g]
      BY <2>1, KeyFileStates DEF ObtainKey, Become
    <3> QED BY <3>1
  <2>2. CASE key # Nil /\ key = Empty
    <3>1. proc' = [proc EXCEPT ![p] = Over]
      BY <2>2 DEF ObtainKey, Become
    <3> QED BY <3>1
  <2>3. CASE key # Nil /\ key # Empty
    <3>1. proc' = [proc EXCEPT ![p] = h]
      BY <2>3 DEF ObtainKey, Become
    <3> QED BY <3>1
  <2> QED BY <2>1, <2>2, <2>3
<1> HIDE DEF g, h
<1> QED BY <1>1, <1>2, <1>3, <1>4, <1>5, QuietlyMoves

\* The commands on key files keep the invariant of the files.
LEMMA KeyCommandsKeep ==
  ASSUME FilesInv, NEW p \in Processes,
         \/ TruncateKey(p) \/ persist_pair(p) \/ DieFilling(p) \/ cmd_commit(p) \/ SignCommit(p)
         \/ attestation(p)
  PROVE  FilesInv'
<1>0. Command(proc[p]) /\ Homebound(proc[p])
  BY DEF FilesInv
<1>1. contacted' = contacted => TokenStaysHome'
  BY DEF TokenStaysHome, FilesInv
<1>2. CASE TruncateKey(p)
  <2>1. PICK K : proc[p] \in Fields(K) /\ "fill" \in K
    BY <1>0, Widened
  <2> DEFINE u == [proc[p] EXCEPT !.pc = "fill"]
  <2>2. u \in Fields(K) /\ u.pc = "fill" /\ u.name = "sign"
    BY <1>2, <2>1 DEF Fields, TruncateKey
  <2>3. proc' = [proc EXCEPT ![p] = u] /\ UNCHANGED <<logged, watermark, ingested, contacted>>
    BY <1>2 DEF TruncateKey, Become
  <2> HIDE DEF u
  <2>4. Command(u) /\ Homebound(u) /\ u.pc # "upload"
    BY <2>2 DEF Homebound, Command
  <2> QED BY <1>1, <2>3, <2>4, QuietlyMoves
<1>3. CASE persist_pair(p)
  <2> DEFINE n == proc[p].name
             u == [proc[p] EXCEPT !.pc = n, !.name = Nil]
  <2>1. /\ n \in {"sign", "probe"}
        /\ n = "probe" => proc[p].held[1][1] = proc[p].held[1][2]
    BY <1>0, <1>3 DEF persist_pair, Homebound, At
  <2>2. PICK K : proc[p] \in Fields(K) /\ n \in K /\ Nil \in K
    BY <1>0, Widened
  <2>3. u \in Fields(K) /\ u.pc = n /\ u.held = proc[p].held
    BY <2>2 DEF Fields
  <2>4. proc' = [proc EXCEPT ![p] = u] /\ UNCHANGED <<logged, watermark, ingested, contacted>>
    BY <1>3 DEF persist_pair, Become
  <2> HIDE DEF u
  <2>5. Command(u) /\ Homebound(u) /\ u.pc # "upload"
    BY <2>1, <2>3 DEF Homebound, Command
  <2> QED BY <1>1, <2>4, <2>5, QuietlyMoves
<1>4. CASE DieFilling(p) \/ SignCommit(p)
  <2>1. proc' = [proc EXCEPT ![p] = Over] /\ UNCHANGED <<logged, watermark, ingested, contacted>>
    BY <1>4 DEF DieFilling, SignCommit, Become
  <2> QED BY <1>1, <2>1, PlainSteps, QuietlyMoves
<1>5. CASE cmd_commit(p)
  BY <1>5, PlainSteps, KeyObtained DEF cmd_commit
<1>6. CASE attestation(p)
  <2>1. proc[p].held[1] = proc[p].held[2]
    BY <1>0, <1>6 DEF attestation, At, Homebound
  <2> QED BY <1>0, <1>6, <2>1, KeyObtained DEF attestation
<1> QED BY <1>2, <1>3, <1>4, <1>5, <1>6

\* push, pull and sync, up to the upload.
LEMMA SyncCommandsKeep ==
  ASSUME FilesInv, NEW p \in Processes, open_sync_context(p) \/ SendProbe(p)
  PROVE  FilesInv'
<1>0. Command(proc[p]) /\ Homebound(proc[p])
  BY DEF FilesInv
<1>1. CASE open_sync_context(p)
  <2>1. TokenStaysHome'
    BY <1>1 DEF open_sync_context, TokenStaysHome, FilesInv
  <2>2. UNCHANGED <<logged, watermark, ingested>>
    BY <1>1 DEF open_sync_context
  <2>3. PICK name : name = resolve_remote(proc[p].name)
    OBVIOUS
  <2> DEFINE y == <<remotes[name], proc[p].held>>
             u == [proc[p] EXCEPT !.pc = "attest", !.name = Nil, !.held = y]
  <2>4. \/ proc' = [proc EXCEPT ![p] = Over]
        \/ remotes[name] = proc[p].held /\ proc' = [proc EXCEPT ![p] = u]
    BY <1>1, <2>3 DEF open_sync_context, Become, Paired
  <2>5. CASE proc' = [proc EXCEPT ![p] = Over]
    BY <2>1, <2>2, <2>5, PlainSteps, QuietlyMoves
  <2>6. CASE remotes[name] = proc[p].held /\ proc' = [proc EXCEPT ![p] = u]
    <3>1. y[1] = y[2]
      BY <2>6
    <3> HIDE DEF y
    <3>2. PICK K : proc[p] \in Fields(K) /\ "attest" \in K /\ y \in K /\ Nil \in K
      BY <1>0, Widened
    <3>3. u \in Fields(K) /\ u.pc = "attest" /\ u.held = y
      BY <3>2 DEF Fields
    <3> HIDE DEF u
    <3>4. Command(u) /\ Homebound(u) /\ u.pc # "upload"
      BY <3>1, <3>3 DEF Homebound, Command
    <3> QED BY <2>1, <2>2, <2>6, <3>4, QuietlyMoves
  <2> QED BY <2>4, <2>5, <2>6
<1>2. CASE SendProbe(p)
  <2>1. proc[p].held[1][1] = proc[p].held[1][2]
    BY <1>0, <1>2 DEF SendProbe, At, Homebound
  <2>2. TokenStaysHome'
    BY <1>2, <2>1 DEF SendProbe, Contact, TokenStaysHome, FilesInv
  <2> DEFINE u == [Ready EXCEPT !.pc = "upload", !.at = watermark, !.upto = logged]
  <2>3. /\ UNCHANGED <<logged, watermark, ingested>>
        /\ \/ proc' = [proc EXCEPT ![p] = Over]
           \/ proc' = [proc EXCEPT ![p] = u]
    BY <1>2 DEF SendProbe, Become
  <2>4. CASE proc' = [proc EXCEPT ![p] = Over]
    BY <2>2, <2>3, <2>4, PlainSteps, QuietlyMoves
  <2>5. CASE proc' = [proc EXCEPT ![p] = u]
    <3>1. PICK K : Ready \in Fields(K) /\ "upload" \in K /\ watermark \in K /\ logged \in K
      BY PlainSteps, Widened
    <3>2. u \in Fields(K) /\ u.pc = "upload" /\ u.at = watermark /\ u.upto = logged
      BY <3>1 DEF Fields
    <3> HIDE DEF u
    <3>3. Command(u) /\ Homebound(u)
      BY <3>2 DEF Homebound, Command
    <3>4. Uploading(u, logged', ingested')
      BY <2>3, <3>2 DEF Uploading, FilesInv
    <3>5. /\ logged' = logged /\ watermark' \in 0..logged /\ Uploaded(watermark', ingested')
          /\ ingested' \in [1..MaxEvents -> Nat]
          /\ \A e \in 1..MaxEvents : ingested[e] <= ingested'[e]
      BY <2>3 DEF FilesInv
    <3> QED BY <2>2, <2>5, <3>3, <3>4, <3>5, CommandMoves
  <2> QED BY <2>3, <2>4, <2>5
<1> QED BY <1>1, <1>2

\* The upload: what the server has ingested is never less than before.
LEMMA UploadsKeep ==
  ASSUME FilesInv, NEW p \in Processes,
         reconcile_chunk(p) \/ UploadFails(p) \/ save_sync_state(p)
  PROVE  FilesInv'
<1> DEFINE r == proc[p]
<1>0. Command(r) /\ Homebound(r) /\ Uploading(r, logged, ingested)
  BY DEF FilesInv
<1>1. /\ r.pc = "upload" /\ r.at \in 0..logged /\ r.upto \in 0..logged /\ r.at <= r.upto
      /\ Uploaded(r.at, ingested)
  BY <1>0 DEF reconcile_chunk, UploadFails, save_sync_state, At, Uploading
<1>2. TokenStaysHome' /\ logged' = logged
  BY DEF reconcile_chunk, UploadFails, save_sync_state, TokenStaysHome, FilesInv
<1>3. ASSUME Accept(ChunkOf(r)) \/ ingested' = ingested
      PROVE  /\ ingested' \in [1..MaxEvents -> Nat]
             /\ \A e \in 1..MaxEvents : ingested[e] <= ingested'[e]
             /\ \A n \in 0..logged : Uploaded(n, ingested) => Uploaded(n, ingested')
  <2>1. ingested' \in [1..MaxEvents -> Nat] /\ \A e \in 1..MaxEvents : ingested[e] <= ingested'[e]
    <3>1. ingested \in [1..MaxEvents -> Nat]
      BY DEF FilesInv
    <3>2. CASE ingested' = ingested
      BY <3>1, <3>2
    <3>3. CASE Accept(ChunkOf(r))
      BY <3>1, <3>3 DEF Accept
    <3> QED BY <1>3, <3>2, <3>3
  <2> QED BY <2>1, UploadBounds DEF Uploaded, FilesInv
<1>4. CASE reconcile_chunk(p)
  <2>1. PICK n : n = IF r.at + Chunk <= r.upto THEN r.at + Chunk ELSE r.upto
    OBVIOUS
  <2>2. n \in 0..logged /\ n <= r.upto /\ n <= r.at + Chunk
    BY <1>1, <2>1, UploadBounds DEF FilesInv
  <2>3. Accept(ChunkOf(r)) /\ proc' = [proc EXCEPT ![p] = [r EXCEPT !.at = n]] /\ watermark' = watermark
    BY <1>4, <2>1 DEF reconcile_chunk, Become
  <2>4. Uploaded(n, ingested')
    <3> SUFFICES ASSUME NEW e \in 1..n, e \notin Unacceptable PROVE ingested'[e] > 0
      BY DEF Uploaded
    <3>0. e \in 1..MaxEvents /\ ingested[e] \in Nat
      BY <2>2, UploadBounds DEF FilesInv
    <3>1. CASE e \in 1..r.at
      <4>1. ingested[e] > 0
        BY <1>1, <3>1 DEF Uploaded
      <4>2. ingested[e] <= ingested'[e] /\ ingested'[e] \in Nat
        BY <1>3, <2>3, <3>0
      <4> QED BY <3>0, <4>1, <4>2
    <3>2. CASE e \notin 1..r.at
      <4>1. e \in ChunkOf(r)
        BY <1>1, <2>2, <3>0, <3>2, UploadBounds DEF ChunkOf, FilesInv
      <4>2. ingested'[e] = ingested[e] + 1
        BY <2>3, <3>0, <4>1 DEF Accept
      <4> QED BY <3>0, <4>2
    <3> QED BY <3>1, <3>2
  <2> DEFINE u == [r EXCEPT !.at = n]
  <2>5. PICK K : r \in Fields(K) /\ n \in K
    BY <1>0, Widened
  <2>6. u \in Fields(K) /\ u.pc = "upload" /\ u.at = n /\ u.upto = r.upto
    BY <1>1, <2>5 DEF Fields
  <2>7. proc' = [proc EXCEPT ![p] = u]
    BY <2>3
  <2> HIDE DEF u
  <2>8. Command(u) /\ Homebound(u)
    BY <2>6 DEF Homebound, Command
  <2>9. Uploading(u, logged', ingested')
    BY <1>1, <1>2, <2>2, <2>4, <2>6 DEF Uploading
  <2>10. watermark' \in 0..logged /\ Uploaded(watermark', ingested')
    BY <1>3, <2>3 DEF FilesInv
  <2> HIDE DEF r
  <2> QED BY <1>2, <1>3, <2>3, <2>7, <2>8, <2>9, <2>10, CommandMoves
<1>5. CASE UploadFails(p)
  <2>1. Accept(ChunkOf(r)) \/ ingested' = ingested
    BY <1>5 DEF UploadFails
  <2>2. proc' = [proc EXCEPT ![p] = Over] /\ watermark' = watermark
    BY <1>5 DEF UploadFails, Become
  <2>3. watermark' \in 0..logged /\ Uploaded(watermark', ingested')
    BY <1>3, <2>1, <2>2 DEF FilesInv
  <2>4. Command(Over) /\ Homebound(Over) /\ Uploading(Over, logged', ingested')
    BY PlainSteps DEF Uploading
  <2> QED BY <1>2, <1>3, <2>1, <2>2, <2>3, <2>4, CommandMoves
<1>6. CASE save_sync_state(p)
  <2>1. proc' = [proc EXCEPT ![p] = Over] /\ watermark' = r.at /\ ingested' = ingested
    BY <1>6 DEF save_sync_state, Become
  <2>2. watermark' \in 0..logged /\ Uploaded(watermark', ingested')
    BY <1>1, <2>1
  <2>3. Command(Over) /\ Homebound(Over) /\ Uploading(Over, logged', ingested')
    BY PlainSteps DEF Uploading
  <2> QED BY <1>2, <1>3, <2>1, <2>2, <2>3, CommandMoves
<1> QED BY <1>4, <1>5, <1>6

\* session.rs, context.rs and remoting.rs: whatever commands overlap, a token is
\* sent to the server that issued it and the watermark skips no event.
THEOREM SyncStateStaysSafe == FilesSpec => []SyncStateSafe
<1>1. FilesInit => FilesInv
  <2> SUFFICES ASSUME FilesInit PROVE FilesInv
    OBVIOUS
  <2>1. \A p \in Processes : proc[p] = Ready
    BY DEF FilesInit
  <2>2. Command(Ready) /\ Homebound(Ready) /\ Uploading(Ready, logged, ingested)
    BY PlainSteps DEF Homebound, Uploading
  <2>3. DOMAIN proc = Processes /\ proc = [p \in Processes |-> proc[p]]
    BY DEF FilesInit
  <2>4. /\ logged \in 0..MaxEvents /\ watermark \in 0..logged
        /\ ingested \in [1..MaxEvents -> Nat]
    BY UploadBounds DEF FilesInit
  <2>5. TokenStaysHome /\ Uploaded(watermark, ingested)
    BY DEF FilesInit, TokenStaysHome, Uploaded
  <2> QED BY <2>1, <2>2, <2>3, <2>4, <2>5 DEF FilesInv
<1>2. FilesInv /\ [FilesNext]_fileVars => FilesInv'
  <2> SUFFICES ASSUME FilesInv, [FilesNext]_fileVars PROVE FilesInv'
    OBVIOUS
  <2>1. CASE Appended
    <3>1. /\ logged' \in 0..MaxEvents /\ logged <= logged' /\ logged \in Nat /\ logged' \in Nat
          /\ UNCHANGED <<watermark, proc, contacted, ingested>>
      BY <2>1, UploadBounds DEF Appended, FilesInv
    <3>2. \A p \in Processes : Uploading(proc'[p], logged', ingested')
      BY <3>1 DEF Uploading, FilesInv
    <3> QED BY <3>1, <3>2 DEF FilesInv, TokenStaysHome
  <2>2. CASE UNCHANGED fileVars
    BY <2>2 DEF fileVars, FilesInv, TokenStaysHome
  <2>3. ASSUME NEW p \in Processes,
               \/ \E s \in Servers : cmd_login(p, s)
               \/ \E n \in Remotes : cmd_remote_add(p, n) \/ cmd_remote_remove(p, n)
               \/ \E n \in Remotes \cup {Nil} : load_session(p, n)
               \/ store_session(p) \/ cmd_workspace(p) \/ load_for_add(p) \/ save_remote_config(p)
        PROVE  FilesInv'
    BY <2>3, RemoteCommandsKeep
  <2>4. ASSUME NEW p \in Processes,
               \/ TruncateKey(p) \/ persist_pair(p) \/ DieFilling(p) \/ cmd_commit(p)
               \/ SignCommit(p) \/ attestation(p)
        PROVE  FilesInv'
    BY <2>4, KeyCommandsKeep
  <2>5. ASSUME NEW p \in Processes, open_sync_context(p) \/ SendProbe(p) PROVE FilesInv'
    BY <2>5, SyncCommandsKeep
  <2>6. ASSUME NEW p \in Processes, reconcile_chunk(p) \/ UploadFails(p) \/ save_sync_state(p)
        PROVE  FilesInv'
    BY <2>6, UploadsKeep
  <2> QED BY <2>1, <2>2, <2>3, <2>4, <2>5, <2>6 DEF FilesNext
<1>3. FilesInv => SyncStateSafe
  BY DEF FilesInv, SyncStateSafe, NothingSkipped, Uploaded
<1> QED BY <1>1, <1>2, <1>3, PTL DEF FilesSpec

-------------------------------------------------------------------------------
(* The key files of a project.                                             *)

KeyTypeOK ==
  /\ deviceKey \in Commands \cup {"missing", "torn"} /\ devicePub \in Commands \cup {"missing"}
  /\ rootKey \in Commands \cup {"missing", "torn"} /\ wrappedBy \in Commands \cup {"missing", "torn"}
  /\ signers \subseteq Commands
  /\ step \in [Commands -> {"new", "create", "fill", "publish", "sign", "done", "failed", "fill_root", "bundle"}]
  /\ pair \in [Commands -> Commands \cup {"none"}] /\ rootHeld \in [Commands -> Commands \cup {"none"}]
  /\ \A c \in Commands : step[c] = "bundle" => rootHeld[c] \in Commands
  /\ \A c \in Commands : step[c] \in {"publish", "sign"} => pair[c] \in Commands

\* The verdict on display was reached in this state.
Diagnosis ==
  [repository |-> check_repository_integrity, signing |-> check_signing_key,
   keyring |-> check_keyring_availability, keys |-> check_project_keys,
   policies |-> check_policy_validity, socket |-> check_broker_socket,
   remote |-> check_remote_config, sync |-> check_sync_consistency,
   broker |-> check_broker_connectivity]
Fresh == report = NoReport \/ report = Diagnosis

\* Secrets are sealed under the one project key there has been.
OneProjectKey ==
  "project.json" \notin lost =>
    sealed \subseteq {projectKey} /\ (wrappedBy = "missing" => sealed = {})

\* Undisturbed: the first commits did not overlap and the device's files stayed.
Undisturbed == ~raced /\ lost \cap {"device.key", "device.pub"} = {}

\* Only one command is writing the seed; whoever has a pair has the one in
\* device.key; and device.pub, once there, belongs to it.
OneSeed ==
  /\ \A c \in Commands : step[c] = "fill" =>
       deviceKey = "torn" /\ \A d \in Commands : step[d] = "fill" => d = c
  /\ \A c \in Commands : step[c] \in {"publish", "sign"} => deviceKey = pair[c]
  /\ \A c \in Commands : step[c] = "sign" => devicePub = deviceKey
  /\ devicePub # "missing" => devicePub = deviceKey
  /\ signers \subseteq {devicePub}

KeysInv == KeyTypeOK /\ Fresh /\ OneProjectKey /\ (Undisturbed => OneSeed)

\* The inductive invariant gives what the property says.
LEMMA KeysInvSuffices ==
  ASSUME KeysInv PROVE KeysUsable
<1>1. OneSigningIdentity
  BY DEF KeysInv, OneSigningIdentity, Undisturbed, OneSeed
<1>2. HealthyMeansUsable
  <2>1. SUFFICES ASSUME NoFailure
                 PROVE  /\ deviceKey # "torn"
                        /\ wrappedBy # "missing" => rootKey = wrappedBy
                        /\ "project.json" \notin lost => sealed \subseteq {projectKey}
                        /\ around.objects = "whole" /\ around.policies = "valid" /\ around.broker # "silent"
    BY DEF HealthyMeansUsable
  <2>2. report = Diagnosis
    BY <2>1 DEF NoFailure, KeysInv, Fresh
  <2>3. /\ check_repository_integrity # "Fail" /\ check_signing_key # "Fail"
        /\ check_project_keys # "Fail" /\ check_policy_validity # "Fail" /\ check_broker_connectivity # "Fail"
    <3>1. \A f \in {"repository", "signing", "keys", "policies", "broker"} : report[f] # "Fail"
      BY <2>1, <2>2 DEF NoFailure, Diagnosis
    <3> QED BY <2>2, <3>1 DEF Diagnosis
  <2>4. deviceKey # "torn"
    BY <2>3 DEF check_signing_key
  <2>5. wrappedBy # "missing" => rootKey = wrappedBy
    BY <2>3 DEF check_project_keys
  <2>6. around.objects = "whole" /\ around.policies = "valid"
    BY <2>3 DEF check_repository_integrity, check_policy_validity
  <2>7. around.broker # "silent"
    BY <2>3 DEF check_broker_connectivity
  <2> QED BY <2>4, <2>5, <2>6, <2>7 DEF KeysInv, OneProjectKey
<1> QED BY <1>1, <1>2 DEF KeysUsable

\* The invariant holds before any key is written.
LEMMA KeysInvInit == keysInit => KeysInv
  BY KeysAreNoMarks DEF keysInit, KeysInv, KeyTypeOK, Fresh, OneProjectKey, OneSeed

\* A commit and its signing pair.
LEMMA SigningKeeps ==
  ASSUME KeysInv, NEW c \in Commands, report' = NoReport,
         signing_pair(c) \/ TruncateSeed(c) \/ FillSeed(c) \/ persist_device_pub(c) \/ SignWithPair(c)
  PROVE  KeysInv'
<1>1. Fresh' /\ OneProjectKey'
  BY DEF KeysInv, Fresh, OneProjectKey, signing_pair, TruncateSeed, FillSeed, persist_device_pub,
         SignWithPair
<1>2. CASE signing_pair(c)
  <2>1. KeyTypeOK'
    BY <1>2 DEF KeysInv, KeyTypeOK, signing_pair, Continue, load_persisted_pair
  <2>2. Undisturbed' => OneSeed'
    BY <1>2, KeysAreNoMarks DEF KeysInv, KeyTypeOK, Undisturbed, OneSeed, signing_pair, Continue, load_persisted_pair
  <2> QED BY <1>1, <2>1, <2>2 DEF KeysInv
<1>3. CASE TruncateSeed(c)
  <2>1. KeyTypeOK'
    BY <1>3 DEF KeysInv, KeyTypeOK, TruncateSeed, Continue
  <2>2. Undisturbed' => OneSeed'
    BY <1>3, KeysAreNoMarks DEF KeysInv, KeyTypeOK, Undisturbed, OneSeed, TruncateSeed, Continue
  <2> QED BY <1>1, <2>1, <2>2 DEF KeysInv
<1>4. CASE FillSeed(c)
  <2>1. KeyTypeOK'
    BY <1>4 DEF KeysInv, KeyTypeOK, FillSeed, Continue
  <2>2. Undisturbed' => OneSeed'
    BY <1>4, KeysAreNoMarks DEF KeysInv, KeyTypeOK, Undisturbed, OneSeed, FillSeed, Continue
  <2> QED BY <1>1, <2>1, <2>2 DEF KeysInv
<1>5. CASE persist_device_pub(c)
  <2>1. KeyTypeOK'
    BY <1>5 DEF KeysInv, KeyTypeOK, persist_device_pub, Continue
  <2>2. Undisturbed' => OneSeed'
    <3>1. SUFFICES ASSUME Undisturbed' PROVE OneSeed'
      OBVIOUS
    <3>2. OneSeed /\ devicePub' = pair[c] /\ deviceKey = pair[c] /\ UNCHANGED <<deviceKey, pair, signers>>
      BY <1>5, <3>1 DEF KeysInv, Undisturbed, OneSeed, persist_device_pub
    <3>3. step' = [step EXCEPT ![c] = "sign"] /\ step[c] = "publish"
      BY <1>5 DEF persist_device_pub, Continue
    <3>4. signers \subseteq {devicePub'}
      BY <3>2, KeysAreNoMarks DEF KeysInv, KeyTypeOK, OneSeed
    <3> QED BY <3>2, <3>3, <3>4 DEF KeysInv, KeyTypeOK, OneSeed
  <2> QED BY <1>1, <2>1, <2>2 DEF KeysInv
<1>6. CASE SignWithPair(c)
  <2>1. KeyTypeOK'
    BY <1>6 DEF KeysInv, KeyTypeOK, SignWithPair, Continue
  <2>2. Undisturbed' => OneSeed'
    <3>1. SUFFICES ASSUME Undisturbed' PROVE OneSeed'
      OBVIOUS
    <3>2. /\ OneSeed /\ signers' = signers \cup {pair[c]} /\ devicePub = pair[c]
          /\ UNCHANGED <<deviceKey, devicePub, pair>>
      BY <1>6, <3>1 DEF KeysInv, Undisturbed, OneSeed, SignWithPair
    <3>3. step' = [step EXCEPT ![c] = "done"]
      BY <1>6 DEF SignWithPair, Continue
    <3> QED BY <3>2, <3>3 DEF KeysInv, KeyTypeOK, OneSeed
  <2> QED BY <1>1, <2>1, <2>2 DEF KeysInv
<1> QED BY <1>2, <1>3, <1>4, <1>5, <1>6

\* A secret write and the keys around its project key, and a command that dies.
LEMMA WrappingKeeps ==
  ASSUME KeysInv, NEW c \in Commands, report' = NoReport,
         obtain(c) \/ FillRootKey(c) \/ UseBundle(c) \/ Dies(c)
  PROVE  KeysInv'
<1>1. /\ Fresh' /\ UNCHANGED <<deviceKey, devicePub, signers, pair, raced, lost>>
      /\ \E s \in {"done", "failed", "fill_root", "bundle"} : step' = [step EXCEPT ![c] = s]
  BY DEF Fresh, obtain, FillRootKey, UseBundle, Dies, Continue, keyFiles
<1>2. KeyTypeOK'
  <2>1. CASE obtain(c)
    BY <2>1 DEF KeysInv, KeyTypeOK, obtain, Continue
  <2>2. CASE FillRootKey(c)
    BY <2>2 DEF KeysInv, KeyTypeOK, FillRootKey, Continue
  <2>3. CASE UseBundle(c)
    BY <2>3 DEF KeysInv, KeyTypeOK, UseBundle, Continue
  <2>4. CASE Dies(c)
    BY <2>4 DEF KeysInv, KeyTypeOK, Dies, Continue, keyFiles
  <2> QED BY <2>1, <2>2, <2>3, <2>4
<1>3. OneProjectKey'
  <2>1. CASE UseBundle(c)
    BY <2>1, KeysAreNoMarks DEF KeysInv, KeyTypeOK, OneProjectKey, UseBundle
  <2>2. CASE ~UseBundle(c)
    BY <2>2 DEF KeysInv, OneProjectKey, obtain, FillRootKey, Dies, keyFiles
  <2> QED BY <2>1, <2>2
<1>4. Undisturbed' => OneSeed'
  BY <1>1 DEF KeysInv, KeyTypeOK, Undisturbed, OneSeed
<1> QED BY <1>1, <1>2, <1>3, <1>4 DEF KeysInv

\* A file that is lost or comes back, and a change around the project.
LEMMA OutsideKeeps ==
  ASSUME KeysInv, report' = NoReport, LoseFile \/ RestoreRoot \/ OutsideChange
  PROVE  KeysInv'
<1>1. Fresh' /\ UNCHANGED <<signers, projectKey, sealed, step, pair, rootHeld, raced>>
  BY DEF Fresh, LoseFile, RestoreRoot, OutsideChange, keyFiles
<1>2. KeyTypeOK'
  BY <1>1 DEF KeysInv, KeyTypeOK, LoseFile, RestoreRoot, OutsideChange, keyFiles
<1>3. OneProjectKey'
  BY <1>1, KeysAreNoMarks DEF KeysInv, OneProjectKey, LoseFile, RestoreRoot, OutsideChange, keyFiles
<1>4. Undisturbed' => OneSeed'
  <2>1. SUFFICES ASSUME Undisturbed' PROVE OneSeed'
    OBVIOUS
  <2>2. UNCHANGED <<deviceKey, devicePub>> /\ Undisturbed
    BY <1>1, <2>1 DEF Undisturbed, LoseFile, RestoreRoot, OutsideChange, keyFiles
  <2> QED BY <1>1, <2>2 DEF KeysInv, OneSeed
<1> QED BY <1>1, <1>2, <1>3, <1>4 DEF KeysInv

\* A project that doctor passes is usable, and its commits are signed by one
\* identity, for any number of commands, deaths and lost files (doctor.rs,
\* history.rs:10-13).
THEOREM KeysStayUsable == KeysSpec => []KeysUsable
<1>1. KeysInv /\ [keysNext]_keyVars => KeysInv'
  <2> SUFFICES ASSUME KeysInv, [keysNext]_keyVars PROVE KeysInv'
    OBVIOUS
  <2>1. CASE run_doctor
    <3>1. Fresh'
      BY <2>1 DEF run_doctor, Fresh, Diagnosis, check_repository_integrity, check_signing_key,
        check_keyring_availability, check_project_keys, check_policy_validity, check_broker_socket,
        check_remote_config, check_sync_consistency, check_broker_connectivity, keyFiles
    <3> QED BY <2>1, <3>1 DEF run_doctor, keyFiles, KeysInv, KeyTypeOK, OneProjectKey, Undisturbed, OneSeed
  <2>2. CASE UNCHANGED keyVars
    <3>1. Fresh'
      BY <2>2 DEF keyVars, keyFiles, KeysInv, Fresh, Diagnosis, check_repository_integrity, check_signing_key,
        check_keyring_availability, check_project_keys, check_policy_validity, check_broker_socket,
        check_remote_config, check_sync_consistency, check_broker_connectivity
    <3> QED BY <2>2, <3>1 DEF keyVars, keyFiles, KeysInv, KeyTypeOK, OneProjectKey, Undisturbed, OneSeed
  <2> QED BY <2>1, <2>2, SigningKeeps, WrappingKeeps, OutsideKeeps DEF keysNext
<1> QED BY <1>1, KeysInvInit, KeysInvSuffices, PTL DEF KeysSpec

-------------------------------------------------------------------------------
(* Agents and their runs.                                                  *)

Session == [by : SessionCommands, live : BOOLEAN, lost : BOOLEAN]

\* What a command may make of an identity that was not written meanwhile.
Derived(cmd, was, is) ==
  /\ is.enabled # was.enabled => cmd \in {"enable", "disable"}
  /\ was.policies \subseteq is.policies
  /\ is.sequence = was.sequence

\* A command that is to write has a file derived from the one that is there,
\* and only a command past its minting has a session, its own.
RunOK(r, files, sessions) ==
  /\ r \in Running
  /\ r.at \in {"save", "fill"} =>
       /\ r.copy \in Identity
       /\ ~r.stale /\ files[r.agent] # None => Derived(r.cmd, files[r.agent], r.copy)
  /\ r.session # None <=> r.at \in {"work", "revoke"}
  /\ r.session # None => r.session \in 1..Len(sessions) /\ sessions[r.session].by = r.cmd

\* A session of `agent run` that nobody gave up.
Open(s) == s.by = "run" /\ s.live /\ ~s.lost

AgentInv ==
  /\ intact \in [AgentNames -> Option(Identity)]
  /\ identities \in [AgentNames -> Option(Identity) \cup {TornFile}]
  /\ \A a \in AgentNames : identities[a] # TornFile => identities[a] = intact[a]
  /\ granted \in Seq(Session)
  /\ running \in [Workers -> Option(Running)]
  /\ \A p \in Workers : running[p] # None => RunOK(running[p], intact, granted)
  /\ \A i \in 1..Len(granted) : Open(granted[i]) =>
       \E p \in Workers : running[p] # None /\ running[p].session = i

\* The invariant says what the child of a run sees and which sessions are left.
LEMMA AgentInvSuffices ==
  ASSUME AgentInv PROVE RunsContained
<1>1. \A i \in DOMAIN granted : granted[i].by = "run" /\ granted[i].live /\ ~granted[i].lost =>
         \E p \in Workers : running[p] # None /\ running[p].session = i
  <2>1. DOMAIN granted = 1..Len(granted)
    BY DEF AgentInv
  <2> QED BY <2>1 DEF AgentInv, Open
<1>2. \A p \in Workers : child_env(p, SessionVar) = running[p].session
  BY DEF child_env
<1>3. \A p \in Workers : \A name \in DOMAIN running[p].commit \ (IdentityVars \cup {SessionVar}) :
         child_env(p, name) = IF running[p].commit[name] = "config" THEN "committed" ELSE None
  BY DEF child_env
<1> QED BY <1>1, <1>2, <1>3 DEF RunsContained

\* One command goes from r0 to r and nothing else happens: its session, if it
\* gives it up, was none of a run that stays open.
LEMMA MoveKeeps ==
  ASSUME AgentInv, NEW p \in Workers, NEW r,
         running' = [running EXCEPT ![p] = r], UNCHANGED <<identities, intact, granted>>,
         r = None \/ RunOK(r, intact, granted),
         \A i \in 1..Len(granted) : Open(granted[i]) /\ running[p] # None /\ running[p].session = i =>
           r # None /\ r.session = i
  PROVE  AgentInv'
<1>1. r \in Option(Running)
  BY DEF RunOK, Option
<1>2. running' \in [Workers -> Option(Running)]
  BY <1>1 DEF AgentInv
<1>3. \A q \in Workers : running'[q] = IF q = p THEN r ELSE running[q]
  BY DEF AgentInv
<1>4. \A q \in Workers : running'[q] # None => RunOK(running'[q], intact, granted)
  BY <1>3 DEF AgentInv
<1>5. ASSUME NEW i \in 1..Len(granted), Open(granted[i])
      PROVE  \E q \in Workers : running'[q] # None /\ running'[q].session = i
  <2>1. PICK q \in Workers : running[q] # None /\ running[q].session = i
    BY <1>5 DEF AgentInv
  <2>2. CASE q = p
    BY <1>3, <1>5, <2>1, <2>2
  <2>3. CASE q # p
    BY <1>3, <2>1, <2>3
  <2> QED BY <2>2, <2>3
<1> QED BY <1>2, <1>4, <1>5 DEF AgentInv

\* A command without a session ends.
LEMMA EndsKeep ==
  ASSUME AgentInv, NEW p \in Workers, running[p] # None, running[p].at \notin {"work", "revoke"},
         Ends(p), UNCHANGED <<identities, intact, granted>>
  PROVE  AgentInv'
<1>1. running[p].session = None
  BY DEF AgentInv, RunOK
<1>2. \A i \in 1..Len(granted) : running[p].session # i
  <2>1. Len(granted) \in Nat
    BY DEF AgentInv
  <2> QED BY <1>1, <2>1, MarksAreNoFiles
<1> QED BY <1>2, MoveKeeps DEF Ends

\* Starting a command keeps the invariant.
LEMMA StartCommandKeeps ==
  ASSUME AgentInv, NEW p \in Workers, NEW cmd \in IdentityCommands \cup SessionCommands,
         NEW a \in AgentNames, StartCommand(p, cmd, a)
  PROVE  AgentInv'
<1>1. PICK r : r = [cmd |-> cmd, agent |-> a, at |-> "start", copy |-> None, stale |-> FALSE,
                    session |-> None, commit |-> None]
  OBVIOUS
<1>2. RunOK(r, intact, granted)
  BY <1>1 DEF RunOK, Running, Option
<1>3. running' = [running EXCEPT ![p] = r] /\ running[p] = None /\ UNCHANGED <<identities, intact, granted>>
  BY <1>1 DEF StartCommand
<1> QED BY <1>2, <1>3, MoveKeeps

\* Reading the identity file keeps the invariant.
LEMMA LoadIdentityKeeps ==
  ASSUME AgentInv, NEW p \in Workers, LoadIdentity(p)
  PROVE  AgentInv'
<1>1. /\ running[p] # None /\ running[p].at = "start" /\ UNCHANGED <<identities, intact, granted>>
      /\ running[p].cmd \in IdentityCommands
  BY DEF LoadIdentity, Does
<1>2. PICK cmd, a : /\ cmd = running[p].cmd /\ a = running[p].agent
                    /\ \/ \E file \in Changed(cmd, a) : running' =
                            [running EXCEPT ![p].at = "save", ![p].copy = file, ![p].stale = FALSE]
                       \/ Ends(p)
  BY DEF LoadIdentity
<1>3. RunOK(running[p], intact, granted) /\ a \in AgentNames
  BY <1>1, <1>2 DEF AgentInv, RunOK, Running
<1>4. CASE Ends(p)
  BY <1>1, <1>4, EndsKeep
<1>5. ASSUME NEW file \in Changed(cmd, a),
             running' = [running EXCEPT ![p].at = "save", ![p].copy = file, ![p].stale = FALSE]
      PROVE  AgentInv'
  <2>1. file \in Identity /\ (intact[a] # None => Derived(cmd, intact[a], file))
    <3>1. identities[a] \in Option(Identity) \cup {TornFile} /\ (identities[a] # TornFile => identities[a] = intact[a])
      BY <1>3 DEF AgentInv
    <3>2. CASE cmd = "create" /\ Creatable(a)
      <4>1. Changed(cmd, a) = {[enabled |-> TRUE, policies |-> {}, sequence |-> count_agent_files + 1]}
        BY <3>2 DEF Changed
      <4>2. count_agent_files + 1 \in {Cardinality(A) + 1 : A \in SUBSET AgentNames}
        BY DEF count_agent_files
      <4>3. file \in Identity
        <5>1. PICK n, H : /\ n = count_agent_files + 1 /\ H = {Cardinality(A) + 1 : A \in SUBSET AgentNames}
                          /\ n \in H
          BY <4>2
        <5>2. file = [enabled |-> TRUE, policies |-> {}, sequence |-> n]
          BY <1>5, <4>1, <5>1
        <5>3. file \in [enabled : BOOLEAN, policies : SUBSET AgentPolicies, sequence : H]
          <6>1. n \in H
            BY <5>1
          <6> QED BY <5>2, <6>1
        <5> QED BY <5>1, <5>3 DEF Identity
      <4>4. intact[a] = None
        BY <3>1, <3>2, MarksAreNoFiles DEF Creatable
      <4> QED BY <4>3, <4>4
    <3>3. CASE cmd \in {"enable", "disable"} /\ Readable(a)
      <4>1. Changed(cmd, a) = {[identities[a] EXCEPT !.enabled = cmd = "enable"]}
        BY <3>3 DEF Changed
      <4>2. identities[a] \in Identity /\ intact[a] = identities[a]
        BY <3>1, <3>3 DEF Readable, Option
      <4>3. PICK b \in BOOLEAN : b = (cmd = "enable")
        OBVIOUS
      <4>4. file = [identities[a] EXCEPT !.enabled = b]
        BY <1>5, <4>1, <4>3
      <4> QED BY <3>3, <4>2, <4>4 DEF Identity, Derived
    <3>4. CASE cmd = "attach" /\ Readable(a)
      <4>1. Changed(cmd, a) = {[identities[a] EXCEPT !.policies = @ \cup {n}] :
                                 n \in AgentPolicies \ identities[a].policies}
        BY <3>4 DEF Changed
      <4>2. identities[a] \in Identity /\ intact[a] = identities[a]
        BY <3>1, <3>4 DEF Readable, Option
      <4> QED BY <1>5, <4>1, <4>2 DEF Identity, Derived
    <3>5. CASE ~(cmd = "create" /\ Creatable(a)) /\ ~(cmd \in {"enable", "disable"} /\ Readable(a))
               /\ ~(cmd = "attach" /\ Readable(a))
      BY <1>5, <3>5 DEF Changed
    <3> QED BY <3>2, <3>3, <3>4, <3>5
  <2>2. PICK r : r = [running[p] EXCEPT !.at = "save", !.copy = file, !.stale = FALSE]
    OBVIOUS
  <2>3. running' = [running EXCEPT ![p] = r]
    BY <1>5, <2>2 DEF AgentInv
  <2>4. RunOK(r, intact, granted)
    BY <1>1, <1>2, <1>3, <2>1, <2>2 DEF RunOK, Running, Option
  <2>5. running[p].session = None /\ r.session = None
    BY <1>1, <1>3, <2>2 DEF RunOK, Running
  <2>6. \A i \in 1..Len(granted) : running[p].session # i
    <3>1. Len(granted) \in Nat
      BY DEF AgentInv
    <3> QED BY <2>5, <3>1, MarksAreNoFiles
  <2> QED BY <1>1, <2>3, <2>4, <2>6, MoveKeeps
<1> QED BY <1>2, <1>4, <1>5

\* Truncating the identity file, the first half of a write, keeps the invariant.
LEMMA TruncateIdentityKeeps ==
  ASSUME AgentInv, NEW p \in Workers, TruncateIdentity(p)
  PROVE  AgentInv'
<1>1. /\ running[p] # None /\ running[p].at = "save" /\ UNCHANGED <<intact, granted>>
      /\ running' = [running EXCEPT ![p].at = "fill"]
      /\ identities' = [identities EXCEPT ![running[p].agent] = TornFile]
  BY DEF TruncateIdentity, Does, MovesTo
<1>2. RunOK(running[p], intact, granted)
  BY <1>1 DEF AgentInv
<1>3. PICK r : r = [running[p] EXCEPT !.at = "fill"]
  OBVIOUS
<1>4. RunOK(r, intact, granted) /\ r.session = running[p].session
  BY <1>1, <1>2, <1>3 DEF RunOK, Running
<1>5. /\ running' \in [Workers -> Option(Running)]
      /\ \A q \in Workers : running'[q] = IF q = p THEN r ELSE running[q]
  BY <1>1, <1>3, <1>4 DEF AgentInv, RunOK, Option
<1>6. \A q \in Workers : running'[q] # None => RunOK(running'[q], intact, granted)
  BY <1>4, <1>5 DEF AgentInv
<1>7. /\ identities' \in [AgentNames -> Option(Identity) \cup {TornFile}]
      /\ \A a \in AgentNames : identities'[a] # TornFile => identities'[a] = intact[a]
  BY <1>1 DEF AgentInv
<1>8. \A i \in 1..Len(granted) : Open(granted[i]) =>
        \E q \in Workers : running'[q] # None /\ running'[q].session = i
  <2>1. r # None
    BY <1>4, MarksAreNoFiles DEF RunOK
  <2> QED BY <1>4, <1>5, <2>1 DEF AgentInv
<1> QED BY <1>1, <1>5, <1>6, <1>7, <1>8 DEF AgentInv

\* Filling the identity file, the second half of a write, keeps the invariant.
LEMMA FillIdentityKeeps ==
  ASSUME AgentInv, NEW p \in Workers, FillIdentity(p)
  PROVE  AgentInv'
<1>1. PICK a, file : /\ a = running[p].agent /\ file = running[p].copy
                     /\ running[p] # None /\ running[p].at = "fill" /\ UNCHANGED granted
                     /\ identities' = [identities EXCEPT ![a] = file]
                     /\ intact' = [intact EXCEPT ![a] = file]
                     /\ running' = [q \in Workers |->
                          IF q = p \/ running[q] = None THEN None
                          ELSE [running[q] EXCEPT !.stale = @ \/ running[q].agent = a]]
  BY DEF FillIdentity, Does
<1>2. RunOK(running[p], intact, granted)
  BY <1>1 DEF AgentInv
<1>3. a \in AgentNames /\ file \in Identity /\ running[p].session = None
  BY <1>1, <1>2 DEF RunOK, Running
<1>4. /\ intact' \in [AgentNames -> Option(Identity)]
      /\ identities' \in [AgentNames -> Option(Identity) \cup {TornFile}]
      /\ \A b \in AgentNames : identities'[b] # TornFile => identities'[b] = intact'[b]
  BY <1>1, <1>3 DEF AgentInv, Option
<1>5. ASSUME NEW q \in Workers, q # p, running[q] # None
      PROVE  RunOK(running'[q], intact', granted) /\ running'[q].session = running[q].session
  <2>1. RunOK(running[q], intact, granted)
    BY <1>5 DEF AgentInv
  <2>2. running'[q] = [running[q] EXCEPT !.stale = @ \/ running[q].agent = a]
    BY <1>1, <1>5
  <2>3. running'[q] \in Running /\ running'[q].session = running[q].session
        /\ running'[q].at = running[q].at /\ running'[q].cmd = running[q].cmd
        /\ running'[q].agent = running[q].agent /\ running'[q].copy = running[q].copy
        /\ (~running'[q].stale => ~running[q].stale /\ running[q].agent # a)
    BY <2>1, <2>2 DEF RunOK, Running
  <2>4. running[q].agent # a => intact'[running[q].agent] = intact[running[q].agent]
    BY <1>1, <2>1 DEF AgentInv, RunOK, Running
  <2> QED BY <2>1, <2>3, <2>4 DEF RunOK
<1>6. \A q \in Workers : running'[q] # None => q # p /\ running[q] # None
  BY <1>1
<1>7. running' \in [Workers -> Option(Running)]
  <2>1. \A q \in Workers : running'[q] \in Option(Running)
    BY <1>5, <1>6 DEF RunOK, Option
  <2> QED BY <1>1, <2>1
<1>8. ASSUME NEW i \in 1..Len(granted), Open(granted[i])
      PROVE  \E q \in Workers : running'[q] # None /\ running'[q].session = i
  <2>1. PICK q \in Workers : running[q] # None /\ running[q].session = i
    BY <1>8 DEF AgentInv
  <2>2. Len(granted) \in Nat
    BY DEF AgentInv
  <2>3. q # p
    BY <1>3, <2>1, <2>2, MarksAreNoFiles
  <2>4. running'[q] # None /\ running'[q].session = i
    BY <1>5, <2>1, <2>3, MarksAreNoFiles DEF RunOK
  <2> QED BY <2>4
<1> QED BY <1>1, <1>4, <1>5, <1>6, <1>7, <1>8 DEF AgentInv

\* A session command that has not minted moves on.
LEMMA AdvanceKeeps ==
  ASSUME AgentInv, NEW p \in Workers, running[p] # None, running[p].at \in {"start", "inspect"},
         NEW r \in Running, r.at \in {"inspect", "mint"}, r.session = None,
         running' = [running EXCEPT ![p] = r], UNCHANGED <<identities, intact, granted>>
  PROVE  AgentInv'
<1>1. running[p].session = None
  BY DEF AgentInv, RunOK
<1>2. \A i \in 1..Len(granted) : running[p].session # i
  <2>1. Len(granted) \in Nat
    BY DEF AgentInv
  <2> QED BY <1>1, <2>1, MarksAreNoFiles
<1>3. RunOK(r, intact, granted)
  BY DEF RunOK
<1> QED BY <1>2, <1>3, MoveKeeps

\* The checks before a session is minted or shown keep the invariant.
LEMMA ScreeningKeeps ==
  ASSUME AgentInv, NEW p \in Workers, ensure_active_agent(p) \/ inspect(p)
  PROVE  AgentInv'
<1>1. /\ running[p] # None /\ running[p].at \in {"start", "inspect"} /\ UNCHANGED <<identities, intact, granted>>
      /\ \/ Ends(p)
         \/ \E stage \in {"inspect", "mint"} : running' = [running EXCEPT ![p].at = stage]
         \/ \E c \in Pinned : running' = [running EXCEPT ![p].at = "mint", ![p].commit = c]
  BY DEF ensure_active_agent, inspect, Does, MovesTo
<1>2. running[p] \in Running /\ running[p].session = None
  BY <1>1 DEF AgentInv, RunOK
<1>3. CASE Ends(p)
  BY <1>1, <1>3, EndsKeep
<1>4. ASSUME NEW stage \in {"inspect", "mint"}, running' = [running EXCEPT ![p].at = stage]
      PROVE  AgentInv'
  <2>1. PICK r : r = [running[p] EXCEPT !.at = stage]
    OBVIOUS
  <2>2. r \in Running /\ r.at = stage /\ r.session = None
    BY <1>2, <2>1 DEF Running
  <2>3. running' = [running EXCEPT ![p] = r]
    BY <1>4, <2>1 DEF AgentInv
  <2> QED BY <1>1, <2>2, <2>3, AdvanceKeeps
<1>5. ASSUME NEW c \in Pinned, running' = [running EXCEPT ![p].at = "mint", ![p].commit = c]
      PROVE  AgentInv'
  <2>1. PICK r : r = [running[p] EXCEPT !.at = "mint", !.commit = c]
    OBVIOUS
  <2>2. r \in Running /\ r.at = "mint" /\ r.session = None
    BY <1>2, <2>1 DEF Running, Option
  <2>3. running' = [running EXCEPT ![p] = r]
    BY <1>5, <2>1 DEF AgentInv
  <2> QED BY <1>1, <2>2, <2>3, AdvanceKeeps
<1> QED BY <1>1, <1>3, <1>4, <1>5

\* Minting a session keeps the invariant.
LEMMA MintKeeps ==
  ASSUME AgentInv, NEW p \in Workers, Mint(p)
  PROVE  AgentInv'
<1>1. /\ running[p] # None /\ running[p].at = "mint" /\ UNCHANGED <<identities, intact>>
      /\ running[p].cmd \in SessionCommands
  BY DEF Mint, Does
<1>2. RunOK(running[p], intact, granted) /\ running[p].session = None
  BY <1>1 DEF AgentInv, RunOK
<1>3. CASE Ends(p) /\ UNCHANGED granted
  BY <1>1, <1>3, EndsKeep
<1>4. CASE /\ granted' = Append(granted, [by |-> running[p].cmd, live |-> TRUE, lost |-> FALSE])
           /\ running' = [running EXCEPT ![p] =
                IF running[p].cmd = "session" THEN None
                ELSE [running[p] EXCEPT !.at = "work", !.session = Len(granted')]]
  <2>1. PICK s, n : s = [by |-> running[p].cmd, live |-> TRUE, lost |-> FALSE] /\ n = Len(granted) + 1
    OBVIOUS
  <2>2. s \in Session /\ s.by = running[p].cmd
    BY <1>1, <2>1 DEF Session
  <2>3. /\ granted' \in Seq(Session) /\ Len(granted') = n /\ granted'[n] = s /\ n \in Nat
        /\ \A i \in 1..Len(granted) : granted'[i] = granted[i]
    BY <1>4, <2>1, <2>2 DEF AgentInv
  <2>4. PICK r : r = IF running[p].cmd = "session" THEN None
                     ELSE [running[p] EXCEPT !.at = "work", !.session = n]
    OBVIOUS
  <2>5. running' = [running EXCEPT ![p] = r]
    BY <1>4, <2>3, <2>4
  <2>6. r # None => RunOK(r, intact, granted') /\ r.session = n
    <3>1. SUFFICES ASSUME r # None PROVE RunOK(r, intact, granted') /\ r.session = n
      OBVIOUS
    <3>2. r = [running[p] EXCEPT !.at = "work", !.session = n]
      BY <2>4, <3>1
    <3>3. r \in Running /\ r.at = "work" /\ r.session = n /\ r.cmd = running[p].cmd
      BY <1>2, <2>3, <3>2 DEF RunOK, Running, Option
    <3>4. n # None /\ n \in 1..Len(granted')
      BY <2>1, <2>3, MarksAreNoFiles DEF AgentInv
    <3> QED BY <2>2, <2>3, <3>3, <3>4 DEF RunOK
  <2>7. r \in Option(Running)
    BY <2>6 DEF RunOK, Option
  <2>8. /\ running' \in [Workers -> Option(Running)]
        /\ \A q \in Workers : running'[q] = IF q = p THEN r ELSE running[q]
    BY <2>5, <2>7 DEF AgentInv
  <2>9. \A q \in Workers : running'[q] # None => RunOK(running'[q], intact, granted')
    <3>1. SUFFICES ASSUME NEW q \in Workers, q # p, running[q] # None
                   PROVE  RunOK(running[q], intact, granted')
      BY <2>6, <2>8
    <3>2. RunOK(running[q], intact, granted)
      BY <3>1 DEF AgentInv
    <3>3. running[q].session # None => running[q].session \in 1..Len(granted) /\ Len(granted) \in Nat
      BY <3>2 DEF RunOK, AgentInv
    <3> QED BY <2>1, <2>3, <3>2, <3>3 DEF RunOK
  <2>10. ASSUME NEW i \in 1..Len(granted'), Open(granted'[i])
         PROVE  \E q \in Workers : running'[q] # None /\ running'[q].session = i
    <3>1. CASE i = n
      <4>1. running[p].cmd = "run"
        BY <2>2, <2>3, <2>10, <3>1 DEF Open
      <4>2. r = [running[p] EXCEPT !.at = "work", !.session = n]
        BY <2>4, <4>1
      <4>3. r \in Running
        BY <1>2, <2>3, <4>2 DEF RunOK, Running, Option
      <4>4. r # None
        BY <4>3, MarksAreNoFiles
      <4> QED BY <2>6, <2>8, <3>1, <4>4
    <3>2. CASE i # n
      <4>1. i \in 1..Len(granted) /\ granted'[i] = granted[i]
        BY <2>1, <2>3, <3>2 DEF AgentInv
      <4>2. PICK q \in Workers : running[q] # None /\ running[q].session = i
        BY <2>10, <4>1 DEF AgentInv
      <4>3. q # p
        BY <1>2, <4>1, <4>2, MarksAreNoFiles DEF AgentInv
      <4> QED BY <2>8, <4>2, <4>3
    <3> QED BY <3>1, <3>2
  <2> QED BY <1>1, <2>3, <2>8, <2>9, <2>10 DEF AgentInv
<1> QED BY <1>3, <1>4 DEF Mint

\* Sessions change in place: none is reopened, and those that stay open keep
\* the command that works for them.
LEMMA SessionsKeep ==
  ASSUME AgentInv, UNCHANGED <<identities, intact>>, granted' \in Seq(Session), Len(granted') = Len(granted),
         \A i \in 1..Len(granted) : granted'[i].by = granted[i].by /\ (Open(granted'[i]) => Open(granted[i])),
         running' \in [Workers -> Option(Running)],
         \A q \in Workers : running'[q] # None => running'[q] = running[q],
         \A q \in Workers : running'[q] = None /\ running[q] # None =>
           \A i \in 1..Len(granted) : running[q].session = i => ~Open(granted'[i])
  PROVE  AgentInv'
<1>1. \A q \in Workers : running'[q] # None => RunOK(running'[q], intact, granted')
  BY DEF AgentInv, RunOK
<1>2. ASSUME NEW i \in 1..Len(granted), Open(granted'[i])
      PROVE  \E q \in Workers : running'[q] # None /\ running'[q].session = i
  <2>1. PICK q \in Workers : running[q] # None /\ running[q].session = i
    BY <1>2 DEF AgentInv
  <2>2. running'[q] # None
    BY <1>2, <2>1
  <2> QED BY <2>1, <2>2
<1> QED BY <1>1, <1>2 DEF AgentInv

\* However a command ends, by itself or killed, the invariant is kept.
LEMMA EndingsKeep ==
  ASSUME AgentInv, NEW p \in Workers, RevokeMinted(p) \/ ServeEnds(p) \/ Killed(p)
  PROVE  AgentInv'
<1>1. running[p] # None /\ Ends(p) /\ UNCHANGED <<identities, intact>>
  BY DEF RevokeMinted, ServeEnds, Killed, Does
<1>2. /\ running' \in [Workers -> Option(Running)]
      /\ \A q \in Workers : running'[q] = IF q = p THEN None ELSE running[q]
  BY <1>1 DEF AgentInv, Ends, Option
<1>3. PICK n : n = running[p].session
  OBVIOUS
<1>4. (n # None => n \in 1..Len(granted) /\ granted[n].by = running[p].cmd) /\ Len(granted) \in Nat
  BY <1>1, <1>3 DEF AgentInv, RunOK
<1>5. /\ granted' \in Seq(Session) /\ Len(granted') = Len(granted)
      /\ \A i \in 1..Len(granted) :
           /\ granted'[i].by = granted[i].by /\ (Open(granted'[i]) => Open(granted[i]))
           /\ i = n => ~Open(granted'[i])
  <2>1. CASE RevokeMinted(p)
    <3>1. PICK ok \in BOOLEAN : granted' = [granted EXCEPT ![n].live = @ /\ ~ok, ![n].lost = ~ok]
      BY <1>3, <2>1 DEF RevokeMinted
    <3>2. n \in 1..Len(granted)
      BY <1>3, <1>4, <2>1 DEF RevokeMinted, Does, AgentInv, RunOK
    <3>3. PICK s : s = [granted[n] EXCEPT !.live = @ /\ ~ok, !.lost = ~ok]
      OBVIOUS
    <3>4. granted[n] \in Session
      BY <3>2 DEF AgentInv
    <3>5. s \in Session /\ s.by = granted[n].by /\ ~(s.live /\ ~s.lost)
      BY <3>3, <3>4 DEF Session
    <3>6. granted' = [granted EXCEPT ![n] = s]
      BY <3>1, <3>2, <3>3 DEF AgentInv
    <3>7. granted' \in Seq(Session) /\ Len(granted') = Len(granted)
          /\ \A i \in 1..Len(granted) : granted'[i] = IF i = n THEN s ELSE granted[i]
      BY <3>2, <3>5, <3>6 DEF AgentInv
    <3> QED BY <3>5, <3>7 DEF Open
  <2>2. CASE ServeEnds(p)
    <3>1. UNCHANGED granted /\ running[p].cmd = "serve"
      BY <2>2 DEF ServeEnds, Does
    <3>2. n \in 1..Len(granted) => granted[n].by = "serve"
      BY <1>4, <3>1, MarksAreNoFiles
    <3> QED BY <3>1, <3>2 DEF AgentInv, Open
  <2>3. CASE Killed(p)
    <3>1. CASE n = None
      <4>1. UNCHANGED granted /\ \A i \in 1..Len(granted) : i # n
        BY <1>3, <1>4, <2>3, <3>1, MarksAreNoFiles DEF Killed
      <4> QED BY <4>1 DEF AgentInv
    <3>2. CASE n # None
      <4>1. granted' = [granted EXCEPT ![n].lost = TRUE]
        BY <1>3, <2>3, <3>2 DEF Killed
      <4>2. PICK s : s = [granted[n] EXCEPT !.lost = TRUE]
        OBVIOUS
      <4>3. granted[n] \in Session
        BY <1>4, <3>2 DEF AgentInv
      <4>4. s \in Session /\ s.by = granted[n].by /\ s.lost
        BY <4>2, <4>3 DEF Session
      <4>5. granted' = [granted EXCEPT ![n] = s]
        BY <1>4, <3>2, <4>1, <4>2 DEF AgentInv
      <4>6. granted' \in Seq(Session) /\ Len(granted') = Len(granted)
            /\ \A i \in 1..Len(granted) : granted'[i] = IF i = n THEN s ELSE granted[i]
        BY <1>4, <3>2, <4>4, <4>5 DEF AgentInv
      <4> QED BY <4>4, <4>6 DEF Open
    <3> QED BY <3>1, <3>2
  <2> QED BY <2>1, <2>2, <2>3
<1> QED BY <1>1, <1>2, <1>3, <1>5, SessionsKeep

\* The end of the child keeps the invariant.
LEMMA ChildEndsKeeps ==
  ASSUME AgentInv, NEW p \in Workers, ChildEnds(p)
  PROVE  AgentInv'
<1>1. /\ running[p] # None /\ running[p].at = "work" /\ UNCHANGED <<identities, intact, granted>>
      /\ running' = [running EXCEPT ![p].at = "revoke"]
  BY DEF ChildEnds, Does, MovesTo
<1>2. RunOK(running[p], intact, granted)
  BY <1>1 DEF AgentInv
<1>3. PICK r : r = [running[p] EXCEPT !.at = "revoke"]
  OBVIOUS
<1>4. RunOK(r, intact, granted) /\ r.session = running[p].session /\ r \in Running
  BY <1>1, <1>2, <1>3 DEF RunOK, Running
<1>5. running' = [running EXCEPT ![p] = r]
  BY <1>1, <1>3 DEF AgentInv
<1>6. r # None
  BY <1>4, MarksAreNoFiles
<1> QED BY <1>1, <1>4, <1>5, <1>6, MoveKeeps

\* Revoking a session by hand keeps the invariant.
LEMMA cmd_agent_session_revokeKeeps ==
  ASSUME AgentInv, NEW n \in DOMAIN granted, cmd_agent_session_revoke(n)
  PROVE  AgentInv'
<1>1. n \in 1..Len(granted) /\ UNCHANGED <<identities, intact, running>>
  BY DEF AgentInv, cmd_agent_session_revoke
<1>2. PICK s : s = [granted[n] EXCEPT !.live = FALSE]
  OBVIOUS
<1>3. granted[n] \in Session
  BY <1>1 DEF AgentInv
<1>4. s \in Session /\ s.by = granted[n].by /\ ~s.live
  BY <1>2, <1>3 DEF Session
<1>5. granted' = [granted EXCEPT ![n] = s]
  BY <1>1, <1>2 DEF AgentInv, cmd_agent_session_revoke
<1>6. granted' \in Seq(Session) /\ Len(granted') = Len(granted)
      /\ \A i \in 1..Len(granted) : granted'[i] = IF i = n THEN s ELSE granted[i]
  BY <1>1, <1>4, <1>5 DEF AgentInv
<1>7. \A i \in 1..Len(granted) : granted'[i].by = granted[i].by /\ (Open(granted'[i]) => Open(granted[i]))
  BY <1>4, <1>6 DEF Open
<1>8. running' \in [Workers -> Option(Running)]
  BY <1>1 DEF AgentInv
<1> QED BY <1>1, <1>6, <1>7, <1>8, SessionsKeep

\* Every step keeps the invariant.
LEMMA AgentStep ==
  ASSUME AgentInv, [agentNext]_agentVars
  PROVE  AgentInv'
<1>1. CASE UNCHANGED agentVars
  BY <1>1 DEF agentVars, AgentInv
<1> QED BY <1>1, StartCommandKeeps, LoadIdentityKeeps, TruncateIdentityKeeps, FillIdentityKeeps, ScreeningKeeps,
           MintKeeps, ChildEndsKeeps, EndingsKeep, cmd_agent_session_revokeKeeps DEF agentNext

\* Identities change only as they were commanded to (agents.rs:31), and a run
\* leaks neither managed variables nor its session (cli.rs:2100-2112), however
\* many commands run and wherever they are killed.
THEOREM AgentsStayContained == AgentSpec => AgentsContained
<1>1. agentInit => AgentInv
  <2>1. ASSUME agentInit PROVE AgentInv
    <3>1. granted = << >> /\ Len(granted) = 0 /\ granted \in Seq(Session)
      BY <2>1 DEF agentInit
    <3> QED BY <2>1, <3>1 DEF agentInit, AgentInv, Option
  <2> QED BY <2>1
<1>2. AgentInv /\ [agentNext]_agentVars => AgentInv'
  BY AgentStep
<1>3. ASSUME AgentInv, NEW p \in Workers, FillIdentity(p), intact[running[p].agent] # None, ~running[p].stale
      PROVE  Derived(running[p].cmd, intact[running[p].agent], running[p].copy)
  BY <1>3 DEF AgentInv, RunOK, FillIdentity, Does
<1>4. AgentInv => \A p \in Workers : FillIdentity(p) =>
        LET was == intact[running[p].agent]
            is == running[p].copy
        IN was # None /\ ~running[p].stale =>
             /\ is.enabled # was.enabled => running[p].cmd \in {"enable", "disable"}
             /\ was.policies \subseteq is.policies
             /\ is.sequence = was.sequence
  BY <1>3 DEF Derived
<1>5. AgentSpec => []AgentInv
  BY <1>1, <1>2, PTL DEF AgentSpec
<1>6. AgentInv => RunsContained
  BY AgentInvSuffices
<1> QED BY <1>4, <1>5, <1>6, PTL DEF AgentsContained, IdentityKept

-------------------------------------------------------------------------------
(* What the broker decrypts.                                               *)

\* Creation times never repeat, those that are waiting to be used included.
Dated ==
  /\ \A i, j \in DOMAIN records : records[i].created = records[j].created => i = j
  /\ \A p \in Procs : at[p] = "publish" => \A i \in DOMAIN records : records[i].created # fresh[p]
  /\ \A p, q \in Procs : at[p] = "publish" /\ at[q] = "publish" /\ fresh[p] = fresh[q] => p = q

\* The latest of the first n records is i, a brokered one.
Best(rs, n, i) ==
  /\ i \in 1..n /\ rs[i].kind = "brokered"
  /\ \A j \in 1..n : rs[j].created <= rs[i].created

\* What a lookup found, and what was read since, of process p.
LookedAt(p) ==
  /\ at[p] = "idle" => looked[p] = None
  /\ at[p] \in {"idle", "list", "read"} => latest[p] = None
  /\ looked[p] # None => /\ job[p].op = "reveal" /\ looked[p] \in 0..Len(records)
                         /\ \E i : Best(records, looked[p], i)
  /\ looked[p] # None /\ at[p] = "read" => looked[p] <= listed[p]
  /\ looked[p] # None /\ latest[p] # None /\ latest[p].rec.kind # "brokered" => latest[p].id > looked[p]

LookInv == Dated /\ \A p \in Procs : LookedAt(p)

\* Records keep their kind and their creation time.
Lasting(rs, ss) ==
  /\ Len(rs) <= Len(ss)
  /\ \A i \in 1..Len(rs) : ss[i].kind = rs[i].kind /\ ss[i].created = rs[i].created

\* What a lookup found stays the best of what it listed.
LEMMA BestStays ==
  ASSUME NEW rs, NEW ss, Lasting(rs, ss), Len(rs) \in Nat, NEW n \in 0..Len(rs), NEW i, Best(rs, n, i)
  PROVE  Best(ss, n, i)
<1>1. \A j \in 1..n : j \in 1..Len(rs)
  OBVIOUS
<1>2. \A j \in 1..n : ss[j].kind = rs[j].kind /\ ss[j].created = rs[j].created
  BY <1>1 DEF Lasting
<1> QED BY <1>2 DEF Best

\* The step leaves process q alone, and no record is lost.
Leaves(q) ==
  /\ at'[q] = at[q] /\ job'[q] = job[q] /\ listed'[q] = listed[q]
  /\ looked'[q] = looked[q] /\ latest'[q] = latest[q]

\* What is known of a process that the step leaves alone.
LEMMA LeftAlone ==
  ASSUME TypeInv, TypeInv', Lasting(records, records'), NEW q \in Procs, Leaves(q), LookedAt(q)
  PROVE  LookedAt(q)'
<1>1. Len(records) \in Nat /\ Len(records') \in Nat /\ Len(records) <= Len(records')
  BY DEF TypeInv, VaultTypeOK, Lasting
<1>2. looked[q] # None => looked[q] \in 0..Len(records')
  BY <1>1 DEF LookedAt
<1>3. looked[q] # None => \E i : Best(records', looked[q], i)
  BY <1>1, BestStays DEF LookedAt
<1> QED BY <1>2, <1>3 DEF LookedAt, Leaves

\* So all that is left is the process that steps.
LEMMA OneLooks ==
  ASSUME TypeInv, TypeInv', LookInv, Lasting(records, records'), NEW p \in Procs,
         \A q \in Procs \ {p} : Leaves(q), LookedAt(p)', Dated'
  PROVE  LookInv'
<1>1. \A q \in Procs : LookedAt(q)'
  BY LeftAlone DEF LookInv
<1> QED BY <1>1 DEF LookInv

\* Records that are not written last.
LEMMA LastingItself ==
  ASSUME TypeInv, UNCHANGED records
  PROVE  Lasting(records, records')
BY DEF TypeInv, VaultTypeOK, Lasting

\* A step aside repeats no creation time.
LEMMA DatedAside ==
  ASSUME LookInv, NEW p \in Procs, Aside(p)
  PROVE  Dated'
BY DEF LookInv, Dated, Aside

\* A command that ends has looked nothing up.
LEMMA EndedLooks ==
  ASSUME TypeInv, TypeInv', LookInv, NEW p \in Procs, Ended(p), Lasting(records, records'), Dated'
  PROVE  LookInv'
<1>1. \A q \in Procs \ {p} : Leaves(q)
  BY DEF TypeInv, VaultTypeOK, Ended, Goto, Leaves
<1>2. LookedAt(p)'
  BY DEF TypeInv, VaultTypeOK, Ended, Goto, LookedAt
<1> QED BY <1>1, <1>2, OneLooks

\* A step past the reading keeps what was looked up.
LEMMA GoesOn ==
  ASSUME TypeInv, TypeInv', LookInv, NEW p \in Procs, Lasting(records, records'), Dated',
         NEW next, next \notin {"idle", "list", "read"}, Goto(p, next),
         UNCHANGED <<job, listed, looked, latest>>
  PROVE  LookInv'
<1>1. \A q \in Procs \ {p} : Leaves(q)
  BY DEF TypeInv, VaultTypeOK, Goto, Leaves
<1>2. Len(records) \in Nat /\ Len(records') \in Nat /\ Len(records) <= Len(records')
  BY DEF TypeInv, VaultTypeOK, Lasting
<1>3. looked[p] # None => looked[p] \in 0..Len(records') /\ \E i : Best(records', looked[p], i)
  BY <1>2, BestStays DEF LookInv, LookedAt
<1>4. at'[p] = next
  BY DEF TypeInv, VaultTypeOK, Goto
<1>5. LookedAt(p)'
  BY <1>3, <1>4 DEF LookInv, LookedAt
<1> QED BY <1>1, <1>5, OneLooks

\* So does making sure of the keys.
LEMMA WithKeysLooks ==
  ASSUME TypeInv, TypeInv', LookInv, NEW p \in Procs, NEW k, WithKeys(p, k), UNCHANGED <<records, staged, clock>>
  PROVE  LookInv'
<1>1. Dated'
  BY WithKeysAside, DatedAside
<1>2. AfterKeys(p) \notin {"idle", "list", "read"}
  BY DEF AfterKeys
<1> QED BY <1>1, <1>2, LastingItself, GoesOn DEF WithKeys

\* And reading the bundle.
LEMMA UnwrappedLooks ==
  ASSUME TypeInv, TypeInv', LookInv, NEW p \in Procs, Unwrapped(p, bundle), UNCHANGED <<records, staged, clock>>
  PROVE  LookInv'
<1>1. CASE bundle.root = held[p]
  BY <1>1, WithKeysLooks DEF Unwrapped
<1>2. CASE bundle.root # held[p]
  <2>1. Ended(p)
    BY <1>2 DEF Unwrapped
  <2>2. Dated'
    BY <2>1, EndedAside, DatedAside
  <2> QED BY <2>1, <2>2, LastingItself, EndedLooks
<1> QED BY <1>1, <1>2

\* Rewriting a record with a copy of it keeps its kind and creation time.
LEMMA RewrittenLasts ==
  ASSUME TypeInv, RecordInv, NEW p \in Procs, at[p] \in {"revoke", "shred"}, NEW r \in RevisionRecord,
         r.kind = latest[p].rec.kind, r.created = latest[p].rec.created,
         records' = [records EXCEPT ![latest[p].id] = r]
  PROVE  /\ Lasting(records, records') /\ DOMAIN records' = DOMAIN records
         /\ \A i \in DOMAIN records : records'[i].created = records[i].created
<1>1. latest[p] # None /\ latest[p].id \in DOMAIN records
  BY LatestTyped
<1>2. PICK k \in DOMAIN records : k = latest[p].id
  BY <1>1
<1>3. r.kind = records[k].kind /\ r.created = records[k].created
  BY <1>1, <1>2 DEF RecordInv, Copies
<1>4. records' = [records EXCEPT ![k] = r] /\ records \in Seq(RevisionRecord)
  BY <1>2 DEF TypeInv, VaultTypeOK
<1>5. DOMAIN records' = DOMAIN records /\ Len(records') = Len(records)
  BY <1>4, Rewritten
<1>6. \A i \in DOMAIN records : records'[i].created = records[i].created /\ records'[i].kind = records[i].kind
  BY <1>3, <1>4
<1>7. Len(records) \in Nat /\ DOMAIN records = 1..Len(records)
  BY <1>4
<1> QED BY <1>5, <1>6, <1>7 DEF Lasting

\* The lookups stay what they are whatever step is taken.
LEMMA LookStep ==
  ASSUME TypeInv, TypeInv', RecordInv, LookInv, [VaultNext]_vaultVars
  PROVE  LookInv'
<1>1. CASE UNCHANGED vaultVars
  BY <1>1 DEF vaultVars, vaultFiles, procs, LookInv, Dated, LookedAt
<1>2. ASSUME NEW p \in Procs, NEW j \in Jobs, Call(p, j) PROVE LookInv'
  <2>1. Aside(p) /\ \A q \in Procs \ {p} : Leaves(q)
    BY <1>2 DEF TypeInv, VaultTypeOK, Call, Goto, Aside, Leaves
  <2>2. looked'[p] = None /\ latest'[p] = None
    BY <1>2 DEF Call, LookInv, LookedAt
  <2>3. LookedAt(p)'
    BY <2>2 DEF LookedAt
  <2>4. Lasting(records, records')
    BY <1>2, LastingItself DEF Call
  <2> QED BY <2>1, <2>3, <2>4, DatedAside, OneLooks
<1>3. ASSUME NEW p \in Procs, Stop(p) PROVE LookInv'
  <2>1. Ended(p) /\ UNCHANGED <<records, staged, clock>>
    BY <1>3 DEF Stop, vaultFiles
  <2> QED BY <2>1, EndedAside, DatedAside, LastingItself, EndedLooks
<1>4. ASSUME NEW p \in Procs, ListRecords(p) PROVE LookInv'
  <2>1. Aside(p) /\ \A q \in Procs \ {p} : Leaves(q)
    BY <1>4 DEF TypeInv, VaultTypeOK, ListRecords, Goto, Aside, Leaves, vaultFiles
  <2>2. /\ at'[p] = "read" /\ looked'[p] = looked[p] /\ latest'[p] = latest[p] /\ job'[p] = job[p]
        /\ listed'[p] = Len(records) /\ records' = records /\ at[p] = "list"
    BY <1>4 DEF TypeInv, VaultTypeOK, ListRecords, Goto, vaultFiles
  <2>3. LookedAt(p)'
    BY <2>2 DEF LookInv, LookedAt, TypeInv, VaultTypeOK
  <2> QED BY <2>1, <2>2, <2>3, DatedAside, LastingItself, OneLooks
<1>5. ASSUME NEW p \in Procs, ReadRecords(p) PROVE LookInv'
  <2>1. UNCHANGED <<records, staged, clock>> /\ at[p] = "read" /\ latest[p] = None
    BY <1>5 DEF ReadRecords, vaultFiles, LookInv, LookedAt
  <2>2. Lasting(records, records')
    BY <2>1, LastingItself
  <2>3. PICK n \in 0..Len(records) : n = listed[p]
    BY <2>1 DEF TypeInv, Progress
  <2>4. records \in Seq(RevisionRecord) /\ Len(records) \in Nat
    BY DEF TypeInv, VaultTypeOK
  <2>5. \A i \in pick_latest(SubSeq(records, 1, n)) : i \in 1..n /\ \A j \in 1..n : records[j].created <= records[i].created
    <3>1. PICK front : front = SubSeq(records, 1, n)
      OBVIOUS
    <3>2. DOMAIN front = 1..n /\ \A j \in 1..n : front[j] = records[j]
      BY <2>4, <3>1
    <3> QED BY <3>1, <3>2 DEF pick_latest
  <2>6. CASE ReadForSet(p)
    <3>1. Dated'
      <4>1. Aside(p)
        BY <2>1, <2>6 DEF TypeInv, VaultTypeOK, ReadForSet, Goto, Aside
      <4> QED BY <4>1, DatedAside
    <3>2. \A q \in Procs \ {p} : Leaves(q)
      BY <2>6 DEF TypeInv, VaultTypeOK, ReadForSet, Goto, Leaves
    <3>3. looked'[p] = None /\ at'[p] = "keys"
      BY <2>6 DEF ReadForSet, LookInv, LookedAt, TypeInv, VaultTypeOK, Goto
    <3>4. LookedAt(p)'
      BY <3>3 DEF LookedAt
    <3> QED BY <2>2, <3>1, <3>2, <3>4, OneLooks
  <2>7. CASE /\ {i \in pick_latest(SubSeq(records, 1, listed[p])) : Accepts(job[p].op, records[i])} # {}
             /\ ReadForLookup(p)
    <3>1. Dated'
      <4>1. Aside(p)
        BY <2>1, <2>7 DEF TypeInv, VaultTypeOK, ReadForLookup, Goto, Aside
      <4> QED BY <4>1, DatedAside
    <3>2. \A q \in Procs \ {p} : Leaves(q)
      BY <2>7 DEF TypeInv, VaultTypeOK, ReadForLookup, Goto, Leaves
    <3>3. job[p] \in Jobs
      BY <2>1 DEF TypeInv, Progress
    <3>4. looked'[p] = n /\ at'[p] = "list" /\ latest'[p] = None /\ job'[p].op = "reveal"
      BY <2>1, <2>3, <2>7, <3>3 DEF ReadForLookup, TypeInv, VaultTypeOK, Goto, Jobs
    <3>5. PICK i \in pick_latest(SubSeq(records, 1, n)) : records[i].kind = "brokered"
      BY <2>3, <2>7 DEF ReadForLookup, Accepts
    <3>6. Best(records, n, i)
      BY <2>5, <3>5 DEF Best
    <3>7. LookedAt(p)'
      BY <2>1, <2>4, <3>4, <3>6 DEF LookedAt
    <3> QED BY <2>2, <3>1, <3>2, <3>7, OneLooks
  <2>8. ASSUME NEW i \in pick_latest(SubSeq(records, 1, listed[p])), ReadForUse(p, i) PROVE LookInv'
    <3>1. \A q \in Procs \ {p} : Leaves(q)
      BY <2>8 DEF TypeInv, VaultTypeOK, ReadForUse, Goto, Leaves
    <3>2. /\ at'[p] \in {"shred", "keys"} /\ looked'[p] = looked[p] /\ job'[p] = job[p]
          /\ latest'[p] = [id |-> i, rec |-> records[i]]
      BY <2>8 DEF TypeInv, VaultTypeOK, ReadForUse, Goto
    <3>3. Dated'
      <4>1. /\ \A q \in Procs \ {p} : at'[q] = at[q] /\ fresh'[q] = fresh[q]
            /\ at'[p] # "publish" /\ records' = records
        BY <2>1, <2>8, <3>1, <3>2 DEF Leaves, ReadForUse
      <4> QED BY <4>1 DEF LookInv, Dated
    <3>4. ASSUME looked[p] # None, records[i].kind # "brokered" PROVE i > looked[p]
      <4>1. PICK l \in 0..Len(records) : l = looked[p]
        BY <3>4 DEF LookInv, LookedAt
      <4>2. PICK b : Best(records, l, b)
        BY <3>4, <4>1 DEF LookInv, LookedAt
      <4>3. l <= n
        BY <2>1, <2>3, <3>4, <4>1 DEF LookInv, LookedAt
      <4>4. i \in 1..n /\ \A j \in 1..n : records[j].created <= records[i].created
        BY <2>3, <2>5, <2>8
      <4>5. SUFFICES ASSUME i <= l PROVE FALSE
        BY <4>1, <4>4
      <4>6. b \in 1..n /\ b \in DOMAIN records /\ i \in DOMAIN records /\ i \in 1..l
        BY <2>4, <4>2, <4>3, <4>4, <4>5 DEF Best
      <4>7. records[i].created <= records[b].created /\ records[b].created <= records[i].created
        BY <4>2, <4>4, <4>6 DEF Best
      <4>8. records[i].created \in Nat /\ records[b].created \in Nat
        BY <4>6, CreatedTyped
      <4>9. i = b
        BY <4>6, <4>7, <4>8 DEF LookInv, Dated
      <4> QED BY <3>4, <4>2, <4>9 DEF Best
    <3>5. LookedAt(p)'
      BY <2>1, <3>2, <3>4 DEF LookInv, LookedAt
    <3> QED BY <2>2, <3>1, <3>3, <3>5, OneLooks
  <2>9. CASE Ended(p)
    BY <2>1, <2>2, <2>9, EndedAside, DatedAside, EndedLooks
  <2> QED BY <1>5, <2>6, <2>7, <2>8, <2>9 DEF ReadRecords
<1>6. ASSUME NEW p \in Procs, UseCachedKeys(p) PROVE LookInv'
  BY <1>6, WithKeysLooks DEF UseCachedKeys, vaultFiles
<1>7. ASSUME NEW p \in Procs, ObtainRoot(p) PROVE LookInv'
  <2>1. UNCHANGED <<records, staged, clock>>
    BY <1>7 DEF ObtainRoot
  <2>2. CASE Ended(p)
    BY <2>1, <2>2, EndedAside, DatedAside, LastingItself, EndedLooks
  <2>3. ASSUME NEW next \in {"fill_root", "read_bundle"}, Goto(p, next), UNCHANGED <<job, listed, looked, latest, fresh>>
        PROVE  LookInv'
    <3>1. Aside(p)
      BY <2>1, <2>3 DEF TypeInv, VaultTypeOK, Goto, Aside
    <3> QED BY <2>1, <2>3, <3>1, DatedAside, LastingItself, GoesOn
  <2> QED BY <1>7, <2>2, <2>3 DEF ObtainRoot
<1>8. ASSUME NEW p \in Procs, FillRoot(p) PROVE LookInv'
  <2>1. Aside(p) /\ UNCHANGED records
    BY <1>8 DEF TypeInv, VaultTypeOK, FillRoot, Goto, Aside
  <2> QED BY <1>8, <2>1, DatedAside, LastingItself, GoesOn DEF FillRoot
<1>9. ASSUME NEW p \in Procs, ReadBundle(p) PROVE LookInv'
  <2>1. UNCHANGED <<records, staged, clock>>
    BY <1>9 DEF ReadBundle, vaultFiles
  <2>2. CASE bundle = None
    <3>1. Goto(p, "publish_bundle") /\ UNCHANGED <<job, listed, looked, latest, fresh>>
      BY <1>9, <2>2 DEF ReadBundle
    <3>2. Aside(p)
      BY <2>1, <3>1 DEF TypeInv, VaultTypeOK, Goto, Aside
    <3> QED BY <2>1, <3>1, <3>2, DatedAside, LastingItself, GoesOn
  <2>3. CASE bundle # None
    BY <1>9, <2>1, <2>3, UnwrappedLooks DEF ReadBundle
  <2> QED BY <2>2, <2>3
<1>10. ASSUME NEW p \in Procs, PublishBundle(p) PROVE LookInv'
  <2>1. CASE bundle = None
    BY <1>10, <2>1, WithKeysLooks DEF PublishBundle
  <2>2. CASE bundle # None
    BY <1>10, <2>2, UnwrappedLooks DEF PublishBundle
  <2> QED BY <2>1, <2>2
<1>11. ASSUME NEW p \in Procs, Stamp(p) PROVE LookInv'
  <2>1. clock \in Nat /\ UNCHANGED records /\ Goto(p, "publish") /\ UNCHANGED <<job, listed, looked, latest>>
    BY <1>11, VaultBounds DEF TypeInv, VaultTypeOK, Stamp
  <2>2. \A i \in DOMAIN records : records[i].created \in Nat /\ records[i].created <= clock
    BY CreatedTyped DEF RecordInv, Sane
  <2>3. \A q \in Procs : at[q] = "publish" => fresh[q] \in Nat /\ fresh[q] <= clock
    BY VaultBounds DEF RecordInv, Stamped, TypeInv, Progress
  <2>4. /\ fresh'[p] = clock + 1 /\ at'[p] = "publish" /\ records' = records
        /\ \A q \in Procs \ {p} : fresh'[q] = fresh[q] /\ at'[q] = at[q]
    BY <1>11 DEF TypeInv, VaultTypeOK, Stamp, Goto
  <2>5. \A i \in DOMAIN records : records[i].created # clock + 1
    BY <2>1, <2>2
  <2>6. \A q \in Procs : at[q] = "publish" => fresh[q] # clock + 1
    BY <2>1, <2>3
  <2>7. Dated'
    BY <2>4, <2>5, <2>6 DEF LookInv, Dated
  <2> QED BY <2>1, <2>7, LastingItself, GoesOn
<1>12. ASSUME NEW p \in Procs, Publish(p) PROVE LookInv'
  <2>1. Minted(p) \in RevisionRecord /\ Minted(p).created = fresh[p]
    BY <1>12, MintedTyped DEF Publish, Minted
  <2>2. PICK r \in RevisionRecord : r = Minted(p)
    BY <2>1
  <2>3. records' = Append(records, r) /\ records \in Seq(RevisionRecord) /\ Len(records) \in Nat
    BY <1>12, <2>2 DEF Publish, TypeInv, VaultTypeOK
  <2>4. /\ DOMAIN records' = DOMAIN records \cup {Len(records) + 1} /\ Len(records') = Len(records) + 1
        /\ records'[Len(records) + 1] = r /\ \A j \in DOMAIN records : records'[j] = records[j]
    BY <2>3, RecordAppended
  <2>5. Lasting(records, records') /\ DOMAIN records = 1..Len(records)
    BY <2>3, <2>4 DEF Lasting
  <2>6. PICK next \in {"revoke", "stage"} : Goto(p, next)
    BY <1>12 DEF Publish
  <2>7. /\ at'[p] # "publish" /\ at[p] = "publish"
        /\ \A q \in Procs \ {p} : fresh'[q] = fresh[q] /\ at'[q] = at[q]
    BY <1>12, <2>6 DEF TypeInv, VaultTypeOK, Publish, Goto
  <2>8. r.created = fresh[p] /\ Len(records) + 1 \notin DOMAIN records
    BY <2>1, <2>2, <2>3, <2>5
  <2>9. Dated'
    <3>1. \A i, j \in DOMAIN records' : records'[i].created = records'[j].created => i = j
      BY <2>4, <2>7, <2>8 DEF LookInv, Dated
    <3>2. \A q \in Procs : at'[q] = "publish" => \A i \in DOMAIN records' : records'[i].created # fresh'[q]
      BY <2>4, <2>7, <2>8 DEF LookInv, Dated
    <3>3. \A x, y \in Procs : at'[x] = "publish" /\ at'[y] = "publish" /\ fresh'[x] = fresh'[y] => x = y
      BY <2>7 DEF LookInv, Dated
    <3> QED BY <3>1, <3>2, <3>3 DEF Dated
  <2> QED BY <1>12, <2>5, <2>6, <2>9, GoesOn DEF Publish
<1>13. ASSUME NEW p \in Procs, RevokeOld(p) PROVE LookInv'
  <2>1. PICK r : r = [latest[p].rec EXCEPT !.state = "revoked"]
    OBVIOUS
  <2>2. r \in RevisionRecord /\ r.kind = latest[p].rec.kind /\ r.created = latest[p].rec.created
    BY <1>13, <2>1, LatestTyped DEF RevokeOld, RevisionRecord
  <2>3. /\ Lasting(records, records') /\ DOMAIN records' = DOMAIN records
        /\ \A i \in DOMAIN records : records'[i].created = records[i].created
    BY <1>13, <2>1, <2>2, RewrittenLasts DEF RevokeOld
  <2>4. /\ at'[p] = "stage" /\ fresh' = fresh /\ \A q \in Procs \ {p} : at'[q] = at[q]
    BY <1>13 DEF TypeInv, VaultTypeOK, RevokeOld, Goto
  <2>5. Dated'
    BY <2>3, <2>4 DEF LookInv, Dated
  <2> QED BY <1>13, <2>3, <2>5, GoesOn DEF RevokeOld
<1>14. ASSUME NEW p \in Procs, StageBinding(p) PROVE LookInv'
  <2>1. Dated'
    <3>1. /\ at'[p] = "idle" /\ records' = records /\ \A q \in Procs \ {p} : at'[q] = at[q] /\ fresh'[q] = fresh[q]
      BY <1>14 DEF TypeInv, VaultTypeOK, StageBinding, Ended, Goto
    <3> QED BY <3>1 DEF LookInv, Dated
  <2> QED BY <1>14, <2>1, LastingItself, EndedLooks DEF StageBinding
<1>15. ASSUME NEW p \in Procs, Shred(p) PROVE LookInv'
  <2>1. PICK r \in RevisionRecord : r = Shredded(p) /\ r.kind = latest[p].rec.kind /\ r.created = latest[p].rec.created
    BY <1>15, ShreddedIs DEF Shred
  <2>2. /\ Lasting(records, records') /\ DOMAIN records' = DOMAIN records
        /\ \A i \in DOMAIN records : records'[i].created = records[i].created
    BY <1>15, <2>1, RewrittenLasts DEF Shred
  <2>3. /\ at'[p] = "idle" /\ \A q \in Procs \ {p} : at'[q] = at[q] /\ fresh'[q] = fresh[q]
    BY <1>15 DEF TypeInv, VaultTypeOK, Shred, Ended, Goto
  <2>4. Dated'
    BY <2>2, <2>3 DEF LookInv, Dated
  <2> QED BY <1>15, <2>2, <2>4, EndedLooks DEF Shred
<1>16. ASSUME NEW p \in Procs, Decrypt(p) PROVE LookInv'
  BY <1>16, EndedAside, DatedAside, LastingItself, EndedLooks DEF Decrypt, vaultFiles
<1> QED
  BY StepCases, <1>1, <1>2, <1>3, <1>4, <1>5, <1>6, <1>7, <1>8, <1>9, <1>10, <1>11, <1>12, <1>13,
     <1>14, <1>15, <1>16

\* The broker decrypts a revision that is not brokered only if its record
\* appeared after the lookup had listed the records (resolve, lookup).
THEOREM PlainStaysUnseen == VaultSpec => []PlainOnlyAfterLookup
<1>1. VaultInit => LookInv
  BY DEF VaultInit, LookInv, Dated, LookedAt
<1>2. TypeInv /\ TypeInv' /\ RecordInv /\ LookInv /\ [VaultNext]_vaultVars => LookInv'
  BY LookStep
<1>3. TypeInv /\ LookInv => PlainOnlyAfterLookup
  <2> SUFFICES ASSUME TypeInv, LookInv, NEW p \in Procs, at[p] = "decrypt", looked[p] # None,
                      latest[p].rec.kind # "brokered"
               PROVE  latest[p].id > looked[p]
    BY DEF PlainOnlyAfterLookup
  <2> QED BY LatestTyped DEF LookInv, LookedAt
<1> QED BY VaultInvariant, <1>1, <1>2, <1>3, PTL DEF VaultSpec

-------------------------------------------------------------------------------
\* A set of numbers that is not empty has a least member.
LEMMA LeastNumber ==
  ASSUME NEW T \in SUBSET Nat, T # {}
  PROVE  \E n \in T : \A m \in T : n <= m
<1>1. PICK n \in T : \A m \in T : <<m, n>> \notin OpToRel(<, Nat)
  BY NatLessThanWellFounded, WFMin
<1>2. \A m \in T : ~(m < n)
  BY <1>1 DEF OpToRel
<1> QED BY <1>2

-------------------------------------------------------------------------------
(* The lines of a file.                                                    *)

\* The pairs are what the first k lines say: names are distinct, each has the
\* value of its last line, and every line with a name counts.
Collapsed(pairs, lines, k) ==
  /\ \A p, q \in 1..Len(pairs) : pairs[p][1] = pairs[q][1] => p = q
  /\ \A q \in 1..Len(pairs) : pairs[q][1] # "" /\ \E m \in 1..k :
       pairs[q] = lines[m] /\ \A j \in 1..k : lines[j][1] = pairs[q][1] => j <= m
  /\ \A m \in 1..k : lines[m][1] # "" => \E q \in 1..Len(pairs) : pairs[q][1] = lines[m][1]

\* One more line.
LEMMA LineCollapses ==
  ASSUME NEW T, NEW lines \in Seq(T), NEW pairs \in Seq(T), NEW k \in 1..Len(lines),
         Collapsed(pairs, lines, k - 1)
  PROVE  WithPair(pairs, lines[k]) \in Seq(T) /\ Collapsed(WithPair(pairs, lines[k]), lines, k)
<1>1. PICK line \in T : line = lines[k]
  OBVIOUS
<1>2. PICK n \in Nat : n = Len(pairs) /\ DOMAIN pairs = 1..n
  OBVIOUS
<1>3. k \in Nat /\ k - 1 \in Nat /\ 1..k = (1..(k - 1)) \cup {k} /\ k \notin 1..(k - 1) /\ \A j \in 1..(k - 1) : j <= k
  OBVIOUS
<1>4. /\ \A p, q \in 1..n : pairs[p][1] = pairs[q][1] => p = q
      /\ \A q \in 1..n : pairs[q][1] # "" /\ \E m \in 1..(k - 1) :
           pairs[q] = lines[m] /\ \A j \in 1..(k - 1) : lines[j][1] = pairs[q][1] => j <= m
      /\ \A m \in 1..(k - 1) : lines[m][1] # "" => \E q \in 1..n : pairs[q][1] = lines[m][1]
  BY <1>2 DEF Collapsed
<1>5. CASE line[1] = ""
  <2>1. WithPair(pairs, line) = pairs
    BY <1>5 DEF WithPair
  <2>2. \A q \in 1..n : pairs[q][1] # "" /\ \E m \in 1..k :
           pairs[q] = lines[m] /\ \A j \in 1..k : lines[j][1] = pairs[q][1] => j <= m
    <3> SUFFICES ASSUME NEW q \in 1..n
                 PROVE  pairs[q][1] # "" /\ \E m \in 1..k :
                          pairs[q] = lines[m] /\ \A j \in 1..k : lines[j][1] = pairs[q][1] => j <= m
      OBVIOUS
    <3>1. pairs[q][1] # ""
      BY <1>4
    <3>2. PICK m \in 1..(k - 1) : pairs[q] = lines[m] /\ \A j \in 1..(k - 1) : lines[j][1] = pairs[q][1] => j <= m
      BY <1>4
    <3>3. \A j \in 1..k : lines[j][1] = pairs[q][1] => j <= m
      BY <1>1, <1>3, <1>5, <3>1, <3>2, Zenon
    <3> QED BY <1>3, <3>1, <3>2, <3>3, Zenon
  <2>3. \A m \in 1..k : lines[m][1] # "" => \E q \in 1..n : pairs[q][1] = lines[m][1]
    BY <1>1, <1>3, <1>4, <1>5, Zenon
  <2>4. Collapsed(pairs, lines, k)
    BY <1>2, <1>4, <2>2, <2>3, Zenon DEF Collapsed
  <2> QED BY <1>1, <2>1, <2>4
<1>6. CASE line[1] # "" /\ \A i \in DOMAIN pairs : pairs[i][1] # line[1]
  <2>1. WithPair(pairs, line) = Append(pairs, line)
    BY <1>6 DEF WithPair
  <2>2. PICK more : more = Append(pairs, line)
    OBVIOUS
  <2>3. /\ more \in Seq(T) /\ Len(more) = n + 1 /\ more[n + 1] = line
        /\ \A i \in 1..n : more[i] = pairs[i]
    BY <1>2, <2>2
  <2>4. 1..(n + 1) = (1..n) \cup {n + 1} /\ n + 1 \notin 1..n /\ n + 1 \in 1..(n + 1)
    BY <1>2
  <2>5. \A p, q \in 1..(n + 1) : more[p][1] = more[q][1] => p = q
    <3>1. \A i \in 1..n : more[i][1] # more[n + 1][1]
      BY <1>2, <1>6, <2>3, Zenon
    <3>2. \A p, q \in 1..n : more[p][1] = more[q][1] => p = q
      <4> SUFFICES ASSUME NEW p \in 1..n, NEW q \in 1..n, more[p][1] = more[q][1] PROVE p = q
        OBVIOUS
      <4>1. more[p] = pairs[p] /\ more[q] = pairs[q]
        BY <2>3, Zenon
      <4>2. pairs[p][1] = pairs[q][1]
        BY <4>1, Zenon
      <4> QED BY <1>4, <4>2, Zenon
    <3> SUFFICES ASSUME NEW p \in 1..(n + 1), NEW q \in 1..(n + 1), more[p][1] = more[q][1] PROVE p = q
      OBVIOUS
    <3>3. p \in 1..n \/ p = n + 1
      BY <2>4, Zenon
    <3>4. q \in 1..n \/ q = n + 1
      BY <2>4, Zenon
    <3> QED BY <3>1, <3>2, <3>3, <3>4, Zenon
  <2>6. \A q \in 1..(n + 1) : more[q][1] # "" /\ \E m \in 1..k :
           more[q] = lines[m] /\ \A j \in 1..k : lines[j][1] = more[q][1] => j <= m
    <3> SUFFICES ASSUME NEW q \in 1..(n + 1)
                 PROVE  more[q][1] # "" /\ \E m \in 1..k :
                          more[q] = lines[m] /\ \A j \in 1..k : lines[j][1] = more[q][1] => j <= m
      OBVIOUS
    <3>1. CASE q = n + 1
      <4>1. more[q] = lines[k] /\ k \in 1..k /\ \A j \in 1..k : j <= k
        BY <1>1, <1>3, <2>3, <3>1
      <4> QED BY <1>1, <1>6, <4>1, Zenon
    <3>2. CASE q \in 1..n
      <4>1. more[q] = pairs[q] /\ pairs[q][1] # "" /\ pairs[q][1] # lines[k][1]
        BY <1>1, <1>2, <1>4, <1>6, <2>3, <3>2
      <4>2. PICK m \in 1..(k - 1) : pairs[q] = lines[m] /\ \A j \in 1..(k - 1) : lines[j][1] = pairs[q][1] => j <= m
        BY <1>4, <3>2
      <4>3. \A j \in 1..k : lines[j][1] = pairs[q][1] => j <= m
        BY <1>3, <4>1, <4>2, Zenon
      <4> QED BY <1>3, <4>1, <4>2, <4>3, Zenon
    <3> QED BY <2>4, <3>1, <3>2
  <2>7. \A m \in 1..k : lines[m][1] # "" => \E q \in 1..(n + 1) : more[q][1] = lines[m][1]
    <3> SUFFICES ASSUME NEW m \in 1..k, lines[m][1] # "" PROVE \E q \in 1..(n + 1) : more[q][1] = lines[m][1]
      OBVIOUS
    <3>1. CASE m = k
      <4>2. more[n + 1][1] = lines[m][1]
        BY <1>1, <2>3, <3>1, Zenon
      <4> QED BY <2>4, <4>2, Zenon
    <3>2. CASE m \in 1..(k - 1)
      <4>1. PICK q \in 1..n : pairs[q][1] = lines[m][1]
        BY <1>4, <3>2
      <4> QED BY <2>3, <2>4, <4>1, Zenon
    <3> QED BY <1>3, <3>1, <3>2
  <2>8. Collapsed(more, lines, k)
    BY <2>3, <2>5, <2>6, <2>7, Zenon DEF Collapsed
  <2> QED BY <1>1, <2>1, <2>2, <2>3, <2>8
<1>7. CASE line[1] # "" /\ \E i \in DOMAIN pairs : pairs[i][1] = line[1]
  <2>1. PICK a \in 1..n : pairs[a][1] = line[1]
    BY <1>2, <1>7
  <2>2. PICK more : more = [i \in DOMAIN pairs |-> IF pairs[i][1] = line[1] THEN line ELSE pairs[i]]
    OBVIOUS
  <2>3. WithPair(pairs, line) = more
    BY <1>7, <2>2 DEF WithPair
  <2>4. more \in Seq(T) /\ Len(more) = n /\ more[a] = line /\ \A i \in 1..n : i # a => more[i] = pairs[i]
    <3>1. more \in [1..n -> T]
      BY <1>2, <2>2
    <3>2. \A i \in 1..n : i # a => more[i] = pairs[i]
      <4> SUFFICES ASSUME NEW i \in 1..n, i # a PROVE more[i] = pairs[i]
        OBVIOUS
      <4>1. pairs[i][1] # line[1]
        BY <1>4, <2>1, Zenon
      <4> QED BY <1>2, <2>2, <4>1
    <3>3. more[a] = line
      BY <1>2, <2>1, <2>2
    <3>4. more \in Seq(T) /\ Len(more) = n
      BY <3>1, <1>2
    <3> QED BY <3>2, <3>3, <3>4
  <2>5. \A q \in 1..n : more[q][1] = pairs[q][1]
    BY <2>1, <2>4, Zenon
  <2>6. \A p, q \in 1..n : more[p][1] = more[q][1] => p = q
    BY <1>4, <2>5, Zenon
  <2>7. \A q \in 1..n : more[q][1] # "" /\ \E m \in 1..k :
           more[q] = lines[m] /\ \A j \in 1..k : lines[j][1] = more[q][1] => j <= m
    <3> SUFFICES ASSUME NEW q \in 1..n
                 PROVE  more[q][1] # "" /\ \E m \in 1..k :
                          more[q] = lines[m] /\ \A j \in 1..k : lines[j][1] = more[q][1] => j <= m
      OBVIOUS
    <3>1. CASE q = a
      <4>1. more[q] = lines[k] /\ k \in 1..k /\ \A j \in 1..k : j <= k
        BY <1>1, <1>3, <2>4, <3>1
      <4> QED BY <1>1, <1>7, <4>1, Zenon
    <3>2. CASE q # a
      <4>0. pairs[q][1] # pairs[a][1]
        BY <1>4, <2>1, <3>2, Zenon
      <4>1. more[q] = pairs[q] /\ pairs[q][1] # "" /\ pairs[q][1] # lines[k][1]
        <5>1. more[q] = pairs[q]
          BY <2>4, <3>2, Zenon
        <5>2. pairs[q][1] # ""
          BY <1>4, Zenon
        <5>3. pairs[q][1] # lines[k][1]
          BY <1>1, <2>1, <4>0, Zenon
        <5> QED BY <5>1, <5>2, <5>3
      <4>2. PICK m \in 1..(k - 1) : pairs[q] = lines[m] /\ \A j \in 1..(k - 1) : lines[j][1] = pairs[q][1] => j <= m
        BY <1>4
      <4>3. \A j \in 1..k : lines[j][1] = pairs[q][1] => j <= m
        BY <1>3, <4>1, <4>2, Zenon
      <4> QED BY <1>3, <4>1, <4>2, <4>3, Zenon
    <3> QED BY <3>1, <3>2
  <2>8. \A m \in 1..k : lines[m][1] # "" => \E q \in 1..n : more[q][1] = lines[m][1]
    <3> SUFFICES ASSUME NEW m \in 1..k, lines[m][1] # "" PROVE \E q \in 1..n : more[q][1] = lines[m][1]
      OBVIOUS
    <3>1. CASE m = k
      BY <1>1, <2>1, <2>4, <3>1, Zenon
    <3>2. CASE m \in 1..(k - 1)
      <4>1. PICK q \in 1..n : pairs[q][1] = lines[m][1]
        BY <1>4, <3>2
      <4> QED BY <2>5, <4>1, Zenon
    <3> QED BY <1>3, <3>1, <3>2
  <2>9. Collapsed(more, lines, k)
    BY <2>4, <2>6, <2>7, <2>8, Zenon DEF Collapsed
  <2> QED BY <1>1, <2>3, <2>4, <2>9
<1> QED BY <1>5, <1>6, <1>7

\* The pairs of the first k lines, for each k up to n.
Parsing(f, n, lines) == f = [k \in 0..n |-> IF k = 0 THEN << >> ELSE WithPair(f[k - 1], lines[k])]

\* What the equation says step by step.
LEMMA ParsingSteps ==
  ASSUME NEW f, NEW n \in Nat, NEW lines, Parsing(f, n, lines)
  PROVE  f[0] = << >> /\ \A k \in 1..n : f[k] = WithPair(f[k - 1], lines[k])
<1>1. \A k \in 0..n : f[k] = IF k = 0 THEN << >> ELSE WithPair(f[k - 1], lines[k])
  BY Zenon DEF Parsing
<1> QED BY <1>1

\* The equation has a solution for every n.
LEMMA ParsingExists ==
  ASSUME NEW n \in Nat, NEW lines
  PROVE  \E f : Parsing(f, n, lines)
<1> DEFINE Bad == {m \in Nat : ~ \E f : Parsing(f, m, lines)}
<1>1. SUFFICES ASSUME Bad # {} PROVE FALSE
  OBVIOUS
<1>2. PICK m \in Bad : \A k \in Bad : m <= k
  <2>1. Bad \in SUBSET Nat
    OBVIOUS
  <2> HIDE DEF Bad
  <2> QED BY <1>1, <2>1, LeastNumber
<1>3. m # 0
  <2>1. SUFFICES ASSUME m = 0 PROVE FALSE
    OBVIOUS
  <2>2. PICK f : f = [k \in 0..0 |-> << >>]
    OBVIOUS
  <2>3. Parsing(f, 0, lines)
    BY <2>2 DEF Parsing
  <2> QED BY <1>2, <2>1, <2>3
<1>4. m \in Nat /\ m - 1 \in Nat /\ 0 \in 0..(m - 1) /\ m - 1 \in 0..(m - 1)
  BY <1>2, <1>3
<1>5. PICK f : Parsing(f, m - 1, lines)
  BY <1>2, <1>4
<1>6. PICK g : g = [k \in 0..m |-> IF k = m THEN WithPair(f[m - 1], lines[m]) ELSE f[k]]
  OBVIOUS
<1>7. f[0] = << >> /\ \A k \in 1..(m - 1) : f[k] = WithPair(f[k - 1], lines[k])
  BY <1>4, <1>5, ParsingSteps
<1>8. /\ \A k \in 0..(m - 1) : g[k] = f[k]
      /\ g[m] = WithPair(f[m - 1], lines[m]) /\ g = [k \in 0..m |-> g[k]]
  BY <1>4, <1>6
<1>9. \A k \in 0..m : g[k] = IF k = 0 THEN << >> ELSE WithPair(g[k - 1], lines[k])
  <2> SUFFICES ASSUME NEW k \in 0..m PROVE g[k] = IF k = 0 THEN << >> ELSE WithPair(g[k - 1], lines[k])
    OBVIOUS
  <2>1. CASE k = 0
    <3>1. g[0] = << >>
      BY <1>4, <1>7, <1>8, Zenon
    <3> QED BY <2>1, <3>1
  <2>2. CASE k = m
    <3>1. g[m - 1] = f[m - 1]
      BY <1>4, <1>8, Zenon
    <3> QED BY <1>3, <1>8, <2>2, <3>1
  <2>3. CASE k # 0 /\ k # m
    <3>1. k \in 1..(m - 1) /\ k - 1 \in 0..(m - 1) /\ k \in 0..(m - 1)
      BY <1>4, <2>3
    <3>2. g[k] = f[k] /\ g[k - 1] = f[k - 1]
      BY <1>8, <3>1
    <3> QED BY <1>7, <2>3, <3>1, <3>2
  <2> QED BY <2>1, <2>2, <2>3
<1>10. Parsing(g, m, lines)
  BY <1>8, <1>9, Zenon DEF Parsing
<1> QED BY <1>2, <1>10

\* What parse_env_file makes of a file.
LEMMA ParseIs ==
  ASSUME NEW T, NEW lines \in Seq(T)
  PROVE  parse_env_file(lines) \in Seq(T) /\ Collapsed(parse_env_file(lines), lines, Len(lines))
<1>1. PICK n \in Nat : n = Len(lines)
  OBVIOUS
<1>2. \E f : Parsing(f, n, lines)
  BY ParsingExists
<1>3. PICK f : f = CHOOSE g : Parsing(g, n, lines)
  OBVIOUS
<1>4. Parsing(f, n, lines)
  BY <1>2, <1>3, Zenon
<1>5. parse_env_file(lines) = f[n]
  BY <1>1, <1>3, Zenon DEF parse_env_file, Parsing
<1>6. f[0] = << >> /\ \A k \in 1..n : f[k] = WithPair(f[k - 1], lines[k])
  BY <1>4, ParsingSteps
<1> DEFINE Bad == {k \in 0..n : ~(f[k] \in Seq(T) /\ Collapsed(f[k], lines, k))}
<1>7. CASE Bad # {}
  <2>1. PICK k \in Bad : \A l \in Bad : k <= l
    <3>1. Bad \in SUBSET Nat
      OBVIOUS
    <3> HIDE DEF Bad
    <3> QED BY <1>7, <3>1, LeastNumber
  <2>2. k \in 0..n /\ ~(f[k] \in Seq(T) /\ Collapsed(f[k], lines, k))
    BY <2>1
  <2>3. k # 0
    <3>1. << >> \in Seq(T) /\ Collapsed(<< >>, lines, 0)
      <4>1. << >> \in Seq(T) /\ Len(<< >>) = 0 /\ 1..0 = {}
        OBVIOUS
      <4>2. \A i : i \notin 1..0
        BY <4>1, Zenon
      <4> QED BY <4>1, <4>2, Zenon DEF Collapsed
    <3> QED BY <1>6, <2>2, <3>1, Zenon
  <2>4. k - 1 \in 0..n /\ k \in 1..n /\ k - 1 < k /\ k \in Nat
    BY <2>2, <2>3
  <2>5. k - 1 \notin Bad
    <3> HIDE DEF Bad
    <3> QED BY <2>1, <2>4
  <2>6. PICK pairs \in Seq(T) : pairs = f[k - 1] /\ Collapsed(pairs, lines, k - 1)
    BY <2>4, <2>5
  <2>7. k \in 1..Len(lines) /\ f[k] = WithPair(pairs, lines[k])
    BY <1>1, <1>6, <2>4, <2>6
  <2> QED BY <2>2, <2>6, <2>7, LineCollapses
<1>8. CASE Bad = {}
  <2>1. n \in 0..n
    OBVIOUS
  <2>2. f[n] \in Seq(T) /\ Collapsed(f[n], lines, n)
    BY <1>8, <2>1
  <2> QED BY <1>1, <1>5, <2>2
<1> QED BY <1>7, <1>8

-------------------------------------------------------------------------------
(* The variables of a project.                                             *)

Entry == {Unbound} \cup {Config(v) : v \in PlainValues}
           \cup [kind : {"secret", "brokered"}, of : SecretRevisions \cup {"foreign"}]
Change == Entry \cup {Removal}
Names == VariableNames \cup InvalidNames \cup {""}
Exported == PlainValues \cup SecretRevisions \cup Placeholder

Import ==
  [at : {"idle", "pairs", "done"}, file : EnvFiles \cup {<< >>}, todo : Seq(Names \X PlainValues),
   head : SUBSET VariableNames, staged : SUBSET VariableNames, before : [VariableNames -> Change],
   added : SUBSET Names, needs_secret : SUBSET Names, existing : SUBSET Names, invalid : SUBSET Names,
   touched : SUBSET VariableNames]
Export ==
  [at : {"idle", "entries", "done", "failed"}, reveal : BOOLEAN, manifest : [VariableNames -> Entry],
   next : Nat \ {0}, values : [VariableNames -> Exported], destroyed : SUBSET SecretRevisions]
Revision == [name : VariableNames \cup {""}, kind : {"", "secret", "brokered"},
             state : {"none", "active", "destroyed"}]

\* A revision that has a name has a kind and is stored.
Stored(rev) == rev.name # "" => rev.kind # "" /\ rev.state # "none"

StoresOK ==
  /\ index \in [VariableNames -> Change]
  /\ committed \in [VariableNames -> Entry] /\ pinned \in [VariableNames -> Entry]
  /\ revisions \in [SecretRevisions -> Revision]
  /\ \A r \in SecretRevisions : Stored(revisions[r])
  /\ childEnv \in [VariableNames -> PlainValues \cup {"none"}]

\* An import may take this name.
Usable(imp, n) == n \notin LikelySecretNames \cup imp.head \cup imp.staged

\* The first k pairs have been dealt with, the others are still to come; and a
\* variable nobody else touched has what they say.
Given(pairs, k, n) == \E q \in 1..k : pairs[q][1] = n
ToCome(todo, pairs, k) == Len(todo) = Len(pairs) - k /\ \A i \in 1..Len(todo) : todo[i] = pairs[k + i]
Taken(imp, idx, pairs, k, n) ==
  IF Usable(imp, n) /\ Given(pairs, k, n)
  THEN n \in imp.added /\ \E q \in 1..k : pairs[q][1] = n /\ idx[n] = Config(pairs[q][2])
  ELSE n \notin imp.added /\ idx[n] = imp.before[n]

Pairs(imp) == parse_env_file(imp.file)
Reached(imp, idx, k) ==
  /\ k \in 0..Len(Pairs(imp))
  /\ ToCome(imp.todo, Pairs(imp), k)
  /\ \A n \in VariableNames \ imp.touched : Taken(imp, idx, Pairs(imp), k, n)

ImportOK(imp, idx) ==
  /\ imp \in Import
  /\ imp.at # "idle" => imp.file \in EnvFiles /\ \E k : Reached(imp, idx, k)
  /\ imp.at = "done" => imp.todo = << >>

\* What was revealed may be: it is a plain secret of that name, which was there.
Revealed(x, revs, n) ==
  x.values[n] \in SecretRevisions =>
    /\ x.reveal
    /\ x.manifest[n] = [kind |-> "secret", of |-> x.values[n]]
    /\ revs[x.values[n]].kind = "secret" /\ revs[x.values[n]].state # "none"
    /\ x.values[n] \notin x.destroyed

ExportOK(x, revs) ==
  /\ x \in Export
  /\ \A r \in x.destroyed : revs[r].state = "destroyed"
  /\ \A n \in VariableNames : Revealed(x, revs, n)

VarInv == StoresOK /\ ImportOK(importing, index) /\ ExportOK(exporting, revisions)

\* The pairs of a file that is imported.
LEMMA FilePairs ==
  ASSUME NEW f \in EnvFiles
  PROVE  /\ f \in Seq(Names \X PlainValues) /\ parse_env_file(f) \in Seq(Names \X PlainValues)
         /\ Collapsed(parse_env_file(f), f, Len(f))
<1>1. f \in Seq(Names \X PlainValues)
  BY VariablesAreTyped DEF Names, VariableNames
<1> QED BY <1>1, ParseIs

\* What is not a secret is none of the revisions.
LEMMA PlainIsNoSecret ==
  /\ \A v \in PlainValues \cup Placeholder : v \notin SecretRevisions
  /\ \A v \in {"none", "error", "<vaultx:brokered>", "<vaultx:secret>", "<vaultx:destroyed>"} :
       v \in Placeholder
BY VariablesAreTyped DEF Placeholder

\* The kinds of entries.
LEMMA EntryKinds ==
  /\ Unbound \in Entry /\ Removal \notin Entry /\ Removal # Unbound
  /\ \A v \in PlainValues : Config(v) \in Entry
  /\ \A e \in Entry : e.kind = "config" => e.of \in PlainValues
  /\ \A e \in Entry : e.kind = "secret" => e = [kind |-> "secret", of |-> e.of]
  /\ \A e \in Entry : e.kind \in {"unbound", "config", "secret", "brokered"}
<1>1. Unbound \in Entry /\ \A v \in PlainValues : Config(v) \in Entry
  BY DEF Entry
<1>2. \A e \in Entry : \/ e.kind = "unbound"
                       \/ e.kind = "config" /\ e.of \in PlainValues
                       \/ e.kind \in {"secret", "brokered"} /\ e = [kind |-> e.kind, of |-> e.of]
  <2> SUFFICES ASSUME NEW e \in Entry
               PROVE  \/ e.kind = "unbound"
                      \/ e.kind = "config" /\ e.of \in PlainValues
                      \/ e.kind \in {"secret", "brokered"} /\ e = [kind |-> e.kind, of |-> e.of]
    OBVIOUS
  <2>1. CASE e = Unbound
    BY <2>1 DEF Unbound
  <2>2. CASE e \in {Config(v) : v \in PlainValues}
    BY <2>2 DEF Config
  <2>3. CASE e \in [kind : {"secret", "brokered"}, of : SecretRevisions \cup {"foreign"}]
    BY <2>3
  <2> QED BY <2>1, <2>2, <2>3 DEF Entry
<1>3. Removal \notin Entry /\ Removal # Unbound
  <2>1. Removal.kind = "remove" /\ Unbound.kind = "unbound"
    BY DEF Removal, Unbound
  <2> QED BY <1>2, <2>1
<1>4. \A e \in Entry : e.kind = "secret" => e = [kind |-> "secret", of |-> e.of]
  <2> SUFFICES ASSUME NEW e \in Entry, e.kind = "secret" PROVE e = [kind |-> "secret", of |-> e.of]
    OBVIOUS
  <2>1. e = [kind |-> e.kind, of |-> e.of]
    BY <1>2
  <2> QED BY <2>1
<1> QED BY <1>1, <1>2, <1>3, <1>4

\* The invariant holds in an empty project.
LEMMA VarInvInit == variablesInit => VarInv
<1> SUFFICES ASSUME variablesInit PROVE VarInv
  OBVIOUS
<1>1. NothingStaged \in [VariableNames -> Entry] /\ NothingStaged \in [VariableNames -> Change]
  BY EntryKinds DEF NothingStaged, Change
<1>2. StoresOK
  BY <1>1 DEF variablesInit, StoresOK, Revision, Stored
<1>3. ImportOK(importing, index)
  <2>1. NoImport \in Import /\ NoImport.at = "idle"
    BY <1>1 DEF NoImport, Import
  <2> QED BY <2>1 DEF variablesInit, ImportOK
<1>4. ExportOK(exporting, revisions)
  <2>1. NoExport \in Export /\ NoExport.destroyed = {} /\ \A n \in VariableNames : NoExport.values[n] = "none"
    BY <1>1 DEF NoExport, Export, Exported, Placeholder
  <2>2. \A n \in VariableNames : NoExport.values[n] \notin SecretRevisions
    BY <2>1, PlainIsNoSecret
  <2> QED BY <2>1, <2>2 DEF variablesInit, ExportOK, Revealed
<1> QED BY <1>2, <1>3, <1>4 DEF VarInv

\* Another command changes some variables, which the import then leaves alone.
LEMMA EditKeeps ==
  ASSUME VarInv, NEW names \in SUBSET VariableNames,
         importing' = [importing EXCEPT !.touched = @ \cup names],
         StoresOK', \A n \in VariableNames \ names : index'[n] = index[n],
         \A r \in SecretRevisions :
           /\ revisions[r].state = "destroyed" => revisions'[r].state = "destroyed"
           /\ revisions[r].state # "none" => revisions'[r].kind = revisions[r].kind /\ revisions'[r].state # "none",
         UNCHANGED exporting
  PROVE  VarInv'
<1>1. importing \in Import
  BY DEF VarInv, ImportOK
<1>2. importing' \in Import /\ importing'.touched = importing.touched \cup names
  BY <1>1 DEF Import
<1>3. /\ importing'.at = importing.at /\ importing'.file = importing.file /\ importing'.todo = importing.todo
      /\ importing'.head = importing.head /\ importing'.staged = importing.staged
      /\ importing'.before = importing.before /\ importing'.added = importing.added
  BY <1>1 DEF Import
<1>4. ASSUME NEW k, Reached(importing, index, k) PROVE Reached(importing', index', k)
  <2>1. \A n \in VariableNames \ importing'.touched : Taken(importing', index', Pairs(importing'), k, n)
    <3> SUFFICES ASSUME NEW n \in VariableNames \ importing'.touched
                 PROVE  Taken(importing', index', Pairs(importing'), k, n)
      OBVIOUS
    <3>1. n \in VariableNames \ importing.touched /\ index'[n] = index[n]
      BY <1>2
    <3>2. Taken(importing, index, Pairs(importing), k, n)
      BY <1>4, <3>1 DEF Reached
    <3> QED BY <1>3, <3>1, <3>2, Zenon DEF Taken, Usable, Pairs
  <2> QED BY <1>3, <1>4, <2>1, Zenon DEF Reached, Pairs
<1>5. ImportOK(importing', index')
  BY <1>2, <1>3, <1>4, Zenon DEF VarInv, ImportOK
<1>6. ExportOK(exporting', revisions')
  <2>1. exporting \in Export /\ exporting' = exporting
    BY DEF VarInv, ExportOK
  <2>2. \A r \in exporting.destroyed : r \in SecretRevisions
    BY <2>1 DEF Export
  <2>3. \A r \in exporting.destroyed : revisions'[r].state = "destroyed"
    BY <2>2 DEF VarInv, ExportOK
  <2>4. \A n \in VariableNames : Revealed(exporting, revisions', n)
    BY Zenon DEF VarInv, ExportOK, Revealed
  <2> QED BY <2>1, <2>3, <2>4, Zenon DEF ExportOK
<1> QED BY <1>5, <1>6 DEF VarInv

\* The commands around an import or an export.
LEMMA EditingKeeps ==
  ASSUME VarInv, NEW n \in VariableNames
  PROVE  /\ \A v \in ConfigValues : set_config(n, v) => VarInv'
         /\ unset_config(n) \/ restore(n) \/ PullForeign(n) => VarInv'
<1>1. /\ \A v \in ConfigValues : Config(v) \in Change
      /\ Removal \in Change /\ Unbound \in Change
      /\ [kind |-> "secret", of |-> "foreign"] \in Entry
  BY EntryKinds DEF Change, PlainValues, Entry
<1>2. StoresOK
  BY DEF VarInv
<1>3. ASSUME NEW change \in Change, Stage(n, change), Edit({n}),
             UNCHANGED <<committed, pinned, revisions, exporting, childEnv>>
      PROVE  VarInv'
  <2>1. index' \in [VariableNames -> Change] /\ \A m \in VariableNames \ {n} : index'[m] = index[m]
    BY <1>2, <1>3 DEF Stage, StoresOK
  <2>2. StoresOK'
    BY <1>2, <1>3, <2>1 DEF StoresOK
  <2>3. /\ importing' = [importing EXCEPT !.touched = @ \cup {n}] /\ {n} \in SUBSET VariableNames
        /\ exporting' = exporting /\ revisions' = revisions
    BY <1>3 DEF Edit
  <2> QED BY <2>1, <2>2, <2>3, EditKeeps
<1>4. ASSUME NEW v \in ConfigValues, set_config(n, v) PROVE VarInv'
  BY <1>1, <1>3, <1>4 DEF set_config
<1>5. ASSUME unset_config(n) PROVE VarInv'
  BY <1>1, <1>3, <1>5 DEF unset_config
<1>6. ASSUME restore(n) PROVE VarInv'
  BY <1>1, <1>3, <1>6 DEF restore
<1>7. ASSUME PullForeign(n) PROVE VarInv'
  <2>1. committed' \in [VariableNames -> Entry]
    BY <1>1, <1>2, <1>7 DEF PullForeign, StoresOK
  <2>2. StoresOK'
    BY <1>2, <1>7, <2>1 DEF StoresOK, PullForeign
  <2>3. /\ importing' = [importing EXCEPT !.touched = @ \cup {}] /\ {} \in SUBSET VariableNames
        /\ exporting' = exporting /\ revisions' = revisions /\ index' = index
    BY <1>7 DEF Edit, PullForeign
  <2> QED BY <2>2, <2>3, EditKeeps
<1> QED BY <1>4, <1>5, <1>6, <1>7

\* Secrets are set under names and destroyed for good.
LEMMA SecretsKeep ==
  ASSUME VarInv, NEW r \in SecretRevisions
  PROVE  /\ \A n \in VariableNames, kind \in {"secret", "brokered"} : set_secret(n, kind, r) => VarInv'
         /\ destroy_secret(r) => VarInv'
<1>1. StoresOK
  BY DEF VarInv
<1>2. ASSUME NEW n \in VariableNames, NEW kind \in {"secret", "brokered"}, set_secret(n, kind, r) PROVE VarInv'
  <2>1. PICK rev : rev = [name |-> n, kind |-> kind, state |-> "active"]
    OBVIOUS
  <2>2. rev \in Revision /\ Stored(rev)
    BY <2>1 DEF Revision, Stored
  <2>3. revisions' = [revisions EXCEPT ![r] = rev] /\ revisions[r].state = "none"
    BY <1>2, <2>1 DEF set_secret
  <2>4. PICK change \in Change : index' = [index EXCEPT ![n] = change]
    BY <1>2 DEF set_secret, Stage, Change, Entry
  <2>5. index' \in [VariableNames -> Change] /\ \A m \in VariableNames \ {n} : index'[m] = index[m]
    BY <1>1, <2>4 DEF StoresOK
  <2>6. revisions' \in [SecretRevisions -> Revision] /\ \A s \in SecretRevisions : Stored(revisions'[s])
    BY <1>1, <2>2, <2>3 DEF StoresOK
  <2>7. StoresOK'
    BY <1>1, <1>2, <2>5, <2>6 DEF StoresOK, set_secret
  <2>8. \A s \in SecretRevisions : s # r => revisions'[s] = revisions[s]
    BY <1>1, <2>3 DEF StoresOK
  <2>9. /\ importing' = [importing EXCEPT !.touched = @ \cup {n}] /\ {n} \in SUBSET VariableNames
        /\ exporting' = exporting
    BY <1>2 DEF Edit, set_secret
  <2> QED BY <2>3, <2>5, <2>7, <2>8, <2>9, EditKeeps
<1>3. ASSUME destroy_secret(r) PROVE VarInv'
  <2>1. revisions[r] \in Revision /\ Stored(revisions[r])
    BY <1>1 DEF StoresOK
  <2>2. PICK rev : rev = [revisions[r] EXCEPT !.state = "destroyed"]
    OBVIOUS
  <2>3. rev \in Revision /\ Stored(rev) /\ rev.state = "destroyed" /\ rev.kind = revisions[r].kind
    BY <2>1, <2>2 DEF Revision, Stored
  <2>4. revisions' = [revisions EXCEPT ![r] = rev]
    BY <1>3, <2>2 DEF destroy_secret
  <2>5. revisions' \in [SecretRevisions -> Revision] /\ \A s \in SecretRevisions : Stored(revisions'[s])
    BY <1>1, <2>3, <2>4 DEF StoresOK
  <2>6. StoresOK'
    BY <1>1, <1>3, <2>5 DEF StoresOK, destroy_secret
  <2>7. \A s \in SecretRevisions : IF s = r THEN revisions'[s] = rev ELSE revisions'[s] = revisions[s]
    BY <1>1, <2>4 DEF StoresOK
  <2>8. /\ importing' = [importing EXCEPT !.touched = @ \cup {}] /\ {} \in SUBSET VariableNames
        /\ exporting' = exporting /\ index' = index
    BY <1>3 DEF Edit, destroy_secret
  <2>9. \A s \in SecretRevisions :
          /\ revisions[s].state = "destroyed" => revisions'[s].state = "destroyed"
          /\ revisions[s].state # "none" => revisions'[s].kind = revisions[s].kind /\ revisions'[s].state # "none"
    BY <2>3, <2>7
  <2> QED BY <2>6, <2>8, <2>9, EditKeeps
<1> QED BY <1>2, <1>3

\* A commit takes what is staged, and an environment follows a commit.
LEMMA CommittingKeeps ==
  ASSUME VarInv, commit \/ Pin PROVE VarInv'
<1>1. StoresOK
  BY DEF VarInv
<1>2. CASE commit
  <2>1. apply_onto(committed) \in [VariableNames -> Entry]
    BY <1>1 DEF apply_onto, StoresOK, Change, Entry
  <2>2. NothingStaged \in [VariableNames -> Change]
    BY EntryKinds DEF NothingStaged, Change
  <2>3. StoresOK'
    BY <1>1, <1>2, <2>1, <2>2 DEF StoresOK, commit
  <2>4. /\ importing' = [importing EXCEPT !.touched = @ \cup VariableNames]
        /\ exporting' = exporting /\ revisions' = revisions
    BY <1>2 DEF Edit, commit
  <2>5. VariableNames \in SUBSET VariableNames /\ VariableNames \ VariableNames = {}
    OBVIOUS
  <2> QED BY <2>3, <2>4, <2>5, EditKeeps
<1>3. CASE Pin
  <2>1. StoresOK'
    BY <1>1, <1>3 DEF StoresOK, Pin
  <2>2. /\ importing' = [importing EXCEPT !.touched = @ \cup {}] /\ {} \in SUBSET VariableNames
        /\ exporting' = exporting /\ revisions' = revisions /\ index' = index
    BY <1>3 DEF Edit, Pin
  <2> QED BY <2>1, <2>2, EditKeeps
<1> QED BY <1>2, <1>3

\* One pair is taken off and its name goes on one of the lists.
Listed(imp, list, name) == [imp EXCEPT !.todo = Tail(@), ![list] = @ \cup {name}]

Lists == {"invalid", "needs_secret", "existing", "added"}
ListsOnly(imp, list, name, new) ==
  /\ new \in Import /\ new.todo = Tail(imp.todo)
  /\ new.at = imp.at /\ new.file = imp.file /\ new.head = imp.head /\ new.staged = imp.staged
  /\ new.before = imp.before /\ new.touched = imp.touched
  /\ new.added = IF list = "added" THEN imp.added \cup {name} ELSE imp.added

\* Which fields that changes.
LEMMA Listing ==
  ASSUME NEW imp \in Import, NEW list \in Lists, NEW name \in Names, imp.todo # << >>
  PROVE  ListsOnly(imp, list, name, Listed(imp, list, name))
<1>1. Tail(imp.todo) \in Seq(Names \X PlainValues)
  BY DEF Import
<1>2. PICK rest \in Seq(Names \X PlainValues) : rest = Tail(imp.todo)
  BY <1>1
<1>3. CASE list = "invalid"
  BY <1>2, <1>3 DEF Import, Listed, ListsOnly
<1>4. CASE list = "needs_secret"
  BY <1>2, <1>4 DEF Import, Listed, ListsOnly
<1>5. CASE list = "existing"
  BY <1>2, <1>5 DEF Import, Listed, ListsOnly
<1>6. CASE list = "added"
  BY <1>2, <1>6 DEF Import, Listed, ListsOnly
<1> QED BY <1>3, <1>4, <1>5, <1>6 DEF Lists

\* The next pair is the one after those dealt with.
LEMMA NextPair ==
  ASSUME NEW T, NEW pairs \in Seq(T), NEW k \in 0..Len(pairs), NEW todo \in Seq(T), todo # << >>,
         ToCome(todo, pairs, k)
  PROVE  /\ k \in Nat /\ k + 1 \in 1..Len(pairs) /\ k + 1 \in 0..Len(pairs) /\ k + 1 \in 1..(k + 1)
         /\ 1..(k + 1) = (1..k) \cup {k + 1} /\ k + 1 \notin 1..k
         /\ \A q \in 1..k : q \in 1..Len(pairs)
         /\ Head(todo) = pairs[k + 1] /\ ToCome(Tail(todo), pairs, k + 1)
<1>1. PICK l \in Nat, t \in Nat : l = Len(pairs) /\ t = Len(todo) /\ t # 0
  OBVIOUS
<1>2. t = l - k /\ \A i \in 1..t : todo[i] = pairs[k + i]
  BY <1>1 DEF ToCome
<1>3. k \in Nat /\ k + 1 \in 1..l /\ k + 1 \in 0..l /\ k + 1 \in 1..(k + 1) /\ 1 \in 1..t
  BY <1>1, <1>2
<1>4. 1..(k + 1) = (1..k) \cup {k + 1} /\ k + 1 \notin 1..k /\ \A q \in 1..k : q \in 1..l
  BY <1>3
<1>5. Head(todo) = pairs[k + 1]
  <2>1. Head(todo) = todo[1] /\ todo[1] = pairs[k + 1]
    BY <1>2, <1>3
  <2> QED BY <2>1
<1>6. PICK rest : rest = Tail(todo)
  OBVIOUS
<1>7. Len(rest) = t - 1 /\ \A i \in 1..(t - 1) : rest[i] = todo[i + 1]
  BY <1>1, <1>6
<1>8. \A i \in 1..(t - 1) : i + 1 \in 1..t /\ k + (i + 1) = (k + 1) + i
  BY <1>1, <1>3
<1>9. t - 1 = l - (k + 1)
  BY <1>1, <1>2, <1>3
<1>10. \A i \in 1..(t - 1) : rest[i] = pairs[(k + 1) + i]
  BY <1>2, <1>7, <1>8
<1>11. ToCome(rest, pairs, k + 1)
  BY <1>1, <1>7, <1>9, <1>10 DEF ToCome
<1> QED BY <1>1, <1>3, <1>4, <1>5, <1>6, <1>11

\* A pair is staged or put aside.
LEMMA ImportPairKeeps ==
  ASSUME VarInv, ImportPair PROVE VarInv'
<1>1. StoresOK /\ importing \in Import /\ importing.at = "pairs" /\ importing.todo # << >>
  BY DEF VarInv, ImportOK, ImportPair
<1>2. importing.file \in EnvFiles
  BY <1>1 DEF VarInv, ImportOK
<1>3. PICK k : Reached(importing, index, k)
  BY <1>1 DEF VarInv, ImportOK
<1>4. PICK P \in Seq(Names \X PlainValues) : P = Pairs(importing) /\ Collapsed(P, importing.file, Len(importing.file))
  BY <1>2, FilePairs DEF Pairs
<1>5. PICK todo \in Seq(Names \X PlainValues) : todo = importing.todo /\ todo # << >>
  BY <1>1 DEF Import
<1>6. /\ k \in 0..Len(P) /\ ToCome(todo, P, k)
      /\ \A n \in VariableNames \ importing.touched : Taken(importing, index, P, k, n)
  BY <1>3, <1>4, <1>5 DEF Reached
<1>7. /\ k \in Nat /\ k + 1 \in 1..Len(P) /\ k + 1 \in 0..Len(P) /\ k + 1 \in 1..(k + 1)
      /\ 1..(k + 1) = (1..k) \cup {k + 1} /\ k + 1 \notin 1..k
      /\ \A q \in 1..k : q \in 1..Len(P)
      /\ Head(todo) = P[k + 1] /\ ToCome(Tail(todo), P, k + 1)
  BY <1>6, <1>5, NextPair
<1>8. PICK name \in Names, value \in PlainValues : name = Head(todo)[1] /\ value = Head(todo)[2] /\ P[k + 1] = Head(todo)
  <2>1. Head(todo) \in Names \X PlainValues
    BY <1>5
  <2> QED BY <1>7, <2>1
<1>9. name # "" /\ \A q \in 1..k : P[q][1] # name
  <2>1. /\ \A p, q \in 1..Len(P) : P[p][1] = P[q][1] => p = q
        /\ \A q \in 1..Len(P) : P[q][1] # ""
    BY <1>4 DEF Collapsed
  <2>2. P[k + 1][1] = name
    BY <1>8, Zenon
  <2>3. name # ""
    BY <1>7, <2>1, <2>2, Zenon
  <2>4. ASSUME NEW q \in 1..k, P[q][1] = name PROVE FALSE
    <3>1. q = k + 1
      BY <1>7, <2>1, <2>2, <2>4, Zenon
    <3> QED BY <1>7, <3>1, Zenon
  <2> QED BY <2>3, <2>4
<1>10. PICK list \in Lists :
         list = IF name \in InvalidNames THEN "invalid"
                ELSE IF name \in LikelySecretNames THEN "needs_secret"
                ELSE IF Exists(name) THEN "existing" ELSE "added"
  BY DEF Lists
<1>11. /\ importing' = Listed(importing, list, name)
       /\ IF list = "added" THEN index' = [index EXCEPT ![name] = Config(value)] ELSE index' = index
       /\ UNCHANGED <<committed, pinned, revisions, exporting, childEnv, edits>>
  BY <1>5, <1>8, <1>10 DEF ImportPair, Stage, Listed
<1>12. name \in VariableNames => (list = "added" <=> Usable(importing, name))
  <2>1. name \in VariableNames => name \notin InvalidNames
    BY VariablesAreTyped DEF VariableNames
  <2> QED BY <1>10, <2>1 DEF Usable, Exists
<1>13. list = "added" => name \in VariableNames
  BY <1>9, <1>10 DEF Names
<1>14. PICK new : new = importing'
  OBVIOUS
<1>15. /\ new \in Import /\ new.todo = Tail(todo)
       /\ new.at = "pairs" /\ new.file = importing.file /\ new.head = importing.head /\ new.staged = importing.staged
       /\ new.before = importing.before /\ new.touched = importing.touched
       /\ new.added = IF list = "added" THEN importing.added \cup {name} ELSE importing.added
  <2>1. new = Listed(importing, list, name)
    BY <1>11, <1>14, Zenon
  <2>2. ListsOnly(importing, list, name, new)
    BY <1>1, <2>1, Listing, Zenon
  <2> QED BY <1>1, <1>5, <2>2, Zenon DEF ListsOnly
<1>16. /\ index' \in [VariableNames -> Change]
       /\ \A n \in VariableNames : n # name => index'[n] = index[n]
       /\ list = "added" => index'[name] = Config(value)
       /\ list # "added" => index' = index
  <2>1. Config(value) \in Change
    BY EntryKinds DEF Change
  <2> QED BY <1>1, <1>11, <1>13, <2>1 DEF StoresOK
<1>17. ASSUME NEW n \in VariableNames \ new.touched PROVE Taken(new, index', P, k + 1, n)
  <2>1. Taken(importing, index, P, k, n)
    BY <1>6, <1>15, <1>17
  <2>2. Usable(new, n) <=> Usable(importing, n)
    BY <1>15 DEF Usable
  <2>3. CASE n # name
    <3>1. index'[n] = index[n] /\ (n \in new.added <=> n \in importing.added)
      BY <1>15, <1>16, <2>3
    <3>2. P[k + 1][1] # n
      BY <1>8, <2>3, Zenon
    <3>3. Given(P, k + 1, n) <=> Given(P, k, n)
      BY <1>7, <3>2, Zenon DEF Given
    <3>4. ASSUME NEW q \in 1..k PROVE q \in 1..(k + 1)
      BY <1>7, Zenon
    <3> QED BY <1>15, <2>1, <2>2, <3>1, <3>3, <3>4, Zenon DEF Taken
  <2>4. CASE n = name
    <3>1. ~Given(P, k, n)
      BY <1>9, <2>4, Zenon DEF Given
    <3>2. n \notin importing.added /\ index[n] = importing.before[n]
      BY <2>1, <3>1, Zenon DEF Taken
    <3>3. P[k + 1][1] = n /\ P[k + 1][2] = value
      BY <1>8, <2>4, Zenon
    <3>4. Given(P, k + 1, n)
      BY <1>7, <3>3, Zenon DEF Given
    <3>5. CASE Usable(importing, n)
      <4>1. list = "added"
        BY <1>12, <2>4, <3>5
      <4>2. n \in new.added /\ index'[n] = Config(P[k + 1][2])
        BY <1>15, <1>16, <2>4, <3>3, <4>1
      <4> QED BY <1>7, <2>2, <3>3, <3>4, <3>5, <4>2, Zenon DEF Taken
    <3>6. CASE ~Usable(importing, n)
      <4>1. list # "added"
        BY <1>12, <2>4, <3>6
      <4>2. new.added = importing.added /\ index' = index
        BY <1>15, <1>16, <4>1
      <4> QED BY <1>15, <2>2, <3>2, <3>6, <4>2, Zenon DEF Taken
    <3> QED BY <3>5, <3>6
  <2> QED BY <2>3, <2>4
<1>18. Pairs(new) = P
  BY <1>4, <1>15, Zenon DEF Pairs
<1>19. Reached(new, index', k + 1)
  BY <1>7, <1>15, <1>17, <1>18, Zenon DEF Reached
<1>20. ImportOK(new, index')
  <2>1. new.at # "idle" /\ new.at # "done"
    BY <1>15
  <2> QED BY <1>2, <1>15, <1>19, <2>1, Zenon DEF ImportOK
<1>21. StoresOK' /\ exporting' = exporting /\ revisions' = revisions
  BY <1>1, <1>11, <1>16 DEF StoresOK
<1> QED BY <1>14, <1>20, <1>21 DEF VarInv

\* An import begins with nothing dealt with and ends with nothing to come.
LEMMA ImportBounds ==
  ASSUME VarInv
  PROVE  /\ \A file \in EnvFiles : StartImport(file) => VarInv'
         /\ EndImport => VarInv'
<1>1. ASSUME NEW file \in EnvFiles, StartImport(file) PROVE VarInv'
  <2>1. PICK P \in Seq(Names \X PlainValues) : P = parse_env_file(file)
    BY FilePairs
  <2>2. PICK heads \in SUBSET VariableNames, stageds \in SUBSET VariableNames :
          importing' = [NoImport EXCEPT !.at = "pairs", !.file = file, !.todo = P, !.head = heads,
                                        !.staged = stageds, !.before = index]
    BY <1>1, <2>1 DEF StartImport
  <2>3. NoImport \in Import /\ NoImport.added = {}
    <3>1. NothingStaged \in [VariableNames -> Change]
      BY EntryKinds DEF NothingStaged, Change
    <3> QED BY <3>1 DEF NoImport, Import
  <2>4. PICK new : new = importing'
    OBVIOUS
  <2>5. /\ new \in Import /\ new.at = "pairs" /\ new.file = file /\ new.todo = P /\ new.before = index
        /\ new.added = {}
    BY <2>1, <2>2, <2>3, <2>4 DEF Import, VarInv, StoresOK
  <2>6. 0 \in 0..Len(P) /\ ToCome(P, P, 0) /\ \A q : q \notin 1..0
    <3>1. PICK l \in Nat : l = Len(P)
      BY <2>1
    <3>2. l = l - 0 /\ \A i \in 1..l : P[i] = P[0 + i]
      BY <3>1
    <3>3. ToCome(P, P, 0)
      BY <3>1, <3>2 DEF ToCome
    <3>4. 0 \in 0..l /\ 1..0 = {}
      BY <3>1
    <3> QED BY <3>1, <3>3, <3>4
  <2>7. \A n \in VariableNames : ~Given(P, 0, n)
    BY <2>6, Zenon DEF Given
  <2>8. index' = index /\ UNCHANGED <<committed, pinned, revisions, exporting, childEnv>>
    BY <1>1 DEF StartImport
  <2>9. Reached(new, index', 0)
    <3>1. Pairs(new) = P
      BY <2>1, <2>5, Zenon DEF Pairs
    <3>2. \A n \in VariableNames : Taken(new, index, P, 0, n)
      BY <2>5, <2>7 DEF Taken
    <3> QED BY <2>5, <2>6, <2>8, <3>1, <3>2 DEF Reached
  <2>10. ImportOK(new, index')
    <3>1. new.at # "done"
      BY <2>5
    <3> QED BY <2>5, <2>9, <3>1, Zenon DEF ImportOK
  <2> QED BY <2>4, <2>8, <2>10 DEF VarInv, StoresOK
<1>2. ASSUME EndImport PROVE VarInv'
  <2>1. /\ importing \in Import /\ importing.at = "pairs" /\ importing.todo = << >>
        /\ importing' = [importing EXCEPT !.at = "done"] /\ index' = index
        /\ UNCHANGED <<committed, pinned, revisions, exporting, childEnv>>
    BY <1>2 DEF EndImport, VarInv, ImportOK
  <2>2. PICK new : new = importing'
    OBVIOUS
  <2>3. /\ new \in Import /\ new.file = importing.file /\ new.todo = importing.todo /\ new.before = importing.before
        /\ new.added = importing.added /\ new.head = importing.head /\ new.staged = importing.staged
        /\ new.touched = importing.touched
    BY <2>1, <2>2 DEF Import
  <2>4. PICK k : importing.file \in EnvFiles /\ Reached(importing, index, k)
    BY <2>1 DEF VarInv, ImportOK
  <2>5. Reached(new, index, k)
    BY <2>3, <2>4, Zenon DEF Reached, Pairs, Taken, Usable
  <2>6. ImportOK(new, index')
    BY <2>1, <2>3, <2>4, <2>5, Zenon DEF ImportOK
  <2> QED BY <2>1, <2>2, <2>6 DEF VarInv, StoresOK
<1> QED BY <1>1, <1>2

\* An export begins with the commit it shows, and ends.
LEMMA ExportBounds ==
  ASSUME VarInv
  PROVE  /\ \A reveal \in BOOLEAN : StartExport(reveal) => VarInv'
         /\ EndExport => VarInv'
<1>1. NoExport \in Export /\ \A n \in VariableNames : NoExport.values[n] \notin SecretRevisions
  <2>1. NothingStaged \in [VariableNames -> Entry]
    BY EntryKinds DEF NothingStaged
  <2>2. NoExport \in Export /\ \A n \in VariableNames : NoExport.values[n] = "none"
    BY <2>1 DEF NoExport, Export, Exported, Placeholder
  <2> QED BY <2>2, PlainIsNoSecret
<1>2. ASSUME NEW reveal \in BOOLEAN, StartExport(reveal) PROVE VarInv'
  <2>1. PICK gone : gone = {r \in SecretRevisions : revisions[r].state = "destroyed"}
    OBVIOUS
  <2>2. gone \in SUBSET SecretRevisions /\ \A r \in gone : revisions[r].state = "destroyed"
    BY <2>1
  <2>3. /\ exporting' = [NoExport EXCEPT !.at = "entries", !.reveal = reveal, !.manifest = committed,
                                        !.destroyed = gone]
        /\ UNCHANGED <<index, committed, pinned, revisions, importing, childEnv>>
    BY <1>2, <2>1 DEF StartExport
  <2>4. PICK new : new = exporting'
    OBVIOUS
  <2>5. committed \in [VariableNames -> Entry]
    BY DEF VarInv, StoresOK
  <2>6. new \in Export /\ new.destroyed = gone /\ new.values = NoExport.values
    BY <1>1, <2>2, <2>3, <2>4, <2>5 DEF Export
  <2>7. ExportOK(new, revisions)
    BY <1>1, <2>2, <2>6 DEF ExportOK, Revealed
  <2> QED BY <2>3, <2>4, <2>7 DEF VarInv, StoresOK
<1>3. ASSUME EndExport PROVE VarInv'
  <2>1. /\ exporting' = [exporting EXCEPT !.at = "done"] /\ exporting \in Export
        /\ UNCHANGED <<index, committed, pinned, revisions, importing, childEnv>>
    BY <1>3 DEF EndExport, VarInv, ExportOK
  <2>2. PICK new : new = exporting'
    OBVIOUS
  <2>3. /\ new \in Export /\ new.reveal = exporting.reveal /\ new.manifest = exporting.manifest
        /\ new.values = exporting.values /\ new.destroyed = exporting.destroyed
    BY <2>1, <2>2 DEF Export
  <2>4. ExportOK(exporting, revisions)
    BY DEF VarInv
  <2>5. ExportOK(new, revisions)
    BY <2>3, <2>4, Zenon DEF ExportOK, Revealed
  <2> QED BY <2>1, <2>2, <2>5 DEF VarInv, StoresOK
<1> QED BY <1>2, <1>3

\* What one entry gives: a revision only if it is to be revealed, of that name,
\* plain and not destroyed.
LEMMA ExportValueIs ==
  ASSUME StoresOK, NEW name \in VariableNames, NEW e \in Entry, NEW value, value = export_value(name, e)
  PROVE  /\ value \in Exported
         /\ value \in SecretRevisions =>
              /\ exporting.reveal /\ e = [kind |-> "secret", of |-> value]
              /\ revisions[value].kind = "secret" /\ revisions[value].state \notin {"none", "destroyed"}
<1>1. CASE e.kind = "unbound"
  <2>1. value = "none"
    BY <1>1 DEF export_value
  <2> QED BY <2>1, PlainIsNoSecret DEF Exported
<1>2. CASE e.kind = "config"
  <2>1. value = e.of
    BY <1>2 DEF export_value
  <2> QED BY <1>2, <2>1, PlainIsNoSecret, EntryKinds DEF Exported
<1>3. CASE e.kind = "brokered"
  <2>1. value = "<vaultx:brokered>"
    BY <1>3 DEF export_value
  <2> QED BY <2>1, PlainIsNoSecret DEF Exported
<1>4. CASE e.kind = "secret" /\ ~exporting.reveal
  <2>1. value = "<vaultx:secret>"
    BY <1>4 DEF export_value
  <2> QED BY <2>1, PlainIsNoSecret DEF Exported
<1>5. CASE e.kind = "secret" /\ exporting.reveal
  <2>1. value = resolve_revision(name, e.of)
    BY <1>5 DEF export_value
  <2>2. CASE e.of \notin SecretRevisions \/ revisions[e.of].name # name \/ revisions[e.of].kind = "brokered"
    <3>1. value = "error"
      BY <2>1, <2>2 DEF resolve_revision
    <3> QED BY <3>1, PlainIsNoSecret DEF Exported
  <2>3. CASE e.of \in SecretRevisions /\ revisions[e.of].name = name /\ revisions[e.of].kind # "brokered"
    <3>1. revisions[e.of] \in Revision /\ Stored(revisions[e.of])
      BY <2>3 DEF StoresOK
    <3>2. name # ""
      BY VariablesAreTyped DEF VariableNames
    <3>3. revisions[e.of].kind = "secret" /\ revisions[e.of].state # "none"
      BY <2>3, <3>1, <3>2 DEF Stored, Revision
    <3>4. CASE revisions[e.of].state = "destroyed"
      <4>1. value = "<vaultx:destroyed>"
        BY <2>1, <2>3, <3>4 DEF resolve_revision
      <4> QED BY <4>1, PlainIsNoSecret DEF Exported
    <3>5. CASE revisions[e.of].state # "destroyed"
      <4>1. value = e.of
        BY <2>1, <2>3, <3>5 DEF resolve_revision
      <4>2. e = [kind |-> "secret", of |-> e.of]
        BY <1>5, EntryKinds
      <4>3. e = [kind |-> "secret", of |-> value]
        BY <4>1, <4>2, Zenon
      <4> QED BY <1>5, <2>3, <3>3, <3>5, <4>1, <4>3 DEF Exported
    <3> QED BY <3>4, <3>5
  <2> QED BY <2>2, <2>3
<1> QED BY <1>1, <1>2, <1>3, <1>4, <1>5, EntryKinds

\* One entry is exported, or the export fails.
LEMMA ExportEntryKeeps ==
  ASSUME VarInv, ExportEntry PROVE VarInv'
<1>1. /\ StoresOK /\ exporting \in Export /\ ExportOK(exporting, revisions)
      /\ UNCHANGED <<index, committed, pinned, revisions, importing, childEnv>>
  BY DEF VarInv, ExportOK, ExportEntry
<1>2. PICK name \in VariableNames : name = NamesInOrder[exporting.next]
  <2>1. NamesInOrder \in Seq(VariableNames)
    BY VariablesAreTyped DEF VariableNames
  <2>2. exporting.next \in 1..Len(NamesInOrder)
    <3>1. exporting.next \in Nat \ {0} /\ Len(NamesInOrder) \in Nat /\ exporting.next <= Len(NamesInOrder)
      BY <1>1, <2>1 DEF Export, ExportEntry
    <3> QED BY <3>1
  <2> QED BY <2>1, <2>2
<1>3. PICK e \in Entry : e = exporting.manifest[name]
  BY <1>1 DEF Export
<1>4. PICK value : value = export_value(name, e)
  OBVIOUS
<1>5. /\ value \in Exported
      /\ value \in SecretRevisions =>
           /\ exporting.reveal /\ e = [kind |-> "secret", of |-> value]
           /\ revisions[value].kind = "secret" /\ revisions[value].state \notin {"none", "destroyed"}
  BY <1>1, <1>4, ExportValueIs
<1>6. exporting' = IF value = "error" THEN [NoExport EXCEPT !.at = "failed"]
                   ELSE [exporting EXCEPT !.next = @ + 1, !.values[name] = value]
  BY <1>2, <1>3, <1>4, Zenon DEF ExportEntry
<1>7. PICK new : new = exporting'
  OBVIOUS
<1>8. CASE value = "error"
  <2>1. NothingStaged \in [VariableNames -> Entry]
    BY EntryKinds DEF NothingStaged
  <2>2. /\ NoExport \in Export /\ NoExport.destroyed = {}
        /\ \A n \in VariableNames : NoExport.values[n] = "none"
    BY <2>1 DEF NoExport, Export, Exported, Placeholder
  <2>3. new = [NoExport EXCEPT !.at = "failed"]
    BY <1>6, <1>7, <1>8
  <2>4. new \in Export /\ new.destroyed = {} /\ new.values = NoExport.values
    BY <2>2, <2>3 DEF Export
  <2>5. \A n \in VariableNames : new.values[n] \notin SecretRevisions
    BY <2>2, <2>4, PlainIsNoSecret
  <2>6. ExportOK(new, revisions)
    BY <2>4, <2>5 DEF ExportOK, Revealed
  <2> QED BY <1>1, <1>7, <2>6 DEF VarInv, StoresOK
<1>9. CASE value # "error"
  <2>0. exporting.values \in [VariableNames -> Exported] /\ exporting.next \in Nat \ {0}
    BY <1>1 DEF Export
  <2>1. PICK after : after = [exporting.values EXCEPT ![name] = value]
    OBVIOUS
  <2>7. /\ after \in [VariableNames -> Exported] /\ after[name] = value
        /\ \A n \in VariableNames : n # name => after[n] = exporting.values[n]
    BY <1>5, <2>0, <2>1
  <2>8. PICK m \in Nat \ {0} : m = exporting.next + 1
    BY <2>0
  <2>2. new = [exporting EXCEPT !.next = m, !.values = after]
    BY <1>1, <1>6, <1>7, <1>9, <2>1, <2>8 DEF Export
  <2>3. /\ new \in Export /\ new.reveal = exporting.reveal /\ new.manifest = exporting.manifest
        /\ new.values = after /\ new.destroyed = exporting.destroyed
    BY <1>1, <2>2, <2>7, <2>8 DEF Export
  <2>4. \A r \in new.destroyed : revisions[r].state = "destroyed"
    BY <1>1, <2>3 DEF ExportOK
  <2>5. ASSUME NEW n \in VariableNames PROVE Revealed(new, revisions, n)
    <3>1. CASE n # name
      <4>1. Revealed(exporting, revisions, n) /\ new.values[n] = exporting.values[n]
        BY <1>1, <2>7, <2>3, <3>1 DEF ExportOK
      <4> QED BY <2>3, <4>1, Zenon DEF Revealed
    <3>2. CASE n = name
      <4>1. new.values[n] = value /\ new.manifest[n] = e
        BY <1>3, <2>7, <2>3, <3>2
      <4>2. value \in SecretRevisions => value \notin new.destroyed
        BY <1>5, <2>4
      <4> QED BY <1>5, <2>3, <4>1, <4>2 DEF Revealed
    <3> QED BY <3>1, <3>2
  <2>6. ExportOK(new, revisions)
    BY <2>3, <2>4, <2>5 DEF ExportOK
  <2> QED BY <1>1, <1>7, <2>6 DEF VarInv, StoresOK
<1> QED BY <1>8, <1>9

\* A child gets what was committed in the clear.
LEMMA RunKeeps ==
  ASSUME VarInv, NEW allow_empty \in BOOLEAN, cmd_run(allow_empty) PROVE VarInv'
<1>1. pinned \in [VariableNames -> Entry]
  BY DEF VarInv, StoresOK
<1>2. committed_config_values(pinned) \in [VariableNames -> PlainValues \cup {"none"}]
  BY <1>1, EntryKinds DEF committed_config_values
<1>3. /\ childEnv' = committed_config_values(pinned)
      /\ UNCHANGED <<index, committed, pinned, revisions, importing, exporting>>
  BY DEF cmd_run
<1> QED BY <1>2, <1>3 DEF VarInv, StoresOK

\* When an import is done, the last line of each usable name is staged.
LEMMA VarInvSuffices ==
  ASSUME VarInv PROVE VariablesExact /\ DisclosuresPermitted
<1>1. ASSUME importing.at = "done", NEW n \in VariableNames \ importing.touched
      PROVE  LET given == {i \in DOMAIN importing.file : importing.file[i][1] = n}
                 taken == given # {} /\ n \notin LikelySecretNames \cup importing.head \cup importing.staged
             IN /\ index[n] = IF taken THEN Config(importing.file[Max(given)][2]) ELSE importing.before[n]
                /\ n \in importing.added <=> taken
  <2>1. importing.file \in EnvFiles /\ importing.todo = << >>
    BY <1>1 DEF VarInv, ImportOK
  <2>2. PICK f \in Seq(Names \X PlainValues), P \in Seq(Names \X PlainValues) :
          f = importing.file /\ P = Pairs(importing) /\ Collapsed(P, f, Len(f))
    BY <2>1, FilePairs DEF Pairs
  <2>3. PICK l \in Nat, z \in Nat : l = Len(f) /\ DOMAIN f = 1..l /\ z = Len(P)
    BY <2>2
  <2>4. PICK k : Reached(importing, index, k)
    BY <1>1 DEF VarInv, ImportOK
  <2>5. k = z /\ Taken(importing, index, P, z, n)
    <3>1. k \in 0..z /\ Len(<< >>) = z - k
      BY <2>1, <2>2, <2>3, <2>4 DEF Reached, ToCome
    <3>2. k = z
      BY <2>3, <3>1
    <3> QED BY <1>1, <2>2, <2>4, <3>2 DEF Reached
  <2>6. /\ \A q \in 1..z : \E m \in 1..l :
             P[q] = f[m] /\ \A j \in 1..l : f[j][1] = P[q][1] => j <= m
        /\ \A m \in 1..l : f[m][1] # "" => \E q \in 1..z : P[q][1] = f[m][1]
    BY <2>2, <2>3 DEF Collapsed
  <2> DEFINE given == {i \in DOMAIN importing.file : importing.file[i][1] = n}
             taken == given # {} /\ n \notin LikelySecretNames \cup importing.head \cup importing.staged
  <2>7. n # "" /\ \A i : i \in given <=> i \in 1..l /\ f[i][1] = n
    <3>1. n # ""
      BY VariablesAreTyped DEF VariableNames
    <3> QED BY <2>2, <2>3, <3>1
  <2>8. ASSUME NEW q \in 1..z, P[q][1] = n PROVE given # {} /\ P[q] = f[Max(given)]
    <3>1. PICK m \in 1..l : P[q] = f[m] /\ \A j \in 1..l : f[j][1] = P[q][1] => j <= m
      BY <2>6
    <3>2. m \in given /\ \A j \in given : j <= m
      BY <2>7, <2>8, <3>1, Zenon
    <3>3. \A x : x \in given /\ (\A j \in given : x >= j) => x = m
      <4> SUFFICES ASSUME NEW x, x \in given, \A j \in given : x >= j PROVE x = m
        OBVIOUS
      <4>1. x \in 1..l /\ x <= m /\ x >= m
        BY <2>7, <3>2, Zenon
      <4> HIDE DEF given
      <4> QED BY <2>3, <4>1
    <3>4. \A j \in given : m >= j
      <4> SUFFICES ASSUME NEW j \in given PROVE m >= j
        OBVIOUS
      <4>1. j \in 1..l /\ j <= m
        BY <2>7, <3>2, Zenon
      <4> HIDE DEF given
      <4> QED BY <2>3, <4>1
    <3> HIDE DEF given
    <3>5. Max(given) = m
      BY <3>2, <3>3, <3>4, Zenon DEF Max
    <3> QED BY <3>1, <3>2, <3>5, Zenon
  <2>9. given # {} <=> Given(P, z, n)
    <3>1. ASSUME NEW i \in given PROVE Given(P, z, n)
      <4>1. i \in 1..l /\ f[i][1] = n
        BY <2>7, <3>1, Zenon
      <4> QED BY <2>6, <2>7, <4>1, Zenon DEF Given
    <3>2. ASSUME Given(P, z, n) PROVE given # {}
      <4>1. PICK q \in 1..z : P[q][1] = n
        BY <3>2, Zenon DEF Given
      <4> QED BY <2>8, <4>1, Zenon
    <3> QED BY <3>1, <3>2, Zenon
  <2>10. CASE taken
    <3>1. Usable(importing, n) /\ Given(P, z, n)
      BY <2>9, <2>10, Zenon DEF Usable
    <3>2. n \in importing.added /\ \E q \in 1..z : P[q][1] = n /\ index[n] = Config(P[q][2])
      BY <2>5, <3>1, Zenon DEF Taken
    <3>3. PICK q \in 1..z : P[q][1] = n /\ index[n] = Config(P[q][2])
      BY <3>2, Zenon
    <3>4. P[q] = importing.file[Max(given)]
      BY <2>2, <2>8, <3>3, Zenon
    <3>5. index[n] = Config(importing.file[Max(given)][2])
      BY <3>3, <3>4, Zenon
    <3> HIDE DEF given
    <3> QED BY <2>10, <3>2, <3>5, Zenon DEF given
  <2>11. CASE ~taken
    <3>1. ~(Usable(importing, n) /\ Given(P, z, n))
      BY <2>9, <2>11, Zenon DEF Usable
    <3>2. n \notin importing.added /\ index[n] = importing.before[n]
      BY <2>5, <3>1, Zenon DEF Taken
    <3> QED BY <2>11, <3>2, Zenon
  <2> QED BY <2>10, <2>11
<1>2. \A n \in VariableNames : get_config(n) = committed_config_values(apply_onto(committed))[n]
  <2> SUFFICES ASSUME NEW n \in VariableNames
               PROVE  get_config(n) = committed_config_values(apply_onto(committed))[n]
    OBVIOUS
  <2>1. apply_onto(committed)[n] = resolve_effective_entry(n)
    BY EntryKinds DEF apply_onto, resolve_effective_entry
  <2>2. PICK e : e = resolve_effective_entry(n) /\ e = apply_onto(committed)[n]
    BY <2>1
  <2>3. committed_config_values(apply_onto(committed))[n] = IF e.kind = "config" THEN e.of ELSE "none"
    BY <2>2, Zenon DEF committed_config_values
  <2>4. get_config(n) = IF e.kind = "config" THEN e.of ELSE "none"
    BY <2>2, Zenon DEF get_config
  <2> QED BY <2>3, <2>4, Zenon
<1>3. DisclosuresPermitted
  <2>1. \A n \in VariableNames : childEnv[n] \notin SecretRevisions
    BY PlainIsNoSecret DEF VarInv, StoresOK
  <2>2. \A n \in VariableNames : Revealed(exporting, revisions, n)
    BY DEF VarInv, ExportOK
  <2> QED BY <2>1, <2>2, Zenon DEF DisclosuresPermitted, Revealed
<1> QED BY <1>1, <1>2, <1>3 DEF VariablesExact

\* Every command keeps the invariant.
LEMMA VarInvStep == VarInv /\ [variablesNext]_variableVars => VarInv'
<1> SUFFICES ASSUME VarInv, [variablesNext]_variableVars PROVE VarInv'
  OBVIOUS
<1>1. CASE UNCHANGED variableVars
  BY <1>1 DEF variableVars, VarInv, StoresOK
<1>2. ASSUME NEW n \in VariableNames,
             \/ \E v \in ConfigValues : set_config(n, v)
             \/ unset_config(n) \/ restore(n) \/ PullForeign(n)
             \/ \E kind \in {"secret", "brokered"}, r \in SecretRevisions : set_secret(n, kind, r)
      PROVE  VarInv'
  BY <1>2, EditingKeeps, SecretsKeep, Zenon
<1>3. ASSUME NEW r \in SecretRevisions, destroy_secret(r) PROVE VarInv'
  BY <1>3, SecretsKeep
<1>4. CASE (\E file \in EnvFiles : StartImport(file)) \/ ImportPair \/ EndImport
  BY <1>4, ImportBounds, ImportPairKeeps
<1>5. CASE (\E reveal \in BOOLEAN : StartExport(reveal)) \/ ExportEntry \/ EndExport
  BY <1>5, ExportBounds, ExportEntryKeeps, Zenon
<1>6. CASE \E allow_empty \in BOOLEAN : cmd_run(allow_empty)
  BY <1>6, RunKeeps, Zenon
<1> QED BY <1>1, <1>2, <1>3, <1>4, <1>5, <1>6, CommittingKeeps, Zenon DEF variablesNext

\* However commands, imports, exports and lookups overlap, an import stages the
\* last value of each usable name and nothing else, `get` answers with what the
\* next commit will hold, and plaintext leaves the vault only where it was asked
\* for (import_env_pairs, get_config, export_value, cmd_run, resolve).
THEOREM VariablesStayFaithful == VaultSpec /\ VariablesSpec => []VariablesFaithful
<1>1. VariablesSpec => []VarInv
  BY VarInvInit, VarInvStep, PTL DEF VariablesSpec
<1>2. VarInv /\ PlainOnlyAfterLookup => VariablesFaithful
  BY VarInvSuffices DEF VariablesFaithful
<1> QED BY <1>1, <1>2, PlainStaysUnseen, PTL
===============================================================================
