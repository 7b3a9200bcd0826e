------------------------------- MODULE SyncFiles -------------------------------
(***************************************************************************)
(* The files a working copy keeps for team sync, and the commands that     *)
(* read and write them: the login (session.rs), the named remotes          *)
(* (remotes.rs), the device key that signs commits and attests syncs       *)
(* (device_file.rs and vaultx-core/src/history.rs) and the watermark of    *)
(* the audit upload (vaultx-cli/src/remoting.rs).                          *)
(*                                                                         *)
(* Commands run in processes of their own and take no lock.  The JSON      *)
(* files are replaced by a rename, so a reader sees the old or the new     *)
(* contents, but a command that reads one and writes it back does so in    *)
(* two steps.  The device key is replaced by a rename when a sync makes    *)
(* it, and truncated and then filled when a commit does.                   *)
(*                                                                         *)
(* A bearer token is identified with the server that issued it, a device   *)
(* key with the process that generated it.                                 *)
(***************************************************************************)
EXTENDS Naturals, FiniteSets, Sequences

CONSTANTS
  Nil,
  Empty,        \* the contents of a truncated file
  Processes,    \* each runs one command
  Servers,      \* control planes a user has a login for
  Remotes,      \* remote names
  DefaultRemote,       \* DEFAULT_REMOTE_NAME
  Unacceptable, \* sequences of the events the server rejects
  Chunk,        \* AUDIT_UPLOAD_CHUNK
  MaxEvents     \* bound on the local audit log

ASSUME UploadBounds == Chunk \in Nat \ {0} /\ MaxEvents \in Nat
ASSUME KeyFileStates == Nil # Empty

VARIABLES
  session,    \* session.json: the server logged in to, or Nil
  remotes,    \* remote.json: name -> server
  key,        \* device.key, Empty, or Nil
  logged,     \* how many events the local audit log has
  watermark,  \* sync-state.json: how many of them were uploaded
  proc,       \* the command of each process and what it holds
  contacted,  \* history: <<server, token>> of every request
  registered, \* device keys attested to a server
  signed,     \* keys that signed commits
  ingested    \* how often the server accepted each event

fileVars == <<session, remotes, key, logged, watermark, proc, contacted, registered, signed,
              ingested>>

Ready == [pc |-> "ready", held |-> Nil, name |-> Nil, upto |-> 0, at |-> 0]
Over == [Ready EXCEPT !.pc = "over"]
Become(p, r) == proc' = [proc EXCEPT ![p] = r]
At(p, pc) == proc[p].pc = pc
Contact(server, token) == contacted' = contacted \cup {<<server, token>>}

FilesInit ==
  /\ session = Nil /\ remotes = << >> /\ key = Nil
  /\ logged = 0 /\ watermark = 0
  /\ proc = [p \in Processes |-> Ready]
  /\ contacted = {} /\ registered = {} /\ signed = {}
  /\ ingested = [e \in 1..MaxEvents |-> 0]

-------------------------------------------------------------------------------
(* vaultx login, vaultx remote add and remove, vaultx workspace            *)

\* normalize_server: https, or plain http to this machine.
Acceptable(url) == url \in Servers

\* GET /workspaces with the token; it is stored only when the server takes it.
cmd_login(p, s) ==
  /\ At(p, "ready") /\ Acceptable(s)
  /\ Contact(s, s)
  /\ \E taken \in BOOLEAN :
       Become(p, IF taken THEN [Ready EXCEPT !.pc = "store", !.held = s] ELSE Over)
  /\ UNCHANGED <<session, remotes, key, logged, watermark, registered, signed, ingested>>

store_session(p) ==
  /\ At(p, "store")
  /\ session' = proc[p].held
  /\ Become(p, Over)
  /\ UNCHANGED <<remotes, key, logged, watermark, contacted, registered, signed, ingested>>

\* cmd_workspace_list, cmd_workspace_create: the stored pair is used as it is.
cmd_workspace(p) ==
  /\ At(p, "ready") /\ session # Nil
  /\ Contact(session, session)
  /\ Become(p, Over)
  /\ UNCHANGED <<session, remotes, key, logged, watermark, registered, signed, ingested>>

\* GET /projects/{id} at the server of the stored login ...
cmd_remote_add(p, name) ==
  /\ At(p, "ready") /\ session # Nil
  /\ Contact(session, session)
  /\ \E seen \in BOOLEAN :
       Become(p, IF seen THEN [Ready EXCEPT !.pc = "add", !.held = session, !.name = name] ELSE Over)
  /\ UNCHANGED <<session, remotes, key, logged, watermark, registered, signed, ingested>>

\* ... then remote.json is read, and written back with the entry.
load_for_add(p) ==
  /\ At(p, "add")
  /\ Become(p, IF proc[p].name \in DOMAIN remotes THEN Over
               ELSE [proc[p] EXCEPT !.pc = "save",
                     !.held = [n \in DOMAIN remotes \cup {proc[p].name} |->
                                 IF n = proc[p].name THEN proc[p].held ELSE remotes[n]]])
  /\ UNCHANGED <<session, remotes, key, logged, watermark, contacted, registered, signed, ingested>>

cmd_remote_remove(p, name) ==
  /\ At(p, "ready")
  /\ Become(p, IF name \notin DOMAIN remotes THEN Over
               ELSE [Ready EXCEPT !.pc = "save",
                     !.held = [n \in DOMAIN remotes \ {name} |-> remotes[n]]])
  /\ UNCHANGED <<session, remotes, key, logged, watermark, contacted, registered, signed, ingested>>

save_remote_config(p) ==
  /\ At(p, "save")
  /\ remotes' = proc[p].held
  /\ Become(p, Over)
  /\ UNCHANGED <<session, key, logged, watermark, contacted, registered, signed, ingested>>

-------------------------------------------------------------------------------
(* The device key                                                          *)

\* signing_pair and obtain: load the seed, refuse a corrupt one, or generate
\* one to be written.
ObtainKey(p, r, next) ==
  Become(p, CASE key = Nil -> [r EXCEPT !.pc = "generate", !.held = <<r.held, p>>, !.name = next]
              [] key = Empty -> Over
              [] OTHER -> [r EXCEPT !.pc = next, !.held = <<r.held, key>>])

\* write_private_file truncates whatever is there ...
TruncateKey(p) ==
  /\ At(p, "generate") /\ proc[p].name = "sign"
  /\ key' = Empty
  /\ Become(p, [proc[p] EXCEPT !.pc = "fill"])
  /\ UNCHANGED <<session, remotes, logged, watermark, contacted, registered, signed, ingested>>

\* ... and fills it; write_private renames over it.
persist_pair(p) ==
  /\ At(p, "fill") \/ (At(p, "generate") /\ proc[p].name = "probe")
  /\ key' = p
  /\ Become(p, [proc[p] EXCEPT !.pc = proc[p].name, !.name = Nil])
  /\ UNCHANGED <<session, remotes, logged, watermark, contacted, registered, signed, ingested>>

DieFilling(p) ==
  /\ At(p, "fill")
  /\ Become(p, Over)
  /\ UNCHANGED <<session, remotes, key, logged, watermark, contacted, registered, signed, ingested>>

cmd_commit(p) ==
  /\ At(p, "ready")
  /\ ObtainKey(p, Ready, "sign")
  /\ UNCHANGED <<session, remotes, key, logged, watermark, contacted, registered, signed, ingested>>

SignCommit(p) ==
  /\ At(p, "sign")
  /\ signed' = signed \cup {proc[p].held[2]}
  /\ Become(p, Over)
  /\ UNCHANGED <<session, remotes, key, logged, watermark, contacted, registered, ingested>>

-------------------------------------------------------------------------------
(* push, pull, sync: open_sync_context, then the requests                  *)

load_session(p, requested) ==
  /\ At(p, "ready")
  /\ Become(p, IF session = Nil THEN Over
               ELSE [Ready EXCEPT !.pc = "resolve", !.held = session, !.name = requested])
  /\ UNCHANGED <<session, remotes, key, logged, watermark, contacted, registered, signed, ingested>>

\* The remote asked for; without one, origin or else the only one.
resolve_remote(requested) ==
  CASE requested \in DOMAIN remotes -> requested
    [] requested = Nil /\ DefaultRemote \in DOMAIN remotes -> DefaultRemote
    [] requested = Nil /\ Cardinality(DOMAIN remotes) = 1 -> CHOOSE n \in DOMAIN remotes : TRUE
    [] OTHER -> Nil

\* A stale remote must never receive another plane's token.
Paired(token, server) == token = server

open_sync_context(p) ==
  /\ At(p, "resolve")
  /\ LET name == resolve_remote(proc[p].name) IN
     IF name = Nil THEN Become(p, Over)
     ELSE IF ~Paired(proc[p].held, remotes[name]) THEN Become(p, Over)
     ELSE Become(p, [proc[p] EXCEPT !.pc = "attest", !.name = Nil,
                                    !.held = <<remotes[name], proc[p].held>>])
  /\ UNCHANGED <<session, remotes, key, logged, watermark, contacted, registered, signed, ingested>>

attestation(p) ==
  /\ At(p, "attest")
  /\ ObtainKey(p, proc[p], "probe")
  /\ UNCHANGED <<session, remotes, key, logged, watermark, contacted, registered, signed, ingested>>

\* The probe carries the token and registers the key; --with-audit goes on to
\* the upload, from the watermark and the log as they are now.
SendProbe(p) ==
  /\ At(p, "probe")
  /\ LET target == proc[p].held[1] IN
     /\ Contact(target[1], target[2])
     /\ registered' = registered \cup {proc[p].held[2]}
     /\ \E with_audit \in BOOLEAN :
          Become(p, IF with_audit /\ logged > watermark
                    THEN [Ready EXCEPT !.pc = "upload", !.at = watermark, !.upto = logged]
                    ELSE Over)
  /\ UNCHANGED <<session, remotes, key, logged, watermark, signed, ingested>>

-------------------------------------------------------------------------------
(* upload_pending_audit                                                    *)

Appended ==
  /\ logged < MaxEvents
  /\ logged' = logged + 1
  /\ UNCHANGED <<session, remotes, key, watermark, proc, contacted, registered, signed, ingested>>

ChunkOf(r) == {e \in 1..MaxEvents : r.at < e /\ e <= r.at + Chunk /\ e <= r.upto}
Accept(chunk) == ingested' = [e \in 1..MaxEvents |->
                                ingested[e] + (IF e \in chunk \ Unacceptable THEN 1 ELSE 0)]

\* The server ingests the chunk and the answer arrives: rejected events are
\* skipped for good, the mark rides to the end of the chunk.
reconcile_chunk(p) ==
  /\ At(p, "upload") /\ proc[p].at < proc[p].upto
  /\ Accept(ChunkOf(proc[p]))
  /\ Become(p, [proc[p] EXCEPT !.at = IF @ + Chunk <= proc[p].upto THEN @ + Chunk
                                      ELSE proc[p].upto])
  /\ UNCHANGED <<session, remotes, key, logged, watermark, contacted, registered, signed>>

\* Mutant: the mark is saved past the chunk whose request failed.
UploadFailsMarking(p) ==
  /\ At(p, "upload") /\ proc[p].at < proc[p].upto
  /\ Become(p, Over)
  /\ watermark' = proc[p].upto
  /\ UNCHANGED <<session, remotes, key, logged, contacted, registered, signed, ingested>>

\* The request fails, before or after the server ingested it, and the command
\* ends without saving the mark.
UploadFails(p) ==
  /\ At(p, "upload") /\ proc[p].at < proc[p].upto
  /\ Become(p, Over)
  /\ \/ Accept(ChunkOf(proc[p]))
     \/ UNCHANGED ingested
  /\ UNCHANGED <<session, remotes, key, logged, watermark, contacted, registered, signed>>

save_sync_state(p) ==
  /\ At(p, "upload") /\ proc[p].at = proc[p].upto
  /\ watermark' = proc[p].at
  /\ Become(p, Over)
  /\ UNCHANGED <<session, remotes, key, logged, contacted, registered, signed, ingested>>

-------------------------------------------------------------------------------
FilesNext ==
  \/ Appended
  \/ \E p \in Processes :
       \/ \E s \in Servers : cmd_login(p, s)
       \/ \E n \in Remotes : cmd_remote_add(p, n) \/ cmd_remote_remove(p, n)
       \/ \E n \in Remotes \cup {Nil} : load_session(p, n)
       \/ store_session(p) \/ cmd_workspace(p) \/ load_for_add(p) \/ save_remote_config(p)
       \/ TruncateKey(p) \/ persist_pair(p) \/ DieFilling(p) \/ cmd_commit(p) \/ SignCommit(p)
       \/ open_sync_context(p) \/ attestation(p) \/ SendProbe(p)
       \/ reconcile_chunk(p) \/ UploadFails(p) \/ save_sync_state(p)

FilesSpec == FilesInit /\ [][FilesNext]_fileVars

-------------------------------------------------------------------------------
\* A token is only ever sent to the server that issued it, whatever logins and
\* remotes other processes store while a command is under way.
TokenStaysHome == \A c \in contacted : c[1] = c[2]

\* Events the watermark has passed are at the server, except those it
\* rejected: whichever upload failed or finished first, none is left behind.
NothingSkipped ==
  \A e \in 1..watermark : e \notin Unacceptable => ingested[e] > 0

\* What the client keeps between its commands neither sends a token to a
\* foreign server nor loses an audit event.
SyncStateSafe == TokenStaysHome /\ NothingSkipped
===============================================================================
