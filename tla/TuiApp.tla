-------------------------------- MODULE TuiApp --------------------------------
(***************************************************************************)
(* The terminal UI (vaultx-tui): the key-driven state machine of state.rs, *)
(* the event loop and effects of backend.rs, the snapshot loader of        *)
(* data.rs and what view.rs draws.  The UI works on a snapshot of the      *)
(* project that other processes, and its own background sync, change       *)
(* underneath it.                                                          *)
(*                                                                         *)
(* A policy document is a name, the rules the form can show (body) and the *)
(* limits it cannot (environment allowlist, request and response           *)
(* constraints).  A text is a document or Garbage.  A keystroke that edits *)
(* text leaves any text behind.  Layout, wording and colour are left out.  *)
(***************************************************************************)
EXTENDS Options, Integers, Sequences, SequencesExt, FiniteSets, TLC

CONSTANTS
  Garbage,        \* text that is no valid document (also the empty text)
  Projects,       \* what the loader may find in the project's files
  Bodies,         \* what the five form fields can say when they are valid
  Limits,         \* constraints outside the form; NoLimits is the default
  NoLimits,
  PolicyNames,    \* sequence: names a document may declare, in file order
  NewPolicy,      \* the name the editor starts on when nothing is stored
  Keys,           \* the keys pressed: records of a code and a ctrl flag
  MaxPresses      \* bound on the keys of one session

\* The rows a snapshot is made of.  Where a piece of it cannot be read the
\* loader leaves it empty; a session store that cannot be read is None.
IsSnapshot(p) ==
  /\ DOMAIN p = {"agents", "sessions", "envs", "branches", "audit", "remotes", "variables", "history", "diff"}
  /\ \A l \in DOMAIN p \ {"sessions"} : p[l] \in Seq(Range(p[l]))
  /\ DOMAIN p.sessions = Range(p.agents)
  /\ \A a \in Range(p.agents) : p.sessions[a] = None \/ p.sessions[a] \in Seq(Range(p.sessions[a]))
  /\ \A i \in DOMAIN p.envs : DOMAIN p.envs[i] = {"name", "protected"}
  /\ \A i \in DOMAIN p.variables : DOMAIN p.variables[i] = {"kind", "reference"}

ASSUME ProjectsAreSnapshots == \A p \in Projects : IsSnapshot(p)
ASSUME DocumentsExist ==
  Bodies # {} /\ NoLimits \in Limits /\ PolicyNames \in Seq(Range(PolicyNames))

VARIABLES
  project,        \* the project's files, but for its policies
  policy_files,   \* .vaultx/policies: name |-> document, or None
  loaded,         \* the snapshot on display
  route, modal, sel, focus, filter, editor, quit,
  pending,        \* the background sync: its action, or None
  sync_busy,
  presses,
  asked,          \* what the open modal put before the user (history)
  done            \* what the last key made the services do (history)

uiVarsButModal == <<route, sel, focus, filter, editor, quit>>
uiVars == <<modal, uiVarsButModal>>
tuiVars == <<project, policy_files, loaded, uiVars, pending, sync_busy, presses, asked, done>>

-------------------------------------------------------------------------------
(* Documents, drafts and the editor *)

PolicyTexts == [name : Range(PolicyNames) \cup {NewPolicy}, body : Bodies, limits : Limits]
Texts == PolicyTexts \cup {Garbage}
Drafts == Bodies \cup {Garbage}

EditableFields == <<"principal", "credential", "hosts", "allow", "deny">>

from_document(document) == document.body

build_document(draft, name) ==
  IF draft = Garbage THEN Garbage ELSE [name |-> name, body |-> draft, limits |-> NoLimits]

effective_yaml(e) == IF e.mode = "raw" THEN e.raw ELSE build_document(e.draft, e.target)

revalidate(e) == [e EXCEPT !.valid = effective_yaml(e) # Garbage]

TEMPLATE_YAML == [name |-> NewPolicy, body |-> CHOOSE b \in Bodies : TRUE, limits |-> NoLimits]

NewEditor(target, base) ==
  revalidate([target |-> target, mode |-> "form", draft |-> from_document(base), raw |-> base,
              cursor |-> 1, editing |-> FALSE, valid |-> FALSE])

capture_all_keys == editor.mode = "raw" \/ editor.editing

toggle_to_raw(e) == revalidate([e EXCEPT !.editing = FALSE, !.raw = effective_yaml(e), !.mode = "raw"])

\* Only a valid raw text is taken into the form.
toggle_to_form(e) ==
  IF e.raw = Garbage THEN e
  ELSE revalidate([e EXCEPT !.draft = from_document(e.raw), !.mode = "form"])

MovesCaret == {"Left", "Right", "Up", "Down", "Esc", "Tab"}

\* The texts one key can turn a buffer into.
apply_text_key(text, all, k) == IF k.code \in MovesCaret THEN {text} ELSE all

OneLine(field) == field \notin {"allow", "deny"}

\* The editors a key leads to while the editor has the keyboard.
editor_handle_key(e, k) ==
  IF e.mode = "raw" THEN {revalidate([e EXCEPT !.raw = t]) : t \in apply_text_key(e.raw, Texts, k)}
  ELSE IF k.code = "Tab" \/ (k.code = "Enter" /\ OneLine(EditableFields[e.cursor]))
       THEN {[e EXCEPT !.editing = FALSE]}
       ELSE {revalidate([e EXCEPT !.draft = t]) : t \in apply_text_key(e.draft, Drafts, k)}

-------------------------------------------------------------------------------
(* The snapshot *)

StoredNames == Filtered(PolicyNames, {n \in Range(PolicyNames) : policy_files[n] # None})

\* A secret's or a credential's reference is replaced by the mask.
mask_reference(row) == IF row.kind \in {"secret", "brokered"} THEN [row EXCEPT !.reference = "****"] ELSE row

load_snapshot(p) == [p EXCEPT !.variables = [i \in DOMAIN p.variables |-> mask_reference(p.variables[i])]]

\* load asks the audit store for every outcome, whatever the filter.
load(p) == load_snapshot(p)

SessionsOf(snapshot, agent) == IF snapshot.sessions[agent] = None THEN << >> ELSE snapshot.sessions[agent]

FocusedSessions(snapshot, s) ==
  IF s["agent"] < Len(snapshot.agents) THEN SessionsOf(snapshot, snapshot.agents[s["agent"] + 1]) ELSE << >>

\* What is shown in each of the lists but the sessions, which are those of
\* the selected agent.
ShownIn == [agent |-> "agents", audit |-> "audit", ref |-> "branches", env |-> "envs", dash_env |-> "envs",
            remote |-> "remotes", dash_var |-> "variables", dash_hist |-> "history", diff |-> "diff"]

\* Rows of the list a selection moves in.
RowsOf(snapshot, s, list) ==
  IF list = "session" THEN FocusedSessions(snapshot, s) ELSE snapshot[ShownIn[list]]

Lists == {"agent", "session", "audit", "ref", "env", "remote", "diff", "dash_env", "dash_var", "dash_hist"}

Clamp(i, n) == IF n = 0 THEN 0 ELSE IF i < n THEN i ELSE n - 1

Indexed == {"session", "audit", "ref", "env", "remote"}

\* The agent row is clamped first: it decides which session list is meant.
Clamped(s, snapshot) ==
  LET t == [s EXCEPT !["agent"] = Clamp(@, Len(snapshot.agents))]
  IN [l \in Lists |-> IF l \in Indexed THEN Clamp(t[l], Len(RowsOf(snapshot, t, l))) ELSE t[l]]

swap_loaded(s, snapshot) == loaded' = snapshot /\ sel' = Clamped(s, snapshot)

reload == swap_loaded(sel, load(project))

tuiInit ==
  /\ project \in Projects
  /\ policy_files \in [Range(PolicyNames) -> {None} \cup PolicyTexts]
  /\ \A n \in Range(PolicyNames) : policy_files[n] # None => policy_files[n].name = n
  /\ loaded = load(project)
  /\ route = "dashboard" /\ modal = None /\ quit = FALSE /\ filter = "all"
  /\ sel = [l \in Lists |-> 0]
  /\ focus = [dashboard |-> "dash_env", agents |-> "agent", promote |-> "ref"]
  /\ editor = IF StoredNames = << >> THEN NewEditor(NewPolicy, TEMPLATE_YAML)
              ELSE NewEditor(Head(StoredNames), policy_files[Head(StoredNames)])
  /\ pending = None /\ sync_busy = FALSE
  /\ presses = 0 /\ asked = None /\ done = None

-------------------------------------------------------------------------------
(* Effects on the services; each success reads the snapshot again.  The    *)
(* services decide on the files as they are, not on the snapshot.          *)

Performed(op) == done' = op /\ UNCHANGED <<pending, sync_busy>>
Failed == done' = None /\ UNCHANGED <<project, policy_files, loaded, sel, pending, sync_busy>>

KnownSessions == UNION {Range(SessionsOf(project, a)) : a \in Range(project.agents)}

\* Revoking is by id and permanent; the row stays in the list.
revoke_session(session) ==
  IF session \in KnownSessions
  THEN /\ reload /\ Performed([op |-> "revoke", session |-> session]) /\ UNCHANGED <<project, policy_files>>
  ELSE Failed

EnvOf(p, name) == CHOOSE e \in Range(p.envs) : e.name = name
EnvNames(p) == {e.name : e \in Range(p.envs)}

\* Variant: the service trusts its caller's snapshot.
PromotableUnchecked(from, to, force) ==
  /\ from \in Range(project.branches) \cup EnvNames(project)
  /\ to \in EnvNames(project)

\* The source and the target must exist; a protected target needs force.
Promotable(from, to, force) ==
  /\ from \in Range(project.branches) \cup EnvNames(project)
  /\ to \in EnvNames(project)
  /\ EnvOf(project, to).protected => force

Promote(from, to, force) ==
  IF Promotable(from, to, force)
  THEN /\ reload /\ UNCHANGED <<project, policy_files>>
       /\ Performed([op |-> "promote", from |-> from, env |-> to, force |-> force])
  ELSE Failed

\* The document must parse and declare the name it is stored under.
Save(name, text) ==
  IF text # Garbage /\ text.name = name
  THEN /\ policy_files' = IF name \in DOMAIN policy_files THEN [policy_files EXCEPT ![name] = text]
                    ELSE (name :> text) @@ policy_files
       /\ reload /\ Performed([op |-> "apply", name |-> name, document |-> text]) /\ UNCHANGED project
  ELSE Failed

-------------------------------------------------------------------------------
(* Keys.  Each action is one arm of handle_key and of the effect it        *)
(* returns; the arms a key cannot reach are excluded by Heard.             *)

IsCtrlC(k) == k.ctrl /\ k.code = "c"
Captured == route = "editor" /\ capture_all_keys
Digits == [d \in {"1", "2", "3", "4", "5", "6", "7"} |->
            CASE d = "1" -> "dashboard" [] d = "2" -> "diff" [] d = "3" -> "agents" [] d = "4" -> "editor"
              [] d = "5" -> "audit" [] d = "6" -> "promote" [] d = "7" -> "sync"]
Global(k) == ~k.ctrl /\ k.code \in DOMAIN Digits \cup {"q", "r"}

\* Who handles a key: the modal before the editor, the editor before the
\* global keys, and those before the view.
Heard(k) ==
  IF modal # None THEN "modal" ELSE IF Captured THEN "editor" ELSE IF Global(k) THEN "global" ELSE route

Pressed(k, handler) == ~quit /\ presses < MaxPresses /\ presses' = presses + 1 /\ ~IsCtrlC(k) /\ Heard(k) = handler
Quiet == UNCHANGED <<project, policy_files, loaded, pending, sync_busy>> /\ done' = None
NoModal == UNCHANGED <<modal, asked>>

Quit(k) ==
  /\ ~quit /\ presses < MaxPresses /\ presses' = presses + 1
  /\ IsCtrlC(k) \/ (Heard(k) = "global" /\ k.code = "q")
  /\ quit' = TRUE
  /\ UNCHANGED <<route, sel, focus, filter, editor>> /\ NoModal /\ Quiet

SwitchRoute(r) == route' = r /\ editor' = [editor EXCEPT !.editing = FALSE]

GoTo(k) ==
  /\ Pressed(k, "global") /\ k.code \in DOMAIN Digits
  /\ SwitchRoute(Digits[k.code])
  /\ UNCHANGED <<sel, focus, filter, quit>> /\ NoModal /\ Quiet

Refresh(k) ==
  /\ Pressed(k, "global") /\ k.code = "r"
  /\ reload /\ done' = None
  /\ UNCHANGED <<project, policy_files, route, focus, filter, editor, quit, pending, sync_busy>> /\ NoModal

Back(k) ==
  /\ (Pressed(k, "promote") \/ (Pressed(k, "sync") /\ ~k.ctrl)) /\ k.code = "Esc"
  /\ SwitchRoute("dashboard")
  /\ UNCHANGED <<sel, focus, filter, quit>> /\ NoModal /\ Quiet

(* Lists *)
vertical_delta(k) == IF k.code = "Up" THEN -1 ELSE 1
scroll(list, delta) ==
  LET n == Len(RowsOf(loaded, sel, list))
  IN IF n = 0 THEN 0 ELSE IF sel[list] + delta < 0 THEN 0 ELSE IF sel[list] + delta > n - 1 THEN n - 1
     ELSE sel[list] + delta

\* The list the arrows move in.
ScrolledList(view) ==
  IF view = "diff" THEN "diff" ELSE IF view = "audit" THEN "audit" ELSE IF view = "sync" THEN "remote"
  ELSE focus[view]

\* Moving to another agent starts its session list from the top.
Scroll(k, view) ==
  /\ Pressed(k, view) /\ view \in {"dashboard", "diff", "agents", "audit", "promote", "sync"}
  /\ k.code \in {"Up", "Down"} /\ (view = "sync" => ~k.ctrl)
  /\ LET l == ScrolledList(view)
     IN sel' = [sel EXCEPT ![l] = scroll(l, vertical_delta(k)), !["session"] = IF l = "agent" THEN 0
                    ELSE IF l = "session" THEN scroll(l, vertical_delta(k)) ELSE @]
  /\ UNCHANGED <<route, focus, filter, editor, quit>> /\ NoModal /\ Quiet

NextFocus == [dashboard |-> [dash_env |-> "dash_var", dash_var |-> "dash_hist", dash_hist |-> "dash_env"],
              agents |-> [agent |-> "session", session |-> "agent"],
              promote |-> [ref |-> "env", env |-> "ref"]]

Tab(k, view) ==
  /\ Pressed(k, view) /\ view \in DOMAIN NextFocus /\ k.code = "Tab"
  /\ focus' = [focus EXCEPT ![view] = NextFocus[view][@]]
  /\ UNCHANGED <<route, sel, filter, editor, quit>> /\ NoModal /\ Quiet

NextFilter == [all |-> "allow", allow |-> "deny", deny |-> "all"]

\* The filter changes and the snapshot is read again.
CycleFilter(k) ==
  /\ Pressed(k, "audit") /\ k.code = "f" /\ ~k.ctrl
  /\ filter' = NextFilter[filter]
  /\ swap_loaded([sel EXCEPT !["audit"] = 0], load(project)) /\ done' = None
  /\ UNCHANGED <<project, policy_files, route, focus, editor, quit, pending, sync_busy>> /\ NoModal

(* Destructive actions and their modal *)
Highlighted(list, rows) == IF sel[list] < Len(rows) THEN rows[sel[list] + 1] ELSE None
selected_session_id == Highlighted("session", FocusedSessions(loaded, sel))

\* What a modal may ask about (PendingAction).
PendingAction ==
  LET sessions == UNION {UNION {Range(SessionsOf(p, a)) : a \in Range(p.agents)} : p \in Projects}
      branches == UNION {Range(p.branches) : p \in Projects}
  IN [op : {"revoke"}, session : sessions]
       \cup [op : {"promote"}, from : branches, env : UNION {EnvNames(p) : p \in Projects}]
       \cup [op : {"apply"}, name : Range(PolicyNames) \cup {NewPolicy}]

ASSUME NoneIsNoQuestion ==
  None \notin PendingAction \cup [action : PendingAction, document : Texts \cup {None}]

\* What the modal shows is kept in asked, with the document to be written.
Ask(action) ==
  /\ modal' = action
  /\ asked' = IF action.op = "apply" THEN [action |-> action, document |-> effective_yaml(editor)]
              ELSE [action |-> action, document |-> None]

request_revoke_session(k) ==
  /\ Pressed(k, "agents") /\ k.code = "x" /\ focus.agents = "session" /\ selected_session_id # None
  /\ Ask([op |-> "revoke", session |-> selected_session_id])
  /\ UNCHANGED uiVarsButModal /\ Quiet

selected_promote_ref == Highlighted("ref", loaded.branches)
selected_promote_env == Highlighted("env", loaded.envs)

\* A protected target asks first; an unprotected one is promoted at once,
\* and the service refuses it if it has become protected meanwhile.
begin_promotion(k) ==
  /\ Pressed(k, "promote") /\ k.code = "Enter"
  /\ selected_promote_env # None /\ selected_promote_ref # None
  /\ LET env == selected_promote_env
         from == selected_promote_ref
     IN IF env.protected
        THEN /\ Ask([op |-> "promote", from |-> from, env |-> env.name])
             /\ UNCHANGED uiVarsButModal /\ Quiet
        ELSE /\ Promote(from, env.name, FALSE)
             /\ UNCHANGED <<route, focus, filter, editor, quit, modal, asked>>

request_apply_policy(k) ==
  /\ (Pressed(k, "editor")) /\ k.ctrl /\ k.code = "s" /\ editor.valid
  /\ Ask([op |-> "apply", name |-> editor.target])
  /\ UNCHANGED uiVarsButModal /\ Quiet

Dismiss(k) ==
  /\ Pressed(k, "modal") /\ k.code \in {"Esc", "n", "N"}
  /\ modal' = None /\ asked' = None
  /\ UNCHANGED uiVarsButModal /\ Quiet

Confirmed(k, op) == Pressed(k, "modal") /\ k.code \in {"y", "Y"} /\ modal.op = op /\ modal' = None /\ asked' = None

ConfirmRevoke(k) ==
  /\ Confirmed(k, "revoke")
  /\ revoke_session(modal.session)
  /\ UNCHANGED <<route, focus, filter, editor, quit>>

ConfirmPromote(k) ==
  /\ Confirmed(k, "promote")
  /\ Promote(modal.from, modal.env, TRUE)
  /\ UNCHANGED <<route, focus, filter, editor, quit>>

ConfirmApply(k) ==
  /\ Confirmed(k, "apply")
  /\ IF editor.valid THEN Save(editor.target, effective_yaml(editor))
     ELSE UNCHANGED sel /\ Quiet
  /\ UNCHANGED <<route, focus, filter, editor, quit>>

(* The editor *)
CaptureEsc(k) ==
  /\ Pressed(k, "editor") /\ Captured /\ k.code = "Esc"
  /\ editor' = IF editor.mode = "raw" THEN toggle_to_form(editor) ELSE [editor EXCEPT !.editing = FALSE]
  /\ UNCHANGED <<route, sel, focus, filter, quit>> /\ NoModal /\ Quiet

CaptureKey(k) ==
  /\ Pressed(k, "editor") /\ Captured /\ k.code # "Esc" /\ ~(k.ctrl /\ k.code = "s")
  /\ editor' \in editor_handle_key(editor, k)
  /\ UNCHANGED <<route, sel, focus, filter, quit>> /\ NoModal /\ Quiet

move_field_cursor(e, k) ==
  [e EXCEPT !.cursor = IF k.code = "Up" THEN IF @ = 1 THEN Len(EditableFields) ELSE @ - 1
                       ELSE IF @ = Len(EditableFields) THEN 1 ELSE @ + 1,
            !.editing = FALSE]

\* Raw mode captures every key, so `t` only ever leaves the form.
policy_editor_key(k) ==
  /\ Pressed(k, "editor") /\ ~Captured
  /\ k.code \in {"t", "Up", "Down", "Enter", "e"}
  /\ editor' = IF k.code = "t" THEN toggle_to_raw(editor)
               ELSE IF k.code \in {"Up", "Down"} THEN move_field_cursor(editor, k)
               ELSE [editor EXCEPT !.editing = TRUE]
  /\ UNCHANGED <<route, sel, focus, filter, quit>> /\ NoModal /\ Quiet

(* Background sync *)
SyncKeys == [u |-> "push", d |-> "pull", s |-> "sync"]

\* u, d and s are inert while an operation runs; a project with no remote
\* or no login fails at once.
start_sync_action(k) ==
  /\ Pressed(k, "sync") /\ ~k.ctrl /\ k.code \in DOMAIN SyncKeys /\ ~sync_busy
  /\ pending = None /\ project.remotes # << >>
  /\ pending' = SyncKeys[k.code] /\ sync_busy' = TRUE /\ done' = None
  /\ UNCHANGED <<project, policy_files, loaded, uiVars>> /\ NoModal

\* The loop settles a finished operation between two keys, also while a
\* modal is open; a pull or a sync that converged reads everything again.
poll_pending_sync(converged) ==
  /\ ~quit /\ pending # None
  /\ pending' = None /\ sync_busy' = FALSE
  /\ IF converged /\ pending \in {"pull", "sync"} THEN reload ELSE UNCHANGED <<loaded, sel>>
  /\ UNCHANGED <<project, policy_files, route, modal, focus, filter, editor, quit, presses, asked, done>>

\* Other processes, and the sync running in the background.
Others(p) ==
  /\ ~quit /\ p # project
  /\ project' = p
  /\ UNCHANGED <<policy_files, loaded, uiVars, pending, sync_busy, presses, asked, done>>

Views == {"dashboard", "diff", "agents", "editor", "audit", "promote", "sync"}

tuiNext ==
  \/ \E k \in Keys :
       \/ Quit(k) \/ GoTo(k) \/ Refresh(k) \/ Back(k) \/ CycleFilter(k)
       \/ \E v \in Views : Scroll(k, v) \/ Tab(k, v)
       \/ request_revoke_session(k) \/ begin_promotion(k) \/ request_apply_policy(k)
       \/ Dismiss(k) \/ ConfirmRevoke(k) \/ ConfirmPromote(k) \/ ConfirmApply(k)
       \/ CaptureEsc(k) \/ CaptureKey(k) \/ policy_editor_key(k) \/ start_sync_action(k)
  \/ \E c \in BOOLEAN : poll_pending_sync(c)
  \/ \E p \in Projects : Others(p)

tuiSpec == tuiInit /\ [][tuiNext]_tuiVars

-------------------------------------------------------------------------------
(* What is drawn: for every list of a view its rows and the row            *)
(* highlighted, counted from 0.                                            *)

Pane(list) == [list |-> list, rows |-> RowsOf(loaded, sel, list), at |-> sel[list]]

render_dashboard == {Pane("dash_env"), Pane("dash_var"), Pane("dash_hist")}

\* The diff view clamps for itself; its detail pane indexes the line.
selected_index(selected, n) == Clamp(selected, n)
render_diff == {[Pane("diff") EXCEPT !.at = selected_index(@, Len(loaded.diff))]}

\* The agent detail shows the status of the selected session.
render_agents == {Pane("agent"), Pane("session")}

render_policy_editor == {[list |-> "field", rows |-> EditableFields, at |-> editor.cursor - 1]}
render_audit == {Pane("audit")}
render_promote == {Pane("ref"), Pane("env")}
render_sync == {Pane("remote")}

\* What Enter would promote right now.
promotion_target_line ==
  IF selected_promote_ref # None /\ selected_promote_env # None
  THEN [from |-> selected_promote_ref, env |-> selected_promote_env] ELSE None

render ==
  IF route = "dashboard" THEN render_dashboard ELSE IF route = "diff" THEN render_diff
  ELSE IF route = "agents" THEN render_agents ELSE IF route = "editor" THEN render_policy_editor
  ELSE IF route = "audit" THEN render_audit ELSE IF route = "promote" THEN render_promote
  ELSE render_sync

-------------------------------------------------------------------------------
(* Properties *)

\* PLAN.md "destructive actions require explicit confirmation", across the
\* reloads, settled syncs and changes by other processes that can fall between
\* the question and the answer: the session revoked, the document written and
\* the protected environment moved are the ones the modal showed when it
\* opened, and an environment that has become protected since the snapshot was
\* taken is not moved without a question; one that is moved without a question
\* is the one the promotion line names.
ConfirmedAsShown ==
  [][presses' # presses /\ done' # None =>
       /\ done'.op = "revoke" => asked # None /\ asked.action = done'
       /\ done'.op = "apply" => /\ asked # None /\ asked.action = [op |-> "apply", name |-> done'.name]
                                /\ asked.document = done'.document
       /\ done'.op = "promote" =>
            IF EnvOf(project, done'.env).protected \/ asked # None
            THEN asked # None /\ asked.action = [op |-> "promote", from |-> done'.from, env |-> done'.env]
            ELSE /\ promotion_target_line.from = done'.from
                 /\ promotion_target_line.env.name = done'.env
    ]_tuiVars

\* state.rs:1199 "a shrinking snapshot never strands an index outside its
\* list": whatever the user selects and whatever a refresh, a settled sync or
\* an effect loads, the highlighted row of every list those clamps cover (and
\* the line the diff view indexes) exists.
HighlightedRowExists ==
  \A p \in render \ render_dashboard : p.rows # << >> => p.at < Len(p.rows)

\* state.rs:777 "Raw-mode edits win once the user switches modes": the document
\* the form holds after raw text has been taken into it is the one the raw text
\* said.
RawEditsWin ==
  [][editor.mode = "raw" /\ editor'.mode = "form" => effective_yaml(editor') = editor.raw]_tuiVars
===============================================================================
