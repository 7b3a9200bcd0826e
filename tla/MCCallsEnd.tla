------------------------------- MODULE MCCallsEnd -------------------------------
(***************************************************************************)
(* Progress of the two request loops that never share a step, in one       *)
(* model: a behaviour is one of the broker engine, over its own session    *)
(* store, or one of the callers of the session file.                       *)
(***************************************************************************)
EXTENDS MCBrokerEngine

CONSTANT Procs      \* callers of the session file

VARIABLES part, file, lock, step, snap, doing, minted, spent, acked

fileVars == <<file, lock, step, snap, doing, minted, spent, acked>>

SessionFile == INSTANCE FileSessionStore WITH
  pc <- step, SessionIds <- {root, kid},
  Requested <- {[sets |-> [d \in MCSetDims |-> {"n1"}], paths |-> None, remaining |-> 1]}

PartInit == part \in {"engine", "session file"} /\ Init /\ SessionFile!Init

PartNext ==
  /\ UNCHANGED part
  /\ \/ part = "engine" /\ Next /\ UNCHANGED fileVars
     \/ part = "session file" /\ SessionFile!Next /\ UNCHANGED vars

\* Each part's own fairness: the other part has no call to make progress with.
PartSpec ==
  /\ PartInit /\ [][PartNext]_<<part, vars, fileVars>>
  /\ \A c \in Calls : WF_vars(Stage(c))
  /\ SessionFile!Fairness

\* session.rs:1696 "Blocking acquire": every call of the session file ends,
\* although a holder of the lock may crash at any point.
EveryCallEnds == SessionFile!EveryCallEnds
===============================================================================
