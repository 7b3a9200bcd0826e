------------------------------- MODULE MCComponents -----------------------------
(***************************************************************************)
(* The components that share no state with one another, in one model: a    *)
(* behaviour is a behaviour of one of them, the part, while the others     *)
(* stay in their initial state.                                            *)
(***************************************************************************)
EXTENDS MCInputs, AuditLog, ReplayCache, SyncFiles,
        MCTui, TextBuffer, ProjectKeys

-------------------------------------------------------------------------------
(***************************************************************************)
(* PathGlob over every pair of patterns and every path that can be written *)
(* with the segments of Alphabet, up to MaxPattern and MaxPath segments.   *)
(* The one step draws a pair of patterns; the properties quantify over the *)
(* paths.                                                                  *)
(***************************************************************************)
CONSTANTS
  Segments,       \* ordinary segments
  MaxPattern,     \* bound on the segments of a pattern
  MaxPath         \* bound on the segments of a path

ASSUME BoundsPositive == MaxPattern \in Nat \ {0} /\ MaxPath \in Nat \ {0}

Alphabet == Segments \cup {"", "*", "**", ".."}

NonEmptySeqs(S, n) == UNION {[1..k -> S] : k \in 1..n}

PatternTexts == [rooted : BOOLEAN, segs : NonEmptySeqs(Alphabet, MaxPattern)]

\* Canonical request paths hold no "." or ".." segment; the matcher never
\* gives "*" or "**" a meaning in a path, so one such literal is kept.
PathTexts == {Text(s) : s \in NonEmptySeqs(Segments \cup {"", "*"}, MaxPath)}

VARIABLES broader, narrower, drawn

globVars == <<broader, narrower, drawn>>

globInit == broader = Text(<<"">>) /\ narrower = Text(<<"">>) /\ drawn = FALSE

DrawPatterns ==
  /\ ~drawn
  /\ broader' \in PatternTexts
  /\ narrower' \in PatternTexts
  /\ drawn' = TRUE

globNext == DrawPatterns

globSpec == globInit /\ [][globNext]_globVars

-------------------------------------------------------------------------------
\* The language of a pattern, over the bounded paths.
Language(pattern) == {path \in PathTexts : path_matches(pattern, path)}

(***************************************************************************)
(* matcher.rs `match_segments` as it is written there: peel one segment    *)
(* off both lists at a time.                                               *)
(***************************************************************************)
RECURSIVE MatchPeeling(_, _)
MatchPeeling(pattern, path) ==
  IF pattern = <<>> THEN path = <<>>
  ELSE \/ Head(pattern) = "**"
       \/ /\ path # <<>>
          /\ segment_matches(Head(pattern), Head(path))
          /\ MatchPeeling(Tail(pattern), Tail(path))

\* The index form used by the proofs decides every valid pattern and path as
\* the recursive matcher of matcher.rs:60 does.
MatcherAgrees ==
  validate_pattern(narrower) =>
    \A path \in PathTexts :
      match_segments(narrower.segs, path.segs) = MatchPeeling(narrower.segs, path.segs)

\* session.rs:247 "True when every path matched by `child_pattern` is also
\* matched by `parent_pattern`": what a delegated child may keep never
\* reaches a path its parent could not.
SubsumptionSound ==
  glob_subsumes(broader, narrower) => Language(narrower) \subseteq Language(broader)

\* The converse: narrow_paths drops a requested pattern only when it reaches a
\* path the parent pattern does not, so a delegation that is genuinely
\* narrower is never lost.
SubsumptionComplete ==
  (/\ validate_pattern(broader) /\ validate_pattern(narrower)
   /\ Language(narrower) \subseteq Language(broader))
  => glob_subsumes(broader, narrower)

(***************************************************************************)
(* matcher.rs:60 and session.rs:247 together: the matcher decides as the   *)
(* recursive one does, and a delegated pattern is kept exactly when the    *)
(* parent pattern reaches every path it reaches.                           *)
(***************************************************************************)
GlobsExact == drawn => MatcherAgrees /\ SubsumptionSound /\ SubsumptionComplete

-------------------------------------------------------------------------------
VARIABLE part

OneHandle == [w \in Writers |-> CHOOSE h \in Handles : TRUE]
SeedBuffers == {<< >>, <<<<"a">>, <<"b", "a">>>>}

componentVars ==
  <<globVars, vars, logVars, replayVars, outVars, polVars, vaultVars,
    adminVars, fileVars, tuiVars, buf, diffVars, packVars, agentVars, mcpVars,
    recoverVars, variableVars, keyVars, redactVars>>

ComponentsInit ==
  /\ part \in {"globs", "sessions", "audit", "replay", "outbound", "policy", "vault", "admin",
               "sync files", "tui", "text", "diff", "packs", "agents", "mcp",
               "recovery", "variables", "keys", "redaction"}
  /\ globInit
  /\ Init
  /\ LogInit
  /\ ReplayInit
  /\ outInit /\ (part = "outbound" \/ req = CHOOSE r \in Outbound : TRUE)
  /\ polInit
  /\ VaultInit
  /\ adminInit
  /\ FilesInit
  /\ tuiInit /\ (part = "tui" \/ ((project = CHOOSE p \in Projects : TRUE) /\ StoredNames = << >>))
  /\ textInit /\ (part = "text" \/ buf = from_text(<< >>))
  /\ diffInit
  /\ packInit
  /\ agentInit
  /\ mcpInit
  /\ recoverInit /\ (part = "recovery" \/ refs = [r \in Refs |-> 1])
  /\ variablesInit
  /\ keysInit
  /\ redactInit

ComponentsNext ==
  /\ UNCHANGED part
  /\ \/ part = "globs" /\ globNext
        /\ UNCHANGED <<vars, logVars, replayVars, outVars, polVars, vaultVars,
                       adminVars, fileVars, tuiVars, buf, diffVars, packVars,
                       agentVars, mcpVars, recoverVars, variableVars, keyVars,
                       redactVars>>
     \/ part = "sessions" /\ Next
        /\ UNCHANGED <<globVars, logVars, replayVars, outVars, polVars, vaultVars,
                       adminVars, fileVars, tuiVars, buf, diffVars, packVars,
                       agentVars, mcpVars, recoverVars, variableVars, keyVars,
                       redactVars>>
     \/ part = "audit" /\ LogNext
        /\ UNCHANGED <<globVars, vars, replayVars, outVars, polVars,
                       vaultVars, adminVars, fileVars, tuiVars, buf, diffVars,
                       packVars, agentVars, mcpVars, recoverVars, variableVars,
                       keyVars, redactVars>>
     \/ part = "replay" /\ ReplayNext
        /\ UNCHANGED <<globVars, vars, logVars, outVars, polVars, vaultVars,
                       adminVars, fileVars, tuiVars, buf, diffVars, packVars,
                       agentVars, mcpVars, recoverVars, variableVars, keyVars,
                       redactVars>>
     \/ part = "outbound" /\ outNext
        /\ UNCHANGED <<globVars, vars, logVars, replayVars, polVars,
                       vaultVars, adminVars, fileVars, tuiVars, buf, diffVars,
                       packVars, agentVars, mcpVars, recoverVars, variableVars,
                       keyVars, redactVars>>
     \/ part = "policy" /\ polNext
        /\ UNCHANGED <<globVars, vars, logVars, replayVars, outVars,
                       vaultVars, adminVars, fileVars, tuiVars, buf, diffVars,
                       packVars, agentVars, mcpVars, recoverVars, variableVars,
                       keyVars, redactVars>>
     \/ part = "vault" /\ VaultNext
        /\ UNCHANGED <<globVars, vars, logVars, replayVars, outVars, polVars,
                       adminVars, fileVars, tuiVars, buf, diffVars, packVars,
                       agentVars, mcpVars, recoverVars, variableVars, keyVars,
                       redactVars>>
     \/ part = "admin" /\ adminNext
        /\ UNCHANGED <<globVars, vars, logVars, replayVars, outVars, polVars,
                       vaultVars, fileVars, tuiVars, buf, diffVars, packVars,
                       agentVars, mcpVars, recoverVars, variableVars, keyVars,
                       redactVars>>
     \/ part = "sync files" /\ FilesNext
        /\ UNCHANGED <<globVars, vars, logVars, replayVars, outVars, polVars,
                       vaultVars, adminVars, tuiVars, buf, diffVars, packVars,
                       agentVars, mcpVars, recoverVars, variableVars, keyVars,
                       redactVars>>
     \/ part = "tui" /\ tuiNext
        /\ UNCHANGED <<globVars, vars, logVars, replayVars, outVars, polVars,
                       vaultVars, adminVars, fileVars, buf, diffVars, packVars,
                       agentVars, mcpVars, recoverVars, variableVars, keyVars,
                       redactVars>>
     \/ part = "text" /\ textNext
        /\ UNCHANGED <<globVars, vars, logVars, replayVars, outVars, polVars,
                       vaultVars, adminVars, fileVars, tuiVars, diffVars, packVars,
                       agentVars, mcpVars, recoverVars, variableVars, keyVars,
                       redactVars>>
     \/ part = "diff" /\ diffNext
        /\ UNCHANGED <<globVars, vars, logVars, replayVars, outVars, polVars,
                       vaultVars, adminVars, fileVars, tuiVars, buf, packVars,
                       agentVars, mcpVars, recoverVars, variableVars, keyVars,
                       redactVars>>
     \/ part = "packs" /\ packNext
        /\ UNCHANGED <<globVars, vars, logVars, replayVars, outVars, polVars,
                       vaultVars, adminVars, fileVars, tuiVars, buf, diffVars,
                       agentVars, mcpVars, recoverVars, variableVars, keyVars,
                       redactVars>>
     \/ part = "agents" /\ agentNext
        /\ UNCHANGED <<globVars, vars, logVars, replayVars, outVars, polVars,
                       vaultVars, adminVars, fileVars, tuiVars, buf, diffVars,
                       packVars, mcpVars, recoverVars, variableVars, keyVars,
                       redactVars>>
     \/ part = "mcp" /\ mcpNext
        /\ UNCHANGED <<globVars, vars, logVars, replayVars, outVars, polVars,
                       vaultVars, adminVars, fileVars, tuiVars, buf, diffVars,
                       packVars, agentVars, recoverVars, variableVars, keyVars,
                       redactVars>>
     \/ part = "recovery" /\ recoverNext
        /\ UNCHANGED <<globVars, vars, logVars, replayVars, outVars, polVars,
                       vaultVars, adminVars, fileVars, tuiVars, buf, diffVars,
                       packVars, agentVars, mcpVars, variableVars, keyVars,
                       redactVars>>
     \/ part = "variables" /\ variablesNext
        /\ UNCHANGED <<globVars, vars, logVars, replayVars, outVars, polVars,
                       vaultVars, adminVars, fileVars, tuiVars, buf, diffVars,
                       packVars, agentVars, mcpVars, recoverVars, keyVars,
                       redactVars>>
     \/ part = "keys" /\ keysNext
        /\ UNCHANGED <<globVars, vars, logVars, replayVars, outVars, polVars,
                       vaultVars, adminVars, fileVars, tuiVars, buf, diffVars,
                       packVars, agentVars, mcpVars, recoverVars, variableVars,
                       redactVars>>
     \/ part = "redaction" /\ redactNext
        /\ UNCHANGED <<globVars, vars, logVars, replayVars, outVars, polVars,
                       vaultVars, adminVars, fileVars, tuiVars, buf, diffVars,
                       packVars, agentVars, mcpVars, recoverVars, variableVars,
                       keyVars>>

ComponentsSpec == ComponentsInit /\ [][ComponentsNext]_<<part, componentVars>>
===============================================================================
