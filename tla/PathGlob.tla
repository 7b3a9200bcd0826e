------------------------------- MODULE PathGlob -------------------------------
(***************************************************************************)
(* The segment-oriented path patterns of policies and delegations:         *)
(* crates/vaultx-policy/src/matcher.rs and `glob_subsumes` of              *)
(* crates/vaultx-broker/src/session.rs.                                    *)
(*                                                                         *)
(* A pattern or a path is its list of '/'-separated segments, which is     *)
(* what `split_segments` yields: never empty, the bare "/" being the one   *)
(* empty segment.  A segment is a string compared whole; only "", "*",     *)
(* "**" and ".." have a meaning of their own.  `rooted` says whether the   *)
(* text began with '/'.                                                    *)
(***************************************************************************)
EXTENDS Naturals, Sequences

\* The text of a pattern or of a request path.
Text(segs) == [rooted |-> TRUE, segs |-> segs]

(***************************************************************************)
(* matcher.rs: validate_pattern.  A valid pattern is rooted, has no empty  *)
(* and no ".." segment, and uses "**" in last place only.                  *)
(***************************************************************************)
validate_pattern(pattern) ==
  /\ pattern.rooted
  /\ \A i \in 1..Len(pattern.segs) :
       /\ pattern.segs[i] \notin {"", ".."}
       /\ pattern.segs[i] = "**" => i = Len(pattern.segs)

segment_matches(pattern_segment, path_segment) ==
  IF pattern_segment = "*" THEN path_segment # "" ELSE pattern_segment = path_segment

\* True when the pattern ends in "**", which stands for any further segments.
Starred(segs) == segs # <<>> /\ segs[Len(segs)] = "**"

\* The segments before a trailing "**".
Prefix(segs) == IF Starred(segs) THEN SubSeq(segs, 1, Len(segs) - 1) ELSE segs

(***************************************************************************)
(* matcher.rs: match_segments consumes pattern and path in step, accepts   *)
(* when it reaches "**", and otherwise accepts when both end together.     *)
(* Written without the recursion: the prefix must match segment by         *)
(* segment, and only "**" lets the path be longer.                         *)
(***************************************************************************)
match_segments(pattern, path) ==
  LET prefix == Prefix(pattern) IN
  /\ IF Starred(pattern) THEN Len(path) >= Len(prefix) ELSE Len(path) = Len(prefix)
  /\ \A i \in 1..Len(prefix) : segment_matches(prefix[i], path[i])

path_matches(pattern, path) ==
  validate_pattern(pattern) /\ match_segments(pattern.segs, path.segs)

-------------------------------------------------------------------------------
\* Mutant of covered_prefix: a "*" of the child is covered by any literal.
covered_prefix_either(p_segments, c_segments) ==
  \A i \in 1..Len(p_segments) :
    i <= Len(c_segments) => c_segments[i] = "*" \/ p_segments[i] \in {"*", c_segments[i]}

(***************************************************************************)
(* session.rs: glob_subsumes(parent, child) decides whether a delegated    *)
(* child may keep `child` under a parent that holds `parent`.  Invalid     *)
(* patterns never subsume; "/**" subsumes everything and is subsumed only  *)
(* by itself; an open-ended parent accepts any extension of its prefix;    *)
(* an open-ended child never fits a fixed-length parent.                   *)
(***************************************************************************)
covered_prefix(p_segments, c_segments) ==
  \A i \in 1..Len(p_segments) :
    i <= Len(c_segments) => p_segments[i] \in {"*", c_segments[i]}

glob_subsumes(parent, child) ==
  LET p_segments == Prefix(parent.segs)
      c_segments == Prefix(child.segs)
      p_star == Starred(parent.segs)
      c_star == Starred(child.segs)
  IN /\ validate_pattern(parent)
     /\ validate_pattern(child)
     /\ \/ p_segments = <<>> /\ p_star
        \/ /\ ~(c_segments = <<>> /\ c_star)
           /\ covered_prefix(p_segments, c_segments)
           /\ \/ ~p_star /\ ~c_star /\ Len(p_segments) = Len(c_segments)
              \/ p_star /\ Len(c_segments) >= Len(p_segments)
===============================================================================
