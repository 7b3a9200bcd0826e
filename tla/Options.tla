-------------------------------- MODULE Options --------------------------------
(***************************************************************************)
(* What every module has of Rust's library: Option, which is None beside   *)
(* the values of a set, and the filtering of a sequence.                   *)
(***************************************************************************)
EXTENDS Naturals, Sequences

CONSTANT None

Option(S) == S \cup {None}

\* Iterator::filter: the elements of s that are in S, in their order.  (A
\* recursive function, where SelectSeq would do: proofs reason about it.)
Filtered(s, S) ==
  LET filtered[n \in 0..Len(s)] ==
        IF n = 0 THEN << >>
        ELSE IF s[n] \in S THEN Append(filtered[n - 1], s[n]) ELSE filtered[n - 1]
  IN filtered[Len(s)]
===============================================================================
