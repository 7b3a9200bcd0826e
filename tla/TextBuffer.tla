------------------------------ MODULE TextBuffer ------------------------------
(***************************************************************************)
(* The caret-anchored text buffer of the terminal UI's policy editor       *)
(* (vaultx-tui/src/state.rs, TextBuffer).  Every operation indexes the     *)
(* line of the caret, so a caret outside the text would abort the UI.      *)
(* Rows and columns count from 0 as in the source.                         *)
(***************************************************************************)
EXTENDS TuiApp

CONSTANTS
  Chars,        \* the characters typed
  MaxChars,     \* bound on the characters and lines of the text
  SeedTexts     \* texts an editor is opened on: sequences of lines

ASSUME TextsAreTyped == SeedTexts \subseteq Seq(Seq(Chars))

VARIABLE buf     \* lines, row and column of the caret

Line(b) == b.lines[b.row + 1]
Min2(a, b) == IF a < b THEN a ELSE b
Max0(a) == IF a < 0 THEN 0 ELSE a
Size(b) == Len(b.lines) + FoldLeft(LAMBDA n, l : n + Len(l), 0, b.lines)

from_text(lines) == [lines |-> IF lines = << >> THEN << << >> >> ELSE lines, row |-> 0, col |-> 0]

clamp_caret(b) ==
  LET r == Min2(b.row, Len(b.lines) - 1)
  IN [b EXCEPT !.row = r, !.col = Min2(@, Len(b.lines[r + 1]))]

insert_char(b, c) ==
  [b EXCEPT !.lines[b.row + 1] = InsertAt(@, b.col + 1, c), !.col = @ + 1]

\* At column 0 the line is joined to the one above, the caret at the seam.
backspace(b) ==
  IF b.col > 0 THEN [b EXCEPT !.lines[b.row + 1] = RemoveAt(@, b.col), !.col = @ - 1]
  ELSE IF b.row > 0
  THEN [lines |-> RemoveAt([b.lines EXCEPT ![b.row] = @ \o Line(b)], b.row + 1), row |-> b.row - 1,
        col |-> Len(b.lines[b.row])]
  ELSE b

delete(b) ==
  IF b.col < Len(Line(b)) THEN [b EXCEPT !.lines[b.row + 1] = RemoveAt(@, b.col + 1)]
  ELSE IF b.row + 1 < Len(b.lines)
  THEN [b EXCEPT !.lines = RemoveAt([b.lines EXCEPT ![b.row + 1] = @ \o b.lines[b.row + 2]], b.row + 2)]
  ELSE b

newline(b) ==
  [lines |-> InsertAt([b.lines EXCEPT ![b.row + 1] = SubSeq(@, 1, b.col)], b.row + 2,
                      SubSeq(Line(b), b.col + 1, Len(Line(b)))),
   row |-> b.row + 1, col |-> 0]

\* Left of column 0 is the end of the line above, right of the end the start
\* of the line below.
move_horizontal(b, delta) ==
  clamp_caret(
    IF delta = -1 /\ b.col = 0 /\ b.row > 0
    THEN [b EXCEPT !.row = @ - 1, !.col = Len(b.lines[b.row])]
    ELSE IF delta = 1 /\ b.col = Len(Line(b)) /\ b.row + 1 < Len(b.lines)
    THEN [b EXCEPT !.row = @ + 1, !.col = 0]
    ELSE [b EXCEPT !.col = Max0(@ + delta)])

move_vertical(b, delta) == clamp_caret([b EXCEPT !.row = Max0(@ + delta)])

textInit == \E t \in SeedTexts : buf = from_text(t)

textNext ==
  \/ \E c \in Chars : Size(buf) < MaxChars /\ buf' = (insert_char(buf, c))
  \/ Size(buf) < MaxChars /\ buf' = (newline(buf))
  \/ buf' = (backspace(buf))
  \/ buf' = (delete(buf))
  \/ \E d \in {-1, 1} : buf' = (move_horizontal(buf, d)) \/ buf' = (move_vertical(buf, d))

textSpec == textInit /\ [][textNext]_buf

-------------------------------------------------------------------------------
InText(b) == b.row \in 0..(Len(b.lines) - 1) /\ b.col \in 0..Len(Line(b))

\* Whatever is typed, joined, split and moved over, the caret stays inside the
\* text, where every operation may index it; and backspace takes back what was
\* just typed or split, caret included, so that no edit lands beside the caret.
CaretInText ==
  /\ InText(buf)
  /\ \A c \in Chars : backspace(insert_char(buf, c)) = buf
  /\ backspace(newline(buf)) = buf
  /\ buf.col < Len(Line(buf)) \/ buf.row + 1 < Len(buf.lines) =>
       delete(buf) = backspace(move_horizontal(buf, 1))

\* The terminal UI as a whole (state.rs): what the user confirms is what was shown, the
\* highlighted row exists, and the caret stays in the text.
TuiFaithful == []HighlightedRowExists /\ []CaretInText /\ ConfirmedAsShown
===============================================================================
