------------------------------ MODULE TextLines ------------------------------
(***************************************************************************)
(* The lines the edit and the patch engine of a run work on (core/edit,    *)
(* core/patch): a line is its indentation in spaces, its text, and whether *)
(* blanks follow it.                                                       *)
(***************************************************************************)
EXTENDS Integers, Sequences

Line(in, word) == [in |-> in, word |-> word, tail |-> FALSE]
NoWord == ""
Blank == Line(0, NoWord)
IsBlank(line) == line.word = NoWord

(* strings.TrimRight and strings.TrimSpace.                                *)
RTrim(line) == IF IsBlank(line) THEN Blank ELSE [line EXCEPT !.tail = FALSE]
Trim(line) == Line(0, line.word)

(* The n lines of a text from the i-th, where n lines can be, and the text *)
(* with others in their place.                                             *)
SpanAt(whole, i, n) == SubSeq(whole, i, i + n - 1)
Starts(whole, n) == 1..Len(whole) - n + 1
PutAt(whole, i, n, new) == SubSeq(whole, 1, i - 1) \o new \o SubSeq(whole, i + n, Len(whole))

=============================================================================
