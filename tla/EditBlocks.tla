----------------------------- MODULE EditBlocks -----------------------------
(***************************************************************************)
(* The edit tool of a run (core/tool/edit.go).  SEARCH/REPLACE blocks are  *)
(* read off the agent's text (core/edit/parser.go); the lines a block      *)
(* searches for are looked for in its file, exactly and then more and more *)
(* loosely, and replaced (core/edit/match.go).                             *)
(*                                                                         *)
(* A file, and the agent's text, is a sequence of lines; each ends with a  *)
(* newline, which the engine adds to a last line without one.              *)
(***************************************************************************)
EXTENDS TextLines, FiniteSetsExt, SequencesExt

CONSTANTS
    EditFiles,  \* the files of the workspace, by their paths
    Dotted,     \* other texts with a dot or a slash
    Gone,       \* the content of a file that does not exist
    Trees,      \* bound: what the files may hold at first
    EditLists   \* bound: what an agent may want to edit in one call

(* findFilename looks at so many lines before a block.                     *)
NameLines == 3

(* The texts of lines; those of the marks and of a fence by name.           *)
Words == STRING \cup {NoWord, "SEARCH", "DIVIDER", "REPLACE", "~~~"}
TextLine == [in : Nat, word : Words, tail : BOOLEAN]

(* What an agent wants of a block, see Printed: its lines are no marks, an *)
(* indentation that it gets wrong is still one, and the path of the file   *)
(* is close enough to the block or is that of the block before.            *)
Wish == [file : EditFiles, old : Seq(TextLine), new : Seq(TextLine), shift : Int, trim : BOOLEAN,
         named : BOOLEAN, gap : 0..NameLines - 1]
IsPlain(lines, shift) ==
    \A j \in DOMAIN lines :
        /\ lines[j].word \notin {"SEARCH", "DIVIDER", "REPLACE"}
        /\ lines[j].word # NoWord => lines[j].in + shift \in Nat
IsList(list) ==
    /\ list \in Seq(Wish)
    /\ \A k \in DOMAIN list :
          /\ IsPlain(list[k].old, list[k].shift) /\ IsPlain(list[k].new, list[k].shift)
          /\ list[k].named \/ (k # 1 /\ list[k].file = list[k - 1].file)

ASSUME BlocksAssumption ==
    /\ EditFiles \cup Dotted \subseteq Words \ {NoWord, "SEARCH", "DIVIDER", "REPLACE", "~~~"}
    /\ Trees \subseteq [EditFiles -> {Gone} \cup Seq(TextLine)]
    /\ \A list \in EditLists : list # <<>> /\ IsList(list)

VARIABLES
    tree,   \* the files
    wants,  \* history: the edits the agent wants, see Printed
    sheet,  \* the blocks that were read
    fate,   \* how each block so far ended
    was     \* history: the file before the last block

blockVars == <<tree, wants, sheet, fate, was>>

HeadMark == Line(0, "SEARCH")
Divider == Line(0, "DIVIDER")
EndMark == Line(0, "REPLACE")
Marks == {HeadMark, Divider, EndMark}
Fence == Line(0, "~~~")

(* ----------------------------- the parser ------------------------------ *)

(* findFilename: of the lines before, the last that could be a path. *)
FindFilename(lines, i) ==
    LET at == SelectLastInSubSeq(lines, IF i > NameLines THEN i - NameLines ELSE 1, i - 1,
                                 LAMBDA l : l.word \in EditFiles \cup Dotted)
    IN  IF at = 0 THEN NoWord ELSE lines[at].word

Fresh(p) == [p EXCEPT !.search = <<>>, !.replace = <<>>]

(* Each line comes with the path that the lines before it give.            *)
ReadLine(p, next) ==
    LET line == next.line
    IN  CASE p.mode = "outside" /\ line = HeadMark ->
               IF next.name = NoWord /\ p.file = NoWord THEN [p EXCEPT !.mode = "error"]
               ELSE [p EXCEPT !.mode = "search", !.file = IF next.name = NoWord THEN @ ELSE next.name]
          [] p.mode = "search" /\ line = Divider -> [p EXCEPT !.mode = "replace"]
          [] p.mode = "replace" /\ line = EndMark ->
               [Fresh(p) EXCEPT !.mode = "outside",
                                !.blocks = Append(@, [file |-> p.file, search |-> p.search, replace |-> p.replace])]
          [] \/ p.mode = "search" /\ line \in {HeadMark, EndMark}
             \/ p.mode = "replace" /\ line \in {HeadMark, Divider} -> [p EXCEPT !.mode = "error"]
          [] p.mode = "search" /\ line \notin Marks -> [p EXCEPT !.search = Append(@, line)]
          [] p.mode = "replace" /\ line \notin Marks -> [p EXCEPT !.replace = Append(@, line)]
          [] OTHER -> p

(* Parse: the blocks up to the first that is malformed. *)
Outset == [mode |-> "outside", file |-> NoWord, search |-> <<>>, replace |-> <<>>, blocks |-> <<>>]
Listing(lines) == [i \in DOMAIN lines |-> [line |-> lines[i], name |-> FindFilename(lines, i)]]
Parse(lines) == FoldLeft(ReadLine, Outset, Listing(lines)).blocks

(* ----------------------------- the engine ------------------------------ *)

Inked(lines) == {j \in DOMAIN lines : ~IsBlank(lines[j])}

(* commonLeadingCount, stripLeadingN and the adding of an indentation.     *)
Lead(lines) == IF Inked(lines) = {} THEN 0 ELSE Min({lines[j].in : j \in Inked(lines)})
Shift(lines, d) == [j \in DOMAIN lines |-> IF IsBlank(lines[j]) THEN lines[j] ELSE [lines[j] EXCEPT !.in = @ + d]]

(* matchButForLeadingWS: the same but for one indentation that is added.   *)
Added(chunk, part) == {chunk[j].in - part[j].in : j \in Inked(chunk)}
LeadingMatch(chunk, part) ==
    /\ \A j \in DOMAIN part : chunk[j].word = part[j].word /\ chunk[j].tail = part[j].tail
    /\ \A c, d \in Added(chunk, part) : c = d /\ c >= 0

TrailingMatch(chunk, part) == \A j \in DOMAIN part : RTrim(chunk[j]) = RTrim(part[j])

(* A faulty variant: the indentation is added to what had kept its own.    *)
Reindented_Twice(new, lead, chunk, part) ==
    IF Added(chunk, part) = {} THEN new ELSE Shift(new, Max(Added(chunk, part)))

Reindented(new, lead, chunk, part) ==
    IF Added(chunk, part) = {} THEN Shift(new, -lead) ELSE Shift(new, Max(Added(chunk, part)) - lead)

(* Replace: the first place of the first tier that has one.  Which span,   *)
(* if any, is the most similar one is left open.                           *)
ReplaceIn(whole, part, new) ==
    LET n == Len(part)
        lead == Lead(part \o new)
        bare == Shift(part, -lead)
        exact == {i \in Starts(whole, n) : SpanAt(whole, i, n) = part}
        leading == {i \in Starts(whole, n) : LeadingMatch(SpanAt(whole, i, n), bare)}
        trailing == {i \in Starts(whole, n) : TrailingMatch(SpanAt(whole, i, n), part)}
        like == Max({1, (9 * n) \div 10})..((11 * n) \div 10) + 1
        Put(tier, i, length, text) == [tier |-> tier, lines |-> PutAt(whole, i, length, text)]
    IN  CASE exact # {} -> {Put("exact", Min(exact), n, new)}
          [] exact = {} /\ leading # {} ->
               LET i == Min(leading)
               IN  {Put("leading_ws", i, n, Reindented(new, lead, SpanAt(whole, i, n), bare))}
          [] exact \cup leading = {} /\ trailing # {} -> {Put("trailing_ws", Min(trailing), n, new)}
          [] OTHER -> {[tier |-> "none", lines |-> whole]}
                      \cup UNION {{Put("fuzzy", i, length, new) : i \in Starts(whole, length)} : length \in like}

(* ------------------------------ the tool ------------------------------- *)

(* What the agent writes: a path, maybe a line or two, the lines it means  *)
(* to replace and those it puts there.  It may leave the path to the block *)
(* before, and get the indentation wrong or blanks at the ends of lines.   *)
Trimmed(lines) == [j \in DOMAIN lines |-> [lines[j] EXCEPT !.tail = FALSE]]
Searched(e) == IF e.trim THEN Trimmed(Shift(e.old, e.shift)) ELSE Shift(e.old, e.shift)
Written(e) == Shift(e.new, e.shift)
Printed(e) ==
    (IF e.named THEN <<Line(0, e.file)>> \o [k \in 1..e.gap |-> Fence] ELSE <<>>)
    \o <<HeadMark>> \o Searched(e) \o <<Divider>> \o Written(e) \o <<EndMark>>
TextOf(list) == FlattenSeq([k \in DOMAIN list |-> Printed(list[k])])

BlocksInit ==
    /\ tree \in Trees
    /\ wants = <<>> /\ sheet = <<>> /\ fate = <<>> /\ was = Gone

CallEdit(list) ==
    /\ wants' = list /\ sheet' = Parse(TextOf(list))
    /\ UNCHANGED <<tree, fate, was>>

NextBlock == sheet[Len(fate) + 1]
Known(file) == file \in EditFiles /\ tree[file] # Gone

(* A file that cannot be read costs its block; the others go on. *)
SkipBlock ==
    /\ Len(fate) < Len(sheet) /\ ~Known(NextBlock.file)
    /\ fate' = Append(fate, "unread") /\ was' = Gone
    /\ UNCHANGED <<tree, wants, sheet>>

ApplyBlock ==
    /\ Len(fate) < Len(sheet) /\ Known(NextBlock.file)
    /\ was' = tree[NextBlock.file]
    /\ \E r \in ReplaceIn(was', NextBlock.search, NextBlock.replace) :
         /\ tree' = [tree EXCEPT ![NextBlock.file] = r.lines]
         /\ fate' = Append(fate, r.tier)
    /\ UNCHANGED <<wants, sheet>>

(* os.WriteFile may fail before it empties the file or behind. *)
FailBlock ==
    /\ Len(fate) < Len(sheet) /\ Known(NextBlock.file)
    /\ was' = tree[NextBlock.file]
    /\ \E r \in ReplaceIn(was', NextBlock.search, NextBlock.replace) : r.tier # "none"
    /\ \E left \in {was', <<>>} : tree' = [tree EXCEPT ![NextBlock.file] = left]
    /\ fate' = Append(fate, "unwritten")
    /\ UNCHANGED <<wants, sheet>>

BlocksNext ==
    \/ wants = <<>> /\ \E list \in EditLists : CallEdit(list)
    \/ SkipBlock \/ ApplyBlock \/ FailBlock

BlocksSpec == BlocksInit /\ [][BlocksNext]_blockVars

-----------------------------------------------------------------------------

Fates == {"exact", "leading_ws", "trailing_ws", "fuzzy", "none", "unread", "unwritten"}

BlocksTypeOK ==
    /\ tree \in [EditFiles -> {Gone} \cup Seq(TextLine)]
    /\ was \in {Gone} \cup Seq(TextLine)
    /\ sheet \in Seq([file : Words, search : Seq(TextLine), replace : Seq(TextLine)])
    /\ Len(fate) <= Len(sheet)
    /\ fate \in Seq(Fates)

Meant(list) == [k \in DOMAIN list |-> [file |-> list[k].file, search |-> Searched(list[k]), replace |-> Written(list[k])]]

(* A block without a path whose head has a line with a dot or a slash      *)
(* close before it, in the block it follows.                               *)
MisledAt(list, k) ==
    /\ ~list[k].named
    /\ LET before == Printed(list[k - 1])
       IN  \E i \in Len(before) - NameLines + 1..Len(before) : before[i].word \in EditFiles \cup Dotted

(* However the blocks are written, with paths or without and wherever the  *)
(* text breaks off, the parser gives those that were closed, each with its *)
(* file and its lines, unless a line of the block before could be the path *)
(* of one that has none.                                                   *)
BlocksAreRead ==
    (\A k \in DOMAIN wants : ~MisledAt(wants, k)) =>
        LET text == TextOf(wants)
        IN  \A n \in 0..Len(text) :
              LET closed == Cardinality({i \in 1..n : text[i] = EndMark})
              IN  Parse(SubSeq(text, 1, n)) = SubSeq(Meant(wants), 1, closed)

Reads(chunk) == [j \in DOMAIN chunk |-> chunk[j].word]

(* Blocks are read as they were written (parser.go:49-159).  And if the    *)
(* file has one place that reads as the block does, and the agent erred    *)
(* either in the indentation of the whole block, some line of which has    *)
(* one, or in the blanks at the ends of lines, then the block is applied   *)
(* there and the file is what it would be had the agent erred in nothing;  *)
(* no other line is touched.                                               *)
EditsLandAsMeant ==
    /\ BlocksAreRead
    /\ fate # <<>> /\ sheet = Meant(wants) =>
          LET k == Len(fate)
              e == wants[k]
              n == Len(e.old)
              places == {i \in Starts(was, n) : Reads(SpanAt(was, i, n)) = Reads(e.old)}
              oneError == e.shift = 0 \/ (Searched(e) = Shift(e.old, e.shift) /\ Inked(e.old) # {})
          IN  was # Gone /\ oneError =>
              \A i \in places : places = {i} /\ SpanAt(was, i, n) = e.old =>
                  \/ fate[k] = "unwritten"
                  \/ fate[k] \in {"exact", "leading_ws", "trailing_ws"} /\ tree[e.file] = PutAt(was, i, n, e.new)

=============================================================================
