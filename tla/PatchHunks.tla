----------------------------- MODULE PatchHunks -----------------------------
(***************************************************************************)
(* The apply_patch tool of a run (core/tool/applypatch.go): the hunks of a *)
(* patch are read off the agent's text (core/patch/parser.go) and applied  *)
(* in order (apply.go), each chunk of an update where its lines are found  *)
(* from the cursor on (seek.go).  Applier.DryRun, which the tool never     *)
(* sets, is left out.                                                      *)
(*                                                                         *)
(* A line of the patch is its mark and what follows it.  A text is its     *)
(* lines and whether the last one ends with a newline.                     *)
(***************************************************************************)
EXTENDS TextLines, FiniteSetsExt, SequencesExt

CONSTANTS
    Paths,      \* the files
    NoText,     \* of a file that does not exist
    Shelves,    \* bound: what the files may hold at first
    Demands     \* bound: the patches an agent may write, see PatchText

(* A text of lines, and whether the last of them ends with a newline.      *)
PatchLine == [in : Nat, word : STRING \cup {NoWord}, tail : BOOLEAN]
Texts == {t \in [lines : Seq(PatchLine), nl : BOOLEAN] : t.nl => t.lines # <<>>}

(* What an agent wants of a file, see HunkText: a chunk without a head is  *)
(* the first of its file, has no context and begins with a line that is    *)
(* none between chunks.                                                    *)
Vacant(t) == t.mark = "" \/ (t.mark = " " /\ IsBlank(t.line))
Heads == {"add", "delete", "update"}
Chunk == [ctx : PatchLine, body : Seq([mark : {"+", "-", " "}, line : PatchLine]), eof : BOOLEAN, gap : Nat, head : BOOLEAN]
Wanted == [kind : Heads, path : Paths, to : Paths, body : Seq(PatchLine), chunks : Seq(Chunk)]
MayOpen(c) == c.head \/ (c.ctx = Blank /\ c.body # <<>> /\ ~Vacant(c.body[1]))
IsWanted(h) ==
    /\ h.kind # "add" => h.body = <<>>
    /\ h.kind # "update" => h.chunks = <<>> /\ h.to = h.path
    /\ \A k \in DOMAIN h.chunks : h.chunks[k].head \/ (k = 1 /\ MayOpen(h.chunks[k]))

ASSUME PatchAssumption ==
    /\ Shelves \subseteq [Paths -> Texts \cup {NoText}] /\ NoText \notin Texts
    /\ \A list \in Demands : list \in Seq(Wanted) /\ \A k \in DOMAIN list : IsWanted(list[k])

VARIABLES
    shelf,      \* the files
    demand,     \* history: the hunks the agent wants
    pieces,     \* those that were read
    outcome,    \* how each hunk so far ended
    prior       \* history: the file before the last hunk

patchVars == <<shelf, demand, pieces, outcome, prior>>

(* ----------------------------- the parser ------------------------------ *)

Starred == Heads \cup {"move", "eof"}
SetLast(s, v) == [s EXCEPT ![Len(s)] = v]

(* Where a line finds the parser: it may end the chunk or the hunk before. *)
Seat(p, t) ==
    CASE p.mode = "add" /\ t.mark # "+" -> "between"
      [] p.mode = "head" /\ t.mark \in Starred \ {"move"} -> "between"
      [] p.mode = "update" /\ t.mark \in Starred -> "between"
      [] p.mode = "chunk" /\ t.mark \in Starred \ {"eof"} -> "between"
      [] p.mode = "chunk" /\ t.mark = "@@" -> "update"
      [] OTHER -> p.mode

Bodiless(chunk) == chunk.old = <<>> /\ chunk.new = <<>>

(* No update without a chunk, no chunk without a line. *)
Unfinished(p) ==
    p.mode \in {"head", "update", "chunk"}
    /\ LET chunks == Last(p.hunks).chunks IN chunks = <<>> \/ Bodiless(Last(chunks))

WithLine(chunk, t) ==
    [ctx |-> chunk.ctx, old |-> IF t.mark = "+" THEN chunk.old ELSE Append(chunk.old, t.line),
     new |-> IF t.mark = "-" THEN chunk.new ELSE Append(chunk.new, t.line), eof |-> chunk.eof]
ChunkAt(line) == [ctx |-> line, old |-> <<>>, new |-> <<>>, eof |-> FALSE]
NewHunk(t) == [kind |-> t.mark, path |-> t.line, to |-> t.line, body |-> <<>>, chunks |-> <<>>]
FirstMode(kind) == CASE kind = "add" -> "add" [] kind = "delete" -> "between" [] kind = "update" -> "head"
Parsing(hunks, mode) == [hunks |-> hunks, mode |-> mode, bad |-> FALSE]

ReadToken(p, t) ==
    LET mode == Seat(p, t)
        goes == ~p.bad /\ (Unfinished(p) => mode = p.mode)
        hunk == Last(p.hunks)
        Open(h, next) == Parsing(SetLast(p.hunks, h), next)
        Chunks(s) == [hunk EXCEPT !.chunks = s]
    IN  CASE goes /\ mode = "between" /\ t.mark \in Heads -> Parsing(Append(p.hunks, NewHunk(t)), FirstMode(t.mark))
          [] goes /\ mode = "between" /\ Vacant(t) -> Parsing(p.hunks, mode)
          [] goes /\ mode = "add" -> Open([hunk EXCEPT !.body = Append(@, t.line)], "add")
          [] goes /\ mode = "head" /\ t.mark = "move" -> Open([hunk EXCEPT !.to = t.line], "update")
          [] goes /\ mode \in {"head", "update"} /\ Vacant(t) -> Parsing(p.hunks, "update")
          [] goes /\ mode \in {"head", "update"} /\ t.mark = "@@" -> Open(Chunks(Append(hunk.chunks, ChunkAt(t.line))), "chunk")
          [] goes /\ mode \in {"head", "update"} /\ ~Vacant(t) /\ t.mark \in {"+", "-", " "} /\ hunk.chunks = <<>> ->
               Open(Chunks(<<WithLine(ChunkAt(Blank), t)>>), "chunk")
          [] goes /\ mode = "chunk" /\ t.mark = "eof" /\ ~Unfinished(p) ->
               Open(Chunks(SetLast(hunk.chunks, [Last(hunk.chunks) EXCEPT !.eof = TRUE])), "update")
          [] goes /\ mode = "chunk" /\ t.mark # "eof" ->
               Open(Chunks(SetLast(hunk.chunks, WithLine(Last(hunk.chunks), t))), "chunk")
          [] OTHER -> [p EXCEPT !.bad = TRUE]

(* Parse: all hunks, or none when one is malformed. *)
ReadPatch(tokens) ==
    LET p == FoldLeft(ReadToken, Parsing(<<>>, "between"), tokens)
    IN  IF p.bad \/ Unfinished(p) THEN <<>> ELSE p.hunks

(* ----------------------------- the applier ----------------------------- *)

(* seekSequence: the first place from the cursor on, or at the end, where  *)
(* the lines are the same, or are so without the blanks behind them, or    *)
(* around them; 0 for none.                                                *)
Seek(lines, pat, at, eof) ==
    LET from == IF eof THEN Len(lines) - Len(pat) + 1 ELSE at
        Spots(Bare(_)) == {i \in Starts(lines, Len(pat)) :
                             i >= from /\ \A j \in DOMAIN pat : Bare(lines[i + j - 1]) = Bare(pat[j])}
        exact == Spots(LAMBDA l : l)
        rstrip == Spots(RTrim)
        both == Spots(Trim)
    IN  CASE pat = <<>> -> at
          [] pat # <<>> /\ exact # {} -> Min(exact)
          [] pat # <<>> /\ exact = {} /\ rstrip # {} -> Min(rstrip)
          [] pat # <<>> /\ rstrip = {} /\ both # {} -> Min(both)
          [] OTHER -> 0

EndsBlank(s) == s # <<>> /\ Last(s) = Blank
Shorter(s) == IF EndsBlank(s) THEN Front(s) ELSE s

(* A faulty variant: the context is found again from the top.              *)
ApplyChunk_FromTop(s, c) ==
    LET ctx == IF c.ctx = Blank THEN s.at - 1 ELSE Seek(s.lines, <<c.ctx>>, 1, FALSE)
        i == Seek(s.lines, c.old, ctx + 1, c.eof)
    IN  IF ~s.ok \/ i = 0 THEN [s EXCEPT !.ok = FALSE]
        ELSE [lines |-> PutAt(s.lines, i, Len(c.old), c.new), at |-> i + Len(c.new), ok |-> TRUE]

ApplyChunk(s, c) ==
    LET ctx == IF c.ctx = Blank THEN s.at - 1 ELSE Seek(s.lines, <<c.ctx>>, s.at, FALSE)
        at == ctx + 1
        whole == IF c.old = <<>> THEN at ELSE Seek(s.lines, c.old, at, c.eof)
        retry == IF whole = 0 /\ EndsBlank(c.old) THEN Seek(s.lines, Shorter(c.old), at, c.eof) ELSE 0
        Put(i, old, new) == [lines |-> PutAt(s.lines, i, Len(old), new), at |-> i + Len(new), ok |-> TRUE]
    IN  CASE ~s.ok \/ (c.ctx # Blank /\ ctx = 0) -> [s EXCEPT !.ok = FALSE]
          [] s.ok /\ (c.ctx = Blank \/ ctx # 0) /\ whole # 0 -> Put(whole, c.old, c.new)
          [] s.ok /\ (c.ctx = Blank \/ ctx # 0) /\ whole = 0 /\ retry # 0 -> Put(retry, Shorter(c.old), Shorter(c.new))
          [] OTHER -> [s EXCEPT !.ok = FALSE]

(* strings.Join, and the newline put back unless the join ends with one.   *)
Joined(lines, nl) ==
    CASE Len(lines) > 1 /\ EndsBlank(lines) -> [lines |-> Front(lines), nl |-> TRUE]
      [] lines \in {<<>>, <<Blank>>} -> [lines |-> IF nl THEN <<Blank>> ELSE <<>>, nl |-> nl]
      [] OTHER -> [lines |-> lines, nl |-> nl]

(* deriveNewContents. *)
Derive(text, chunks) ==
    LET s == FoldLeft(ApplyChunk, [lines |-> text.lines, at |-> 1, ok |-> TRUE], chunks)
    IN  [ok |-> s.ok, text |-> Joined(s.lines, text.nl)]

(* ------------------------------ the tool ------------------------------- *)

(* What an agent writes: the hunks it wants, their chunks as marked lines, *)
(* and blank lines where it likes.                                         *)
Token(mark, line) == [mark |-> mark, line |-> line]
ChunkText(c) ==
    (IF c.head THEN <<Token("@@", c.ctx)>> ELSE <<>>) \o c.body
    \o (IF c.eof THEN <<Token("eof", Blank)>> ELSE <<>>) \o [k \in 1..c.gap |-> Token("", Blank)]
HunkText(h) ==
    <<Token(h.kind, h.path)>> \o (IF h.to = h.path THEN <<>> ELSE <<Token("move", h.to)>>)
    \o [j \in DOMAIN h.body |-> Token("+", h.body[j])] \o FlattenSeq([k \in DOMAIN h.chunks |-> ChunkText(h.chunks[k])])
PatchText(list) == FlattenSeq([k \in DOMAIN list |-> HunkText(list[k])])

PatchInit ==
    /\ shelf \in Shelves
    /\ demand = <<>> /\ pieces = <<>> /\ outcome = <<>> /\ prior = NoText

CallPatch(list) ==
    /\ demand' = list /\ pieces' = ReadPatch(PatchText(list))
    /\ UNCHANGED <<shelf, outcome, prior>>

NextHunk == pieces[Len(outcome) + 1]
More == Len(outcome) < Len(pieces)
Ends(how) == outcome' = Append(outcome, how) /\ prior' = shelf[NextHunk.path] /\ UNCHANGED <<demand, pieces>>

NewBody == [lines |-> NextHunk.body, nl |-> NextHunk.body # <<>>]
Updated == Derive(shelf[NextHunk.path], NextHunk.chunks)
NewText(h) == IF h.kind = "add" THEN NewBody ELSE Updated.text
HunkFits(h) == h.kind = "add" \/ (shelf[h.path] # NoText /\ (h.kind = "update" => Updated.ok))

ApplyHunk ==
    /\ More /\ HunkFits(NextHunk) /\ Ends("applied")
    /\ LET h == NextHunk
       IN  shelf' = IF h.kind = "delete" THEN [shelf EXCEPT ![h.path] = NoText]
                    ELSE [[shelf EXCEPT ![h.path] = NoText] EXCEPT ![h.to] = NewText(h)]

(* The next hunks are tried all the same. *)
RefuseHunk ==
    /\ More /\ ~HunkFits(NextHunk) /\ Ends("refused")
    /\ UNCHANGED shelf

(* A write that fails leaves the file as it was or empty; a removal that   *)
(* fails leaves it where it was, after a move beside the new one.          *)
FailHunk ==
    /\ More /\ HunkFits(NextHunk) /\ Ends("failed")
    /\ LET h == NextHunk
       IN  shelf' \in {shelf}
                      \cup (IF h.kind = "delete" THEN {} ELSE {[shelf EXCEPT ![h.to] = [lines |-> <<>>, nl |-> FALSE]]})
                      \cup (IF h.to = h.path THEN {} ELSE {[shelf EXCEPT ![h.to] = NewText(h)]})

PatchNext ==
    \/ demand = <<>> /\ \E list \in Demands : CallPatch(list)
    \/ ApplyHunk \/ RefuseHunk \/ FailHunk

PatchSpec == PatchInit /\ [][PatchNext]_patchVars

-----------------------------------------------------------------------------

PatchTypeOK ==
    /\ \A f \in Paths : shelf[f] = NoText \/ (shelf[f].nl => shelf[f].lines # <<>>)
    /\ Len(outcome) <= Len(pieces)
    /\ \A k \in DOMAIN outcome : outcome[k] \in {"applied", "refused", "failed"}

LinesBut(tokens, mark) ==
    FlattenSeq([j \in DOMAIN tokens |-> IF tokens[j].mark = mark THEN <<>> ELSE <<tokens[j].line>>])
Body(c) == c.body \o [k \in 1..c.gap |-> Token("", Blank)]
OldOf(c) == LinesBut(IF c.eof THEN c.body ELSE Body(c), "+")
NewOf(c) == LinesBut(IF c.eof THEN c.body ELSE Body(c), "-")
SameText(span, lines) == \A j \in DOMAIN lines : span[j].word = lines[j].word

(* What chunks may mean: a blank line of the patch is a blank line of the  *)
(* file, but the last of a chunk need not be there.                        *)
Full(c) == [ctx |-> c.ctx, old |-> OldOf(c), new |-> NewOf(c)]
Brief(m) == [ctx |-> m.ctx, old |-> Shorter(m.old), new |-> Shorter(m.new)]
Meanings(chunks) ==
    {[k \in DOMAIN chunks |-> IF k \in short THEN Brief(Full(chunks[k])) ELSE Full(chunks[k])] :
       short \in SUBSET {k \in DOMAIN chunks : EndsBlank(OldOf(chunks[k]))}}

(* Where the chunks of an update may go: one behind the other, each on     *)
(* lines that read as its old ones and behind its context; lines that are  *)
(* only added go right behind the context, or the chunk before.            *)
Behind(chunks, at, k) == IF k = 1 THEN 1 ELSE at[k - 1] + Len(chunks[k - 1].old)
Anchors(lines, c, from) == IF c.ctx = Blank THEN {from - 1} ELSE {q \in from..Len(lines) : lines[q].word = c.ctx.word}
ReadsAt(lines, i, old) == i \in Starts(lines, Len(old)) /\ SameText(SpanAt(lines, i, Len(old)), old)
Sits(lines, c, i, from) ==
    IF c.old = <<>> THEN i - 1 \in Anchors(lines, c, from)
    ELSE ReadsAt(lines, i, c.old) /\ \E q \in Anchors(lines, c, from) : q < i
Seats(lines, chunks) ==
    {at \in [DOMAIN chunks -> 1..Len(lines) + 1] :
       \A k \in DOMAIN chunks : Sits(lines, chunks[k], at[k], Behind(chunks, at, k))}

Patched(lines, chunks, at) ==
    FlattenSeq([k \in DOMAIN chunks |-> SubSeq(lines, Behind(chunks, at, k), at[k] - 1) \o chunks[k].new])
    \o SubSeq(lines, Behind(chunks, at, Len(chunks) + 1), Len(lines))

(* Each chunk has one place in the file, all lines that read as a context  *)
(* are the same, and a blank line that is left out is not there.           *)
Plain(lines, chunks) ==
    \A k \in DOMAIN chunks :
      /\ chunks[k].old # <<>> /\ Cardinality({i \in DOMAIN lines : ReadsAt(lines, i, chunks[k].old)}) = 1
      /\ chunks[k].ctx = Blank
         \/ \E l \in Range(lines) : \A i \in DOMAIN lines : lines[i].word = chunks[k].ctx.word => lines[i] = l
LeavesNone(lines, chunks, cs, at) ==
    \A k \in DOMAIN chunks : cs[k] # Full(chunks[k]) =>
        \A i \in DOMAIN lines : i = at[k] + Len(cs[k].old) => ~IsBlank(lines[i])

(* A hunk that updates a file replaces spans of it, in order, that read as *)
(* the old lines of its chunks, and nothing else of the file changes, the  *)
(* newline at its end included; and a hunk whose chunks have one place     *)
(* each, and whose contexts do, is applied.  Left out is where the code    *)
(* differs: an end-of-file chunk matches the file's end, before its context *)
(* or on what another wrote, and a text that would be empty gets a blank   *)
(* line, and one that would end with one loses it.                         *)
PatchLandsInOrder ==
    outcome # <<>> /\ Len(pieces) = Len(demand) /\ demand[Len(outcome)].kind = "update" /\ prior # NoText =>
        LET h == demand[Len(outcome)]
            lines == prior.lines
            how == Last(outcome)
            odd == \E k \in DOMAIN h.chunks :
                     h.chunks[k].eof /\ (k > 1 \/ h.chunks[k].ctx # Blank)
            blank == \E cs \in Meanings(h.chunks) : \E at \in Seats(lines, cs) :
                       LET new == Patched(lines, cs, at) IN new = <<>> \/ EndsBlank(new)
        IN  /\ how = "applied" /\ ~odd /\ ~blank =>
                 \E cs \in Meanings(h.chunks) : \E at \in Seats(lines, cs) :
                   shelf[h.to] = [lines |-> Patched(lines, cs, at), nl |-> prior.nl]
            /\ (\A k \in DOMAIN h.chunks : ~h.chunks[k].eof) =>
                 \A cs \in Meanings(h.chunks) :
                   Plain(lines, cs) /\ (\E at \in Seats(lines, cs) : LeavesNone(lines, h.chunks, cs, at)) => how # "refused"

=============================================================================
