---------------------------- MODULE MCPatchHunks ----------------------------
(* The files and the patches of an agent for TLC. *)
EXTENDS PatchHunks

W(w) == Line(0, w)
Wt == [W("w") EXCEPT !.tail = TRUE]
Text(lines) == [lines |-> lines, nl |-> TRUE]

MCShelves ==
    {[f \in Paths |-> IF f = "one" THEN t ELSE IF t = NoText THEN Text(<<W("v")>>) ELSE NoText] :
       t \in {NoText, Text(<<W("v"), W("w"), W("v"), Blank, W("u")>>), [Text(<<W("v"), Blank, Wt, W("v")>>) EXCEPT !.nl = FALSE],
              Text(<<Line(1, "w"), W("v"), W("w"), W("v"), W("u")>>), Text(<<W("v"), Blank>>),
             Text(<<W("v"), Blank, W("w")>>), Text(<<Line(1, "w"), W("v"), W("w")>>)}}

Stay(w) == Token(" ", W(w))
Cut(w) == Token("-", W(w))
Put(w) == Token("+", W(w))
Bodies == {<<Cut("v"), Put("u")>>, <<Put("w")>>, <<Stay("w"), Cut("v")>>, <<Stay("v"), Token(" ", Blank)>>, <<Put("v"), Stay("w")>>,
           <<Token(" ", Blank), Cut("w")>>, <<Cut("v")>>}
ChunksOf(heads, ends) ==
    {c \in [ctx : {Blank, W("v"), W("w")}, body : Bodies, eof : ends, gap : {0, 1}, head : heads] :
       (~c.head => c.ctx = Blank /\ ~Vacant(c.body[1])) /\ (c.ctx # Blank => c.gap = 0)}

Hunk0(kind) == [kind |-> kind, path |-> "one", to |-> "one", body |-> <<>>, chunks |-> <<>>]
Updates == {[Hunk0("update") EXCEPT !.chunks = <<c, d>>] : c \in ChunksOf(BOOLEAN, {FALSE}), d \in ChunksOf({TRUE}, {FALSE})}
           \cup {[Hunk0("update") EXCEPT !.to = to, !.chunks = <<c>>] : to \in Paths, c \in ChunksOf(BOOLEAN, BOOLEAN)}
           \cup {[Hunk0("update") EXCEPT !.chunks = <<c>>] : c \in {[ctx |-> Blank, body |-> <<Cut("v")>>, eof |-> FALSE, gap |-> 2, head |-> TRUE],
                                                                    [ctx |-> W("v"), body |-> <<>>, eof |-> FALSE, gap |-> 0, head |-> TRUE]}}

(* One update, or an addition, an update and a removal together.           *)
MCDemands ==
    {<<u>> : u \in Updates}
    \cup {<<[Hunk0("add") EXCEPT !.body = b], u, Hunk0("delete")>> :
            b \in {<<>>, <<W("v"), W("w")>>}, u \in {v \in Updates : v.to # v.path}}

=============================================================================
