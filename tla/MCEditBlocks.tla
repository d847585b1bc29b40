---------------------------- MODULE MCEditBlocks ----------------------------
(* The files and the wishes of an agent for TLC. *)
EXTENDS EditBlocks

X(in) == Line(in, "x")
Y(in) == Line(in, "y.z")
XT == [X(1) EXCEPT !.tail = TRUE]
Empty0 == Line(0, "")

Wholes == {Gone, <<X(1), Empty0, Y(2)>>, <<XT, Y(1), X(1)>>, <<X(0), X(1), Y(2)>>, <<Y(1), X(2), Empty0>>}
MCTrees == {[f \in EditFiles |-> IF f = "a.go" THEN w ELSE IF w = Gone THEN Gone ELSE <<X(0)>>] : w \in Wholes}

MCOld == {<<X(1)>>, <<X(1), Y(2)>>, <<Empty0, Y(2)>>, <<XT, Y(1)>>, <<X(1), Empty0, Y(2)>>, <<X(2), Empty0>>}
MCNew == {<<>>, <<Y(1)>>, <<X(2), Empty0, X(1)>>}

MCFirst == {e \in [file : {"a.go"}, old : MCOld, new : MCNew, shift : {-1, 0, 1}, trim : BOOLEAN, named : {TRUE}, gap : {0, 2}] :
              (e.gap = 2 => ~e.trim) /\ (e.trim => e.shift \in {0, 1})}
MCThen == {[file |-> "a.go", old |-> <<X(0)>>, new |-> <<X(0), X(0)>>, shift |-> 0, trim |-> FALSE, named |-> FALSE, gap |-> 0],
           [file |-> "b/c", old |-> <<X(0)>>, new |-> <<>>, shift |-> 0, trim |-> FALSE, named |-> TRUE, gap |-> 1]}

MCEditLists == {<<e>> : e \in MCFirst} \cup {<<e, d>> : e \in MCFirst, d \in MCThen}

=============================================================================
