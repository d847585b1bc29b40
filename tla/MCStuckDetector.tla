--------------------------- MODULE MCStuckDetector ---------------------------
(* The turns of an agent for TLC. *)
EXTENDS StuckDetector

CONSTANT f1

Do(tool, body, long, out) ==
    [action |-> [tool |-> tool, file |-> f1, body |-> body, long |-> long], out |-> out]
Turn(cs, passed) == [calls |-> cs, passed |-> passed]

(* A verification with none or one check passed, a read, a short write, a  *)
(* long one, an edit that fails before a read that finds something else.   *)
MCTurns ==
    { Turn(<<>>, 0), Turn(<<>>, 1),
      Turn(<<Do("read_file", "r", FALSE, "old")>>, 0),
      Turn(<<Do("write_file", "x", FALSE, "wrote")>>, 0),
      Turn(<<Do("write_file", "y", TRUE, "wrote")>>, 0),
      Turn(<<Do("edit", "z", FALSE, "error"), Do("read_file", "r", FALSE, "new")>>, 0) }

=============================================================================
