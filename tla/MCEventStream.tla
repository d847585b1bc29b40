--------------------------- MODULE MCEventStream ---------------------------
(* EventStream for TLC. *)
EXTENDS EventStream

=============================================================================
