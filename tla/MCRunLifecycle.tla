--------------------------- MODULE MCRunLifecycle ---------------------------
(* RunLifecycle for TLC. *)
EXTENDS RunLifecycle

=============================================================================
