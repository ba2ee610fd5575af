------------------------------ MODULE MCShell ------------------------------
(* Shell with a countdown of two seconds: a first and a last one. *)
EXTENDS Shell

MCCountdown == 2

=============================================================================
