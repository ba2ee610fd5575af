---------------------------- MODULE MCBootstrap ----------------------------
(* Instance of Bootstrap for TLC: both files. *)
EXTENDS Bootstrap

MCCached == <<"server", "nodes">>
=============================================================================
