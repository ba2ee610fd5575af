----------------------------- MODULE MCSettings -----------------------------
(* Instance of Settings for TLC. *)
EXTENDS Settings

MCPorts == {1, 2}
MCDirs  == {"a", "b"}
=============================================================================
