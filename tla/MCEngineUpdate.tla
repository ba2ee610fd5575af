--------------------------- MODULE MCEngineUpdate ---------------------------
(* EngineUpdate with two releases, and two downloads besides the one of    *)
(* ensure_aria2_next: the fewest in which a version can be overtaken and   *)
(* one version can be downloaded twice at once.                            *)
EXTENDS EngineUpdate

MCMaxVersion == 2
MCMaxRetries == 1

=============================================================================
