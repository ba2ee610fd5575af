----------------------------- MODULE MCTaskSync -----------------------------
(* TaskSync on one gid, where the senders race: the tables are per gid, and *)
(* the proofs are for every set of gids.                                    *)
EXTENDS TaskSync

=============================================================================
