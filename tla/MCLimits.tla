------------------------------ MODULE MCLimits ------------------------------
(* Instance of Limits for TLC: two days of three minutes; a window in the  *)
(* day, one over midnight, and one that never parsed.                      *)
EXTENDS Limits

MCStart  == [download |-> 1, upload |-> 1, scheduled |-> TRUE, start |-> 2,
             end |-> 1, days |-> {1}, proxy |-> "", trackers |-> "", missing |-> TRUE]
MCValues == [download |-> {1, 2}, upload |-> {1, 2}, scheduled |-> BOOLEAN,
             start |-> {0, 2}, end |-> {1, 2}, days |-> {{}, {1}}, proxy |-> {"", "p"},
             trackers |-> {"", "t"}, missing |-> BOOLEAN]
=============================================================================
