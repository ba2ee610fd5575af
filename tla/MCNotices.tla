----------------------------- MODULE MCNotices -----------------------------
(* Instance of Notices for TLC: what is noted of a download concerns no    *)
(* other, so one is enough, of this run of the application or of an        *)
(* earlier one; its toasts meet those of the engine and the others.        *)
EXTENDS Notices

MCGid == {"d"}
=============================================================================
