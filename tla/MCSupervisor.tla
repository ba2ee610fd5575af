---------------------------- MODULE MCSupervisor ----------------------------
(* Supervisor and what it implements, on two children and two commands.    *)
(* The children are not declared symmetric: liveness is checked.           *)
EXTENDS SupervisorLifecycle

=============================================================================
