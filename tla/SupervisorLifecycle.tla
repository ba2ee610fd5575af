------------------------ MODULE SupervisorLifecycle ------------------------
(***************************************************************************)
(* Supervisor implements EngineLifecycle.  A process is past when a task   *)
(* awaits, or has awaited, its exit; a request waits in the channel, or is *)
(* the reason of the graceful_stop in progress.                            *)
(***************************************************************************)
EXTENDS Supervisor

RequestsToReplace == {"RetryAria2Fetch", "RestartEngine"}
RequestsToStop == {"Shutdown", "ForceKill"}

Lifecycle == INSTANCE EngineLifecycle WITH
  Process   <- Child,
  NoProcess <- NoChild,
  Replacing <- RequestsToReplace,
  Stopping  <- RequestsToStop,
  engine    <- sidecar,
  past      <- {c \in Child: waiter[c] # "none"},
  exited    <- {c \in Child: proc[c] = "exited"},
  requests  <- {r \in RequestsToReplace \cup RequestsToStop:
                  \/ \E i \in 1..Len(cmds): cmds[i] = r
                  \/ phase = "stopping" /\ reason = r},
  mode      <- IF phase = "stopped" THEN "stopped" ELSE "open"

(* Whatever crashes, restarts, retries and late reports come, the engine   *)
(* in use is given up only when it has exited or a request is met by that, *)
(* each such request is met, no process is used twice, and after a stop    *)
(* nothing is used any more.                                               *)
ImplementsLifecycle == Lifecycle!Spec

=============================================================================
