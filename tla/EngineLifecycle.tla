--------------------------- MODULE EngineLifecycle ---------------------------
(***************************************************************************)
(* What the rest of Remotrix may rely on when it talks to the engine       *)
(* supervisor, without its awaits, channels, generations and tasks: which  *)
(* aria2-next process is in use, why it stops being used, and what becomes *)
(* of a request to replace the engine or to stop it.                       *)
(***************************************************************************)
CONSTANTS
  Process,    \* every aria2-next process there can be
  NoProcess,  \* no process is in use: not one of them
  Replacing,  \* requests that end the use of the engine, for a new one
  Stopping    \* requests that end the supervisor

VARIABLES
  engine,     \* the process in use, or NoProcess
  past,       \* the processes that were ever in use
  exited,     \* the processes that have ended
  requests,   \* the requests that wait to be met, or are being met
  mode        \* "open", or "stopped" for good

vars == <<engine, past, exited, requests, mode>>

Init ==
  /\ engine = NoProcess /\ past = {}
  /\ exited \subseteq Process /\ requests = {} /\ mode = "open"

(* Somebody asks for something. *)
Request(r) ==
  /\ mode = "open"
  /\ requests' = requests \cup {r}
  /\ UNCHANGED <<engine, past, exited, mode>>

(* A process ends, the one in use or any other. *)
Exit(p) ==
  /\ exited' = exited \cup {p}
  /\ UNCHANGED <<engine, past, requests, mode>>

(* A process that was never in use, and runs, is taken into use. *)
Use(p) ==
  /\ mode = "open" /\ engine = NoProcess
  /\ p \notin past \cup exited
  /\ engine' = p /\ past' = past \cup {p}
  /\ UNCHANGED <<exited, requests, mode>>

(* Without a request the engine is given up only after it has ended. *)
GiveUp ==
  /\ mode = "open" /\ engine \in exited
  /\ engine' = NoProcess
  /\ UNCHANGED <<past, exited, requests, mode>>

(* One of the requests of a kind is met, and there may be more of them.    *)
(* The process that is replaced may still be ending.                       *)
Meet(r) == r \in requests /\ requests' \in {requests, requests \ {r}}

Replace(r) ==
  /\ mode = "open" /\ Meet(r)
  /\ engine' = NoProcess
  /\ UNCHANGED <<past, exited, mode>>

Stop(r) ==
  /\ mode = "open" /\ Meet(r)
  /\ mode' = "stopped"
  /\ exited \subseteq exited' /\ exited' \subseteq Process
  /\ UNCHANGED <<engine, past>>

Next ==
  \/ \E r \in Replacing \cup Stopping: Request(r)
  \/ \E p \in Process: Exit(p) \/ Use(p)
  \/ GiveUp
  \/ \E r \in Replacing: Replace(r)
  \/ \E r \in Stopping: Stop(r)

Spec == Init /\ [][Next]_vars

=============================================================================
