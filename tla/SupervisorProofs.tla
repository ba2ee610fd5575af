-------------------------- MODULE SupervisorProofs --------------------------
(***************************************************************************)
(* Proofs about Supervisor for any set of children, any number of commands *)
(* and any MAX_RETRIES.  The inductive invariant is IInv; its conjuncts    *)
(* are proved preserved one by one, each from the whole of IInv.  The last *)
(* part proves that Supervisor implements EngineLifecycle: initial states  *)
(* map to initial states, and every step to a step or to a stutter.        *)
(***************************************************************************)
EXTENDS SupervisorLifecycle, SequenceTheorems, TLAPS

Booting == phase \in {"fetch", "cleanup", "spawn", "connect"}

(* What is installed at each await of the supervisor. *)
PhaseInv ==
  /\ Booting => sidecar = NoChild
  /\ phase = "stopping" => sidecar # NoChild
  /\ phase = "connect" <=> conn # NoChild
  /\ phase \in {"spawn", "connect"} => pid_file = NoChild

(* The loops that run are those the handles can abort, and the handles are *)
(* those of the sidecar.                                                   *)
HandleInv ==
  /\ phase \in {"select", "stopping"} =>
       poll_handle = sidecar /\ scheduler_handle = sidecar
  /\ Booting \/ phase = "stopped" =>
       poll_handle = NoChild /\ scheduler_handle = NoChild
  /\ \A c \in Child: polling[c] = IF c = poll_handle THEN 1 ELSE 0
  /\ \A c \in Child: scheduling[c] = IF c = scheduler_handle THEN 1 ELSE 0

(* No process runs a binary newer than the installed one, and only the     *)
(* process of the pid file, the one being connected to, or an orphan that  *)
(* was never named runs that one.                                          *)
EngineInv ==
  /\ \A c \in Child: Running(c) => exe[c] <= binary
  /\ phase # "stopped" =>
       \A c \in Child: Running(c) /\ exe[c] = binary => c \in {pid_file, conn} \cup unnamed
  /\ OneEnginePerBinary

(* Generations only grow, and a report is sent after the exit. *)
ReportInv ==
  /\ \A c \in Child: gen[c] <= generation
  /\ \A c \in Child: waiter[c] = "reported" => proc[c] = "exited"
  /\ CurrentReportIsSidecar
  /\ SidecarIsWatched

(* The counter is zero whenever there is a sidecar to lose. *)
RetryInv ==
  /\ retry_count <= 1
  /\ sidecar # NoChild => retry_count = 0

IInv == TypeOK /\ PhaseInv /\ HandleInv /\ EngineInv /\ ReportInv /\ RetryInv

(* Promoting a staged update gives the next binary, or changes nothing. *)
LEMMA PromotionAdvances ==
  ASSUME EnsureAria2, binary \in Nat
  PROVE  binary' \in Nat /\ binary' >= binary
BY DEF EnsureAria2, PromoteStaged

LEMMA TypeStep == IInv /\ [Next]_vars => TypeOK'
<1> SUFFICES ASSUME IInv, [Next]_vars PROVE TypeOK'
  OBVIOUS
<1> USE ConstAssumption DEF IInv, TypeOK, HandleInv, PhaseInv, Booting, Reason, Command, Running, supervisor, system, tasks, ui
<1>1. CASE EnsureAria2
  <2>1. staged' \in BOOLEAN
    <3>1. CASE staged /\ staged' = FALSE
      BY <3>1
    <3>2. CASE staged' = staged
      BY <3>2
    <3> QED
      BY <1>1, <3>1, <3>2, Zenon DEF EnsureAria2, PromoteStaged
  <2>2. binary' \in Nat
    BY <1>1, PromotionAdvances, Zenon
  <2> QED
    BY <1>1, <2>1, <2>2 DEF EnsureAria2
<1>2. CASE EnsureAria2Fails
  BY <1>2 DEF EnsureAria2Fails, InstallFailed
<1>3. CASE CleanupStale
  BY <1>3 DEF CleanupStale, Cleanup
<1>4. CASE SpawnChild
  BY <1>4 DEF SpawnChild
<1>5. CASE SpawnFails
  BY <1>5 DEF SpawnFails, InstallFailed
<1>6. CASE ConnectOk
  BY <1>6 DEF ConnectOk, Connected, SpawnWaiter
<1>7. CASE ConnectFails
  BY <1>7 DEF ConnectFails, InstallFailed
<1>8. CASE BeginStop("Shutdown")
  BY <1>8 DEF BeginStop, Receive
<1>9. CASE ShutdownDone
  BY <1>9 DEF ShutdownDone, AskToStop, Stop, AbortPolls, AbortScheduler, Abort
<1>10. CASE ShutdownIdle
  BY <1>10 DEF ShutdownIdle, Receive, Stop, AbortPolls, AbortScheduler, Abort
<1>11. CASE ForceKill
  BY <1>11 DEF ForceKill, Receive, Stop, AbortPolls, AbortScheduler, Abort
<1>12. CASE BeginStop("RestartEngine")
  BY <1>12 DEF BeginStop, Receive
<1>13. CASE RestartStopped
  BY <1>13 DEF RestartStopped, AskToStop, BeginInstall, AbortPolls, AbortScheduler, Abort
<1>14. CASE RestartIdle
  BY <1>14 DEF RestartIdle, Receive, BeginInstall, AbortPolls, AbortScheduler, Abort
<1>15. CASE RetryAria2Fetch
  BY <1>15 DEF RetryAria2Fetch, RetryInstall, Receive, BeginInstall, AbortPolls, AbortScheduler, Abort
<1>16. CASE DownloadAria2Update
  BY <1>16 DEF DownloadAria2Update, Receive
<1>17. CASE ReloadSchedules
  <2>1. scheduling' \in [Child -> Nat] /\ scheduler_handle' \in Child \cup {NoChild}
    <3>1. CASE sidecar = NoChild
      BY <1>17, <3>1 DEF ReloadSchedules
    <3>2. CASE sidecar # NoChild
      <4>1. scheduler_handle = sidecar /\ scheduling[sidecar] = 1
        BY <1>17, <3>2 DEF ReloadSchedules, Receive
      <4>2. sidecar \in Child /\ Abort(scheduling, scheduler_handle) \in [Child -> Nat]
        BY <3>2, <4>1 DEF Abort
      <4>3. scheduling' = [Abort(scheduling, scheduler_handle) EXCEPT ![sidecar] = @ + 1]
            /\ scheduler_handle' = sidecar
        BY <1>17, <3>2 DEF ReloadSchedules
      <4> HIDE DEF Abort
      <4> QED
        BY <4>2, <4>3
    <3> QED
      BY <3>1, <3>2
  <2>2. cmds' \in Seq(Command)
    BY <1>17 DEF ReloadSchedules, Receive
  <2>3. UNCHANGED <<phase, reason, sidecar, poll_handle, retry_count, generation,
                    conn, system, waiter, gen, polling, boot, downloads, sent,
                    aria2_fetch_error>>
    BY <1>17 DEF ReloadSchedules
  <2> QED
    BY <2>1, <2>2, <2>3
<1>18. CASE ClientCommand
  BY <1>18 DEF ClientCommand, Receive
<1>19. ASSUME NEW c \in Child, StaleReport(c) PROVE TypeOK'
  BY <1>19 DEF StaleReport, TakeReport, IsCurrent
<1>20. ASSUME NEW c \in Child, ExitReport(c) PROVE TypeOK'
  <2>1. /\ phase' \in {"select", "fetch"} /\ reason' \in Reason
        /\ aria2_fetch_error' \in BOOLEAN
    BY <1>20, Zenon DEF ExitReport, TakeReport, GiveUp, BeginInstall, Reason
  <2>2. AbortPolls /\ AbortScheduler /\ sidecar' = NoChild
    BY <1>20, Zenon DEF ExitReport, GiveUp, BeginInstall
  <2>3. polling' \in [Child -> Nat] /\ scheduling' \in [Child -> Nat]
    BY <2>2, <1>20 DEF AbortPolls, AbortScheduler, Abort, ExitReport, TakeReport
  <2>4. poll_handle' = NoChild /\ scheduler_handle' = NoChild
    BY <2>2 DEF AbortPolls, AbortScheduler
  <2>5. waiter' \in [Child -> {"none", "waiting", "reported", "done"}]
        /\ retry_count' \in Nat
    BY <1>20 DEF ExitReport, TakeReport
  <2> QED
    BY <1>20, <2>1, <2>2, <2>3, <2>4, <2>5 DEF ExitReport
<1>21. ASSUME NEW c \in Child, ChildExits(c) PROVE TypeOK'
  BY <1>21 DEF ChildExits
<1>22. ASSUME NEW c \in Child, WaiterReports(c) PROVE TypeOK'
  BY <1>22 DEF WaiterReports
<1>23. ASSUME NEW c \in Child, EmitEngineReady(c) PROVE TypeOK'
  BY <1>23 DEF EmitEngineReady
<1>24. ASSUME NEW c \in Child, EmitSyncComplete(c) PROVE TypeOK'
  BY <1>24 DEF EmitSyncComplete
<1>25. CASE DownloadEnds
  <2>1. staged' \in BOOLEAN
    BY <1>25, Zenon DEF DownloadEnds
  <2> QED
    BY <1>25, <2>1 DEF DownloadEnds
<1>26. ASSUME NEW cmd \in Command, Send(cmd) PROVE TypeOK'
  BY <1>26 DEF Send
<1>27. CASE UNCHANGED vars
  BY <1>27 DEF vars
<1> QED
  BY <1>1, <1>2, <1>3, <1>4, <1>5, <1>6, <1>7, <1>8, <1>9, <1>10, <1>11, <1>12, <1>13, <1>14, <1>15, <1>16, <1>17, <1>18, <1>19, <1>20, <1>21, <1>22, <1>23, <1>24, <1>25, <1>26, <1>27
     DEF Next, SupervisorStep, Installing, Commands, Reports, Environment

LEMMA PhaseStep == IInv /\ [Next]_vars => PhaseInv'
<1> SUFFICES ASSUME IInv, [Next]_vars PROVE PhaseInv'
  OBVIOUS
<1> USE ConstAssumption DEF IInv, TypeOK, PhaseInv, Booting, supervisor, system, tasks, ui
<1>1. CASE EnsureAria2
  BY <1>1 DEF EnsureAria2, PromoteStaged
<1>2. CASE EnsureAria2Fails
  BY <1>2 DEF EnsureAria2Fails, InstallFailed
<1>3. CASE CleanupStale
  BY <1>3 DEF CleanupStale, Cleanup
<1>4. CASE SpawnChild
  BY <1>4 DEF SpawnChild
<1>5. CASE SpawnFails
  BY <1>5 DEF SpawnFails, InstallFailed
<1>6. CASE ConnectOk
  BY <1>6 DEF ConnectOk, Connected, SpawnWaiter
<1>7. CASE ConnectFails
  BY <1>7 DEF ConnectFails, InstallFailed
<1>8. CASE BeginStop("Shutdown")
  BY <1>8 DEF BeginStop, Receive
<1>9. CASE ShutdownDone
  BY <1>9 DEF ShutdownDone, AskToStop, Stop, AbortPolls, AbortScheduler, Abort
<1>10. CASE ShutdownIdle
  BY <1>10 DEF ShutdownIdle, Receive, Stop, AbortPolls, AbortScheduler, Abort
<1>11. CASE ForceKill
  BY <1>11 DEF ForceKill, Receive, Stop, AbortPolls, AbortScheduler, Abort
<1>12. CASE BeginStop("RestartEngine")
  BY <1>12 DEF BeginStop, Receive
<1>13. CASE RestartStopped
  BY <1>13 DEF RestartStopped, AskToStop, BeginInstall, AbortPolls, AbortScheduler, Abort
<1>14. CASE RestartIdle
  BY <1>14 DEF RestartIdle, Receive, BeginInstall, AbortPolls, AbortScheduler, Abort
<1>15. CASE RetryAria2Fetch
  BY <1>15 DEF RetryAria2Fetch, RetryInstall, Receive, BeginInstall, AbortPolls, AbortScheduler, Abort
<1>16. CASE DownloadAria2Update
  BY <1>16 DEF DownloadAria2Update, Receive
<1>17. CASE ReloadSchedules
  BY <1>17 DEF ReloadSchedules, Receive, Abort
<1>18. CASE ClientCommand
  BY <1>18 DEF ClientCommand, Receive
<1>19. ASSUME NEW c \in Child, StaleReport(c) PROVE PhaseInv'
  BY <1>19 DEF StaleReport, TakeReport, IsCurrent
<1>20. ASSUME NEW c \in Child, ExitReport(c) PROVE PhaseInv'
  BY <1>20 DEF ExitReport, TakeReport, IsCurrent, GiveUp, BeginInstall, AbortPolls, AbortScheduler, Abort
<1>21. ASSUME NEW c \in Child, ChildExits(c) PROVE PhaseInv'
  BY <1>21 DEF ChildExits
<1>22. ASSUME NEW c \in Child, WaiterReports(c) PROVE PhaseInv'
  BY <1>22 DEF WaiterReports
<1>23. ASSUME NEW c \in Child, EmitEngineReady(c) PROVE PhaseInv'
  BY <1>23 DEF EmitEngineReady
<1>24. ASSUME NEW c \in Child, EmitSyncComplete(c) PROVE PhaseInv'
  BY <1>24 DEF EmitSyncComplete
<1>25. CASE DownloadEnds
  BY <1>25 DEF DownloadEnds
<1>26. ASSUME NEW cmd \in Command, Send(cmd) PROVE PhaseInv'
  BY <1>26 DEF Send
<1>27. CASE UNCHANGED vars
  BY <1>27 DEF vars
<1> QED
  BY <1>1, <1>2, <1>3, <1>4, <1>5, <1>6, <1>7, <1>8, <1>9, <1>10, <1>11, <1>12, <1>13, <1>14, <1>15, <1>16, <1>17, <1>18, <1>19, <1>20, <1>21, <1>22, <1>23, <1>24, <1>25, <1>26, <1>27
     DEF Next, SupervisorStep, Installing, Commands, Reports, Environment

LEMMA HandleStep == IInv /\ [Next]_vars => HandleInv'
<1> SUFFICES ASSUME IInv, [Next]_vars PROVE HandleInv'
  OBVIOUS
<1> USE ConstAssumption DEF IInv, TypeOK, PhaseInv, HandleInv, Booting, supervisor, system, tasks, ui
<1>1. CASE EnsureAria2
  BY <1>1 DEF EnsureAria2, PromoteStaged
<1>2. CASE EnsureAria2Fails
  BY <1>2 DEF EnsureAria2Fails, InstallFailed
<1>3. CASE CleanupStale
  BY <1>3 DEF CleanupStale, Cleanup
<1>4. CASE SpawnChild
  BY <1>4 DEF SpawnChild
<1>5. CASE SpawnFails
  BY <1>5 DEF SpawnFails, InstallFailed
<1>6. CASE ConnectOk
  BY <1>6 DEF ConnectOk, Connected, SpawnWaiter
<1>7. CASE ConnectFails
  BY <1>7 DEF ConnectFails, InstallFailed
<1>8. CASE BeginStop("Shutdown")
  BY <1>8 DEF BeginStop, Receive
<1>9. CASE ShutdownDone
  BY <1>9 DEF ShutdownDone, AskToStop, Stop, AbortPolls, AbortScheduler, Abort
<1>10. CASE ShutdownIdle
  BY <1>10 DEF ShutdownIdle, Receive, Stop, AbortPolls, AbortScheduler, Abort
<1>11. CASE ForceKill
  BY <1>11 DEF ForceKill, Receive, Stop, AbortPolls, AbortScheduler, Abort
<1>12. CASE BeginStop("RestartEngine")
  BY <1>12 DEF BeginStop, Receive
<1>13. CASE RestartStopped
  BY <1>13 DEF RestartStopped, AskToStop, BeginInstall, AbortPolls, AbortScheduler, Abort
<1>14. CASE RestartIdle
  BY <1>14 DEF RestartIdle, Receive, BeginInstall, AbortPolls, AbortScheduler, Abort
<1>15. CASE RetryAria2Fetch
  BY <1>15 DEF RetryAria2Fetch, RetryInstall, Receive, BeginInstall, AbortPolls, AbortScheduler, Abort
<1>16. CASE DownloadAria2Update
  BY <1>16 DEF DownloadAria2Update, Receive
<1>17. CASE ReloadSchedules
  BY <1>17 DEF ReloadSchedules, Receive, Abort
<1>18. CASE ClientCommand
  BY <1>18 DEF ClientCommand, Receive
<1>19. ASSUME NEW c \in Child, StaleReport(c) PROVE HandleInv'
  BY <1>19 DEF StaleReport, TakeReport, IsCurrent
<1>20. ASSUME NEW c \in Child, ExitReport(c) PROVE HandleInv'
  <2>1. AbortPolls /\ AbortScheduler /\ sidecar' = NoChild /\ phase = "select"
    BY <1>20, Zenon DEF ExitReport, TakeReport, GiveUp, BeginInstall
  <2>2. poll_handle' = NoChild /\ scheduler_handle' = NoChild
    BY <2>1 DEF AbortPolls, AbortScheduler
  <2>3. \A d \in Child: polling'[d] = 0 /\ scheduling'[d] = 0
    BY <2>1 DEF AbortPolls, AbortScheduler, Abort
  <2> QED
    BY <2>1, <2>2, <2>3
<1>21. ASSUME NEW c \in Child, ChildExits(c) PROVE HandleInv'
  BY <1>21 DEF ChildExits
<1>22. ASSUME NEW c \in Child, WaiterReports(c) PROVE HandleInv'
  BY <1>22 DEF WaiterReports
<1>23. ASSUME NEW c \in Child, EmitEngineReady(c) PROVE HandleInv'
  BY <1>23 DEF EmitEngineReady
<1>24. ASSUME NEW c \in Child, EmitSyncComplete(c) PROVE HandleInv'
  BY <1>24 DEF EmitSyncComplete
<1>25. CASE DownloadEnds
  BY <1>25 DEF DownloadEnds
<1>26. ASSUME NEW cmd \in Command, Send(cmd) PROVE HandleInv'
  BY <1>26 DEF Send
<1>27. CASE UNCHANGED vars
  BY <1>27 DEF vars
<1> QED
  BY <1>1, <1>2, <1>3, <1>4, <1>5, <1>6, <1>7, <1>8, <1>9, <1>10, <1>11, <1>12, <1>13, <1>14, <1>15, <1>16, <1>17, <1>18, <1>19, <1>20, <1>21, <1>22, <1>23, <1>24, <1>25, <1>26, <1>27
     DEF Next, SupervisorStep, Installing, Commands, Reports, Environment

(* A step that starts no process and keeps the pid file, or is the last    *)
(* one, keeps EngineInv.                                                   *)
LEMMA NoNewProcess ==
  ASSUME EngineInv, UNCHANGED <<exe, unnamed, binary, conn>>,
         \A c \in Child: Running(c)' => Running(c),
         phase' = "stopped" \/ (phase # "stopped" /\ UNCHANGED pid_file)
  PROVE  EngineInv'
BY DEF EngineInv, OneEnginePerBinary, Running

LEMMA EngineStep == IInv /\ [Next]_vars => EngineInv'
<1> SUFFICES ASSUME IInv, [Next]_vars PROVE EngineInv'
  OBVIOUS
<1> USE ConstAssumption DEF IInv, TypeOK, PhaseInv, EngineInv, OneEnginePerBinary, Booting, Running, supervisor, system, tasks, ui
<1>1. CASE EnsureAria2
  <2>1. binary' \in Nat /\ binary' >= binary
    BY <1>1, PromotionAdvances, Zenon
  <2>2. UNCHANGED <<proc, exe, unnamed, pid_file, conn>> /\ phase # "stopped"
    BY <1>1 DEF EnsureAria2
  <2>3. \A c \in Child: Running(c) => exe[c] <= binary /\ exe[c] \in Nat
    OBVIOUS
  <2>4. \A c \in Child: Running(c) => exe[c] <= binary'
    BY <2>1, <2>3
  <2>5. \A c \in Child: Running(c) /\ exe[c] = binary' => c \in {pid_file, conn} \cup unnamed
    BY <2>1, <2>2, <2>3
  <2>6. \A c \in Child: Running(c)' = Running(c)
    BY <2>2
  <2> QED
    <3> HIDE DEF Running
    <3> QED
      BY <2>2, <2>4, <2>5, <2>6
<1>2. CASE EnsureAria2Fails
  BY <1>2 DEF EnsureAria2Fails, InstallFailed
<1>3. CASE CleanupStale
  BY <1>3 DEF CleanupStale, Cleanup
<1>4. CASE SpawnChild
  BY <1>4 DEF SpawnChild
<1>5. CASE SpawnFails
  BY <1>5 DEF SpawnFails, InstallFailed
<1>6. CASE ConnectOk
  BY <1>6 DEF ConnectOk, Connected, SpawnWaiter
<1>7. CASE ConnectFails
  BY <1>7 DEF ConnectFails, InstallFailed
<1>8. CASE BeginStop("Shutdown")
  BY <1>8 DEF BeginStop, Receive
<1>9. CASE ShutdownDone
  <2>1. UNCHANGED <<exe, unnamed, binary, conn>> /\ phase' = "stopped"
    BY <1>9 DEF ShutdownDone, Stop
  <2>2. \A c \in Child: Running(c)' => Running(c)
    BY <1>9 DEF ShutdownDone, AskToStop
  <2> QED
    BY <2>1, <2>2, NoNewProcess
<1>10. CASE ShutdownIdle
  BY <1>10 DEF ShutdownIdle, Receive, Stop, AbortPolls, AbortScheduler, Abort
<1>11. CASE ForceKill
  BY <1>11 DEF ForceKill, Receive, Stop, AbortPolls, AbortScheduler, Abort
<1>12. CASE BeginStop("RestartEngine")
  BY <1>12 DEF BeginStop, Receive
<1>13. CASE RestartStopped
  <2>1. UNCHANGED <<exe, unnamed, binary, conn, pid_file>> /\ phase # "stopped"
    BY <1>13 DEF RestartStopped
  <2>2. \A c \in Child: Running(c)' => Running(c)
    BY <1>13 DEF RestartStopped, AskToStop
  <2> QED
    BY <2>1, <2>2, NoNewProcess
<1>14. CASE RestartIdle
  BY <1>14 DEF RestartIdle, Receive, BeginInstall, AbortPolls, AbortScheduler, Abort
<1>15. CASE RetryAria2Fetch
  BY <1>15 DEF RetryAria2Fetch, RetryInstall, Receive, BeginInstall, AbortPolls, AbortScheduler, Abort
<1>16. CASE DownloadAria2Update
  BY <1>16 DEF DownloadAria2Update, Receive
<1>17. CASE ReloadSchedules
  BY <1>17 DEF ReloadSchedules, Receive, Abort
<1>18. CASE ClientCommand
  BY <1>18 DEF ClientCommand, Receive
<1>19. ASSUME NEW c \in Child, StaleReport(c) PROVE EngineInv'
  BY <1>19 DEF StaleReport, TakeReport, IsCurrent
<1>20. ASSUME NEW c \in Child, ExitReport(c) PROVE EngineInv'
  BY <1>20 DEF ExitReport, TakeReport, IsCurrent, GiveUp, BeginInstall, AbortPolls, AbortScheduler, Abort
<1>21. ASSUME NEW c \in Child, ChildExits(c) PROVE EngineInv'
  BY <1>21 DEF ChildExits
<1>22. ASSUME NEW c \in Child, WaiterReports(c) PROVE EngineInv'
  BY <1>22 DEF WaiterReports
<1>23. ASSUME NEW c \in Child, EmitEngineReady(c) PROVE EngineInv'
  BY <1>23 DEF EmitEngineReady
<1>24. ASSUME NEW c \in Child, EmitSyncComplete(c) PROVE EngineInv'
  BY <1>24 DEF EmitSyncComplete
<1>25. CASE DownloadEnds
  BY <1>25 DEF DownloadEnds
<1>26. ASSUME NEW cmd \in Command, Send(cmd) PROVE EngineInv'
  BY <1>26 DEF Send
<1>27. CASE UNCHANGED vars
  BY <1>27 DEF vars
<1> QED
  BY <1>1, <1>2, <1>3, <1>4, <1>5, <1>6, <1>7, <1>8, <1>9, <1>10, <1>11, <1>12, <1>13, <1>14, <1>15, <1>16, <1>17, <1>18, <1>19, <1>20, <1>21, <1>22, <1>23, <1>24, <1>25, <1>26, <1>27
     DEF Next, SupervisorStep, Installing, Commands, Reports, Environment

LEMMA ReportStep == IInv /\ [Next]_vars => ReportInv'
<1> SUFFICES ASSUME IInv, [Next]_vars PROVE ReportInv'
  OBVIOUS
<1> USE ConstAssumption DEF IInv, TypeOK, PhaseInv, ReportInv, CurrentReportIsSidecar, SidecarIsWatched, Outstanding, Booting, Running, supervisor, system, tasks, ui
<1>1. CASE EnsureAria2
  BY <1>1 DEF EnsureAria2, PromoteStaged
<1>2. CASE EnsureAria2Fails
  BY <1>2 DEF EnsureAria2Fails, InstallFailed
<1>3. CASE CleanupStale
  BY <1>3 DEF CleanupStale, Cleanup
<1>4. CASE SpawnChild
  BY <1>4 DEF SpawnChild
<1>5. CASE SpawnFails
  BY <1>5 DEF SpawnFails, InstallFailed
<1>6. CASE ConnectOk
  <2>1. /\ UNCHANGED <<proc, generation>> /\ sidecar' = conn /\ conn \in Child
        /\ waiter' = [waiter EXCEPT ![conn] = "waiting"]
        /\ gen' = [gen EXCEPT ![conn] = generation]
    BY <1>6 DEF ConnectOk, Connected, SpawnWaiter
  <2>2. \A c \in Child: ~(Outstanding(c) /\ gen[c] = generation)
    BY <1>6 DEF ConnectOk, Connected
  <2>3. \A c \in Child: c # conn => waiter'[c] = waiter[c] /\ gen'[c] = gen[c]
    BY <2>1
  <2>4. waiter'[conn] = "waiting" /\ gen'[conn] = generation
    BY <2>1
  <2> QED
    BY <2>1, <2>2, <2>3, <2>4
<1>7. CASE ConnectFails
  BY <1>7 DEF ConnectFails, InstallFailed
<1>8. CASE BeginStop("Shutdown")
  BY <1>8 DEF BeginStop, Receive
<1>9. CASE ShutdownDone
  BY <1>9 DEF ShutdownDone, AskToStop, Stop, AbortPolls, AbortScheduler, Abort
<1>10. CASE ShutdownIdle
  BY <1>10 DEF ShutdownIdle, Receive, Stop, AbortPolls, AbortScheduler, Abort
<1>11. CASE ForceKill
  BY <1>11 DEF ForceKill, Receive, Stop, AbortPolls, AbortScheduler, Abort
<1>12. CASE BeginStop("RestartEngine")
  BY <1>12 DEF BeginStop, Receive
<1>13. CASE RestartStopped
  BY <1>13 DEF RestartStopped, AskToStop, BeginInstall, AbortPolls, AbortScheduler, Abort
<1>14. CASE RestartIdle
  BY <1>14 DEF RestartIdle, Receive, BeginInstall, AbortPolls, AbortScheduler, Abort
<1>15. CASE RetryAria2Fetch
  BY <1>15 DEF RetryAria2Fetch, RetryInstall, Receive, BeginInstall, AbortPolls, AbortScheduler, Abort
<1>16. CASE DownloadAria2Update
  BY <1>16 DEF DownloadAria2Update, Receive
<1>17. CASE ReloadSchedules
  BY <1>17 DEF ReloadSchedules, Receive, Abort
<1>18. CASE ClientCommand
  BY <1>18 DEF ClientCommand, Receive
<1>19. ASSUME NEW c \in Child, StaleReport(c) PROVE ReportInv'
  BY <1>19 DEF StaleReport, TakeReport, IsCurrent
<1>20. ASSUME NEW c \in Child, ExitReport(c) PROVE ReportInv'
  BY <1>20 DEF ExitReport, TakeReport, IsCurrent, GiveUp, BeginInstall, AbortPolls, AbortScheduler, Abort
<1>21. ASSUME NEW c \in Child, ChildExits(c) PROVE ReportInv'
  BY <1>21 DEF ChildExits
<1>22. ASSUME NEW c \in Child, WaiterReports(c) PROVE ReportInv'
  BY <1>22 DEF WaiterReports
<1>23. ASSUME NEW c \in Child, EmitEngineReady(c) PROVE ReportInv'
  BY <1>23 DEF EmitEngineReady
<1>24. ASSUME NEW c \in Child, EmitSyncComplete(c) PROVE ReportInv'
  BY <1>24 DEF EmitSyncComplete
<1>25. CASE DownloadEnds
  BY <1>25 DEF DownloadEnds
<1>26. ASSUME NEW cmd \in Command, Send(cmd) PROVE ReportInv'
  BY <1>26 DEF Send
<1>27. CASE UNCHANGED vars
  BY <1>27 DEF vars
<1> QED
  BY <1>1, <1>2, <1>3, <1>4, <1>5, <1>6, <1>7, <1>8, <1>9, <1>10, <1>11, <1>12, <1>13, <1>14, <1>15, <1>16, <1>17, <1>18, <1>19, <1>20, <1>21, <1>22, <1>23, <1>24, <1>25, <1>26, <1>27
     DEF Next, SupervisorStep, Installing, Commands, Reports, Environment

LEMMA RetryStep == IInv /\ [Next]_vars => RetryInv'
<1> SUFFICES ASSUME IInv, [Next]_vars PROVE RetryInv'
  OBVIOUS
<1> USE ConstAssumption DEF IInv, TypeOK, PhaseInv, ReportInv, CurrentReportIsSidecar, Outstanding, RetryInv, Booting, supervisor, system, tasks, ui
<1>1. CASE EnsureAria2
  BY <1>1 DEF EnsureAria2, PromoteStaged
<1>2. CASE EnsureAria2Fails
  BY <1>2 DEF EnsureAria2Fails, InstallFailed
<1>3. CASE CleanupStale
  BY <1>3 DEF CleanupStale, Cleanup
<1>4. CASE SpawnChild
  BY <1>4 DEF SpawnChild
<1>5. CASE SpawnFails
  BY <1>5 DEF SpawnFails, InstallFailed
<1>6. CASE ConnectOk
  BY <1>6 DEF ConnectOk, Connected, SpawnWaiter
<1>7. CASE ConnectFails
  BY <1>7 DEF ConnectFails, InstallFailed
<1>8. CASE BeginStop("Shutdown")
  BY <1>8 DEF BeginStop, Receive
<1>9. CASE ShutdownDone
  BY <1>9 DEF ShutdownDone, AskToStop, Stop, AbortPolls, AbortScheduler, Abort
<1>10. CASE ShutdownIdle
  BY <1>10 DEF ShutdownIdle, Receive, Stop, AbortPolls, AbortScheduler, Abort
<1>11. CASE ForceKill
  BY <1>11 DEF ForceKill, Receive, Stop, AbortPolls, AbortScheduler, Abort
<1>12. CASE BeginStop("RestartEngine")
  BY <1>12 DEF BeginStop, Receive
<1>13. CASE RestartStopped
  BY <1>13 DEF RestartStopped, AskToStop, BeginInstall, AbortPolls, AbortScheduler, Abort
<1>14. CASE RestartIdle
  BY <1>14 DEF RestartIdle, Receive, BeginInstall, AbortPolls, AbortScheduler, Abort
<1>15. CASE RetryAria2Fetch
  BY <1>15 DEF RetryAria2Fetch, RetryInstall, Receive, BeginInstall, AbortPolls, AbortScheduler, Abort
<1>16. CASE DownloadAria2Update
  BY <1>16 DEF DownloadAria2Update, Receive
<1>17. CASE ReloadSchedules
  BY <1>17 DEF ReloadSchedules, Receive, Abort
<1>18. CASE ClientCommand
  BY <1>18 DEF ClientCommand, Receive
<1>19. ASSUME NEW c \in Child, StaleReport(c) PROVE RetryInv'
  BY <1>19 DEF StaleReport, TakeReport, IsCurrent
<1>20. ASSUME NEW c \in Child, ExitReport(c) PROVE RetryInv'
  BY <1>20 DEF ExitReport, TakeReport, IsCurrent, GiveUp, BeginInstall, AbortPolls, AbortScheduler, Abort
<1>21. ASSUME NEW c \in Child, ChildExits(c) PROVE RetryInv'
  BY <1>21 DEF ChildExits
<1>22. ASSUME NEW c \in Child, WaiterReports(c) PROVE RetryInv'
  BY <1>22 DEF WaiterReports
<1>23. ASSUME NEW c \in Child, EmitEngineReady(c) PROVE RetryInv'
  BY <1>23 DEF EmitEngineReady
<1>24. ASSUME NEW c \in Child, EmitSyncComplete(c) PROVE RetryInv'
  BY <1>24 DEF EmitSyncComplete
<1>25. CASE DownloadEnds
  BY <1>25 DEF DownloadEnds
<1>26. ASSUME NEW cmd \in Command, Send(cmd) PROVE RetryInv'
  BY <1>26 DEF Send
<1>27. CASE UNCHANGED vars
  BY <1>27 DEF vars
<1> QED
  BY <1>1, <1>2, <1>3, <1>4, <1>5, <1>6, <1>7, <1>8, <1>9, <1>10, <1>11, <1>12, <1>13, <1>14, <1>15, <1>16, <1>17, <1>18, <1>19, <1>20, <1>21, <1>22, <1>23, <1>24, <1>25, <1>26, <1>27
     DEF Next, SupervisorStep, Installing, Commands, Reports, Environment

-----------------------------------------------------------------------------
LEMMA InitIInv == Init => IInv
<1> SUFFICES ASSUME Init PROVE IInv
  OBVIOUS
<1> USE ConstAssumption DEF Init, InitSystem, InitTasks
<1>1. TypeOK
  <2>1. cmds \in Seq(Command)
    BY DEF Command
  <2>2. proc \in [Child -> {"unborn", "up", "asked", "exited"}]
    OBVIOUS
  <2>3. staged \in BOOLEAN /\ aria2_fetch_error \in BOOLEAN
    BY Zenon
  <2>4. {sidecar, poll_handle, scheduler_handle, conn, pid_file}
          \subseteq Child \cup {NoChild}
    OBVIOUS
  <2> QED
    BY <2>1, <2>2, <2>3, <2>4 DEF TypeOK, Reason
<1>2. PhaseInv /\ HandleInv
  BY DEF PhaseInv, HandleInv, Booting
<1>3. EngineInv
  BY DEF EngineInv, OneEnginePerBinary, Running
<1>4. ReportInv /\ RetryInv
  BY DEF ReportInv, RetryInv, CurrentReportIsSidecar, SidecarIsWatched, Outstanding
<1> QED
  BY <1>1, <1>2, <1>3, <1>4 DEF IInv

LEMMA IInvInvariant == Spec => []IInv
<1>1. IInv /\ [Next]_vars => IInv'
  BY TypeStep, PhaseStep, HandleStep, EngineStep, ReportStep, RetryStep DEF IInv
<1> QED
  BY InitIInv, <1>1, PTL DEF Spec

(* The state of the supervisor is well typed whatever it is told and       *)
(* whatever its children do (run_supervisor's locals).                     *)
THEOREM TypeCorrect == Spec => []TypeOK
<1>1. IInv => TypeOK
  BY DEF IInv
<1> QED
  BY IInvInvariant, <1>1, PTL

(* However commands, crashes, failed installs and updates interleave, two  *)
(* processes never run from the same aria2-next binary (boot's             *)
(* cleanup_stale_aria2 before every Sidecar::spawn).                       *)
THEOREM OneEngine == Spec => []OneEnginePerBinary
<1>1. IInv => OneEnginePerBinary
  BY DEF IInv, EngineInv
<1> QED
  BY IInvInvariant, <1>1, PTL

(* An outstanding exit report of the current generation is always about    *)
(* the installed sidecar, though a crash restart reuses the generation.    *)
THEOREM ReportsAreOfSidecar == Spec => []CurrentReportIsSidecar
<1>1. IInv => CurrentReportIsSidecar
  BY DEF IInv, ReportInv
<1> QED
  BY IInvInvariant, <1>1, PTL

(* A sidecar in use is always watched by a waiter of the current           *)
(* generation, so its exit cannot be missed (run_supervisor, boot).        *)
THEOREM SidecarAlwaysWatched == Spec => []SidecarIsWatched
<1>1. IInv => SidecarIsWatched
  BY DEF IInv, ReportInv
<1> QED
  BY IInvInvariant, <1>1, PTL

(* The supervisor hears of the exit of the engine it uses, and takes no    *)
(* other exit for that one (the select loop and boot's waiter).            *)
THEOREM ReportsFollow == Spec => []ReportsFollowSidecar
<1>1. CurrentReportIsSidecar /\ SidecarIsWatched => ReportsFollowSidecar
  BY DEF ReportsFollowSidecar
<1> QED
  BY ReportsAreOfSidecar, SidecarAlwaysWatched, <1>1, PTL

(* No progress loop or scheduler outlives its sidecar (install_sidecar,    *)
(* ReloadSchedules and the exits of run_supervisor abort every handle).    *)
THEOREM LoopsBelongToSidecar == Spec => []NoStrayLoop
<1>1. IInv => NoStrayLoop
  <2> SUFFICES ASSUME IInv PROVE NoStrayLoop
    OBVIOUS
  <2>1. poll_handle \in {sidecar, NoChild} /\ scheduler_handle \in {sidecar, NoChild}
    BY DEF IInv, TypeOK, HandleInv, Booting
  <2>2. phase = "stopped" => poll_handle = NoChild /\ scheduler_handle = NoChild
    BY DEF IInv, HandleInv
  <2>3. ASSUME NEW c \in Child
        PROVE  /\ c # NoChild
               /\ polling[c] = IF c = poll_handle THEN 1 ELSE 0
               /\ scheduling[c] = IF c = scheduler_handle THEN 1 ELSE 0
    BY ConstAssumption DEF IInv, HandleInv
  <2> QED
    BY <2>1, <2>2, <2>3 DEF NoStrayLoop
<1> QED
  BY IInvInvariant, <1>1, PTL

(* The retry counter never passes one, so the branch that gives up is      *)
(* unreachable for every MAX_RETRIES of at least one (run_supervisor).     *)
THEOREM RetryCountBound == Spec => []RetryCountAtMostOne
<1>1. IInv => RetryCountAtMostOne
  BY DEF IInv, RetryInv, RetryCountAtMostOne
<1> QED
  BY IInvInvariant, <1>1, PTL

(* Without a command the sidecar is dropped only after its process has     *)
(* exited: a stale report never tears down a healthy engine.               *)
THEOREM DropOnlyAfterExit == Spec => SidecarDroppedOnlyAfterExit
<1>1. IInv /\ [Next]_vars =>
        [phase = "select" /\ sidecar # NoChild /\ sidecar' # sidecar
           /\ cmds' = cmds => proc[sidecar] = "exited"]_vars
  <2> SUFFICES ASSUME IInv, [Next]_vars, phase = "select", sidecar # NoChild,
                      sidecar' # sidecar, cmds' = cmds
               PROVE  proc[sidecar] = "exited"
    OBVIOUS
  <2> USE DEF supervisor, system, tasks, ui
  <2>1. ~Installing
    BY DEF Installing, EnsureAria2, EnsureAria2Fails, CleanupStale, Cleanup, SpawnChild,
           SpawnFails, ConnectOk, Connected, ConnectFails
  <2>2. ASSUME NEW cmd \in Command, Receive(cmd) PROVE FALSE
    <3>1. cmds \in Seq(Command) /\ cmds # <<>> /\ Tail(cmds) = cmds
      BY <2>2 DEF IInv, TypeOK, Receive
    <3>2. Len(Tail(cmds)) = Len(cmds) - 1
      BY <3>1, HeadTailProperties, Zenon
    <3>3. Len(cmds) \in Nat
      BY <3>1, LenProperties, Zenon
    <3> QED
      BY <3>1, <3>2, <3>3
  <2>3. ~Commands
    BY <2>2 DEF Commands, Command, BeginStop, ShutdownDone, ShutdownIdle, ForceKill,
           RestartStopped, RestartIdle, RetryAria2Fetch, RetryInstall,
           DownloadAria2Update,
           ReloadSchedules, ClientCommand
  <2>4. ~Environment /\ ~UNCHANGED vars
    BY DEF Environment, vars, ChildExits, WaiterReports, EmitEngineReady,
           EmitSyncComplete, DownloadEnds, Send
  <2>5. PICK c \in Child: ExitReport(c)
    BY <2>1, <2>3, <2>4 DEF Next, SupervisorStep, Reports, StaleReport
  <2> QED
    BY <2>5 DEF ExitReport, IsCurrent, TakeReport, IInv, ReportInv,
           CurrentReportIsSidecar, Outstanding
<1> QED
  BY IInvInvariant, <1>1, PTL DEF Spec, SidecarDroppedOnlyAfterExit

-----------------------------------------------------------------------------

(* A process that a task awaits, or has awaited, was spawned, and the one  *)
(* that is being connected to is not yet awaited.                          *)
WaiterInv ==
  /\ \A c \in Child: waiter[c] # "none" => proc[c] # "unborn"
  /\ phase = "connect" => waiter[conn] = "none"

LEMMA WaiterInvariant == Spec => []WaiterInv
<1>1. Init => WaiterInv
  BY DEF Init, InitTasks, WaiterInv
<1>2. IInv /\ WaiterInv /\ [Next]_vars => WaiterInv'
  <2> SUFFICES ASSUME IInv, WaiterInv, [Next]_vars PROVE WaiterInv'
    OBVIOUS
  <2> USE ConstAssumption DEF IInv, TypeOK, PhaseInv, Booting, WaiterInv, supervisor, system, tasks, ui
  <2>1. CASE Installing
    BY <2>1 DEF Installing, EnsureAria2, EnsureAria2Fails, InstallFailed, CleanupStale, Cleanup,
           Running, SpawnChild, SpawnFails, ConnectOk, Connected, SpawnWaiter, ConnectFails
  <2>2. CASE Commands
    BY <2>2 DEF Commands, Receive, BeginStop, AskToStop, Stop, ShutdownDone, ShutdownIdle, ForceKill,
           Running, RestartStopped, RestartIdle, BeginInstall, RetryAria2Fetch, RetryInstall,
           DownloadAria2Update, ReloadSchedules, ClientCommand
  <2>3. CASE Reports
    BY <2>3 DEF Reports, TakeReport, StaleReport, ExitReport, GiveUp, BeginInstall
  <2>4. ASSUME NEW c \in Child, ChildExits(c) \/ WaiterReports(c) PROVE WaiterInv'
    BY <2>4 DEF ChildExits, Running, WaiterReports
  <2>5. ASSUME Environment,
               \A c \in Child: ~ChildExits(c) /\ ~WaiterReports(c)
        PROVE  UNCHANGED <<phase, conn, waiter, proc>>
    BY <2>5 DEF Environment, EmitEngineReady, EmitSyncComplete, DownloadEnds, Send
  <2>6. CASE UNCHANGED <<phase, conn, waiter, proc>>
    BY <2>6
  <2>7. CASE UNCHANGED vars
    BY <2>6, <2>7 DEF vars
  <2> QED
    BY <2>1, <2>2, <2>3, <2>4, <2>5, <2>6, <2>7 DEF Next, SupervisorStep
<1> QED
  BY IInvInvariant, <1>1, <1>2, PTL DEF Spec

-----------------------------------------------------------------------------
(* The state of EngineLifecycle that Supervisor maps to. *)
Request   == RequestsToReplace \cup RequestsToStop
Queued(r) == \E i \in 1..Len(cmds): cmds[i] = r
Pending   == {r \in Request: Queued(r) \/ (phase = "stopping" /\ reason = r)}
Exited    == {c \in Child: proc[c] = "exited"}
Past      == {c \in Child: waiter[c] # "none"}
Mode      == IF phase = "stopped" THEN "stopped" ELSE "open"

(* The requests of the channel, before and after its head is taken. *)
LEMMA ReceiveQueued ==
  ASSUME TypeOK, NEW cmd \in Command, Receive(cmd), NEW r
  PROVE  /\ Queued(cmd)
         /\ Queued(r)' => Queued(r)
         /\ r # cmd => (Queued(r)' <=> Queued(r))
<1> DEFINE n == Len(cmds)
<1>1. cmds \in Seq(Command) /\ cmds # <<>> /\ cmds[1] = cmd /\ cmds' = Tail(cmds)
  BY DEF TypeOK, Receive
<1>2. n \in Nat \ {0} /\ Len(cmds') = n - 1
  BY <1>1
<1>3. \A i \in 1..(n - 1): cmds'[i] = cmds[i + 1]
  BY <1>1, <1>2
<1>4. Queued(cmd)
  BY <1>1, <1>2 DEF Queued
<1>5. Queued(r)' => Queued(r)
  <2> SUFFICES ASSUME NEW i \in 1..(n - 1), cmds'[i] = r PROVE Queued(r)
    BY <1>2 DEF Queued
  <2> QED
    BY <1>2, <1>3 DEF Queued
<1>6. ASSUME r # cmd, Queued(r) PROVE Queued(r)'
  <2>1. PICK i \in 1..n: cmds[i] = r
    BY <1>6 DEF Queued
  <2>2. i - 1 \in 1..(n - 1) /\ cmds'[i - 1] = r
    BY <1>1, <1>2, <1>3, <1>6, <2>1
  <2> QED
    BY <1>2, <2>2 DEF Queued
<1> QED
  BY <1>4, <1>5, <1>6

(* A command that is sent is behind those that wait. *)
LEMMA SendQueued ==
  ASSUME TypeOK, NEW cmd \in Command, Send(cmd), NEW r
  PROVE  Queued(r)' <=> Queued(r) \/ r = cmd
<1>1. cmds \in Seq(Command) /\ cmds' = Append(cmds, cmd)
  BY DEF TypeOK, Send
<1>2. /\ Len(cmds) \in Nat /\ Len(cmds') = Len(cmds) + 1
      /\ cmds'[Len(cmds) + 1] = cmd
      /\ \A i \in 1..Len(cmds): cmds'[i] = cmds[i]
  BY <1>1
<1>3. Queued(r)' => Queued(r) \/ r = cmd
  BY <1>2 DEF Queued
<1>4. Queued(r) => Queued(r)'
  BY <1>2 DEF Queued
<1>5. r = cmd => Queued(r)'
  BY <1>2 DEF Queued
<1> QED
  BY <1>3, <1>4, <1>5

(* Each step of EngineLifecycle, in the terms of Supervisor. *)
Stutter == /\ sidecar' = sidecar /\ Past' = Past /\ Exited' = Exited
           /\ Pending' = Pending /\ Mode' = Mode

LEMMA Translation ==
  /\ Stutter => UNCHANGED Lifecycle!vars
  /\ \A r \in Request:
       Mode = "open" /\ Pending' = Pending \cup {r} /\ sidecar' = sidecar
         /\ Past' = Past /\ Exited' = Exited /\ Mode' = Mode => Lifecycle!Next
  /\ \A c \in Child:
       Exited' = Exited \cup {c} /\ sidecar' = sidecar /\ Past' = Past
         /\ Pending' = Pending /\ Mode' = Mode => Lifecycle!Next
  /\ \A c \in Child:
       Mode = "open" /\ sidecar = NoChild /\ c \notin Past \cup Exited
         /\ sidecar' = c /\ Past' = Past \cup {c} /\ Exited' = Exited
         /\ Pending' = Pending /\ Mode' = Mode => Lifecycle!Next
  /\ Mode = "open" /\ sidecar \in Exited /\ sidecar' = NoChild
       /\ Past' = Past /\ Exited' = Exited /\ Pending' = Pending /\ Mode' = Mode
         => Lifecycle!Next
  /\ \A r \in RequestsToReplace:
       Mode = "open" /\ r \in Pending /\ Pending' \in {Pending, Pending \ {r}}
         /\ sidecar' = NoChild /\ Past' = Past /\ Exited' = Exited /\ Mode' = Mode
           => Lifecycle!Next
  /\ \A r \in RequestsToStop:
       Mode = "open" /\ r \in Pending /\ Pending' \in {Pending, Pending \ {r}}
         /\ Mode' = "stopped" /\ Exited \subseteq Exited' /\ Exited' \subseteq Child
         /\ sidecar' = sidecar /\ Past' = Past => Lifecycle!Next
<1> USE DEF Past, Exited, Pending, Queued, Mode, Request
<1>1. Stutter => UNCHANGED Lifecycle!vars
  BY DEF Stutter, Lifecycle!vars
<1>2. ASSUME NEW r \in Request,
             Mode = "open", Pending' = Pending \cup {r}, sidecar' = sidecar,
             Past' = Past, Exited' = Exited, Mode' = Mode
      PROVE  Lifecycle!Next
  BY <1>2 DEF Lifecycle!Next, Lifecycle!Request
<1>3. ASSUME NEW c \in Child,
             Exited' = Exited \cup {c}, sidecar' = sidecar, Past' = Past,
             Pending' = Pending, Mode' = Mode
      PROVE  Lifecycle!Next
  BY <1>3 DEF Lifecycle!Next, Lifecycle!Exit
<1>4. ASSUME NEW c \in Child,
             Mode = "open", sidecar = NoChild, c \notin Past \cup Exited,
             sidecar' = c, Past' = Past \cup {c}, Exited' = Exited,
             Pending' = Pending, Mode' = Mode
      PROVE  Lifecycle!Next
  BY <1>4 DEF Lifecycle!Next, Lifecycle!Use
<1>5. ASSUME Mode = "open", sidecar \in Exited, sidecar' = NoChild,
             Past' = Past, Exited' = Exited, Pending' = Pending, Mode' = Mode
      PROVE  Lifecycle!Next
  BY <1>5 DEF Lifecycle!Next, Lifecycle!GiveUp
<1>6. ASSUME NEW r \in RequestsToReplace,
             Mode = "open", r \in Pending, Pending' \in {Pending, Pending \ {r}},
             sidecar' = NoChild, Past' = Past, Exited' = Exited, Mode' = Mode
      PROVE  Lifecycle!Next
  BY <1>6 DEF Lifecycle!Next, Lifecycle!Replace, Lifecycle!Meet
<1>7. ASSUME NEW r \in RequestsToStop,
             Mode = "open", r \in Pending, Pending' \in {Pending, Pending \ {r}},
             Mode' = "stopped", Exited \subseteq Exited', Exited' \subseteq Child,
             sidecar' = sidecar, Past' = Past
      PROVE  Lifecycle!Next
  BY <1>7 DEF Lifecycle!Next, Lifecycle!Stop, Lifecycle!Meet
<1> QED
  BY <1>1, <1>2, <1>3, <1>4, <1>5, <1>6, <1>7, Zenon

(* How the mapped state follows the state of Supervisor. *)
LEMMA PastKept ==
  (\A c \in Child: waiter'[c] # "none" <=> waiter[c] # "none") => Past' = Past
BY DEF Past

LEMMA ExitedKept == UNCHANGED proc => Exited' = Exited
BY DEF Exited

LEMMA PendingKept ==
  UNCHANGED cmds /\ phase # "stopping" /\ phase' # "stopping" => Pending' = Pending
BY DEF Pending, Queued

(* The end of a graceful_stop meets the request it was made for. *)
LEMMA PendingMet ==
  ASSUME phase = "stopping", reason \in Request, phase' # "stopping", UNCHANGED cmds
  PROVE  reason \in Pending /\ Pending' \in {Pending, Pending \ {reason}}
<1>1. reason \in Pending
  BY DEF Pending
<1>2. Pending \ {reason} \subseteq Pending'
  BY DEF Pending, Queued
<1>3. Pending' \subseteq Pending
  BY DEF Pending, Queued
<1>4. CASE reason \in Pending'
  BY <1>1, <1>2, <1>3, <1>4
<1>5. CASE reason \notin Pending'
  BY <1>1, <1>2, <1>3, <1>5
<1> QED
  BY <1>1, <1>4, <1>5

(* A command that is handled at once meets its request too, and a command  *)
(* that is no request leaves the others where they are.                    *)
LEMMA PendingReceived ==
  ASSUME TypeOK, NEW cmd \in Command, Receive(cmd), phase' # "stopping"
  PROVE  /\ cmd \in Request => cmd \in Pending
         /\ Pending' \in {Pending, Pending \ {cmd}}
<1>1. phase = "select"
  BY DEF Receive
<1>2. cmd \in Request => cmd \in Pending
  BY ReceiveQueued DEF Pending
<1>3. \A r \in Request: r \in Pending' => r \in Pending
  BY ReceiveQueued, <1>1 DEF Pending
<1>4. \A r \in Request: r # cmd /\ r \in Pending => r \in Pending'
  BY ReceiveQueued, <1>1 DEF Pending
<1>5. Pending \subseteq Request /\ Pending' \subseteq Request
  BY DEF Pending, Request, RequestsToReplace, RequestsToStop
<1>6. Pending' = Pending \/ Pending' = Pending \ {cmd}
  <2>1. CASE cmd \in Pending'
    BY <1>3, <1>4, <1>5, <2>1
  <2>2. CASE cmd \notin Pending'
    <3>1. \A r: r \in Pending' <=> r \in Pending \ {cmd}
      BY <1>3, <1>4, <1>5, <2>2
    <3> QED
      BY <3>1
  <2> QED
    BY <2>1, <2>2
<1> QED
  BY <1>2, <1>6

LEMMA NoRequestReceived ==
  ASSUME TypeOK, NEW cmd \in Command \ Request, Receive(cmd), phase' # "stopping"
  PROVE  Pending' = Pending
<1>1. cmd \notin Pending
  BY DEF Pending
<1> QED
  BY <1>1, PendingReceived

(* graceful_stop begins: its request leaves the channel and is its reason. *)
LEMMA PendingBegun ==
  ASSUME TypeOK, NEW cmd \in Command, BeginStop(cmd)
  PROVE  Pending' = Pending
<1>1. phase = "select" /\ phase' = "stopping" /\ reason' = cmd /\ Receive(cmd)
  BY DEF BeginStop, Receive
<1>2. \A r \in Request: r \in Pending' <=> r \in Pending
  BY ReceiveQueued, <1>1 DEF Pending
<1>3. Pending \subseteq Request /\ Pending' \subseteq Request
  BY DEF Pending, Request, RequestsToReplace, RequestsToStop
<1> QED
  BY <1>2, <1>3

-----------------------------------------------------------------------------
(* Every step of Supervisor is one of EngineLifecycle, or a stutter. *)
LEMMA InstallingImplements ==
  IInv /\ WaiterInv /\ Installing => [Lifecycle!Next]_Lifecycle!vars
<1> SUFFICES ASSUME IInv, WaiterInv, Installing PROVE [Lifecycle!Next]_Lifecycle!vars
  OBVIOUS
<1> USE ConstAssumption DEF IInv, TypeOK, PhaseInv, Booting, supervisor, system, tasks, ui
<1>1. phase # "stopping" /\ phase' # "stopping" /\ UNCHANGED cmds /\ Mode = "open" /\ Mode' = "open"
  BY DEF Installing, EnsureAria2, EnsureAria2Fails, InstallFailed, CleanupStale, Cleanup,
         SpawnChild, SpawnFails, ConnectOk, Connected, ConnectFails, Mode
<1>2. Pending' = Pending
  BY <1>1, PendingKept
<1>3. CASE EnsureAria2 \/ EnsureAria2Fails \/ SpawnFails
  <2>1. UNCHANGED <<sidecar, waiter, proc>>
    BY <1>3 DEF EnsureAria2, EnsureAria2Fails, SpawnFails, InstallFailed
  <2>2. Stutter
    BY <2>1, <1>1, <1>2, PastKept, ExitedKept DEF Stutter
  <2> QED
    BY <2>2, Translation
<1>4. CASE SpawnChild
  <2>1. PICK c \in Child: proc[c] = "unborn" /\ proc' = [proc EXCEPT ![c] = "up"]
    BY <1>4 DEF SpawnChild
  <2>2. Exited' = Exited
    BY <2>1 DEF Exited
  <2>3. UNCHANGED <<sidecar, waiter>>
    BY <1>4 DEF SpawnChild
  <2>4. Stutter
    BY <2>2, <2>3, <1>1, <1>2, PastKept DEF Stutter
  <2> QED
    BY <2>4, Translation
<1>5. CASE CleanupStale
  <2>1. UNCHANGED <<sidecar, waiter>>
    BY <1>5 DEF CleanupStale, Cleanup
  <2>2. Past' = Past
    BY <2>1, PastKept
  <2>3. CASE pid_file \in Child /\ Running(pid_file) /\ exe[pid_file] = binary
    <3>1. Exited' = Exited \cup {pid_file}
      BY <1>5, <2>3 DEF CleanupStale, Cleanup, Exited
    <3> QED
      BY <3>1, <2>1, <2>2, <2>3, <1>1, <1>2, Translation
  <2>4. CASE ~(pid_file \in Child /\ Running(pid_file) /\ exe[pid_file] = binary)
    <3>1. Exited' = Exited
      BY <1>5, <2>4 DEF CleanupStale, Cleanup, Exited
    <3>2. Stutter
      BY <3>1, <2>1, <2>2, <1>1, <1>2 DEF Stutter
    <3> QED
      BY <3>2, Translation
  <2> QED
    BY <2>3, <2>4
<1>6. CASE ConnectOk
  <2>1. /\ conn \in Child /\ proc[conn] = "up" /\ waiter[conn] = "none"
        /\ sidecar = NoChild /\ sidecar' = conn /\ UNCHANGED proc
        /\ waiter' = [waiter EXCEPT ![conn] = "waiting"]
    BY <1>6 DEF ConnectOk, Connected, SpawnWaiter, WaiterInv
  <2>2. conn \notin Past \cup Exited /\ Past' = Past \cup {conn} /\ Exited' = Exited
    BY <2>1 DEF Past, Exited
  <2> QED
    BY <2>1, <2>2, <1>1, <1>2, Translation
<1>7. CASE ConnectFails
  <2>1. conn \in Child /\ UNCHANGED <<sidecar, waiter>>
        /\ proc' = [proc EXCEPT ![conn] = "exited"]
    BY <1>7 DEF ConnectFails, InstallFailed
  <2>2. Exited' = Exited \cup {conn} /\ Past' = Past
    BY <2>1, PastKept DEF Exited
  <2> QED
    BY <2>1, <2>2, <1>1, <1>2, Translation
<1> QED
  BY <1>3, <1>4, <1>5, <1>6, <1>7 DEF Installing

LEMMA CommandsImplement ==
  IInv /\ WaiterInv /\ Commands => [Lifecycle!Next]_Lifecycle!vars
<1> SUFFICES ASSUME IInv, WaiterInv, Commands PROVE [Lifecycle!Next]_Lifecycle!vars
  OBVIOUS
<1> USE ConstAssumption DEF IInv, TypeOK, PhaseInv, Booting, supervisor, system, tasks, ui
<1> USE DEF Request, RequestsToReplace, RequestsToStop, Command
<1>1. Past' = Past /\ Mode = "open" /\ TypeOK
  <2>1. UNCHANGED waiter /\ phase # "stopped"
    BY DEF Commands, Receive, BeginStop, Stop, ShutdownDone, ShutdownIdle, ForceKill,
           RestartStopped, RestartIdle, BeginInstall, RetryAria2Fetch, RetryInstall,
           DownloadAria2Update, ReloadSchedules, ClientCommand
  <2> QED
    BY <2>1, PastKept DEF Mode
<1>2. ASSUME NEW cmd \in {"Shutdown", "RestartEngine"}, BeginStop(cmd)
      PROVE  [Lifecycle!Next]_Lifecycle!vars
  <2>1. UNCHANGED <<sidecar, proc>> /\ Mode' = "open"
    BY <1>2 DEF BeginStop, Mode
  <2>2. Stutter
    BY <2>1, <1>1, <1>2, PendingBegun, ExitedKept DEF Stutter
  <2> QED
    BY <2>2, Translation
<1>3. ASSUME NEW cmd \in {"DownloadAria2Update", "ReloadSchedules", "Client"},
             Receive(cmd), UNCHANGED <<phase, sidecar, proc>>
      PROVE  [Lifecycle!Next]_Lifecycle!vars
  <2>1. phase' # "stopping" /\ Mode' = "open"
    BY <1>3 DEF Receive, Mode
  <2>2. Pending' = Pending
    BY <2>1, <1>1, <1>3, NoRequestReceived
  <2>3. Stutter
    BY <2>1, <2>2, <1>1, <1>3, ExitedKept DEF Stutter
  <2> QED
    BY <2>3, Translation
<1>4. ASSUME NEW cmd \in RequestsToReplace, Receive(cmd),
             phase' = "fetch", sidecar' = NoChild, UNCHANGED proc
      PROVE  [Lifecycle!Next]_Lifecycle!vars
  <2>1. cmd \in Pending /\ Pending' \in {Pending, Pending \ {cmd}}
    BY <1>1, <1>4, PendingReceived
  <2>2. Mode' = Mode
    BY <1>1, <1>4 DEF Mode
  <2> QED
    BY <2>1, <2>2, <1>1, <1>4, ExitedKept, Translation
<1>5. CASE RestartStopped
  <2>1. /\ phase = "stopping" /\ reason = "RestartEngine" /\ phase' = "fetch"
        /\ UNCHANGED cmds /\ sidecar' = NoChild /\ sidecar \in Child
        /\ AskToStop(sidecar)
    BY <1>5 DEF RestartStopped, BeginInstall
  <2>2. reason \in Pending /\ Pending' \in {Pending, Pending \ {reason}}
    BY <2>1, PendingMet
  <2>3. Exited' = Exited /\ Mode' = Mode
    BY <2>1, <1>1 DEF AskToStop, Exited, Mode
  <2> QED
    BY <2>1, <2>2, <2>3, <1>1, Translation
<1>6. CASE ShutdownDone
  <2>1. /\ phase = "stopping" /\ reason = "Shutdown" /\ phase' = "stopped"
        /\ UNCHANGED <<cmds, sidecar>> /\ sidecar \in Child /\ AskToStop(sidecar)
    BY <1>6 DEF ShutdownDone, Stop
  <2>2. reason \in Pending /\ Pending' \in {Pending, Pending \ {reason}}
    BY <2>1, PendingMet
  <2>3. Exited' = Exited /\ Exited \subseteq Child /\ Mode' = "stopped"
    BY <2>1 DEF AskToStop, Exited, Mode
  <2> QED
    BY <2>1, <2>2, <2>3, <1>1, Translation
<1>7. ASSUME NEW cmd \in RequestsToStop, Receive(cmd), phase' = "stopped", UNCHANGED sidecar,
             \A c \in Child: proc[c] = "exited" => proc'[c] = "exited"
      PROVE  [Lifecycle!Next]_Lifecycle!vars
  <2>1. cmd \in Pending /\ Pending' \in {Pending, Pending \ {cmd}}
    BY <1>1, <1>7, PendingReceived
  <2>2. Exited \subseteq Exited' /\ Exited' \subseteq Child /\ Mode' = "stopped"
    BY <1>7 DEF Exited, Mode
  <2> QED
    BY <2>1, <2>2, <1>1, <1>7, Translation
<1>8. CASE BeginStop("Shutdown") \/ BeginStop("RestartEngine")
  BY <1>8, <1>2
<1>9. CASE DownloadAria2Update \/ ReloadSchedules \/ ClientCommand
  <2>1. /\ Receive("DownloadAria2Update") \/ Receive("ReloadSchedules") \/ Receive("Client")
        /\ UNCHANGED <<phase, sidecar, proc>>
    BY <1>9 DEF DownloadAria2Update, ReloadSchedules, ClientCommand
  <2> QED
    BY <2>1, <1>3
<1>10. CASE RetryAria2Fetch \/ RestartIdle
  <2>1. /\ Receive("RetryAria2Fetch") \/ Receive("RestartEngine")
        /\ phase' = "fetch" /\ sidecar' = NoChild /\ UNCHANGED proc
    BY <1>10 DEF RetryAria2Fetch, RetryInstall, RestartIdle, BeginInstall
  <2> QED
    BY <2>1, <1>4
<1>11. CASE ShutdownIdle \/ ForceKill
  <2>1. /\ Receive("Shutdown") \/ Receive("ForceKill")
        /\ phase' = "stopped" /\ UNCHANGED sidecar
        /\ \A c \in Child: proc[c] = "exited" => proc'[c] = "exited"
    BY <1>11 DEF ShutdownIdle, ForceKill, Stop
  <2> QED
    BY <2>1, <1>7
<1> QED
  BY <1>5, <1>6, <1>8, <1>9, <1>10, <1>11 DEF Commands

LEMMA ReportsImplement ==
  IInv /\ WaiterInv /\ Reports => [Lifecycle!Next]_Lifecycle!vars
<1> SUFFICES ASSUME IInv, WaiterInv, NEW c \in Child, StaleReport(c) \/ ExitReport(c)
             PROVE  [Lifecycle!Next]_Lifecycle!vars
  BY DEF Reports
<1> USE ConstAssumption DEF IInv, TypeOK, supervisor, system, tasks, ui
<1>1. /\ phase = "select" /\ phase' \in {"select", "fetch"}
      /\ UNCHANGED <<cmds, proc>> /\ waiter[c] = "reported"
      /\ waiter' = [waiter EXCEPT ![c] = "done"]
  BY DEF StaleReport, ExitReport, TakeReport, GiveUp, BeginInstall
<1>2. /\ Past' = Past /\ Exited' = Exited /\ Pending' = Pending
      /\ Mode = "open" /\ Mode' = "open"
  <2>1. \A d \in Child: waiter'[d] # "none" <=> waiter[d] # "none"
    BY <1>1
  <2>2. phase # "stopping" /\ phase' # "stopping"
    BY <1>1
  <2>3. Mode = "open" /\ Mode' = "open"
    BY <1>1 DEF Mode
  <2> QED
    BY <1>1, <2>1, <2>2, <2>3, PastKept, ExitedKept, PendingKept
<1>3. CASE StaleReport(c)
  <2>1. Stutter
    BY <1>2, <1>3 DEF StaleReport, Stutter
  <2> QED
    BY <2>1, Translation
<1>4. CASE ExitReport(c)
  <2>1. sidecar = c /\ proc[c] = "exited" /\ sidecar' = NoChild
    BY <1>1, <1>4 DEF ReportInv, CurrentReportIsSidecar, Outstanding, ExitReport,
       IsCurrent, GiveUp, BeginInstall
  <2>2. sidecar \in Exited
    BY <2>1 DEF Exited
  <2> QED
    BY <2>1, <2>2, <1>2, Translation
<1> QED
  BY <1>3, <1>4

LEMMA EnvironmentImplements ==
  IInv /\ WaiterInv /\ Environment => [Lifecycle!Next]_Lifecycle!vars
<1> SUFFICES ASSUME IInv, WaiterInv, Environment PROVE [Lifecycle!Next]_Lifecycle!vars
  OBVIOUS
<1> USE ConstAssumption DEF IInv, TypeOK, supervisor, system, tasks, ui
<1>1. UNCHANGED <<phase, reason, sidecar>> /\ Mode' = Mode
  BY DEF Environment, ChildExits, WaiterReports, EmitEngineReady, EmitSyncComplete,
         DownloadEnds, Send, Mode
<1>2. UNCHANGED cmds => Pending' = Pending
  BY <1>1 DEF Pending, Queued
<1>3. ASSUME NEW c \in Child, ChildExits(c) PROVE [Lifecycle!Next]_Lifecycle!vars
  <2>1. UNCHANGED <<cmds, waiter>> /\ Exited' = Exited \cup {c}
    BY <1>3 DEF ChildExits, Exited
  <2> QED
    BY <2>1, <1>1, <1>2, PastKept, Translation
<1>4. ASSUME NEW c \in Child, WaiterReports(c) PROVE [Lifecycle!Next]_Lifecycle!vars
  <2>1. UNCHANGED <<cmds, proc>> /\ Past' = Past
    BY <1>4 DEF WaiterReports, Past
  <2>2. Stutter
    BY <2>1, <1>1, <1>2, ExitedKept DEF Stutter
  <2> QED
    BY <2>2, Translation
<1>5. ASSUME UNCHANGED <<cmds, proc, waiter>> PROVE [Lifecycle!Next]_Lifecycle!vars
  <2>1. Stutter
    BY <1>1, <1>2, <1>5, PastKept, ExitedKept DEF Stutter
  <2> QED
    BY <2>1, Translation
<1>6. ASSUME NEW cmd \in Command, Send(cmd) PROVE [Lifecycle!Next]_Lifecycle!vars
  <2>1. UNCHANGED <<proc, waiter>> /\ Mode = "open"
    BY <1>6 DEF Send, Mode
  <2>2. \A r \in Request: r \in Pending' <=> r \in Pending \/ r = cmd
    BY <1>1, <1>6, SendQueued DEF Pending
  <2>3. Pending \subseteq Request /\ Pending' \subseteq Request
    BY DEF Pending, Request, RequestsToReplace, RequestsToStop
  <2>4. CASE cmd \in Request
    <3>1. Pending' = Pending \cup {cmd}
      BY <2>2, <2>3, <2>4
    <3> QED
      BY <3>1, <2>1, <2>4, <1>1, PastKept, ExitedKept, Translation
  <2>5. CASE cmd \notin Request
    <3>1. Pending' = Pending
      BY <2>2, <2>3, <2>5
    <3>2. Stutter
      BY <3>1, <2>1, <1>1, PastKept, ExitedKept DEF Stutter
    <3> QED
      BY <3>2, Translation
  <2> QED
    BY <2>4, <2>5
<1>7. CASE DownloadEnds \/ \E c \in Child: EmitEngineReady(c) \/ EmitSyncComplete(c)
  BY <1>5, <1>7 DEF DownloadEnds, EmitEngineReady, EmitSyncComplete
<1> QED
  BY <1>3, <1>4, <1>6, <1>7 DEF Environment

(* The supervisor implements the life of the engine as the rest of the     *)
(* application may see it: every behaviour of Spec, with its state read as *)
(* SupervisorLifecycle says, is one of EngineLifecycle.                    *)
THEOREM ImplementsEngineLifecycle == Spec => ImplementsLifecycle
<1>1. Init => Lifecycle!Init
  BY ConstAssumption DEF Init, InitSystem, InitTasks, Lifecycle!Init, RequestsToReplace,
     RequestsToStop
<1>2. IInv /\ WaiterInv /\ [Next]_vars => [Lifecycle!Next]_Lifecycle!vars
  <2> SUFFICES ASSUME IInv, WaiterInv, [Next]_vars PROVE [Lifecycle!Next]_Lifecycle!vars
    OBVIOUS
  <2>1. CASE UNCHANGED vars
    <3>1. UNCHANGED Lifecycle!vars
      BY <2>1 DEF vars, supervisor, system, tasks, ui, Lifecycle!vars
    <3> QED
      BY <3>1
  <2>2. CASE Next
    BY <2>2, InstallingImplements, CommandsImplement, ReportsImplement, EnvironmentImplements
       DEF Next, SupervisorStep
  <2> QED
    BY <2>1, <2>2
<1> QED
  BY <1>1, <1>2, IInvInvariant, WaiterInvariant, PTL DEF Spec, ImplementsLifecycle, Lifecycle!Spec

=============================================================================
