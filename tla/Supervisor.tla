----------------------------- MODULE Supervisor -----------------------------
(***************************************************************************)
(* The engine supervisor of Remotrix (src/engine/mod.rs, run_supervisor):  *)
(* the tokio task that owns the aria2-next child process.  It reads two    *)
(* channels: the commands of the UI, and the exit reports of the children. *)
(*                                                                         *)
(* A child process is a member of Child and is never reused.  An await of  *)
(* the supervisor is a step between two values of `phase': between them    *)
(* children exit, their waiter tasks report, boot tasks run and the UI     *)
(* sends.  Code between two awaits is one action.                          *)
(*                                                                         *)
(* The unix build is modelled (cleanup_stale_aria2 and kill_sidecar_by_pid *)
(* do nothing elsewhere); writing aria2.pid is assumed to succeed.         *)
(***************************************************************************)
EXTENDS Naturals, Sequences, FiniteSets

CONSTANTS
  Child,        \* every aria2-next process there can be
  NoChild,      \* absence of a process in an Option
  MAX_RETRIES,  \* exits in a row after which the supervisor gives up (3)
  MaxCmds       \* bound: commands the UI sends

ASSUME ConstAssumption ==
  /\ NoChild \notin Child
  /\ MAX_RETRIES \in Nat
  /\ MaxCmds \in Nat

VARIABLES
  (* locals of run_supervisor *)
  phase,             \* the await the supervisor is in; "select" is its loop
  reason,            \* the caller of the graceful_stop or install in progress
  sidecar,           \* Option<Sidecar>: the child whose client is in use
  poll_handle,       \* poll_handles: the client of the loops that can be aborted
  scheduler_handle,  \* Option<JoinHandle>, by the client of the scheduler
  retry_count, generation,
  conn,              \* the child Sidecar::spawn is connecting to
  (* operating system and files *)
  proc, exe,         \* state of each process, the binary it runs
  pid_file,          \* aria2.pid
  unnamed,           \* history: the orphans that aria2.pid did not name
  binary, staged,    \* the installed binary; is there a .pending-update
  (* detached tasks *)
  waiter, gen,       \* the task awaiting each child's exit and its generation
  polling, scheduling,  \* how many loops run on the client of each child
  boot,              \* the task that sends EngineReady and SyncComplete
  downloads,         \* aria2 update downloads in flight
  (* channels and UI *)
  cmds, sent,
  aria2_fetch_error  \* the UI shows a failure and offers a retry

supervisor == <<phase, reason, sidecar, poll_handle, scheduler_handle,
                retry_count, generation, conn>>
system == <<proc, exe, pid_file, unnamed, binary, staged>>
tasks  == <<waiter, gen, polling, scheduling, boot, downloads>>
ui     == <<cmds, sent, aria2_fetch_error>>
vars   == <<supervisor, system, tasks, ui>>

Command == {"Shutdown", "ForceKill", "DownloadAria2Update", "ReloadSchedules",
            "RetryAria2Fetch", "RestartEngine", "Client"}
Reason  == {"initial", "RetryAria2Fetch", "RestartEngine", "exit", "Shutdown"}
Running(c) == proc[c] \in {"up", "asked"}

-----------------------------------------------------------------------------
(* Previous runs of the app may have been killed before they could stop    *)
(* their child: the process is an orphan.  aria2.pid names the last one    *)
(* that was connected to; an orphan that no file names was spawned by a    *)
(* run that was killed before it connected, or was still shutting down     *)
(* when its run removed the file.                                          *)
InitSystem ==
  /\ pid_file \in Child \cup {NoChild}
  /\ unnamed \in SUBSET (Child \ {pid_file})
  /\ proc = [c \in Child |->
               IF c \in unnamed \cup {pid_file} THEN "up" ELSE "unborn"]
  /\ exe = [c \in Child |-> 0]
  /\ binary = 0
  /\ staged \in BOOLEAN

InitTasks ==
  /\ waiter = [c \in Child |-> "none"]
  /\ gen = [c \in Child |-> 0]
  /\ polling = [c \in Child |-> 0]
  /\ scheduling = [c \in Child |-> 0]
  /\ boot = [c \in Child |-> "none"]
  /\ downloads = 0

Init ==
  /\ phase = "fetch" /\ reason = "initial"
  /\ sidecar = NoChild /\ poll_handle = NoChild /\ scheduler_handle = NoChild
  /\ retry_count = 0 /\ generation = 0 /\ conn = NoChild
  /\ InitSystem
  /\ InitTasks
  /\ cmds = <<>> /\ sent = 0 /\ aria2_fetch_error = FALSE

-----------------------------------------------------------------------------
(* h.abort() on the handles of the loops that use a child's client.        *)
Abort(running, handle) ==
  IF handle = NoChild THEN running ELSE [running EXCEPT ![handle] = @ - 1]

AbortPollsKeepsHandle ==       \* mutant: iter() for drain()
  /\ polling' = Abort(polling, poll_handle)
  /\ UNCHANGED poll_handle

AbortPolls ==
  /\ polling' = Abort(polling, poll_handle)
  /\ poll_handle' = NoChild

DropScheduler ==               \* mutant: a dropped JoinHandle detaches its task
  /\ scheduler_handle' = NoChild
  /\ UNCHANGED scheduling

AbortScheduler ==
  /\ scheduling' = Abort(scheduling, scheduler_handle)
  /\ scheduler_handle' = NoChild

(* install_sidecar up to the first await of boot. *)
BeginInstall(why) ==
  /\ AbortPolls
  /\ AbortScheduler
  /\ sidecar' = NoChild
  /\ phase' = "fetch"
  /\ reason' = why

(* install_sidecar returned an error: every caller but RestartEngine sends *)
(* Aria2FetchFailed, RestartEngine sends EngineDegraded; the UI keeps both *)
(* in aria2_fetch_error.                                                   *)
InstallFailsSilently ==        \* mutant: the error is only logged
  /\ phase' = "select"
  /\ conn' = NoChild
  /\ UNCHANGED <<reason, sidecar, poll_handle, scheduler_handle, retry_count,
                 generation, tasks, ui>>

InstallFailed ==
  /\ phase' = "select"
  /\ conn' = NoChild
  /\ aria2_fetch_error' = TRUE
  /\ UNCHANGED <<reason, sidecar, poll_handle, scheduler_handle, retry_count,
                 generation, tasks, cmds, sent>>

(* boot: ensure_aria2_next.  A staged update is promoted to a binary at a  *)
(* new path and the old file is deleted, or it fails its checksum and is   *)
(* discarded; then, without a usable binary, a download may fail.          *)
PromoteStaged ==
  \/ /\ staged
     /\ staged' = FALSE
     /\ binary' \in {binary, binary + 1}
  \/ /\ ~staged
     /\ UNCHANGED <<staged, binary>>

EnsureAria2 ==
  /\ phase = "fetch"
  /\ phase' = "cleanup"
  /\ PromoteStaged
  /\ UNCHANGED <<reason, sidecar, poll_handle, scheduler_handle, retry_count,
                 generation, conn, proc, exe, unnamed, pid_file, tasks, ui>>

EnsureAria2Fails ==
  /\ phase = "fetch"
  /\ InstallFailed
  /\ staged' = FALSE
  /\ UNCHANGED <<proc, exe, unnamed, pid_file, binary>>

(* boot: cleanup_stale_aria2.  The process of the pid file is stopped when *)
(* it runs the very binary about to be started; the file goes either way.  *)
Cleanup(outcome) ==
  /\ phase = "cleanup"
  /\ phase' = "spawn"
  /\ proc' = [c \in Child |->
                IF c = pid_file /\ Running(c) /\ exe[c] = binary
                  THEN outcome ELSE proc[c]]
  /\ pid_file' = NoChild
  /\ UNCHANGED <<reason, sidecar, poll_handle, scheduler_handle, retry_count,
                 generation, conn, exe, unnamed, binary, staged, tasks, ui>>

CleanupWithoutWaiting == Cleanup("asked")   \* mutant: SIGTERM, then spawn at once
CleanupStale == Cleanup("exited")

(* Sidecar::spawn: the process starts, or the port, the session file or    *)
(* the exec fails.                                                         *)
SpawnChild ==
  /\ phase = "spawn"
  /\ \E c \in Child:
       /\ proc[c] = "unborn"
       /\ proc' = [proc EXCEPT ![c] = "up"]
       /\ exe' = [exe EXCEPT ![c] = binary]
       /\ conn' = c
  /\ phase' = "connect"
  /\ UNCHANGED <<reason, sidecar, poll_handle, scheduler_handle, retry_count,
                 generation, pid_file, unnamed, binary, staged, tasks, ui>>

SpawnFails ==
  /\ phase = "spawn"
  /\ InstallFailed
  /\ UNCHANGED system

(* boot: a task awaits the child's exit, to report it with the generation  *)
(* this install was started with.                                          *)
NoWaiterAfterCrash(c) ==       \* mutant: only the first install is watched
  IF reason = "exit" THEN UNCHANGED <<waiter, gen>>
  ELSE /\ waiter' = [waiter EXCEPT ![c] = "waiting"]
       /\ gen' = [gen EXCEPT ![c] = generation]

SpawnWaiter(c) ==
  /\ waiter' = [waiter EXCEPT ![c] = "waiting"]
  /\ gen' = [gen EXCEPT ![c] = generation]

(* Sidecar::spawn after Client::connect, the waiter of boot, and the rest  *)
(* of install_sidecar with on_sidecar_ready and start_scheduler.  A child  *)
(* that exits between connect and here is one that exits right after.      *)
Connected(retries) ==
  /\ phase = "connect"
  /\ proc[conn] = "up"
  /\ pid_file' = conn
  /\ SpawnWaiter(conn)
  /\ polling' = [polling EXCEPT ![conn] = @ + 1]
  /\ scheduling' = [scheduling EXCEPT ![conn] = @ + 1]
  /\ boot' = [boot EXCEPT ![conn] = "options"]
  /\ poll_handle' = conn
  /\ scheduler_handle' = conn
  /\ sidecar' = conn
  /\ retry_count' = retries
  /\ conn' = NoChild
  /\ phase' = "select"
  /\ UNCHANGED <<reason, generation, proc, exe, unnamed, binary, staged,
                 downloads, ui>>

ConnectOk == Connected(0)

(* Ten connect attempts failed: the Child is dropped, and killed with it.  *)
ConnectFails ==
  /\ phase = "connect"
  /\ InstallFailed
  /\ proc' = [proc EXCEPT ![conn] = "exited"]
  /\ UNCHANGED <<exe, unnamed, pid_file, binary, staged>>

-----------------------------------------------------------------------------
(* The commands.  Every handler takes the head of the channel. *)
Receive(cmd) ==
  /\ phase = "select"
  /\ cmds # <<>> /\ Head(cmds) = cmd
  /\ cmds' = Tail(cmds)

(* graceful_stop begins: pause, wait, save the session, ask for shutdown.  *)
BeginStop(cmd) ==
  /\ Receive(cmd)
  /\ sidecar # NoChild
  /\ phase' = "stopping"
  /\ reason' = cmd
  /\ UNCHANGED <<sidecar, poll_handle, scheduler_handle, retry_count,
                 generation, conn, system, tasks, sent, aria2_fetch_error>>

(* The shutdown request of graceful_stop reaches a live child, or its      *)
(* result is ignored.                                                      *)
AskToStop(c) ==
  \/ /\ proc[c] = "up"
     /\ proc' = [proc EXCEPT ![c] = "asked"]
  \/ UNCHANGED proc

(* The end of run_supervisor: EngineStopped, every loop aborted, no file.  *)
Stop ==
  /\ phase' = "stopped"
  /\ AbortPolls
  /\ AbortScheduler
  /\ pid_file' = NoChild

ShutdownDone ==
  /\ phase = "stopping" /\ reason = "Shutdown"
  /\ AskToStop(sidecar)
  /\ Stop
  /\ UNCHANGED <<reason, sidecar, retry_count, generation, conn, exe, unnamed,
                 binary, staged, waiter, gen, boot, downloads, ui>>

ShutdownNeedsSidecar ==        \* mutant: without a sidecar there is no break
  /\ Receive("Shutdown")
  /\ sidecar = NoChild
  /\ UNCHANGED <<supervisor, system, tasks, sent, aria2_fetch_error>>

ShutdownIdle ==
  /\ Receive("Shutdown")
  /\ sidecar = NoChild
  /\ Stop
  /\ UNCHANGED <<reason, sidecar, retry_count, generation, conn, proc, exe,
                 unnamed, binary, staged, waiter, gen, boot, downloads, sent,
                 aria2_fetch_error>>

(* force_shutdown, then SIGKILL to the process of the pid file. *)
ForceKill ==
  /\ Receive("ForceKill")
  /\ Stop
  /\ proc' = [c \in Child |->
                IF Running(c) /\ c \in {sidecar, pid_file} THEN "exited"
                                                           ELSE proc[c]]
  /\ UNCHANGED <<reason, sidecar, retry_count, generation, conn, exe, unnamed,
                 binary, staged, waiter, gen, boot, downloads, sent,
                 aria2_fetch_error>>

(* A detached task downloads the update, or Aria2UpdateFailed is sent.     *)
DownloadAria2Update ==
  /\ Receive("DownloadAria2Update")
  /\ downloads' = IF sidecar # NoChild THEN downloads + 1 ELSE downloads
  /\ UNCHANGED <<phase, reason, sidecar, poll_handle, scheduler_handle,
                 retry_count, generation, conn, system, waiter, gen, polling,
                 scheduling, boot, sent, aria2_fetch_error>>

ReloadSchedules ==
  /\ Receive("ReloadSchedules")
  /\ IF sidecar # NoChild
       THEN /\ scheduling' = [Abort(scheduling, scheduler_handle)
                                EXCEPT ![sidecar] = @ + 1]
            /\ scheduler_handle' = sidecar
       ELSE UNCHANGED <<scheduling, scheduler_handle>>
  /\ UNCHANGED <<phase, reason, sidecar, poll_handle, retry_count, generation,
                 conn, system, waiter, gen, polling, boot, downloads, sent,
                 aria2_fetch_error>>

RetryInstall(next) ==
  /\ Receive("RetryAria2Fetch")
  /\ generation' = next
  /\ BeginInstall("RetryAria2Fetch")
  /\ UNCHANGED <<retry_count, conn, system, waiter, gen, boot, downloads, sent,
                 aria2_fetch_error>>

RetrySameGeneration == RetryInstall(generation)   \* mutant: no new generation
RetryAria2Fetch == RetryInstall(generation + 1)

RestartStopped ==
  /\ phase = "stopping" /\ reason = "RestartEngine"
  /\ AskToStop(sidecar)
  /\ generation' = generation + 1
  /\ BeginInstall("RestartEngine")
  /\ UNCHANGED <<retry_count, conn, exe, unnamed, pid_file, binary, staged,
                 waiter, gen, boot, downloads, ui>>

RestartIdle ==
  /\ Receive("RestartEngine")
  /\ sidecar = NoChild
  /\ generation' = generation + 1
  /\ BeginInstall("RestartEngine")
  /\ UNCHANGED <<retry_count, conn, system, waiter, gen, boot, downloads, sent,
                 aria2_fetch_error>>

(* Any other command: handle_client_cmd, or EngineDegraded. *)
ClientCommand ==
  /\ Receive("Client")
  /\ aria2_fetch_error' = (aria2_fetch_error \/ sidecar = NoChild)
  /\ UNCHANGED <<phase, reason, sidecar, poll_handle, scheduler_handle,
                 retry_count, generation, conn, system, tasks, sent>>

-----------------------------------------------------------------------------
(* The exit reports.  The channel carries generations and the supervisor   *)
(* only compares them with its own, so their order does not matter: the    *)
(* channel is the set of children whose waiter is "reported".              *)
TakeReport(c) ==
  /\ phase = "select"
  /\ waiter[c] = "reported"
  /\ waiter' = [waiter EXCEPT ![c] = "done"]

AnyReport(c) == TRUE           \* mutant: the generation is not compared
IsCurrent(c) == gen[c] = generation

StaleReport(c) ==
  /\ TakeReport(c)
  /\ ~IsCurrent(c)
  /\ UNCHANGED <<supervisor, system, gen, polling, scheduling, boot, downloads,
                 ui>>

GiveUp ==
  /\ AbortPolls
  /\ AbortScheduler
  /\ sidecar' = NoChild
  /\ aria2_fetch_error' = TRUE
  /\ UNCHANGED <<phase, reason>>

ExitReport(c) ==
  /\ TakeReport(c)
  /\ IsCurrent(c)
  /\ retry_count' = retry_count + 1
  /\ IF retry_count + 1 > MAX_RETRIES
       THEN GiveUp
       ELSE BeginInstall("exit") /\ UNCHANGED aria2_fetch_error
  /\ UNCHANGED <<generation, conn, system, gen, boot, downloads, cmds, sent>>

-----------------------------------------------------------------------------
(* The environment of the supervisor. *)

(* aria2-next crashes, is killed, or completes the shutdown it was asked.  *)
ChildExits(c) ==
  /\ Running(c)
  /\ proc' = [proc EXCEPT ![c] = "exited"]
  /\ UNCHANGED <<supervisor, exe, unnamed, pid_file, binary, staged, tasks,
                 ui>>

(* boot: child.wait() returns and the waiter sends its generation. *)
WaiterReports(c) ==
  /\ waiter[c] = "waiting" /\ proc[c] = "exited"
  /\ waiter' = [waiter EXCEPT ![c] = "reported"]
  /\ UNCHANGED <<supervisor, system, gen, polling, scheduling, boot, downloads,
                 ui>>

(* on_sidecar_ready: the task that applies the options, sends EngineReady, *)
(* syncs and sends SyncComplete.  It outlives its sidecar: no handle is    *)
(* kept, and the result of each call is only logged.                       *)
EmitEngineReady(c) ==
  /\ boot[c] = "options"
  /\ boot' = [boot EXCEPT ![c] = "sync"]
  /\ aria2_fetch_error' = FALSE
  /\ UNCHANGED <<supervisor, system, waiter, gen, polling, scheduling,
                 downloads, cmds, sent>>

EmitSyncComplete(c) ==
  /\ boot[c] = "sync"
  /\ boot' = [boot EXCEPT ![c] = "done"]
  /\ UNCHANGED <<supervisor, system, waiter, gen, polling, scheduling,
                 downloads, ui>>

(* handle_download_aria2_update: staged, or Aria2UpdateFailed. *)
DownloadEnds ==
  /\ downloads > 0
  /\ downloads' = downloads - 1
  /\ staged' \in {staged, TRUE}
  /\ UNCHANGED <<supervisor, proc, exe, unnamed, pid_file, binary, waiter, gen,
                 polling, scheduling, boot, ui>>

(* The UI sends a command; pressing retry also clears the shown failure.   *)
(* The commands of the channel come in any order here.  The UI sends       *)
(* ForceKill only behind a Shutdown, which ends the loop before it.        *)
Send(cmd) ==
  /\ phase # "stopped"
  /\ sent < MaxCmds
  /\ sent' = sent + 1
  /\ cmds' = Append(cmds, cmd)
  /\ aria2_fetch_error' = (aria2_fetch_error /\ cmd # "RetryAria2Fetch")
  /\ UNCHANGED <<supervisor, system, tasks>>

-----------------------------------------------------------------------------
(* The next-state relation. *)
Installing ==
  \/ EnsureAria2 \/ EnsureAria2Fails \/ CleanupStale
  \/ SpawnChild \/ SpawnFails \/ ConnectOk \/ ConnectFails

Commands ==
  \/ BeginStop("Shutdown") \/ ShutdownDone \/ ShutdownIdle \/ ForceKill
  \/ BeginStop("RestartEngine") \/ RestartStopped \/ RestartIdle
  \/ RetryAria2Fetch \/ DownloadAria2Update \/ ReloadSchedules \/ ClientCommand

Reports ==
  \E c \in Child: StaleReport(c) \/ ExitReport(c)

Environment ==
  \/ \E c \in Child: \/ ChildExits(c) \/ WaiterReports(c)
                     \/ EmitEngineReady(c) \/ EmitSyncComplete(c)
  \/ DownloadEnds
  \/ \E cmd \in Command: Send(cmd)

SupervisorStep == Installing \/ Commands \/ Reports
Next == SupervisorStep \/ Environment
Spec == Init /\ [][Next]_vars

(* The supervisor task runs whenever it can, and select polls both of its  *)
(* channels in random order, so a report is not passed over for ever; a    *)
(* waiter is woken by the exit of its child.  Nothing makes a child exit.  *)
Fairness ==
  /\ WF_vars(SupervisorStep)
  /\ SF_vars(Reports)
  /\ \A c \in Child: WF_vars(WaiterReports(c))
FairSpec == Spec /\ Fairness

-----------------------------------------------------------------------------
(* Properties. *)

(* Type correctness of the state of run_supervisor and its surroundings.   *)
TypeOK ==
  /\ phase \in {"fetch", "cleanup", "spawn", "connect", "select", "stopping",
                "stopped"}
  /\ reason \in Reason
  /\ {sidecar, poll_handle, scheduler_handle, conn, pid_file}
       \subseteq Child \cup {NoChild}
  /\ retry_count \in Nat /\ generation \in Nat
  /\ proc \in [Child -> {"unborn", "up", "asked", "exited"}]
  /\ unnamed \subseteq Child
  /\ exe \in [Child -> Nat] /\ binary \in Nat /\ staged \in BOOLEAN
  /\ waiter \in [Child -> {"none", "waiting", "reported", "done"}]
  /\ gen \in [Child -> Nat]
  /\ polling \in [Child -> Nat] /\ scheduling \in [Child -> Nat]
  /\ boot \in [Child -> {"none", "options", "sync", "done"}]
  /\ downloads \in Nat
  /\ cmds \in Seq(Command) /\ sent \in Nat
  /\ aria2_fetch_error \in BOOLEAN

(* Of the engines that are in aria2.pid or were started by this run, no    *)
(* two run from the same binary: whoever starts a child (a retry with a    *)
(* live sidecar, a restart whose old child is still shutting down, a start *)
(* after the app was killed) has stopped the last one of that binary.      *)
(* This is less than one engine per session file, which all versions       *)
(* share: cleanup_stale_aria2 stops only the process aria2.pid names, and  *)
(* only if it runs the binary about to be started.  An engine of the       *)
(* version before, when a staged update was promoted meanwhile, and an     *)
(* orphan that no pid file names go on beside the new one.                 *)
OneEnginePerBinary ==
  \A c, d \in Child \ unnamed:
    Running(c) /\ Running(d) /\ exe[c] = exe[d] => c = d

(* A child whose exit is still to be handled under the current generation  *)
(* is the installed sidecar: generations tell every other exit apart.      *)
Outstanding(c) == waiter[c] \in {"waiting", "reported"}
CurrentReportIsSidecar ==
  \A c \in Child: Outstanding(c) /\ gen[c] = generation => c = sidecar

(* An installed sidecar's exit never goes unnoticed: until the supervisor  *)
(* handles it, its waiter holds the current generation.                    *)
SidecarIsWatched ==
  phase = "select" /\ sidecar # NoChild =>
    Outstanding(sidecar) /\ gen[sidecar] = generation

(* The progress loops and the scheduler that run are those of the sidecar, *)
(* once each: no crash, restart, retry, reload or stop leaves one behind   *)
(* that polls a dead client or applies speed limits twice.                 *)
NoStrayLoop ==
  /\ \A c \in Child: polling[c] + scheduling[c] > 0 => c = sidecar
  /\ \A c \in Child: polling[c] <= 1 /\ scheduling[c] <= 1
  /\ phase = "stopped" => \A c \in Child: polling[c] = 0 /\ scheduling[c] = 0

(* Without a command, the supervisor lets go of its sidecar only when the  *)
(* process has exited: a healthy engine is never torn down by the late     *)
(* report of an older one.                                                 *)
SidecarDroppedOnlyAfterExit ==
  [][phase = "select" /\ sidecar # NoChild /\ sidecar' # sidecar /\ cmds' = cmds
       => proc[sidecar] = "exited"]_vars

(* Every install resets the counter, and a failed install leaves no waiter *)
(* that could report again: the counter never passes one.                  *)
RetryCountAtMostOne == retry_count <= 1

(* The exit of the installed child is noticed and answered: another child  *)
(* is installed, or the supervisor is back in its loop without one and the *)
(* UI shows the failure, or the supervisor has stopped for good.  It is    *)
(* not enough that the dead sidecar is dropped: an install that follows an *)
(* exit and fails must tell.                                               *)
Replaced(c)   == sidecar \notin {c, NoChild}
FailureShown  == phase = "select" /\ sidecar = NoChild /\ aria2_fetch_error
ExitIsHandled ==
  \A c \in Child:
    sidecar = c /\ proc[c] = "exited" ~>
      Replaced(c) \/ FailureShown \/ phase = "stopped"

(* A Shutdown the UI has queued ends the supervisor, however many children *)
(* crash, restarts and retries come first.                                 *)
ShutdownStops ==
  (\E i \in 1..Len(cmds): cmds[i] = "Shutdown") ~> phase = "stopped"

(* The two together: the supervisor hears of the exit of the engine it     *)
(* uses, and takes no other exit for that one.                             *)
ReportsFollowSidecar == CurrentReportIsSidecar /\ SidecarIsWatched

=============================================================================
