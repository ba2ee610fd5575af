------------------------------- MODULE Limits -------------------------------
(***************************************************************************)
(* The global options of a running aria2-next: what the settings make of   *)
(* them (src/config/settings.rs, to_aria2_task_options), the window of the *)
(* speed-limit schedule (src/core/scheduler.rs), and the three tasks that  *)
(* tell aria2 (src/engine/mod.rs): the supervisor, for a command of the    *)
(* UI; the boot task, once per process; and the scheduler, at both ends of *)
(* the window.  The scheduler also starts the search for tasks whose files *)
(* are gone.                                                               *)
(*                                                                         *)
(* The calls of all tasks go through one connection, so aria2 sees them in *)
(* the order they are made in.  The UI and the scheduler read the clock at *)
(* different times; a minute is a step of `now'.                           *)
(***************************************************************************)
EXTENDS Integers, Sequences

CONSTANTS
  Days,         \* days of the week, 1..Days
  Minutes,      \* minutes of a day, 0..Minutes-1
  Start,        \* the settings at first
  Values,       \* what the user can set each field to
  MaxInputs,    \* bound: what the user and the environment do
  MaxFailures,  \* bound: calls that aria2 does not answer in time
  MaxQueue      \* bound: commands after which the user waits

ASSUME ConstAssumption ==
  /\ {Days, Minutes, MaxInputs, MaxFailures, MaxQueue} \subseteq Nat \ {0}
  /\ DOMAIN Values = DOMAIN Start /\ Start = [f \in DOMAIN Start |-> Start[f]]
  /\ \A f \in DOMAIN Start: Start[f] \in Values[f]

VARIABLES
  settings, applied, disk,   \* as edited, as applied, as saved
  pending,                   \* limits changed in the popover and not sent yet
  cmds,                      \* from the UI to the supervisor
  now,                       \* the clock
  engine,                    \* aria2-next: up, crashed, or being started
  aria2,                     \* its global options
  boot,                      \* the task of on_sidecar_ready
  scheduler,                 \* run_scheduler: its settings, and the side it is on
  (* the search for missing files, and one download it may find *)
  in_flight, check,          \* MISSING_CHECK_IN_FLIGHT, and the task
  found, synced,             \* FilesMissing, SyncComplete on their way to the UI
  row, download, file,
  (* history and bounds *)
  source,                    \* the settings aria2's options come from
  asked,                     \* the settings the scheduler was started for
  crossed,                   \* aria2 was told what does not hold any more, or nothing
  inputs, failures

ui      == <<settings, applied, disk, pending>>
process == <<engine, aria2, boot, source, crossed>>
search  == <<in_flight, check, found, synced, row, download, file>>
bounds  == <<inputs, failures>>
vars    == <<ui, cmds, now, process, scheduler, asked, search, bounds>>

Field == DOMAIN Start    \* download, upload, scheduled, start, end, days, proxy, trackers, missing
Limit == {"download", "upload"}
Set(s, f, v) == [s EXCEPT ![f] = v]

(* What is in options takes the place of what was there. *)
Over(options, there) ==
  [k \in DOMAIN options \cup DOMAIN there |-> IF k \in DOMAIN options THEN options[k] ELSE there[k]]

Idle    == [at |-> "none", settings |-> Start, inside |-> FALSE]
Default == [download |-> 0, upload |-> 0, proxy |-> "", trackers |-> ""]

-----------------------------------------------------------------------------
(* core/scheduler.rs: a time that does not parse is in no window, a window *)
(* that ends where it starts is the whole day, and one that ends before it *)
(* starts goes on after midnight.                                          *)
Minute(t) == t % Minutes
Day(t)    == 1 + t \div Minutes
Parses(m) == m \in 0..Minutes - 1

InWindow(start, end, t) ==
  /\ Parses(start) /\ Parses(end)
  /\ \/ start = end
     \/ start < end /\ Minute(t) \in start..end - 1
     \/ start > end /\ Minute(t) \notin end..start - 1

DayActive(days, t) == days = {} \/ Day(t) \in days

ActiveAt(s, t) ==
  s.scheduled /\ InWindow(s.start, s.end, t) /\ DayActive(s.days, t)

(* to_aria2_task_options: most options are always there; the trackers, the *)
(* user agent and the seed time only when they are set.                    *)
TaskOptions(s) ==
  [k \in {"download", "upload", "proxy"} \cup (IF s.trackers = "" THEN {} ELSE {"trackers"}) |-> s[k]]

NoLimits == [k \in Limit |-> 0]

EffectiveOptions(s, t) ==
  IF s.scheduled /\ ~ActiveAt(s, t) THEN Over(NoLimits, TaskOptions(s))
                                    ELSE TaskOptions(s)

(* apply_speed_limits *)
SpeedLimits(s, inside) == IF inside THEN [k \in Limit |-> s[k]] ELSE NoLimits

(* changeGlobalOption: what the map does not name stays as it is. *)
Change(options) ==
  /\ engine = "up"
  /\ aria2' = Over(options, aria2)
  /\ UNCHANGED failures

(* The call fails: the process is gone, or the three seconds are over. *)
ChangeFails ==
  /\ IF engine = "up" THEN /\ failures < MaxFailures
                           /\ failures' = failures + 1
                      ELSE UNCHANGED failures
  /\ crossed' = (crossed \/ engine = "up")
  /\ UNCHANGED <<aria2, source>>

(* apply_global_options, with options made of s at time t. *)
ApplyGlobalOptions(s, t) ==
  \/ /\ Change(EffectiveOptions(s, t))
     /\ source' = s
     /\ crossed' = (EffectiveOptions(s, t) # EffectiveOptions(s, now))
  \/ ChangeFails

-----------------------------------------------------------------------------
Init ==
  /\ settings = Start /\ applied = Start /\ disk = Start
  /\ pending = {} /\ cmds = <<>> /\ now = 0
  /\ engine = "starting" /\ aria2 = Default /\ boot = "none"
  /\ scheduler = Idle
  /\ in_flight = FALSE /\ check = "none" /\ found = FALSE /\ synced = FALSE
  /\ row = TRUE /\ download = "complete" /\ file = TRUE
  /\ source = Start /\ asked = Start /\ crossed = FALSE
  /\ inputs = 0 /\ failures = 0

Send(more) == cmds' = cmds \o more
Options(s) == [kind |-> "ApplyAria2Options", settings |-> s, time |-> now]
Plain(k)   == [kind |-> k, settings |-> Start, time |-> 0]

Input ==
  /\ inputs < MaxInputs
  /\ Len(cmds) < MaxQueue
  /\ inputs' = inputs + 1
  /\ UNCHANGED failures

-----------------------------------------------------------------------------
(* The UI: the settings pages, the popover of the speed limits. *)

(* The pickers of the page only send times that parse. *)
Edit(f, v) ==
  /\ Input
  /\ f \in {"start", "end"} => Parses(v)
  /\ settings' = Set(settings, f, v)
  /\ UNCHANGED <<applied, disk, pending, cmds, now, process, scheduler, asked, search>>

(* apply_settings *)
Applied(restart, reload) ==
  /\ Input
  /\ disk' = settings /\ applied' = settings /\ asked' = settings
  /\ Send(<<Options(settings)>> \o reload
          \o (IF restart THEN <<Plain("RestartEngine")>> ELSE <<>>))
  /\ UNCHANGED <<settings, pending, now, process, scheduler, search>>

ApplyOnly(restart) == Applied(restart, <<>>)   \* mutant: the schedules are not reloaded
Apply(restart) == Applied(restart, <<Plain("ReloadSchedules")>>)

(* revert_apply_settings: what counts as applied is saved. *)
Discard ==
  /\ Input
  /\ settings' = applied /\ disk' = applied
  /\ UNCHANGED <<applied, pending, cmds, now, process, scheduler, asked, search>>

(* DialogMsg::SpeedLimitChanged: everything edited counts as applied. *)
ChangeInPopover(k, v) ==
  /\ Input
  /\ settings' = Set(settings, k, v)
  /\ applied' = settings'
  /\ pending' = pending \cup {k}
  /\ UNCHANGED <<disk, cmds, now, process, scheduler, asked, search>>

(* handle_speed_limit_debounce_tick, flush_speed_limit_debounce: some of   *)
(* the deadlines are over, or the popover closes, and all options go out.  *)
Debounced ==
  /\ \E due \in SUBSET pending:
       /\ due # {}
       /\ pending' = pending \ due
  /\ Send(<<Options(settings)>>)
  /\ UNCHANGED <<settings, applied, disk, now, process, scheduler, asked, search, bounds>>

(* SettingsMsg::TrackersSynced *)
TrackersSynced ==
  /\ Input
  /\ \E t \in Values.trackers \ {""}:
       /\ settings' = Set(settings, "trackers", t)
       /\ applied' = Set(applied, "trackers", t)
  /\ disk' = applied'
  /\ cmds' = Append(cmds, [Options(settings) EXCEPT !.settings = settings'])
  /\ UNCHANGED <<pending, now, process, scheduler, asked, search>>

(* SyncComplete, FilesMissing *)
SyncComplete ==
  /\ synced
  /\ synced' = FALSE
  /\ Send(IF settings.missing THEN <<Plain("CheckMissingFiles")>> ELSE <<>>)
  /\ UNCHANGED <<ui, now, process, scheduler, asked, in_flight, check, found, row,
                 download, file, bounds>>

FilesMissing ==
  /\ found
  /\ found' = FALSE
  /\ row' = FALSE
  /\ Send(IF row THEN <<Plain("PurgeResults")>> ELSE <<>>)
  /\ UNCHANGED <<ui, now, process, scheduler, asked, in_flight, check, synced, download,
                 file, bounds>>

-----------------------------------------------------------------------------
(* The engine. *)

(* trigger_missing_files_check: one search at a time, in a task of its own. *)
TriggerCheck ==
  IF in_flight THEN UNCHANGED <<in_flight, check>>
               ELSE in_flight' = TRUE /\ check' = "list"

(* The search is not awaited by the scheduler, so an abort leaves it alone. *)
AbortScheduler == UNCHANGED <<in_flight, check>>

StartScheduler == scheduler' = [Idle EXCEPT !.at = "new"]

Receive(kind) ==
  /\ engine # "starting"
  /\ cmds # <<>> /\ Head(cmds).kind = kind
  /\ cmds' = Tail(cmds)

HandleOptions ==
  /\ Receive("ApplyAria2Options")
  /\ ApplyGlobalOptions(Head(cmds).settings, Head(cmds).time)
  /\ UNCHANGED <<ui, now, engine, boot, scheduler, asked, search, inputs>>

ReloadSchedules ==
  /\ Receive("ReloadSchedules")
  /\ AbortScheduler
  /\ StartScheduler
  /\ UNCHANGED <<ui, now, process, asked, found, synced, row, download, file, bounds>>

RestartEngine ==
  /\ Receive("RestartEngine")
  /\ engine' = "starting"
  /\ UNCHANGED <<ui, now, aria2, boot, source, crossed, scheduler, asked, search, bounds>>

CheckMissingFiles ==
  /\ Receive("CheckMissingFiles")
  /\ TriggerCheck
  /\ UNCHANGED <<ui, now, process, scheduler, asked, found, synced, row, download, file, bounds>>

(* removeDownloadResult fails for a download that is under way. *)
PurgeResults ==
  /\ Receive("PurgeResults")
  /\ download' = IF engine = "up" /\ download = "complete" THEN "none" ELSE download
  /\ UNCHANGED <<ui, now, process, scheduler, asked, in_flight, check, found, synced,
                 row, file, bounds>>

(* install_sidecar: a new process with the defaults of aria2. *)
Install ==
  /\ engine # "up"
  /\ engine' = "up"
  /\ aria2' = Default
  /\ boot' = "options"
  /\ AbortScheduler
  /\ StartScheduler
  /\ UNCHANGED <<ui, cmds, now, source, crossed, asked, found, synced, row, download,
                 file, bounds>>

(* on_sidecar_ready: the options of the saved settings, EngineReady, the   *)
(* synchronisation, SyncComplete.                                          *)
BootOptions ==
  /\ boot = "options"
  /\ boot' = "sync"
  /\ ApplyGlobalOptions(disk, now)
  /\ UNCHANGED <<ui, cmds, now, engine, scheduler, asked, search, inputs>>

BootSync ==
  /\ boot = "sync"
  /\ boot' = "done"
  /\ synced' = TRUE
  /\ UNCHANGED <<ui, cmds, now, engine, aria2, source, crossed, scheduler, asked, in_flight,
                 check, found, row, download, file, bounds>>

(* run_scheduler: the settings are loaded once; the side is noted before   *)
(* aria2 is told, and aria2 is told once.                                  *)
SchedulerStarts ==
  /\ scheduler.at = "new"
  /\ scheduler' = [at |-> "run", settings |-> disk, inside |-> ActiveAt(disk, now)]
  /\ asked' = disk
  /\ UNCHANGED <<ui, cmds, now, process, search, bounds>>

Side == ActiveAt(scheduler.settings, now)

(* A reload waits: until then the scheduler follows the settings before. *)
Outdated == \E i \in DOMAIN cmds: cmds[i].kind = "ReloadSchedules"

Transition(inside) ==
  /\ scheduler.at = "run" /\ scheduler.inside # inside
  /\ scheduler' = [scheduler EXCEPT !.inside = inside]
  /\ \/ /\ Change(SpeedLimits(scheduler.settings, inside))
        /\ crossed' = (crossed \/ Outdated)
        /\ UNCHANGED source
     \/ ChangeFails
  /\ UNCHANGED <<ui, cmds, now, engine, boot, asked, search, inputs>>

SchedulerTick == Transition(Side)

(* Every ten minutes, when the setting was on. *)
SchedulerChecks ==
  /\ scheduler.at = "run" /\ scheduler.settings.missing
  /\ ~in_flight
  /\ TriggerCheck
  /\ UNCHANGED <<ui, cmds, now, process, scheduler, asked, found, synced, row, download,
                 file, bounds>>

-----------------------------------------------------------------------------
(* check_missing_files *)

CheckLists ==
  /\ check = "list" /\ engine = "up"
  /\ check' = IF download = "complete" THEN "stat" ELSE "nothing"
  /\ UNCHANGED <<ui, cmds, now, process, scheduler, asked, in_flight, found, synced, row,
                 download, file, bounds>>

CheckStats ==
  /\ check \in {"stat", "nothing"}
  /\ in_flight' = FALSE
  /\ found' = (found \/ (check = "stat" /\ ~file))
  /\ check' = "none"
  /\ UNCHANGED <<ui, cmds, now, process, scheduler, asked, synced, row, download, file, bounds>>

(* The thirty seconds are over. *)
TimesOut(flag) ==
  /\ check = "list"
  /\ IF engine = "up" THEN /\ failures < MaxFailures
                           /\ failures' = failures + 1
                      ELSE UNCHANGED failures
  /\ in_flight' = flag
  /\ check' = "none"
  /\ UNCHANGED <<ui, cmds, now, process, scheduler, asked, found, synced, row, download,
                 file, inputs>>

TimesOutRaised == TimesOut(in_flight)   \* mutant: the flag is cleared by an answer only
CheckTimesOut == TimesOut(FALSE)

-----------------------------------------------------------------------------
(* The environment. *)

(* A minute goes by: the scheduler ticks every second, and aria2 has three *)
(* to answer it.  A scheduler started after a boundary makes no transition *)
(* for it.                                                                 *)
Tick ==
  /\ Input
  /\ scheduler.at # "new" /\ scheduler.inside = Side
  /\ now' = (now + 1) % (Days * Minutes)
  /\ crossed' = \/ crossed
                \/ /\ EffectiveOptions(disk, now) # EffectiveOptions(disk, now')
                   /\ Outdated
  /\ UNCHANGED <<ui, cmds, engine, aria2, boot, source, scheduler, asked, search>>

Crash ==
  /\ Input
  /\ engine = "up"
  /\ engine' = "crashed"
  /\ UNCHANGED <<ui, cmds, now, aria2, boot, source, crossed, scheduler, asked, search>>

Lose ==
  /\ Input
  /\ file /\ file' = FALSE
  /\ UNCHANGED <<ui, cmds, now, process, scheduler, asked, in_flight, check, found, synced,
                 row, download>>

Redownload ==
  /\ Input
  /\ row /\ download = "complete" /\ engine = "up"
  /\ download' = "active"
  /\ UNCHANGED <<ui, cmds, now, process, scheduler, asked, in_flight, check, found, synced,
                 row, file>>

Finish ==
  /\ download = "active" /\ engine = "up"
  /\ download' = "complete" /\ file' = TRUE
  /\ UNCHANGED <<ui, cmds, now, process, scheduler, asked, in_flight, check, found, synced,
                 row, bounds>>

-----------------------------------------------------------------------------
User ==
  \/ \E f \in Field: \E v \in Values[f] \ {settings[f]}: Edit(f, v)
  \/ \E restart \in BOOLEAN: Apply(restart)
  \/ Discard
  \/ \E k \in Limit: \E v \in Values[k] \ {settings[k]}: ChangeInPopover(k, v)
  \/ TrackersSynced

Ui == Debounced \/ SyncComplete \/ FilesMissing

Engine ==
  \/ HandleOptions \/ ReloadSchedules \/ RestartEngine \/ CheckMissingFiles \/ PurgeResults
  \/ Install \/ BootOptions \/ BootSync

Checking == CheckLists \/ CheckStats \/ CheckTimesOut

Environment == Tick \/ Crash \/ Lose \/ Redownload \/ Finish

Next == User \/ Ui \/ Engine \/ SchedulerStarts \/ SchedulerTick \/ SchedulerChecks
        \/ Checking \/ Environment

Spec == Init /\ [][Next]_vars

(* Every task is polled; the user and the environment owe nothing. *)
Fairness ==
  /\ WF_vars(Ui) /\ WF_vars(Engine) /\ WF_vars(Checking)
  /\ WF_vars(SchedulerStarts) /\ WF_vars(SchedulerTick) /\ WF_vars(SchedulerChecks)

FairSpec == Spec /\ Fairness

-----------------------------------------------------------------------------
(* Every variable is of its kind; the flag of the search is up exactly as  *)
(* long as its task runs (MISSING_CHECK_IN_FLIGHT), whatever is reloaded,  *)
(* restarted or times out in between.                                      *)
TypeOK ==
  /\ \A s \in {settings, applied, disk, source, scheduler.settings}:
       DOMAIN s = Field /\ \A f \in Field: s[f] \in Values[f]
  /\ pending \subseteq Limit
  /\ now \in 0..Days * Minutes - 1
  /\ engine \in {"starting", "up", "crashed"}
  /\ DOMAIN aria2 = DOMAIN Default
  /\ boot \in {"none", "options", "sync", "done"}
  /\ scheduler.at \in {"none", "new", "run"}
  /\ check \in {"none", "list", "stat", "nothing"}
  /\ in_flight = (check # "none")
  /\ download \in {"none", "complete", "active"}

(* Nobody has anything left to tell aria2. *)
Settled ==
  /\ engine = "up" /\ boot \in {"sync", "done"}
  /\ cmds = <<>> /\ pending = {}
  /\ scheduler.at = "run" /\ scheduler.inside = Side

(* What the schedule is of was not saved since without the scheduler being *)
(* started again.  ChangeInPopover makes everything edited count as        *)
(* applied, and TrackersSynced and Discard save what counts as applied;    *)
(* neither of them sends ReloadSchedules.                                  *)
Followed ==
  \A f \in Limit \cup {"scheduled", "start", "end", "days"}: asked[f] = disk[f]

(* However the clock, the scheduler, applies, reloads and restarts of      *)
(* aria2 met: when aria2 was last told of the saved settings, its proxy is *)
(* theirs, and its limits are those of them at this minute                 *)
(* (EffectiveOptions and run_scheduler agree).  A call that failed, and a  *)
(* boundary crossed while the options or a reload were on their way, are   *)
(* excepted.  So are limits and schedules of the popover that were saved   *)
(* on the side, by TrackersSynced or Discard: the scheduler keeps to the   *)
(* settings it loaded before (engine/mod.rs:1898) and puts their limits    *)
(* over the saved ones at the next end of their window.  A limit is then   *)
(* none, the saved one, or that of the scheduler, and of no other setting. *)
OptionsFollow ==
  Settled /\ source = disk /\ ~crossed =>
    /\ aria2.proxy = disk.proxy
    /\ \A k \in Limit:
         \/ Followed /\ aria2[k] = EffectiveOptions(disk, now)[k]
         \/ ~Followed /\ aria2[k] \in {0, disk[k], scheduler.settings[k]}

(* A task whose files are gone leaves the list while the setting is on     *)
(* (trigger_missing_files_check, EngineEvent::FilesMissing): whatever is   *)
(* reloaded, restarted or times out in between, the search for it is not   *)
(* blocked for ever by one that never ended.                               *)
Searched == settings.missing /\ disk.missing
Missing  == row /\ download = "complete" /\ ~file

LostIsDropped == Missing /\ Searched ~> ~Missing \/ ~Searched

(* The limits aria2 was given are those of the saved settings and of the   *)
(* minute, unless they were saved without a reload, and the search for     *)
(* missing files knows whether it runs.                                    *)
LimitsConsistent == TypeOK /\ OptionsFollow

=============================================================================
