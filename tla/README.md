# Verification of Remotrix

TLA+ models, TLC runs and TLAPS proofs about
[Remotrix](https://github.com/lazy1104/Remotrix), a desktop download manager
written in Rust: an iced user interface that drives an `aria2-next` child
process over JSON-RPC. Source lines are given relative to the repository
(`src/engine/mod.rs:2276`). `PROJECT.json` lists, for every definition, the
lines it stands for, and for every property a mutation of the code that breaks
it.

## 1. The system

One process, one single-threaded UI loop, a tokio runtime with many tasks, one
child process, three kinds of files.

```
            EngineCmd (FIFO)                  JSON-RPC, child exit
   UI  ------------------------>  supervisor  <---------------->  aria2-next
 (update) <--------------------   + its tasks                     session.txt
   |  |      EngineEvent (FIFO)    poll, notifications, boot, waiter,
   |  |                            scheduler, update downloads
   |  +-- SQLite (one row per task), flushed once per second
   +----- settings.json            aria2-next-<version>, .installed, .pending-update
```

| component | state | operations | interacts with |
|---|---|---|---|
| **Engine supervisor** `engine/mod.rs` 2239-2434, `engine/install.rs` | `sidecar`, `poll_handles`, `scheduler_handle`, `generation`, `retry_count`, `aria2.pid` | boot, install, graceful stop, restart, retry, shutdown, force kill, exit reports | UI by commands and events, the child by RPC, signals and `wait`, detached tasks by abort handles |
| **Task synchronisation** `engine/mod.rs` 817-2160, `update/engine.rs`, `update/task.rs`, `app.rs`, `storage/db.rs` | the task table, `active_count`, `dirty`, `pending_removals`, `removed_gids`, `paused_gids`, `synced_gids`, `sync_done`; the sets of `poll_loop`; SQLite; aria2's queue and session file | poll, slow scan, notification, startup sync, each user command, each event handler, flush, end of a card's animation | five senders question the same aria2 and share one channel to the UI |
| **aria2-next installation** `updaters/aria2_fetcher.rs`, `updaters/download.rs`, `engine/install.rs`, checks in `app.rs` and `update/settings/mod.rs` | binaries, `.part` files, `.installed`, `.pending-update`, `aria2_downloading`, `update_check_in_flight`, the update dialog | ensure a binary at each start, promote a staged one, download with retries and resume, check, offer, apply | started by the supervisor, writes the directory the supervisor runs from |
| **Session filter** `engine/mod.rs` 325-481 | session.txt | drop entries of tasks stored as errors before aria2 reads the file | SQLite, aria2 |
| **Global options, schedule** `core/scheduler.rs`, `engine/mod.rs` 1815-1930, `config/settings.rs` 500-680 | `inside`, aria2's options, `MISSING_CHECK_IN_FLIGHT` | change the options by command, at boot and at the edges of the window; search for missing files | settings, client of the sidecar |
| **Shell** `app.rs` 700-830, 1018-1117, 1940-2040, `update/window.rs`, `platform/{tray,power,shutdown}.rs` | `closing`, `pending_close`, `restart_pending`, `confirm`, the shutdown card, tray, sleep blocker | close, hide, ask, count down, power off, restart | supervisor, settings, window system |
| **Settings** `config/*`, `update/settings/mod.rs` | `settings` (draft), `applied_settings`, settings.json, the data directory | edit, apply, discard, save on the side, migrate | all |
| **Toasts and notifications** `app.rs` 34-180, `platform/notify.rs`, `update/engine.rs` 430-620 | the stack, `completion_toasted`, `error_notified`, `session_gids`, `torrent_followed` | push, replace by group, expire, act, announce | task synchronisation, engine, desktop |
| **Add dialog** `update/add.rs`, `ui/add_dialog.rs`, `update/window.rs` | a form with three tabs | open with what was found, edit, submit | clipboard, pickers, extension, supervisor |
| **Links, torrent files** `integration/clipboard_watch.rs`, `storage/torrent_meta.rs` | `last_clipboard_hash` | find links, classify, probe; parse bencode | add dialog |
| **Details dialog** `update/task.rs`, `update/engine.rs` 640-765, `ui/components/file_tree.rs`, `core/task.rs` | the open gid, selection under way, tree, options | open, refresh, select, save, close | aria2 through the supervisor, SQLite |
| **Browser extension API** `integration/extension_api.rs` | one server task, shared secret | ping, add, pause-all, resume-all, restart on a new port | supervisor, UI, settings |
| **Application updater** `updaters/app_updater.rs`, `updater.rs` | packages, `app_update_in_flight`, the program on disk | check, offer, download, replace, relaunch | GitHub, UI |
| **Trackers, ED2K** `storage/trackers.rs`, `ed2k_bootstrap.rs`, `engine/ed2k.rs` | cached lists and files | fetch, cache | settings, supervisor, aria2 |
| **View, start-up, operating system** `ui/*`, `main.rs`, `core/{i18n,logging,message}.rs`, `platform/{autostart,port_guard,tray_watchdog,win_toast}.rs`, `config/install.rs` | layout, handles | - | reads the state of the others |

What makes each of them correct, and why that is hard:

* *Supervisor*: at most one engine per binary among those it knows of, its exit
  always answered, no loop left over from an older one. Every install has seven awaits between
  which children die, their exit reports are queued, and updates are staged.
* *Task synchronisation*: the table, its counter and its rows agree with each
  other whatever order answers arrive in; removed tasks stay away; a download
  lost by a crash of aria2 is added again. Answers are read in one step and
  handled in a later one, and the user acts in between.
* *Installation*: a usable binary stays on the disk whatever is killed or
  fails; only verified binaries are promoted; no flag of the UI stays on. The
  directory has three writers and survives kills.
* *Shell*: the application ends once, also when nobody answers; nothing is
  powered off before one countdown has run in full. Timers, answers of the
  window system and clicks race.
* *Settings*: what is saved is what was applied, though every part of the
  program saves the whole of them; data survives a move that is killed.
* *Options, schedule*: three tasks and the clock set the same two limits, and
  not everyone who saves them tells the scheduler.
* *Dialogs* (add, details): answers arrive for what the dialog no longer shows.
* *Notices*: an end is told once, though four parts of the engine report it,
  late and in any order.
* *Links, torrents, file tree, options of a task*: pure functions with textual
  and numeric edges.
* *Updater, ED2K cache*: files that are replaced in several steps.

`PROJECT.json` lists every such hazard at its line with the properties that
would catch it.

## 2. Modules

| module | models | composed with | checked by |
|---|---|---|---|
| `Supervisor` | the supervisor, the processes, the detached tasks | `EngineLifecycle` (through `SupervisorLifecycle`) | `supervisor` |
| `EngineLifecycle` | what the rest may rely on: which process is in use, why it stops being used, what becomes of a request | implemented by `Supervisor` | `supervisor` |
| `SupervisorProofs` | theorems | `Supervisor`, `SupervisorLifecycle` | TLAPS |
| `TaskSync` | five senders, one UI, aria2, its session file, SQLite | | `tasksync_safety`, `tasksync_live` |
| `TaskSyncProofs`, `EngineUpdateProofs`, `BootstrapProofs`, `LimitsProofs` | theorems | the module each is named after | TLAPS |
| `AppUpdateProofs` | theorems | `AppUpdate`, and `Intake` in its second part | TLAPS |
| `ShellProofs` | theorems | `Shell`, and `Notices` in its second part | TLAPS |
| `SettingsProofs` | theorems | `Settings`, and `Details` in its second part | TLAPS |
| `EngineUpdate` | install and update of aria2-next, the directory, the UI's flags | | `engineupdate` |
| `Shell` | window, tray, dialogs, countdown, sleep, end of the application | | `shell` |
| `Settings` | drafts, applied, file, move of the data, second launch, extension server, trackers | | `settings` |
| `AppUpdate` | update of Remotrix itself | | `appupdate` |
| `Intake` | every way a download comes in | `Links`, `TorrentMeta` | `intake` |
| `Links` | links of a text, web-page filter | in `Intake` | `intake` |
| `TorrentMeta` | the bencode parser | in `Intake` | `intake` |
| `Notices` | what is announced, toasts of the engine, buttons | `Toasts` | `notices` |
| `Toasts` | `ToastManager` | in `Notices` | `notices` |
| `Details` | the details dialog | `FileTree`, `TaskOptions` | `details` |
| `FileTree` | the tree of files and its boxes | in `Details` | `details` |
| `TaskOptions` | options and names of a task | in `Details` | `details` |
| `Limits` | global options, schedule, missing files | | `limits` |
| `Bootstrap` | the ED2K cache | | `bootstrap` |

The `MC...` modules give the constants their values for TLC. The specification
of a module is `Spec`, with fairness, where it has any, `FairSpec`; in `Intake`, `Notices` and
`Details`, whose theorems share a module with another component's, the names
begin with the component (`IntakeSpec`, `NoticesFairSpec`, `DetailsTypeOK`).

### Supervisor, SupervisorLifecycle, EngineLifecycle

One action is the code between two awaits of `run_supervisor` or of one of the
tasks it spawns. `phase` names the await the supervisor is in:
`select` (the loop), `stopping` (`graceful_stop`), and `fetch`, `cleanup`,
`spawn`, `connect` (the awaits of `boot`); `reason` says who called. Commands
are one action per arm of the `match` (split in two where the arm awaits
`graceful_stop`), exit reports are `StaleReport` and `ExitReport`.

* A child is a member of `Child`, never reused. `proc` is the process, `exe`
  the binary it runs (a number that grows when a staged update is promoted),
  `waiter`/`gen` the task that awaits its exit and the generation it will
  report, `polling`/`scheduling` the number of loops on its client, `boot` the
  task that sends `EngineReady` and `SyncComplete`.
* The channel of exit reports carries generations only, so it is the set of
  children whose waiter has `reported`. The command channel is a sequence.
* Commands come in any order. The UI sends `ForceKill` only behind a
  `Shutdown` that ends the loop (`update/window.rs:232`), so the real program
  never handles one; the model does, for a caller that would.
* `Init` includes the orphans of killed runs: the one `aria2.pid` names, and
  any that no file names (`unnamed`), spawned by a run that was killed before
  it had connected (`engine/mod.rs:617` to 640), or still shutting down when
  its run removed the file (2443).
* All client commands are one, `Client`: to the supervisor they differ in
  nothing. What they do is `TaskSync`, `Limits` and `Details`.
* The unix build; a pid is not reused, and `aria2.pid` can be written.

`EngineLifecycle` knows processes, requests and nothing else: no awaits,
channels, generations, files or tasks. `SupervisorLifecycle` reads its state
off `Supervisor`: a process is past when some task awaited its exit, a request
waits in the channel or is the reason of the stop in progress.

### TaskSync

A task is its gid with a status; `link` says whether a url or a hash is known.
`held[e]` is what sender `e` (`poll`, `notify`, `handler`, `boot`, `oldboot`,
the boot task of the engine before, and the one that resumes tasks little by
little) was told by aria2 and has not sent. So an answer can be overtaken by
newer ones, which is the whole difficulty. `handling` is what is left of the
command in hand: each request is its own step. The UI handles one message per
step (`Handle...`), and its handlers, `flush_dirty`, `begin_task_exit` and
`finalize_task_removal` are translated in full as far as the table, counters,
sets and rows go.

aria2 is external: its queue moves by itself (`AriaStep`), `Move`, `Forgotten`,
`Saved` and `Load` say what requests, `--save-session` and `--input-file` do,
as the code relies on it. `Init` is a launch on any rows and session file a
killed run can have left.

### EngineUpdate

A release is a number, a file has all its bytes, some of them, or bytes of two
writers (`mixed`), and only the first has the release's digest. `start` walks
through `ensure_aria2_next` one file operation at a time (`ReadMarker`,
`DropOld`, `WriteInstalled`, `DropMarker`, `UseCache`, `Scan`, `LookUp`); `dl`
holds the downloads: that of `ensure_aria2_next` and any number of detached
ones, each with its file handle (`to`), so that unlinking and renaming under
another's open file do what they do on unix. The UI's `CheckUpdates` takes a
snapshot that `SilentUpdate`, `ShowOffer` or `NothingNew` acts on later. `Kill`
may come between any two steps and cuts short a JSON file being written.
`twice` is a history variable: the versions downloaded while on disk, or twice
at once.

### Shell

A message of the UI thread is an action; so is a timer, an answer of the window
system, the end of an animation. `draft`, `applied` and `disk` are the settings
as edited, applied and saved, with the two fields closing depends on. The close
goes through `CloseRequested`, `BeginClose`, `EngineStopped` or
`ShutdownTimeout`, `FinalizeClose` and, with a resized window,
`WindowMaximized`. One confirmation dialog (`confirm`) is shared by five
askers; `seen` counts the seconds the present countdown has really run.

### Settings

`buffer`, `tmp`, `disk` and `at` follow `config::save` one file operation at a
time; `Kill` may come between any two. A record of settings has the fields that
live differently: the extension's switch, port and secret, the data directory,
trackers, a field of the popover, and one of the rest. `loose` collects the
fields whose saved value nobody applied (a draft saved along with something
else), so that `AppliedIsSaved` says exactly which saves may differ. `data` is
the version of the data in each directory, with `-1` for half of it;
`CopyBegins`, `CopyEnds` are `migrate_paths` at the next start. `behind` collects
the directories that a move did not fill from the newest data, which the
program may open nevertheless. `legacy` is a file of an older version, rewritten
in place by `load`. `guest` is a second process, launched while this one is up:
it loads, moves, saves and finds only then that it is the second. A save of
its own is one step; when it falls into a save of the first process (`clash`)
either file or a mixture can come of it. Two processes launched at the same
moment, before the first is up, are not modelled. The extension's
server binds its port later than it is started, and `dying` holds the ports of
predecessors that were aborted but not yet dropped.

### AppUpdate

Versions are what `updater.rs` makes of them: numbers and prerelease
identifiers, compared by `VersionGt` on one path and by numbers only on the
other (`find_pending_app_update`), which on Windows also offers a file without a
version in its name. A check carries what it found when it began.
The swap of an AppImage is three steps with a kill between any of them.

### Intake, Links, TorrentMeta

`Links` works on lines of symbols (a prefix, a word, brackets, punctuation, a
hash), one operator per function of `clipboard_watch.rs`: enabled prefixes,
token ends, trailing punctuation, overlapping matches, thunder links, and
the filter for web pages with its probes. `TorrentMeta` parses sequences of bencode
tokens with the recursion of the code and its limit, `MAX_BENCODE_DEPTH`:
`ParseValue` is one recursive function of the place and the depth, in which
`parse_value`, `parse_list` and `parse_dict` call each other. `Intake`
has the tasks (reads, parses, drops, pickers, prompts of the extension) whose
answers come late, and the dialog.

### Notices, Toasts

`Toasts` is `ToastManager` as a record with operators (push, evict, dismiss,
tick, hover). The stack is a set of toasts: a new toast goes to its end with an
id above all others and nothing is moved, so the order is that of the ids.
`Notices` has what aria2 says of a download (`aria`), how often the download was
downloaded again (`life`), answers of aria2 that are not reported yet (`read`)
and the queue of reports (`events`). The poll with its slow scan, the startup
sync, notifications and commands each ask and report later, so `Asked` and
`Report` are apart and may repeat: a state is reported never, once or many
times, and an older answer behind a newer one. `tasks` is what the UI shows;
`completion_toasted`, `error_notified` and `torrent_followed` are the sets that
keep an end from being told twice. `told` and `retold` note the ends the user
was told of once and again, `passed` what was reported of each life, and
`disturbed` the lives whose end the code tells again: reports that contradict
each other, a second report after `RedownloadTask`, a report of an earlier
life. The desktop reports the buttons of notifications only by key.

### Details, FileTree, TaskOptions

`FileTree` builds the tree as a set of nodes with paths: what `build_tree`,
`collect_aggregates`, `collect_indices` compute. `BuildTree` adds one file
after the other, as the loop does (`upTo[k]` is the tree of the first `k`). `Details` has the dialog, the
commands to aria2 and the answers, each for the gid it was asked for. `wanted`
is the selection the user left behind and `made` the state of the dialog it was
made in, or that `Open` dropped it.
`TaskOptions` has texts as sequences of tokens: the proxy URL and the three
fields it is split into, the cookie header, the names of a download and of its
re-download. Its two properties are evaluated over all short texts.

### Limits

aria2's options, and the three tasks that set them: the supervisor on
`ApplyGlobalOptions`, the boot task once, `run_scheduler` at both edges. The
clock is a minute in a week of `Days` days. `crossed` excepts what the code
cannot help: a boundary passed while a call was under way, and a call aria2
did not answer. `asked` is what the scheduler was last started, or asked to
start again, for; where it is not what is saved (`Followed`), the limits of the
popover were saved without a reload.

### Bootstrap

A file is two blocks. Both writers go through `write_cache_file` step by step
(`Open`, `First`, `Second`, `Remove`, `Rename`); an open file follows a rename.
After a kill, what is left in a `.tmp` counts as missing, since the next open
truncates it.

## 3. Runs

Every run must pass; every property has a mutant in `PROJECT.json` that breaks
it.

| run | instance | shows |
|---|---|---|
| `supervisor` | 2 children, 2 commands | no two engines of one binary, but for orphans no file names (`OneEnginePerBinary`); exits of the engine in use, and no others, are handled (`ReportsFollowSidecar`), and another engine or a failure that is shown follows (`ExitIsHandled`); no loop is left over (`NoStrayLoop`); a shutdown ends the supervisor (`ShutdownStops`); the refinement (`ImplementsLifecycle`) |
| `tasksync_safety` | 1 gid, 1 user operation, 1 change by aria2, 2 answers held | `TableConsistent` (counter exact, every shown task has a row, what is not dirty is saved), `NoPhantomCard` |
| `tasksync_live` | 1 gid, 1 operation, 1 restart of the engine | `TableConsistent` across the restart, `LostTaskIsReadded` |
| `engineupdate` | 2 releases, 2 update downloads and the start's own, 1 retry, 1 restart, 2 checks, 1 kill | `DirectoryWhole`, `LastBinaryKept`, `OnlyVerifiedIsPromoted`, `StartsAndDownloadsEnd` |
| `shell` | countdown of 2, 1 edit, 1 resize | `ShellConsistent` (a hidden window has its tray, what is not applied is dirty, sleep is blocked only for a download), `RestartIsNotLost`, `PoweroffAfterCountdown`, `CloseEnds` |
| `settings` | 2 ports, 2 directories, 2 edits; 2 synchronisations, 2 kills, 1 change of the data and 1 second launch, three of these in all | `DataKept`, `OpensNewest`, `SettingsConsistent` (what is saved and served is what is applied; a synchronisation has a timer to end it) |
| `appupdate` | 0.5, two betas of 0.6 and 0.6.0, a file without a version; 2 checks, 1 retry, 2 kills | `UpdateConsistent` (some image is kept, one download, a changelog that loads is under way), `OnlyNewer`, `FlagsClear` |
| `intake` | 6 texts, 3 torrents, 3 requests of the extension, 3 inputs | `IntakeConsistent` (links found whole and once, torrents read), `SentOnce`, `SelectionIsOfTorrent` |
| `notices` | 1 download that is the link of a torrent; 3 changes, or 2 where there is other news; 2 answers, reports and notifications on their way; room for 2 of 3 toasts | `NoticesConsistent`, `ToastsStayOrLeave`, `NotedOnce` |
| `details` | 2 downloads, trees of up to 3 files, 4 inputs, 1 failure | `DialogConsistent`, `SelectionFits`, `SelectionReaches` (but for one made while the dialog fades out when another card is opened), `ShownSettles` |
| `limits` | 2 days of 3 minutes, 3 inputs, 1 failure | `LimitsConsistent` (the saved limits at this minute, but for those of the popover saved without a reload), `LostIsDropped` |
| `bootstrap` | 2 files, both writers | `CacheConsistent`, `ToldIsCached`, `SyncEnds` |

**Bounds.** Two children are enough for an engine and its successor, or an
orphan and an engine, which is every pair a report, a loop or a pid file can
confuse; two commands give a restart or a retry with a shutdown in any order.
The proofs remove both bounds. The tables of `TaskSync` are per gid except for
the counter, so one gid shows the races of the senders (two held answers are
the fewest with which one is overtaken). `MaxEvents` bounds the queue only when
a sender asks aria2, never when the UI works it off. Two releases allow an
update to be overtaken by another, two downloads plus the start's own allow
each pair of writers; one kill between any two steps, followed by a complete
start, is enough for the directory because nothing else survives it. A
countdown of two has a first and a last second. Two ports and two directories
are one to leave and one to go to; two kills allow a second one in the repair
of the first; two synchronisations let the answer and the timer of one come
during the other. These, the launch and the change of the data interleave three
at a time with the edits: a kill in a move, a kill in its repair and a change
between them, or two synchronisations and a launch. The releases of `appupdate` have every pair the two comparisons
treat differently: numbers of unequal length, a prerelease and its release, two
prereleases. The names of `bootstrap`'s files differ, as those of
`ED2K_CACHED_FILES` do. Larger instances were tried where a proof asked for
them: with three releases, starts and checks, an update that was staged again
without its checksum can be the last binary when the next start deletes it.
`LastBinaryKept` therefore excepts versions that are contested: downloaded
twice, marked without a checksum, or being downloaded. Toast capacity is two instead of six: the stack is full with one
toast that stays and one that leaves. Two answers on their
way are the fewest with which an end is reported twice, one report overtakes
another, and the end of one life meets the next; three changes are an end, a
re-download and the second end. In `details` four inputs open a download,
close it, change its selection while it fades out and open another. The torrents of `details` have a
directory, a path beyond the depth limit, two files with one path, and a file
with the path of a directory. The week of `limits` has a window in the day, one
over midnight, and one that never parsed, on one day, none and all.

Deadlock is checked in `bootstrap`; the other models end when their bounds are
used up, and a stopped supervisor or a closed window stays so.

**Fairness.** `Supervisor`: the supervisor task is run when it can go on (weak
fairness), and `tokio::select!` polls its branches in random order, so a
report cannot be passed over for ever (strong fairness of `Reports`); a waiter
is woken by the exit of its child. Nothing makes a child exit. `TaskSync`: the
runtime runs each task that holds an answer or has a request to make (requests
time out), the UI drains its channel, animations end, and the engine is started
again after a crash; neither aria2 nor the user nor the polling timers have to
do anything. `EngineUpdate` and `AppUpdate`: every request has a timeout, so a
start, a check and a download always take a next step. `Shell`: timers fire,
the window system answers whether the window is maximised, a drawn animation
ends; the engine need not answer. `Notices`: the clock of the toasts ticks. `Details`: the queues are worked off, the refresh
timer ticks. `Limits`, `Bootstrap`: every task is polled, the supervisor
chooses fairly between reports and commands. What the user, the network, GitHub
or a crash may do is never assumed.

## 4. Proofs

Every theorem holds for all values of the constants its module's assumption
allows (`ConstAssumption`, in `EngineUpdate` and `TaskSync` `BoundAssumption`,
in `Intake`, `Notices` and `Details` the one named after the module, with
`CapAssumption` and `DepthAssumption`):
any number of processes, gids, releases, files, downloads and days, and any
bounds on what the user, the network and the timers do. The proof modules are laid out alike: the type invariant is split into parts that go with
groups of variables, one lemma per action or group of actions says what the
step does or shows which part it keeps, and the last lemma puts the parts
together.

### The supervisor

`SupervisorProofs` proves, for every set of children, every `MAX_RETRIES` and
every number of commands:

| theorem | property |
|---|---|
| `TypeCorrect` | `TypeOK` |
| `OneEngine` | `OneEnginePerBinary` |
| `ReportsFollow` (from `ReportsAreOfSidecar`, `SidecarAlwaysWatched`) | `ReportsFollowSidecar` |
| `LoopsBelongToSidecar` | `NoStrayLoop` |
| `RetryCountBound` | `RetryCountAtMostOne` |
| `DropOnlyAfterExit` | `SidecarDroppedOnlyAfterExit` |
| `ImplementsEngineLifecycle` | `ImplementsLifecycle` |

None of these is inductive. The invariant is `IInv`, in named parts:

* `PhaseInv`: there is no sidecar while an install is under way, there is one
  while stopping, `conn` is set exactly while connecting, and the pid file is
  gone between the cleanup and the connection. It ties `phase` to the rest.
* `HandleInv`: the loops that run are exactly those the handles name, and the
  handles are the sidecar's. `NoStrayLoop` is its consequence; by itself it
  would not say that an abort stops anything.
* `EngineInv`: no process runs a binary newer than the installed one, and a
  process of the installed binary is in `aria2.pid`, being connected to, or an
  orphan that was never named. This is why the cleanup before each spawn finds the only process that could
  be a second engine: without it `OneEnginePerBinary` says nothing about the
  next spawn.
* `ReportInv`: generations only grow, a report is sent after the exit, and an
  unhandled report of the current generation is the sidecar's. A crash restart
  reuses the generation, so this needs that no waiter of the old child remains.
* `RetryInv`: with a sidecar the counter is zero; an exit can make it one, and
  then there is no sidecar whose exit could make it two.

One lemma per part shows that each action preserves it (`TypeStep`,
`PhaseStep`, `HandleStep`, `EngineStep`, `ReportStep`, `RetryStep`), with one
step per action; `InitIInv` is the base case, `IInvInvariant` puts them
together.

The refinement needs one more invariant, `WaiterInv`: a process that is being
connected to has no waiter yet, so that it is used for the first time. The
lemma `Translation` states each step of `EngineLifecycle` in terms of the
mapped values; `PendingReceived`, `PendingBegun`, `PendingMet` and `SendQueued`
say how the set of requests follows the channel; and one lemma per group of
actions (`InstallingImplements`, `CommandsImplement`, `ReportsImplement`,
`EnvironmentImplements`) shows that each action is a step or a stutter. The
interesting one is `ExitReport`: it may drop the sidecar without a request only
because `ReportInv` says that the report is the sidecar's and was sent after
its exit.

### The other components

| module | theorem | property |
|---|---|---|
| `TaskSyncProofs` | `TableAgrees` | `TableConsistent` |
| | `NoPhantoms` | `NoPhantomCard` |
| `EngineUpdateProofs` | `NeverTorn` | `DirectoryWhole` |
| | `VerifiedOnly` | `OnlyVerifiedIsPromoted` |
| | `BinaryKept` | `LastBinaryKept` |
| `ShellProofs` | `Consistent` | `ShellConsistent` |
| | `RestartKept` | `RestartIsNotLost` |
| | `CountdownRuns` | `PoweroffAfterCountdown` |
| `SettingsProofs` | `Kept` | `DataKept` |
| | `Followed` | `SettingsConsistent` |
| `AppUpdateProofs` | `Consistent` | `UpdateConsistent` |
| | `Forward` | `OnlyNewer` |
| `BootstrapProofs` | `Whole` | `CacheConsistent` |
| | `Told` | `ToldIsCached` |
| `LimitsProofs` | `OptionsFollowed` | `LimitsConsistent` |
| `AppUpdateProofs` | `SubmittedOnce` | `SentOnce` |
| | `SelectionIsItsOwn` | `SelectionIsOfTorrent` |
| | `IntakeIsTyped` | `IntakeTypeOK`, a part of `IntakeConsistent` |
| `ShellProofs` | `NoticesAreConsistent` | `NoticesConsistent` |
| | `EndsAreNotedOnce` | `NotedOnce` |
| | `StickyToastsStay` | `StickyStays`, the safety half of `ToastsStayOrLeave` |
| `SettingsProofs` | `SelectionIsOfFiles` | `SelectionFits` |
| | `DetailsIsTyped`, `BoxesAreRight`, `RowsKeepOptions` | `DetailsTypeOK`, `BoxesTellSelection`, `RowHasOptions`: parts of `DialogConsistent` |
| | `TreesHaveFiles` | the first conjunct of `TreeKeepsFiles` |

**TaskSync.** `TableConsistent` is inductive in three parts. The counter is
compared with the cardinality of the active tasks, so each handler is reduced
to the tasks it changes and to a lemma about one task, and the bulk handlers to
one about a set. `RowsInv` says that only a task that leaves loses its row.
`NoPhantomCard` is not inductive: it needs that whatever is on its way about a
gid, in the channel, held by a sender, in a command or in the handler at work,
is about a download that aria2 lists, the screen shows, or `removed_gids`
remembers (`Grounded`), and that a card that leaves is remembered until it has
left (`LeavingRemembered`). `Grounded` holds until the engine first restarts,
which is what the property says.

**EngineUpdate.** `CleanInv` says of every version that was not downloaded
twice that at most one download of it is active, and that the .part file is
what that download believes it is: its length at the request, open while the
body comes, complete when it is verified. `PendingInv`: no marker has a wrong
checksum. `PromotingInv`: what is being promoted stays on the disk until the
installed binary has made way. That a scan finds the newest binary there is
(`LastBinaryKept` needs one) follows from the well-foundedness of the order on
versions.

**Shell.** `CountInv` ties the seconds a countdown has run to those it shows as
long as the dialog asks; by itself the action property says nothing about a
dialog that was replaced and asked again. `ClosedInv`: the new process is
started by the step that closes the window. `SleepInv`: the blocker runs
exactly while its flag says so.

**Settings.** `DataKept` is nearly inductive: `LegacyInv` adds that a file is
rewritten in place only while it is one of an older version. `SavingInv` says what is in the buffer at each step of a save,
`NearInv` that the file, or the buffer on its way there, differs from what is
applied in the loose fields only, also between the steps of an apply;
`ServerInv` is `ServesAsApplied` carried through the steps in which it may not
hold yet, and `SyncInv` bounds answers and timers by synchronisations and keeps
a timer for the one under way.

**AppUpdate.** `NewerInv` extends "newer than what runs" from what is offered,
downloaded or swapped to what the checks under way found; the program that
runs stays the same until it ends, and then nothing is under way (`DownInv`).
`SwapInv` names the image that is there at each step of a swap, `DownloadInv`
ties the flag to the one download, `DialogInv` and `CountInv` the loading
changelog to a fetch. `Forward` assumes `InOrder`: releases are published in
the order in which `version_gt` compares them. A file without a version
is only ever in a toast, and only on Windows (`Nameless`). The code compares versions, not
dates; where a lower version is published later it is simply not offered.

**Bootstrap.** `SharedInv`: two writers of one file know of each other, and the
file is excepted. `AloneInv`: a writer that is alone finds its own blocks in
the temporary file. `FetchInv`: only the synchronisation downloads. `StoredInv`
goes through the list of files: what was stored so far is in the cache and the
supervisor does not write it. The steps are first classified by what they do to
the writers and the disk (rest, begin, fill, vanish, move, idle); the parts of
the invariant are then proved for six effects instead of some thirty actions.

**Limits.** Three tasks tell aria2 its limits, each from settings and a minute
of its own, and the property speaks only of the moment when nobody has anything
left to tell. `ToldInv` says what holds before: once aria2 was told and no
options are on their way, its limits are those of the settings they come from,
at this minute while a reload or a new scheduler is waited for (a boundary
crossed then is noted), and afterwards on the side of the window the scheduler
knows or on the one it will find at its next tick. `SchedulerInv`: without a
reload on its way the scheduler runs for the settings it was started for.
Whatever it runs for, a limit is none, or that of one of the two settings, which
is what the property says of limits that were saved without a reload.
`SentInv` is about the queue: until something else is applied, the options sent
before the last reload are those that were saved.

**Intake.** `Waits` and `Dialog` are inductive. `OfferedInv`, a part of `Waits`,
says of a text being parsed and of a payload that was dropped that it offers
links, nothing, or a torrent or metalink, the torrent being one the dialog can
be given. `SubmittedInv` says that what the dialog holds was submitted at most
once, and that after a submission the dialog is leaving as long as it is
visible; this is what makes `SentOnce` follow. `FormOK` ties the selection to
the torrent the form shows; a press on the tree keeps it (`FlipFits`), and
`SelectionIsOfTorrent` is a part of `Dialog` itself. `Links` and `TorrentMeta`
are used only through what a text or a file yields, so nothing is assumed of
them.

**Notices.** Three invariants. `StateTyped` includes the stack (`Manager`):
finitely many toasts, each with an id of its own below the next one. `ShownInv`
adds that a toast about an engine that cannot start, if it is not leaving, is
the one `startup_error` names; each operation of the stack is shown to give
the same toasts, or fewer that may have begun to leave (`Fewer`), and the
property needs no more of it. `OnceInv` is behind `NotedOnce`. An end is told
again only when what was noted of it is forgotten, so `ToldIsRemembered` says of
every end that was told, in a life that is not disturbed, that
`completion_toasted`, `error_notified` or `torrent_followed` has it, or that the
row was removed for good. What makes the handler forget is a report that the
download has not ended, or ended otherwise; `InOrder` says that no such report
is behind a report of the end in the queue, nor behind the end that was told,
because `Contradicts` would have disturbed the life when it was sent (`passed`
has what was sent of each life). `LivesEnd` and `OfLives` say that what is read
or queued is of a life that began, so that a life that is over is disturbed by
the first of its reports the UI handles.

**Details.** `DetailsFit`: what is shown, what waits for its timer, every
selection in the queue of commands and every answer under way is a choice of
files of its own download, and never none. A flip keeps that because the files
below a node are files of the torrent (`TreeFits`) and because
`flip_with_guard` undoes a flip that leaves nothing (`FlipKeeps`). `TreeFits`
and `TreeHas` go through the files of the torrent by the least counterexample
(`LeastMember`, from the well-foundedness of the order on numbers): every file
is in the tree, every directory has a file below it, and so a box can be
neither checked and empty at once nor either of them by accident
(`BoxesAreRight`). `RowsFollow` is about the answers to changes: when some are
under way, the last of them carries the options the download runs with, and
the row when none is.

**Only model-checked**: the liveness properties (temporal reasoning under
fairness is outside the prover), that is `ExitIsHandled`, `ShutdownStops`,
`LostTaskIsReadded`, `StartsAndDownloadsEnd`, `CloseEnds`, `FlagsClear`,
`ToastsEnd` in `ToastsStayOrLeave`, `SelectionReaches`, `ShownSettles`,
`LostIsDropped` and `SyncEnds`; `OpensNewest`; and what functions over data compute,
which the runs evaluate for bounded inputs: `LinksRead` and `TorrentsRead` in
`IntakeConsistent`, `OptionsReadBack` and `NamesKept` in `DialogConsistent`,
and of `TreeKeepsFiles` that paths stay distinct and sizes add up. The prover
has no induction rule it can be given a formula for, so an induction has to be
made of the least counterexample each time, as for the tree; the paths it
tells apart contain a number written out (`ToString`), of which nothing is
known to the prover, and the sums are folds.

## 5. What the code does otherwise than it says

Met while modelling; none of them is a run.

* `engine/mod.rs:2403`: `retry_count` is reset by every start, so "crashed
  repeatedly" is never reported and an engine that starts and crashes is
  restarted for ever (`RetryCountBound`).
* `engine/install.rs:152`: all versions of aria2-next share one session file,
  but only a process that runs the very binary about to be started is stopped
  before it. When a staged update is promoted by a retry or a restart, or by the
  start after a killed run, the engine of the old version runs on beside the
  new one until it ends by itself; so does an orphan that `aria2.pid` does not
  name. `README_EN.md:309` says that stale processes are stopped.
  `OneEnginePerBinary` claims no more than its name.
* `config/settings.rs:1095`: `load` rewrites a file of an older version in place,
  without the temporary file and the rename by which `save` keeps it whole
  (1100); killed there, all settings are lost (`DiskWhole` excepts it).
* `main.rs:14`: a second launch loads, moves data and saves before it finds that
  it is the second (37). It puts back settings that were saved meanwhile,
  copies data that is in use, and its save and one of the first process share
  `settings.json.tmp` (`AppliedIsSaved`, `OpensNewest` and `DiskWhole` name the
  exceptions).
* `config/migrations.rs:118`: what exists at the destination of a move is taken
  for moved. A move that was killed or failed is not resumed, and one back to a
  directory used before opens the old data; the newest stays where it was
  (`NewestDataKept`), unopened (`OpensNewest` excepts such directories).
* `update/settings/mod.rs:833`: the timer of an earlier synchronisation of
  trackers ends a later one, whose answer is then dropped (762); `SyncHasTimer`
  says only that something will end it.
* `app.rs:1950`: a shutdown countdown that begins or goes on with the window in
  the tray is not shown, and powers the machine off unseen
  (`PoweroffAfterCountdown` claims the seconds only).
* `update/engine.rs:539`, `:608`: what was told of a download is forgotten when it
  is reported not to have ended. A seeder that is paused and goes on is announced
  as finished again, and so is an end when an answer read before it is reported
  behind it. `RedownloadTask` forgets `torrent_followed` at once (`task.rs:36`), so
  a second report of the old end adds the torrent a second time. (`NotedOnce`
  excepts the three.)
* `update/engine.rs:604`: the handler returns after the notice of a completion and
  leaves `error_notified` as it was: a download that failed, finished and fails
  again is not told of. `RedownloadTask` leaves `completion_toasted` as it was: a
  re-download that ends before it was once reported unfinished is not announced,
  although the comment at `task.rs:37` says the notice must fire again.
* `update/task.rs:304`: opening a card drops a selection that waits. One made while
  the dialog fades out, after `CloseTaskDetails` sent what waited, is lost when
  another card is opened within 350 ms (`SelectionReaches` excepts it).
* `update/misc.rs:86`: the popover makes everything edited count as applied, without
  saving it or sending `ReloadSchedules`. When a synchronisation of trackers or a
  discard saves it later, the scheduler keeps to the settings it loaded once
  (`engine/mod.rs:1898`) and puts the old limits over the saved ones at the next
  end of their window (`OptionsFollow` excepts such limits).
* `updaters/app_updater.rs:311`: on Windows any file `*setup*.exe` in the directory
  of temporary files is offered as an update when its name has no version, whatever
  it is, and while it lies there GitHub is not asked (`OnlyNewer` excepts it).
* `engine/mod.rs:2116`: the late `EngineReady` of a dead engine's boot task
  takes a failure off the screen (`update/engine.rs:78`), which
  `README_EN.md:75` says is shown.
* `update/engine.rs:124`: a startup sync that failed or was cut is reconciled
  although the warning says it is skipped and `docs/07:398` says there is
  nothing to reconcile.
* `update/engine.rs:742`: a late `TaskAdvancedApplied` writes the row of a
  deleted task again (`docs/07:121`).
* `engine/install.rs:109`: an update staged without a checksum is announced and
  deleted by the next start (`docs/05:15`).
* `updaters/aria2_fetcher.rs:69`: a marker that outlives its promotion makes
  the next start delete the binary it promoted; an update staged again without
  its checksum, which the next start deletes (`engine/install.rs:109`), can be
  the last one (`LastBinaryKept` excepts both).
* `app.rs:704`: progress handled while closing blocks sleep again, and nothing
  releases it before the process ends.
* `integration/extension_api.rs:170`: the server does not follow a change that
  the speed popover applied by copying all drafts (`update/misc.rs:86`); a
  secret made up on disk is erased by the next save.
* `update/settings/mod.rs:1043`: applying a Debian package deletes the file the
  user has just been told to install.
* `integration/clipboard_watch.rs:1008`: the filter for web pages decides in
  the order of its probes, not of the links.
* `storage/ed2k_bootstrap.rs:91`: a missing file is filled with the bundled
  default although a newer one was being put in place (`ToldIsCached` excepts
  it).
* `engine/mod.rs:1046`: a proxy password with a colon is split at the last one;
  the comment at 1027 says otherwise, the test at 2655 agrees with the code.
* `engine/mod.rs:674`: the comment says fragments are stripped from a name, the
  code and its test keep them.
* `update/task.rs:83`: an explicit name that is not safe is not replaced when
  it is pinned, so such a re-download drifts (`docs/07:452`).

## 6. Not modelled

View code, layout, sorting and animation (no state other components depend on
but the ends of animations, which are in the modules of the dialogs);
translation, logging, text formatting; autostart, the port guard, the tray
watchdog and Windows toasts, which are calls into the operating system; the
desktop integration of `config/install.rs`; ED2K search, which has no entry in
the interface.

Parts left out of what is modelled: following files that are themselves
torrents, `RemoveAll`, `Snapshot` and `ResumeGids` in `TaskSync`; `ARIA2_BIN`,
skipped versions and proxies in the updates; how the session filter cuts a file
into entries; parsing and defaults of settings whose life is like that of
another; HTTP and the read-only requests of the extension; merging of tracker
lists.

## 7. Plan

1. Done: `Supervisor` with its refinement and proofs; `TaskSync`,
   `EngineUpdate`, `Shell`, `Settings`, `AppUpdate`, `Intake` with `Links` and
   `TorrentMeta`, `Notices` with `Toasts`, `Details` with `FileTree` and
   `TaskOptions`, `Limits`, `Bootstrap`.
2. Done: the proofs listed above.
3. Next: `TaskSync` with torrents that are followed, and convergence of the
   table under fairness.
4. The parser of `TorrentMeta` and the links of `Links` for every text, by the
   least counterexample: each link lies in the text, and no file of a torrent
   that is read is lost.
