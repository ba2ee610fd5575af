------------------------------ MODULE TaskSync ------------------------------
(***************************************************************************)
(* How the UI of Remotrix keeps its task table, and the rows it stores in  *)
(* SQLite, in step with aria2 (src/engine/mod.rs, src/update/engine.rs,    *)
(* src/update/task.rs, src/app.rs, src/storage/db.rs).                     *)
(*                                                                         *)
(* Five tokio tasks question the same aria2 and send what they were told   *)
(* on one channel: the poll loop, the notification loop, the boot task of  *)
(* each sidecar, the supervisor's command handler and, for the browser     *)
(* extension, the one that resumes tasks little by little.  A task reads   *)
(* aria2 in one step and sends in a later one, so an answer can be         *)
(* overtaken by a newer one.  The UI handles one message per step.         *)
(*                                                                         *)
(* A task is its gid; names, sizes and speeds are left out, and so are the *)
(* notices and animations that only show what happened.  `link' stands for *)
(* a known url or info hash.  Every gid is an ordinary download: files     *)
(* that are themselves torrents are not followed, and the check for        *)
(* missing files is switched off in the settings.                          *)
(***************************************************************************)
EXTENDS Naturals, Sequences, FiniteSets, SequencesExt

CONSTANTS
  Gid,         \* aria2's task identifiers
  MaxLeft,     \* bound: tasks the last run left behind
  MaxOps,      \* bound: what the user does to tasks
  MaxChanges,  \* bound: status changes aria2 makes by itself
  MaxBoots,    \* bound: restarts of the engine
  MaxLate,     \* bound: how many tasks hold an answer they have not sent
  MaxEvents    \* bound: length of the event channel when a task asks aria2

ASSUME BoundAssumption ==
  /\ IsFiniteSet(Gid)
  /\ {MaxLeft, MaxOps, MaxChanges, MaxBoots, MaxLate, MaxEvents} \subseteq Nat

VARIABLES
  alive, aria2, session,     \* aria2: is it running, its tasks, its session file
  held,                      \* what each task was told and has not yet sent
  notified,                  \* notifications to be followed by a tellStatus
  seen, stopped_seen, terminal, orphan_grace,   \* the sets of poll_loop
  resuming,                  \* what the tasks of resume_staggered have still to do
  boot,                      \* the boot tasks of this sidecar and of the last
  cmds, events, handling,    \* the channels, the command being handled
  tasks, link,               \* the tasks of the UI; is their url or hash known
  pending_removals, removed_gids,
  paused_gids, synced_gids, sync_done, dirty, active_count,
  db, dblink,                \* status and link of the rows in SQLite
  used, ops, changes, boots  \* gids ever given out, and the bounds

aria    == <<alive, aria2, session>>
scan    == <<seen, stopped_seen, terminal, orphan_grace>>
polling == <<scan, resuming>>
senders == <<held, notified, polling, boot>>
channel == <<cmds, events, handling>>
table   == <<tasks, link, pending_removals, removed_gids, paused_gids,
             synced_gids, sync_done, dirty, active_count>>
rows    == <<db, dblink>>
bounds  == <<used, ops, changes, boots>>
vars    == <<aria, senders, channel, table, rows, bounds>>

Live     == {"waiting", "active", "seeding", "paused"}
Terminal == {"complete", "error", "removed"}
Shown    == {"waiting", "active", "paused", "complete", "error", "removed"}
Sender   == {"poll", "notify", "handler", "resume", "boot", "oldboot"}
Idle     == [type |-> "idle"]

(* TaskStatus::from_engine *)
FromEngine(status) == IF status = "seeding" THEN "active" ELSE status

(* EngineEvent, EngineCmd, and what is left of a command in hand. *)
Event ==
  [type: {"Added"}, gid: Gid, from_sync: BOOLEAN]
  \cup [type: {"Progress"}, gid: Gid, status: Live \cup Terminal]
  \cup [type: {"Removed", "TaskAdvancedApplied"}, gid: Gid]
  \cup [type: {"EngineReady"}] \cup [type: {"SyncComplete"}, full: BOOLEAN]
Command ==
  [type: {"Add", "AddFile", "Pause", "Resume", "Remove", "Redownload",
          "ChangeTaskAdvanced"}, gid: Gid]
  \cup [type: {"ReaddTask"}, gid: Gid, paused: BOOLEAN]
  \cup [type: {"PurgeResults"}, gids: SUBSET Gid]
  \cup [type: {"PauseAll", "ResumeAll"}]
Rest ==
  [type: {"idle", "tell_all"}]
  \cup [type: {"tell", "tell_added", "tell_file", "forget", "pause", "announce", "add"},
        gid: Gid]

Added(g, from_sync) == [type |-> "Added", gid |-> g, from_sync |-> from_sync]
Progress(g)  == [type |-> "Progress", gid |-> g, status |-> aria2[g]]
Removed(g)   == [type |-> "Removed", gid |-> g]
Applied(g)   == [type |-> "TaskAdvancedApplied", gid |-> g]
EngineReady  == [type |-> "EngineReady"]
(* `full': did the sync list every task?  The UI is not told. *)
SyncComplete(full) == [type |-> "SyncComplete", full |-> full]

(* The messages of M in the order in which aria2, or the table, lists the  *)
(* tasks: any order, but a task is announced right before its progress.    *)
Orders(M) ==
  {q \in SetToSeqs(M): \A i, j \in DOMAIN q:
     q[i].gid = q[j].gid /\ q[i].type = "Added" /\ q[j].type = "Progress" => j = i + 1}

-----------------------------------------------------------------------------
(* aria2. *)

(* Its queue moves by itself: a download starts, fails, finishes or seeds. *)
AriaStep(g) ==
  /\ changes < MaxChanges /\ changes' = changes + 1
  /\ \/ /\ aria2[g] = "waiting"
        /\ aria2' = [aria2 EXCEPT ![g] = "active"]
     \/ /\ aria2[g] = "active"
        /\ \E s \in {"complete", "error", "seeding"}: aria2' = [aria2 EXCEPT ![g] = s]
     \/ /\ aria2[g] = "seeding"
        /\ aria2' = [aria2 EXCEPT ![g] = "complete"]
  /\ notified' = notified \cup {g}
  /\ UNCHANGED <<alive, session, held, polling, boot, channel, table, rows,
                 used, ops, boots>>

(* --save-session keeps what is unfinished or failed. *)
Saved(status) ==
  [g \in Gid |-> CASE status[g] = "paused" -> "paused"
                   [] status[g] \in {"waiting", "active", "seeding", "error"} -> "queued"
                   [] OTHER -> "none"]

(* --save-session-interval.  Nobody reads the file after the last restart. *)
AutoSave ==
  /\ alive /\ boots < MaxBoots
  /\ session' = Saved(aria2)
  /\ UNCHANGED <<alive, aria2, senders, channel, table, rows, bounds>>

Crash ==
  /\ alive /\ boots < MaxBoots
  /\ alive' = FALSE
  /\ aria2' = [g \in Gid |-> "none"]     \* every request fails from now on
  /\ resuming' = [g \in Gid |-> "no"]
  /\ UNCHANGED <<session, held, notified, scan, boot, channel, table, rows, bounds>>

(* What becomes of a queued entry by the time the client is connected:     *)
(* prune_error_tasks_in_aria2 takes it out again if it has failed already. *)
Started == {"waiting", "active", "none"}

(* Sidecar::spawn: --input-file, less the entries that                     *)
(* strip_error_tasks_from_session finds as errors in the database.         *)
Load(file) ==
  {status \in [Gid -> {"none", "paused", "waiting", "active"}]: \A g \in Gid:
     status[g] \in CASE file[g] = "none" \/ db[g] = "error" -> {"none"}
                     [] file[g] = "paused" -> {"paused"}
                     [] OTHER -> Started}

(* The application starts (Remotrix::new loads the rows), on whatever rows *)
(* and session file the last run left, which was killed at any point.      *)
Init ==
  /\ db \in [Gid -> Shown \cup {"none"}]
  /\ dblink \in SUBSET {g \in Gid: db[g] # "none"}
  /\ \E file \in [Gid -> {"none", "queued", "paused"}]: aria2 \in Load(file)
  /\ alive = TRUE /\ session = Saved(aria2)
  /\ held = [e \in Sender |-> <<>>] /\ notified = {}
  /\ seen = {} /\ stopped_seen = {} /\ terminal = {} /\ orphan_grace = {}
  /\ resuming = [g \in Gid |-> "no"]
  /\ boot = [boot |-> "options", oldboot |-> "none"]
  /\ cmds = <<>> /\ events = <<>> /\ handling = Idle
  /\ tasks = db /\ link = dblink
  /\ active_count = Cardinality({g \in Gid: db[g] = "active"})
  /\ pending_removals = {} /\ removed_gids = {} /\ paused_gids = {}
  /\ synced_gids = {} /\ sync_done = FALSE /\ dirty = {}
  /\ used = {g \in Gid: db[g] # "none" \/ aria2[g] # "none"}
  /\ Cardinality(used) <= MaxLeft
  /\ ops = 0 /\ changes = 0 /\ boots = 0

(* The supervisor handles the exit report: the loops are aborted and       *)
(* started on the new client, the boot task of the old one runs on.  A     *)
(* process takes longer to start than an answer in hand takes to be sent.  *)
Respawn ==
  /\ ~alive /\ handling = Idle /\ boot["oldboot"] = "none"
  /\ \A e \in {"handler", "resume", "boot", "oldboot"}: held[e] = <<>>
  /\ alive' = TRUE
  /\ aria2' \in Load(session) /\ session' = Saved(aria2')
  /\ notified' = {}
  /\ seen' = {} /\ stopped_seen' = {} /\ terminal' = {} /\ orphan_grace' = {}
  /\ boot' = [boot |-> "options", oldboot |-> boot["boot"]]
  /\ held' = [held EXCEPT !["poll"] = <<>>, !["notify"] = <<>>]
  /\ boots' = boots + 1
  /\ UNCHANGED <<resuming, channel, table, rows, used, ops, changes>>

-----------------------------------------------------------------------------
(* The tasks that question aria2.  Each sends what it was told in one      *)
(* piece: the channel is unbounded, so nothing is awaited in between.      *)
Hold(e, what) ==
  /\ held[e] = <<>> /\ Len(events) < MaxEvents
  /\ Cardinality({x \in Sender: held[x] # <<>>}) < MaxLate
  /\ held' = [held EXCEPT ![e] = what]

Send(e) ==
  /\ held[e] # <<>>
  /\ events' = events \o held[e]
  /\ held' = [held EXCEPT ![e] = <<>>]
  /\ UNCHANGED <<aria, notified, polling, boot, cmds, handling, table, rows, bounds>>

(* The notification loop: tellStatus after each notification. *)
FollowNotification(g) ==
  /\ g \in notified
  /\ notified' = notified \ {g}
  /\ Hold("notify", IF aria2[g] = "none" THEN <<>> ELSE <<Progress(g)>>)
  /\ UNCHANGED <<aria, polling, boot, channel, table, rows, bounds>>

(* poll_loop, every second: tellActive. *)
Listed == {g \in Gid: aria2[g] # "none"}
Running == {g \in Gid: aria2[g] \in {"active", "seeding"}}

FastTick ==
  /\ alive /\ Running # {}
  /\ stopped_seen' = stopped_seen \ Running
  /\ \E q \in Orders({Progress(g): g \in Running}): Hold("poll", q)
  /\ UNCHANGED <<aria, notified, seen, terminal, orphan_grace, resuming, boot,
                 channel, table, rows, bounds>>

(* poll_loop, every ten seconds: tellActive, tellWaiting and tellStopped.  *)
(* A task that starts between the first two answers is in none of them.    *)
ScanEvents(current) ==
  LET told == {g \in current: \/ aria2[g] \in {"waiting", "paused"}
                              \/ aria2[g] \in Terminal /\ g \notin stopped_seen}
  IN  {Added(g, TRUE): g \in current \ seen} \cup {Progress(g): g \in told}

SlowScan(missed) ==
  LET current == Listed \ missed
      ended   == {g \in current: aria2[g] \in Terminal}
      orphans == seen \ (current \cup terminal)
      again   == orphans \cap orphan_grace
  IN /\ alive
     /\ orphan_grace' = orphans \ again
     /\ seen' = current \cup orphan_grace'
     /\ terminal' = (terminal \cup ended) \cap current
     /\ stopped_seen' = ended
     /\ \E listed \in Orders(ScanEvents(current)),
           gone \in Orders({Removed(g): g \in again}): Hold("poll", listed \o gone)
     /\ UNCHANGED <<aria, notified, resuming, boot, channel, table, rows, bounds>>

(* The boot task of on_sidecar_ready.  That of a dead sidecar gets errors. *)
BootReady(e) ==
  /\ boot[e] = "options" /\ Len(events) < MaxEvents
  /\ events' = Append(events, EngineReady)
  /\ boot' = [boot EXCEPT ![e] = "sync"]
  /\ UNCHANGED <<aria, held, notified, polling, cmds, handling, table, rows, bounds>>

SyncFails(e) ==
  /\ boot[e] = "sync"
  /\ Hold(e, <<SyncComplete(FALSE)>>)
  /\ boot' = [boot EXCEPT ![e] = "none"]
  /\ UNCHANGED <<aria, notified, polling, channel, table, rows, bounds>>

(* sync_existing_tasks.  Only the first 1000 of a list are asked for:      *)
(* `full' is false when there are more, and SyncComplete is sent all the   *)
(* same.                                                                   *)
SyncExisting(listed, full) ==
  /\ alive /\ boot["boot"] = "sync"
  /\ \E q \in Orders({Added(g, TRUE): g \in listed} \cup {Progress(g): g \in listed}):
       Hold("boot", Append(q, SyncComplete(full)))
  /\ boot' = [boot EXCEPT !["boot"] = "none"]
  /\ UNCHANGED <<aria, notified, polling, channel, table, rows, bounds>>

-----------------------------------------------------------------------------
(* handle_client_cmd.  The supervisor handles one command at a time, each  *)
(* request to aria2 is a step; `handling' is what is left of the command.  *)
Take(type) ==
  /\ handling = Idle /\ held["handler"] = <<>>
  /\ cmds # <<>> /\ Head(cmds).type = type
  /\ cmds' = Tail(cmds)

Then(step, g) == handling' = [type |-> step, gid |-> g]

AddDownload ==
  /\ Take("Add")
  /\ LET g == Head(cmds).gid IN
       IF alive
         THEN /\ aria2' = [aria2 EXCEPT ![g] = "waiting"]
              /\ Hold("handler", <<Added(g, FALSE)>>)
         ELSE UNCHANGED <<aria2, held>>
  /\ UNCHANGED <<alive, session, notified, polling, boot, events, handling,
                 table, rows, bounds>>

(* add_torrent_and_emit, add_metalink_and_emit *)
AddFile ==
  /\ Take("AddFile")
  /\ LET g == Head(cmds).gid IN
       IF alive
         THEN aria2' = [aria2 EXCEPT ![g] = "waiting"] /\ Then("tell_file", g)
         ELSE UNCHANGED <<aria2, handling>>
  /\ UNCHANGED <<alive, session, senders, events, table, rows, bounds>>

(* A request moves g if it is in one of the states it applies to. *)
Move(g, from, to) ==
  IF aria2[g] \in from
    THEN /\ aria2' = [aria2 EXCEPT ![g] = to]
         /\ notified' = notified \cup {g}
    ELSE UNCHANGED <<aria2, notified>>

PauseOrResume(type, from, to) ==
  /\ Take(type)
  /\ Move(Head(cmds).gid, from, to)
  /\ Then("tell", Head(cmds).gid)
  /\ UNCHANGED <<alive, session, held, polling, boot, events, table, rows, bounds>>

Pause == PauseOrResume("Pause", {"waiting", "active", "seeding"}, "paused")
Resume == PauseOrResume("Resume", {"paused"}, "waiting")

(* The tellStatus that ends Pause, Resume, ReaddTask, Redownload and        *)
(* AddFile.  A file that was added is announced in any case.               *)
Tell ==
  /\ handling.type \in {"tell", "tell_added", "tell_file"} /\ held["handler"] = <<>>
  /\ handling' = Idle
  /\ LET g == handling.gid
         known     == aria2[g] # "none"
         progress  == IF known THEN <<Progress(g)>> ELSE <<>>
         announced == \/ handling.type = "tell_added" /\ known
                      \/ handling.type = "tell_file"
     IN Hold("handler", (IF announced THEN <<Added(g, FALSE)>> ELSE <<>>) \o progress)
  /\ UNCHANGED <<aria, notified, polling, boot, cmds, events, table, rows, bounds>>

(* PauseAll of the browser extension: pauseAll, then every task is listed. *)
PauseAll ==
  /\ Take("PauseAll")
  /\ LET moved == {g \in Gid: aria2[g] \in {"waiting", "active", "seeding"}}
     IN /\ aria2' = [g \in Gid |-> IF g \in moved THEN "paused" ELSE aria2[g]]
        /\ notified' = notified \cup moved
  /\ handling' = [type |-> "tell_all"]
  /\ UNCHANGED <<alive, session, held, polling, boot, events, table, rows, bounds>>

TellAll(missed) ==
  /\ handling.type = "tell_all"
  /\ handling' = Idle
  /\ \E q \in Orders({Progress(g): g \in Listed \ missed}): Hold("handler", q)
  /\ UNCHANGED <<aria, notified, polling, boot, cmds, events, table, rows, bounds>>

(* ResumeAll of the extension: resume_staggered lists the paused tasks and *)
(* leaves them to tasks of their own, half a second apart for each host,   *)
(* which no later command stops.                                           *)
ResumeAll ==
  /\ Take("ResumeAll")
  /\ resuming' = [g \in Gid |-> IF aria2[g] = "paused" THEN "unpause" ELSE resuming[g]]
  /\ UNCHANGED <<aria, held, notified, scan, boot, events, handling, table, rows, bounds>>

Unpause(g) ==
  /\ resuming[g] = "unpause"
  /\ Move(g, {"paused"}, "waiting")
  /\ resuming' = [resuming EXCEPT ![g] = "tell"]
  /\ UNCHANGED <<alive, session, held, scan, boot, channel, table, rows, bounds>>

TellResumed(g) ==
  /\ resuming[g] = "tell"
  /\ Hold("resume", IF aria2[g] = "none" THEN <<>> ELSE <<Progress(g)>>)
  /\ resuming' = [resuming EXCEPT ![g] = "no"]
  /\ UNCHANGED <<aria, notified, scan, boot, channel, table, rows, bounds>>

(* remove_task_from_aria2: forceRemove, then removeDownloadResult; without *)
(* an answer the task counts as gone.  The session is saved in between.    *)
ForceRemove ==
  /\ Take("Remove")
  /\ Move(Head(cmds).gid, Live, "removed")
  /\ Then("forget", Head(cmds).gid)
  /\ UNCHANGED <<alive, session, held, polling, boot, events, table, rows, bounds>>

Forgotten(gids) ==
  [g \in Gid |-> IF g \in gids /\ aria2[g] \in Terminal THEN "none" ELSE aria2[g]]

ForgetRemoved ==
  /\ handling.type = "forget"
  /\ handling' = Idle
  /\ aria2' = Forgotten({handling.gid})
  /\ session' = IF alive THEN Saved(aria2') ELSE session
  /\ Hold("handler", <<Removed(handling.gid)>>)
  /\ UNCHANGED <<alive, notified, polling, boot, cmds, events, table, rows, bounds>>

PurgeResults ==
  /\ Take("PurgeResults")
  /\ aria2' = Forgotten(Head(cmds).gids)
  /\ UNCHANGED <<alive, session, senders, events, handling, table, rows, bounds>>

(* addUri with the gid of a task: refused while aria2 knows the gid. *)
Readd(g, step) ==
  IF alive /\ aria2[g] = "none"
    THEN aria2' = [aria2 EXCEPT ![g] = "waiting"] /\ Then(step, g)
    ELSE handling' = Idle /\ UNCHANGED aria2

ReaddTask ==
  /\ Take("ReaddTask")
  /\ LET c == Head(cmds) IN Readd(c.gid, IF c.paused THEN "pause" ELSE "announce")
  /\ UNCHANGED <<alive, session, senders, events, table, rows, bounds>>

PauseReadded ==
  /\ handling.type = "pause"
  /\ Move(handling.gid, {"waiting", "active", "seeding"}, "paused")
  /\ Then("announce", handling.gid)
  /\ UNCHANGED <<alive, session, held, polling, boot, cmds, events, table, rows,
                 bounds>>

AnnounceReadded ==
  /\ handling.type = "announce"
  /\ Hold("handler", <<Added(handling.gid, TRUE)>>)
  /\ Then("tell", handling.gid)
  /\ UNCHANGED <<aria, notified, polling, boot, cmds, events, table, rows, bounds>>

Redownload ==
  /\ Take("Redownload")
  /\ aria2' = Forgotten({Head(cmds).gid})
  /\ Then("add", Head(cmds).gid)
  /\ UNCHANGED <<alive, session, senders, events, table, rows, bounds>>

AddAgain ==
  /\ handling.type = "add"
  /\ Readd(handling.gid, "tell_added")
  /\ UNCHANGED <<alive, session, senders, cmds, events, table, rows, bounds>>

ChangeTaskAdvanced ==
  /\ Take("ChangeTaskAdvanced")
  /\ LET g == Head(cmds).gid IN
       IF aria2[g] \in Live
         THEN /\ session' = Saved(aria2)
              /\ Hold("handler", <<Applied(g)>>)
         ELSE UNCHANGED <<session, held>>
  /\ UNCHANGED <<alive, aria2, notified, polling, boot, events, handling, table,
                 rows, bounds>>

-----------------------------------------------------------------------------
(* The UI. *)

(* begin_task_exit of each: the card fades out; its row is deleted there,  *)
(* or by the caller before.                                                *)
Leaving(gids) == {g \in gids \ pending_removals: tasks[g] # "none"}

(* Mutant: a task that leaves is not remembered in removed_gids. *)
ExitUnremembered(gids) ==
  pending_removals' = pending_removals \cup Leaving(gids) /\ UNCHANGED removed_gids

BeginTaskExit(gids) ==
  /\ pending_removals' = pending_removals \cup Leaving(gids)
  /\ removed_gids' = removed_gids \cup Leaving(gids)

DeleteRows(gids) ==
  /\ db' = [g \in Gid |-> IF g \in gids THEN "none" ELSE db[g]]
  /\ dblink' = dblink \ gids

ExitAndDelete(gids) ==
  /\ BeginTaskExit(gids)
  /\ DeleteRows(Leaving(gids))
  /\ dirty' = dirty \ Leaving(gids)

(* Mutant: every progress of an active task counts. *)
CountEveryActive(before, after) ==
  active_count' = IF after = "active" THEN active_count + 1
                  ELSE IF before = "active" /\ active_count > 0 THEN active_count - 1
                  ELSE active_count

(* active_count is adjusted with saturating_sub. *)
CountActive(before, after) ==
  active_count' = CASE before # "active" /\ after = "active" -> active_count + 1
                    [] before = "active" /\ after # "active" ->
                         IF active_count = 0 THEN 0 ELSE active_count - 1
                    [] OTHER -> active_count

(* CardAnim: the animation has ended, finalize_task_removal. *)
FinalizeTaskRemoval(g) ==
  /\ g \in pending_removals
  /\ pending_removals' = pending_removals \ {g}
  /\ tasks' = [tasks EXCEPT ![g] = "none"]
  /\ link' = link \ {g}
  /\ CountActive(tasks[g], "none")
  /\ paused_gids' = paused_gids \ {g}
  /\ dirty' = dirty \ {g}
  /\ UNCHANGED <<aria, senders, channel, removed_gids, synced_gids, sync_done,
                 rows, bounds>>

(* FlushDirty, every second: only rows that exist are updated. *)
Flush(gids) ==
  [g \in Gid |-> IF g \in gids /\ db[g] # "none" /\ tasks[g] # "none"
                   THEN tasks[g] ELSE db[g]]

FlushDirty ==
  /\ dirty # {}
  /\ db' = Flush(dirty)
  /\ dirty' = {}
  /\ UNCHANGED <<aria, senders, channel, tasks, link, pending_removals,
                 removed_gids, paused_gids, synced_gids, sync_done,
                 active_count, dblink, bounds>>

(* gid_recently_removed, after REMOVED_GID_GRACE.  The minute outlasts     *)
(* what is already on its way about the gid.                               *)
Concerns(g, m) ==
  \/ "gid" \in DOMAIN m /\ m.gid = g
  \/ "gids" \in DOMAIN m /\ g \in m.gids
OnItsWay(g) ==
  \E q \in {events, cmds, <<handling>>} \cup {held[e]: e \in Sender}:
    \E i \in 1..Len(q): Concerns(g, q[i])

GraceEnds(g) ==
  /\ g \in removed_gids \ pending_removals
  /\ ~OnItsWay(g)
  /\ removed_gids' = removed_gids \ {g}
  /\ UNCHANGED <<aria, senders, channel, tasks, link, pending_removals,
                 paused_gids, synced_gids, sync_done, dirty, active_count, rows,
                 bounds>>

Receive(type) ==
  /\ events # <<>> /\ Head(events).type = type
  /\ events' = Tail(events)

(* Mutant: an UPDATE where a row has to be inserted. *)
UpdateRow(g, status, linked) ==
  IF db[g] = "none" THEN UNCHANGED rows
  ELSE /\ db' = [db EXCEPT ![g] = status]
       /\ dblink' = IF linked THEN dblink \cup {g} ELSE dblink \ {g}

(* upsert_meta *)
Upsert(g, status, linked) ==
  /\ db' = [db EXCEPT ![g] = status]
  /\ dblink' = IF linked THEN dblink \cup {g} ELSE dblink \ {g}

HandleAdded ==
  /\ Receive("Added")
  /\ LET g == Head(events).gid IN
       /\ synced_gids' = synced_gids \cup {g}
       /\ dirty' = dirty \cup {g}
       /\ \/ /\ tasks[g] # "none"
             /\ link' = link \cup {g}
             /\ UNCHANGED <<tasks, db, dblink>>
          \/ /\ tasks[g] = "none" /\ g \notin removed_gids
             /\ tasks' = [tasks EXCEPT ![g] = "waiting"]
             /\ link' = link \cup {g}
             /\ Upsert(g, "waiting", TRUE)
          \/ /\ tasks[g] = "none" /\ g \in removed_gids
             /\ UNCHANGED <<tasks, link, db, dblink>>
  /\ UNCHANGED <<aria, senders, cmds, handling, pending_removals, removed_gids,
                 paused_gids, sync_done, active_count, bounds>>

(* A Progress first inserts a task nobody has announced, unless it ended.  *)
(* A task the user paused is shown as paused whatever aria2 says.          *)
HandleProgress ==
  /\ Receive("Progress")
  /\ LET g == Head(events).gid
         status == Head(events).status
         new == tasks[g] = "none" /\ g \notin removed_gids /\ status \notin Terminal
         shown == IF g \in paused_gids THEN "paused" ELSE FromEngine(status)
     IN /\ synced_gids' = synced_gids \cup {g}
        /\ IF new THEN Upsert(g, FromEngine(status), FALSE) ELSE UNCHANGED rows
        /\ IF new \/ tasks[g] # "none"
             THEN /\ tasks' = [tasks EXCEPT ![g] = shown]
                  /\ CountActive(tasks[g], shown)
                  /\ dirty' = dirty \cup {g}
             ELSE UNCHANGED <<tasks, active_count, dirty>>
  /\ UNCHANGED <<aria, senders, cmds, handling, link, pending_removals,
                 removed_gids, paused_gids, sync_done, bounds>>

HandleRemoved ==
  /\ Receive("Removed")
  /\ ExitAndDelete({Head(events).gid})
  /\ UNCHANGED <<aria, senders, cmds, handling, tasks, link, paused_gids,
                 synced_gids, sync_done, active_count, bounds>>

HandleAdvancedApplied ==
  /\ Receive("TaskAdvancedApplied")
  /\ LET g == Head(events).gid IN
       IF tasks[g] # "none" THEN Upsert(g, tasks[g], g \in link)
                            ELSE UNCHANGED rows
  /\ UNCHANGED <<aria, senders, cmds, handling, table, bounds>>

(* Mutant: sync_done of the last engine is kept. *)
ReadyKeepsSyncDone ==
  /\ Receive("EngineReady")
  /\ synced_gids' = {}
  /\ UNCHANGED <<aria, senders, cmds, handling, tasks, link, pending_removals,
                 removed_gids, paused_gids, sync_done, dirty, active_count, rows,
                 bounds>>

HandleEngineReady ==
  /\ Receive("EngineReady")
  /\ synced_gids' = {}
  /\ sync_done' = FALSE
  /\ UNCHANGED <<aria, senders, cmds, handling, tasks, link, pending_removals,
                 removed_gids, paused_gids, dirty, active_count, rows, bounds>>

(* Reconciliation: unfinished tasks that the sync did not mention are      *)
(* added to aria2 again, or purged when there is nothing to add them by.   *)
Unsynced == {g \in Gid \ synced_gids: tasks[g] \in {"waiting", "active", "paused"}}
ReaddCmd(g) == [type |-> "ReaddTask", gid |-> g, paused |-> tasks[g] = "paused"]

Reconcile ==
  /\ sync_done' = TRUE
  /\ ExitAndDelete(Unsynced \ link)
  /\ paused_gids' = paused_gids \cup {g \in Unsynced \cap link: tasks[g] = "paused"}
  /\ \E q \in Orders({ReaddCmd(g): g \in Unsynced \cap link}): cmds' = cmds \o q

HandleSyncComplete ==
  /\ Receive("SyncComplete")
  /\ IF sync_done
       THEN UNCHANGED <<sync_done, pending_removals, removed_gids, rows, dirty,
                        paused_gids, cmds>>
       ELSE Reconcile
  /\ UNCHANGED <<aria, senders, handling, tasks, link, synced_gids,
                 active_count, bounds>>

(* What the user does.  PauseAll, StartAll and DeleteAll (with             *)
(* RemoveAllRecords) act on every unfinished task, one command each;       *)
(* clear_specific_local drops their rows at once.                          *)
Operate == ops < MaxOps /\ ops' = ops + 1

Unfinished == {g \in Gid: tasks[g] \in {"waiting", "active", "paused"}}
SendEach(type, gids) ==
  \E q \in Orders({[type |-> type, gid |-> g]: g \in gids}): cmds' = cmds \o q

AddTask(g, type) ==             \* a url, or a torrent or metalink file
  /\ Operate
  /\ g \notin used /\ used' = used \cup {g}
  /\ SendEach(type, {g})
  /\ UNCHANGED <<aria, senders, events, handling, table, rows, changes, boots>>

PauseTasks(gids) ==
  /\ Operate
  /\ paused_gids' = paused_gids \cup gids
  /\ SendEach("Pause", gids)
  /\ UNCHANGED <<aria, senders, events, handling, tasks, link, pending_removals,
                 removed_gids, synced_gids, sync_done, dirty, active_count, rows,
                 used, changes, boots>>

ResumeTasks(gids, kept) ==
  /\ Operate
  /\ paused_gids' = kept
  /\ SendEach("Resume", gids)
  /\ UNCHANGED <<aria, senders, events, handling, tasks, link, pending_removals,
                 removed_gids, synced_gids, sync_done, dirty, active_count, rows,
                 used, changes, boots>>

RedownloadTask(g) ==
  /\ Operate
  /\ tasks[g] \in Terminal /\ g \in link
  /\ paused_gids' = paused_gids \ {g}
  /\ SendEach("Redownload", {g})
  /\ UNCHANGED <<aria, senders, events, handling, tasks, link, pending_removals,
                 removed_gids, synced_gids, sync_done, dirty, active_count, rows,
                 used, changes, boots>>

RemoveTask(g) ==               \* the card stays until Removed comes back
  /\ Operate
  /\ tasks[g] # "none"
  /\ paused_gids' = paused_gids \ {g}
  /\ SendEach("Remove", {g})
  /\ UNCHANGED <<aria, senders, events, handling, tasks, link, pending_removals,
                 removed_gids, synced_gids, sync_done, dirty, active_count, rows,
                 used, changes, boots>>

DeleteAll ==
  /\ Operate
  /\ SendEach("Remove", Unfinished)
  /\ ExitAndDelete(Unfinished)
  /\ paused_gids' = paused_gids \ Unfinished
  /\ UNCHANGED <<aria, senders, events, handling, tasks, link, synced_gids,
                 sync_done, active_count, used, changes, boots>>

ClearCompleted(ended) ==       \* clear_completed_local
  LET gids == {g \in Gid: tasks[g] \in ended} IN
  /\ Operate
  /\ gids # {}
  /\ cmds' = Append(cmds, [type |-> "PurgeResults", gids |-> gids])
  /\ BeginTaskExit(gids) /\ DeleteRows(gids)
  /\ dirty' = dirty \ gids
  /\ UNCHANGED <<aria, senders, events, handling, tasks, link, paused_gids,
                 synced_gids, sync_done, active_count, used, changes, boots>>

SaveAdvanced(g) ==
  /\ Operate
  /\ tasks[g] # "none"
  /\ SendEach("ChangeTaskAdvanced", {g})
  /\ UNCHANGED <<aria, senders, events, handling, table, rows, used, changes, boots>>

(* pause_all and resume_all of the extension's server. *)
Extension(type) ==
  /\ Operate
  /\ cmds' = Append(cmds, [type |-> type])
  /\ UNCHANGED <<aria, senders, events, handling, table, rows, used, changes, boots>>

User ==
  \/ \E g \in Gid:
       \/ \E type \in {"Add", "AddFile"}: AddTask(g, type)
       \/ RedownloadTask(g) \/ RemoveTask(g) \/ SaveAdvanced(g)
       \/ tasks[g] \in {"waiting", "active"} /\ PauseTasks({g})
       \/ tasks[g] = "paused" /\ ResumeTasks({g}, paused_gids \ {g})
  \/ PauseTasks(Unfinished) \/ ResumeTasks(Unfinished, {}) \/ DeleteAll
  \/ ClearCompleted({"complete", "removed"}) \/ ClearCompleted({"error"})
  \/ Extension("PauseAll") \/ Extension("ResumeAll")

-----------------------------------------------------------------------------
Handler ==
  \/ AddDownload \/ Pause \/ Resume \/ Tell \/ ForceRemove \/ ForgetRemoved
  \/ PurgeResults \/ ReaddTask \/ PauseReadded \/ AnnounceReadded \/ Redownload
  \/ AddAgain \/ ChangeTaskAdvanced \/ AddFile \/ PauseAll \/ ResumeAll
  \/ \E missed \in SUBSET Running: TellAll(missed)

Resuming == \E g \in Gid: Unpause(g) \/ TellResumed(g)

Scan == \E missed \in SUBSET Running: SlowScan(missed)

BootSync ==
  \/ SyncFails("boot")
  \/ \E missed \in SUBSET Running: SyncExisting(Listed \ missed, TRUE)
  \/ \E listed \in SUBSET Listed: listed # Listed /\ SyncExisting(listed, FALSE)

Boot ==
  \/ \E e \in {"boot", "oldboot"}: BootReady(e)
  \/ SyncFails("oldboot") \/ BootSync

Receiving ==
  \/ HandleAdded \/ HandleProgress \/ HandleRemoved \/ HandleAdvancedApplied
  \/ HandleEngineReady \/ HandleSyncComplete

UI ==
  \/ Receiving \/ FlushDirty
  \/ \E g \in Gid: FinalizeTaskRemoval(g) \/ GraceEnds(g)

Next ==
  \/ \E g \in Gid: AriaStep(g) \/ FollowNotification(g)
  \/ AutoSave \/ Crash \/ Respawn
  \/ FastTick \/ Scan \/ Boot \/ Handler \/ Resuming \/ UI \/ User
  \/ \E e \in Sender: Send(e)

Spec == Init /\ [][Next]_vars

(* The runtime runs every task that can go on, requests time out, the UI   *)
(* drains its channel and animations end.  The engine comes back after a   *)
(* crash (Supervisor says when it does not).  Nothing is asked of aria2,   *)
(* the user or the timers.                                                 *)
Fairness ==
  /\ WF_vars(Respawn)
  /\ \A e \in Sender: WF_vars(Send(e))
  /\ \A e \in {"boot", "oldboot"}: WF_vars(BootReady(e))
  /\ WF_vars(SyncFails("oldboot")) /\ WF_vars(BootSync)
  /\ WF_vars(Handler) /\ WF_vars(Receiving)
  /\ \A g \in Gid: WF_vars(FinalizeTaskRemoval(g))

FairSpec == Spec /\ Fairness

-----------------------------------------------------------------------------
(* Properties. *)

(* Type correctness of the state and of the messages on their way. *)
TypeOK ==
  /\ alive \in BOOLEAN /\ sync_done \in BOOLEAN
  /\ aria2 \in [Gid -> Live \cup Terminal \cup {"none"}]
  /\ session \in [Gid -> {"none", "queued", "paused"}]
  /\ boot \in [{"boot", "oldboot"} -> {"none", "options", "sync"}]
  /\ tasks \in [Gid -> Shown \cup {"none"}] /\ db \in [Gid -> Shown \cup {"none"}]
  /\ link \subseteq Gid /\ dblink \subseteq Gid /\ pending_removals \subseteq Gid
  /\ removed_gids \subseteq Gid /\ paused_gids \subseteq Gid /\ synced_gids \subseteq Gid
  /\ dirty \subseteq Gid /\ notified \subseteq Gid /\ seen \subseteq Gid
  /\ stopped_seen \subseteq Gid /\ terminal \subseteq Gid /\ orphan_grace \subseteq Gid
  /\ used \subseteq Gid
  /\ resuming \in [Gid -> {"no", "unpause", "tell"}]
  /\ held \in [Sender -> Seq(Event)] /\ events \in Seq(Event)
  /\ cmds \in Seq(Command) /\ handling \in Rest
  /\ active_count \in Nat /\ ops \in Nat /\ changes \in Nat /\ boots \in Nat

(* active_count, which keeps the computer awake and drives the speed HUD,  *)
(* is the number of tasks shown as active: three handlers adjust it, in    *)
(* whatever order progress, pauses and removals come.                      *)
ActiveCountExact == active_count = Cardinality({g \in Gid: tasks[g] = "active"})

(* Every task on screen that is not leaving has a row: what the user sees  *)
(* survives a kill of the application.                                     *)
ShownTaskHasRow ==
  \A g \in Gid: tasks[g] # "none" /\ g \notin pending_removals => db[g] # "none"

(* What is neither leaving nor waiting for the next flush is on disk as it *)
(* is on screen.                                                           *)
CleanTaskIsSaved ==
  \A g \in Gid \ (pending_removals \cup dirty): tasks[g] # "none" => db[g] = tasks[g]

(* No card appears for a download that aria2 does not have: whatever       *)
(* answers about a removed gid are still on their way, in whatever order,  *)
(* they come within the grace period (before the engine first restarts).   *)
NoPhantomCard ==
  [][\A g \in Gid:
       tasks[g] = "none" /\ aria2[g] = "none" /\ alive /\ boots = 0
         => tasks'[g] = "none"]_vars

(* A download that aria2 lost, in a crash or because its session file was  *)
(* old, and that can be added by its url or hash, is added again, unless   *)
(* its card leaves or it turns out to have ended.                          *)
LostTaskIsReadded ==
  \A g \in Gid:
    (g \in Unfinished \cap link /\ aria2[g] = "none")
      ~> (aria2[g] # "none" \/ g \in pending_removals \/ g \notin Unfinished)

(* The task table, its counter and its rows agree, in whatever order the   *)
(* answers of the tasks that question aria2 are handled.                   *)
TableConsistent == TypeOK /\ ActiveCountExact /\ ShownTaskHasRow /\ CleanTaskIsSaved

=============================================================================
