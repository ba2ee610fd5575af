------------------------------ MODULE Notices ------------------------------
(***************************************************************************)
(* What Remotrix tells the user about: a download that has finished or     *)
(* failed (EngineEvent::Progress in src/update/engine.rs), an engine that  *)
(* cannot be started, in toasts inside the window (Toasts) and in          *)
(* notifications of the desktop (src/platform/notify.rs).                  *)
(*                                                                         *)
(* aria2 works on the downloads as it likes.  The poll, its slow scan, the *)
(* startup sync, the notifications of aria2 and the commands each ask for  *)
(* the state of a download and report what aria2 answered, later, so that  *)
(* a state may be reported never or many times, and an older answer behind *)
(* a newer one.                                                            *)
(***************************************************************************)
EXTENDS Toasts, Sequences, FiniteSetsExt

CONSTANTS
  Gid,            \* downloads
  TorrentLinks,   \* those whose url is that of a .torrent file
  Stay,           \* ticks a toast stays (20 in the code for a finished download)
  MaxChanges,     \* bound: what aria2 and the user do to downloads
  MaxNews,        \* bound: other things that toasts tell
  MaxBoth,        \* bound: changes and news, where there are news
  MaxToasts,      \* bound: toasts
  MaxPending      \* bound: answers, reports and notifications on their way

ASSUME NoticesAssumption ==
  /\ TorrentLinks \subseteq Gid
  /\ Stay \in Nat \ {0} /\ {MaxChanges, MaxNews, MaxBoth, MaxToasts, MaxPending} \subseteq Nat

Finished == {"complete", "seeding"}       \* is_download_complete
Ended    == {"complete", "error"}
Status   == {"none", "active", "paused", "error"} \cup Finished

VARIABLES
  (* the engine *)
  aria,           \* status of each download in aria2
  life,           \* how often it was downloaded again
  adding,         \* downloads of which Added is still to be sent
  again,          \* downloads for which EngineCmd::Redownload waits
  read,           \* answers of aria2 that are not reported yet
  events,         \* what was reported and not yet handled
  (* the UI: TaskTracking *)
  tasks,          \* status of the row, "none" without one
  link,           \* rows with a url
  paused_gids, removed_gids, session_gids,
  completion_toasted, error_notified, torrent_followed,
  sync_done,
  (* what is shown *)
  toasts,         \* the ToastManager
  startup_error,  \* startup_error_toast_id
  posted,         \* notifications: the stream waits for the first
  misled,         \* a button of one was pressed, and something else was done
  (* what happened: only the properties read these *)
  told, retold,   \* ends the user was told of, once and again
  passed,         \* what was reported of the end of each life
  disturbed,      \* lives of which the reports came out of order
  changes, news   \* bounds

reports     == <<aria, life, adding, again, read, events>>
rows        == <<tasks, link, paused_gids, removed_gids>>
tracking    == <<session_gids, completion_toasted, error_notified, torrent_followed>>
shown       == <<toasts, startup_error, posted, misled>>
history     == <<told, retold, passed, disturbed>>
noticesVars == <<reports, rows, tracking, sync_done, shown, history, changes, news>>

NoticesInit ==
  /\ tasks \in [Gid -> {"none", "active", "paused", "complete"}]   \* of an earlier run
  /\ aria = [g \in Gid |-> IF tasks[g] = "complete" THEN "none" ELSE tasks[g]]
  /\ life = [g \in Gid |-> 0] /\ adding = {} /\ again = {} /\ read = {} /\ events = <<>>
  /\ link = {g \in Gid: tasks[g] # "none"} /\ paused_gids = {} /\ removed_gids = {} /\ session_gids = {}
  /\ completion_toasted = {} /\ error_notified = {} /\ torrent_followed = {} /\ sync_done = FALSE
  /\ toasts = EmptyManager /\ startup_error = NoToast
  /\ posted = <<>> /\ misled = FALSE
  /\ told = {} /\ retold = {} /\ passed = {} /\ disturbed = {}
  /\ changes = 0 /\ news = 0

Both    == changes + news < MaxBoth
Change  == changes < MaxChanges /\ (news = 0 \/ Both) /\ changes' = changes + 1 /\ news' = news
Tell    == news < MaxNews /\ Both /\ news' = news + 1 /\ changes' = changes
Room    == toasts.next <= MaxToasts
Fits(n) == Cardinality(read) + Len(events) + Len(posted) + n <= MaxPending

-----------------------------------------------------------------------------
(* aria2 *)
Moves == [none |-> {}, active |-> {"paused", "seeding", "complete", "error"}, paused |-> {"active"},
          seeding |-> {"paused", "complete"}, complete |-> {}, error |-> {}]

AriaMoves ==
  \E g \in Gid: \E s \in Moves[aria[g]]:
    /\ Change
    /\ aria' = [aria EXCEPT ![g] = s]
    /\ UNCHANGED <<life, adding, again, read, events, rows, tracking, sync_done, shown, history>>

(* What is sent to the UI; a report of a download is of one of its lives.  *)
Event(type, g, n, status, sync) ==
  [type |-> type, gid |-> g, life |-> n, status |-> status, sync |-> sync]
Added(g, sync) == Event("Added", g, 0, "none", sync)
Progress(a)    == Event("Progress", a.gid, a.life, a.status, FALSE)
Other(type)    == Event(type, "none", 0, "none", FALSE)

Emit(list) == events' = events \o list

(* tell_active, tell_waiting, tell_stopped, tell_status: aria2 answers.    *)
Answer(g) == [gid |-> g, life |-> life[g], status |-> aria[g]]

Asked ==
  \E g \in Gid:
    /\ aria[g] # "none" /\ Fits(1)
    /\ read' = read \cup {Answer(g)}
    /\ UNCHANGED <<aria, life, adding, again, events, rows, tracking, sync_done, shown, history,
                   changes, news>>

(* Which end a status is of; an end that was reported is contradicted by a *)
(* report that it is none, or another: the download is a seeder that was   *)
(* paused, or an older answer is reported behind a newer one.              *)
EndOf(status) == IF status \in Finished THEN "finished"
                 ELSE IF status = "error" THEN "failed" ELSE "none"
End(a, of) == [gid |-> a.gid, life |-> a.life, of |-> of]
Contradicts(a) == \E of \in {"finished", "failed"} \ {EndOf(a.status)}: End(a, of) \in passed

Reported(a) ==
  /\ read' = read \ {a}
  /\ passed' = IF EndOf(a.status) = "none" THEN passed ELSE passed \cup {End(a, EndOf(a.status))}
  /\ disturbed' = IF Contradicts(a) THEN disturbed \cup {<<a.gid, a.life>>} ELSE disturbed
  /\ UNCHANGED <<aria, life, adding, again, rows, tracking, sync_done, shown, told, retold, changes, news>>

(* emit_progress of the poll, the slow scan, a notification of aria2 and   *)
(* of EngineCmd::Snapshot: a download that has ended can be reported by    *)
(* each of them.                                                           *)
Report == \E a \in read: Emit(<<Progress(a)>>) /\ Reported(a)

(* emit_added of the startup sync and the slow scan, which after it report *)
(* how far the download is.                                                *)
Sync == \E a \in read: Fits(1) /\ Emit(<<Added(a.gid, TRUE), Progress(a)>>) /\ Reported(a)

SyncEnds ==
  /\ ~sync_done /\ Fits(1) /\ Emit(<<Other("SyncComplete")>>)
  /\ UNCHANGED <<aria, life, adding, again, read, rows, tracking, sync_done, shown, history, changes, news>>

(* add_download_internal: the poll may see the download before Added. *)
AddDownload ==
  \E g \in Gid:
    /\ aria[g] = "none" /\ tasks[g] = "none" /\ g \notin removed_gids \cup adding
    /\ aria' = [aria EXCEPT ![g] = "active"]
    /\ adding' = adding \cup {g}
    /\ UNCHANGED <<life, again, read, events, rows, tracking, sync_done, shown, history, changes, news>>

AddedIsSent ==
  \E g \in adding:
    /\ Fits(1) /\ Emit(<<Added(g, FALSE)>>) /\ adding' = adding \ {g}
    /\ UNCHANGED <<aria, life, again, read, rows, tracking, sync_done, shown, history, changes, news>>

(* EngineCmd::Redownload: the result is dropped, the url is added with the *)
(* same gid, which fails while there is such a download; what the new one  *)
(* is asked for at once is reported.                                       *)
Redownload ==
  \E g \in again:
    /\ again' = again \ {g}
    /\ IF aria[g] \in Ended \cup {"none"}
       THEN /\ aria' = [aria EXCEPT ![g] = "active"]
            /\ life' = [life EXCEPT ![g] = @ + 1]
            /\ \/ /\ Fits(2)
                  /\ Emit(<<Added(g, FALSE),
                            Progress([gid |-> g, life |-> life[g] + 1, status |-> "active"])>>)
               \/ UNCHANGED events
       ELSE UNCHANGED <<aria, life, events>>
    /\ UNCHANGED <<adding, read, rows, tracking, sync_done, shown, history, changes, news>>

EngineFails ==
  /\ Fits(1) /\ Emit(<<Other("Aria2FetchFailed")>>) /\ Tell
  /\ UNCHANGED <<aria, life, adding, again, read, rows, tracking, sync_done, shown, history>>

EngineStarts ==
  /\ Fits(1) /\ Emit(<<Other("EngineReady")>>) /\ Tell
  /\ UNCHANGED <<aria, life, adding, again, read, rows, tracking, sync_done, shown, history>>

-----------------------------------------------------------------------------
(* Notifications of the desktop.  show attaches the buttons; when it fails *)
(* the text is sent without them, and nobody waits for it.                 *)
Notification(buttons, default) == [buttons |-> buttons, default |-> default]

ActionKeyShared(action) == IF action = "RestartEngine" THEN "restart" ELSE "open"   \* mutant

ActionKey(action) ==
  IF action = "RevealDir" THEN "reveal" ELSE IF action = "RestartEngine" THEN "restart" ELSE "open"

(* send_system_notification, when the setting asks for it, and of an engine *)
(* that cannot be started when the user does not know (degraded_notified)  *)
Notify(note) ==
  \/ posted' = Append(posted, note)
  \/ posted' = posted

(* response_to_message: the first action with the key that came back *)
ResponseToMessage(note, key) ==
  LET found == {i \in DOMAIN note.buttons: ActionKey(note.buttons[i]) = key}
  IN IF found = {} THEN note.default ELSE note.buttons[Min(found)]

(* build_notify_stream waits for one notification at a time.  What is      *)
(* pressed on another may be gone when its turn comes.                     *)
NotificationPressed ==
  /\ posted # <<>>
  /\ posted' = Tail(posted)
  /\ \/ \E i \in DOMAIN Head(posted).buttons:
          LET button == Head(posted).buttons[i]
          IN misled' = (misled \/ ResponseToMessage(Head(posted), ActionKey(button)) # button)
     \/ UNCHANGED misled                    \* the text is clicked, or it is closed
  /\ UNCHANGED <<reports, rows, tracking, sync_done, toasts, startup_error, history, changes, news>>

-----------------------------------------------------------------------------
(* The UI handles what the engine reported. *)
Handle(type) == events # <<>> /\ Head(events).type = type /\ events' = Tail(events)

HandleAdded ==
  /\ Handle("Added")
  /\ LET g == Head(events).gid IN
       /\ session_gids' = IF Head(events).sync THEN session_gids ELSE session_gids \cup {g}
       /\ link' = IF tasks[g] # "none" \/ g \notin removed_gids THEN link \cup {g} ELSE link
       /\ tasks' = IF tasks[g] = "none" /\ g \notin removed_gids
                     THEN [tasks EXCEPT ![g] = "waiting"] ELSE tasks
  /\ UNCHANGED <<aria, life, adding, again, read, paused_gids, removed_gids, completion_toasted,
                 error_notified, torrent_followed, sync_done, shown, history, changes, news>>

Shown(status) == IF status = "seeding" THEN "active" ELSE status

(* completion_toasted: a download that is not finished may finish.  The    *)
(* notice is for downloads the user started in this run.                   *)
Completes(g, status, row) == status \in Finished /\ g \notin completion_toasted /\ row

CompletionIgnoresSeeding(g, status, row) ==      \* mutant: only "complete" counts as finished
  completion_toasted' = IF status # "complete" THEN completion_toasted \ {g}
                        ELSE IF row THEN completion_toasted \cup {g} ELSE completion_toasted

Completion(g, status, row) ==
  completion_toasted' = IF status \notin Finished THEN completion_toasted \ {g}
                        ELSE IF row THEN completion_toasted \cup {g} ELSE completion_toasted

(* error_notified: forgotten when the row was an error and is no longer,   *)
(* unless the handler has returned for the notice.                         *)
Fails(g, status, row) ==
  status = "error" /\ tasks[g] # "error" /\ row /\ g \notin error_notified

Failure(g, status, row) ==
  error_notified' =
    IF Fails(g, status, row) THEN error_notified \cup {g}
    ELSE IF tasks[g] = "error" /\ status # "error" /\ ~Completes(g, status, row)
         THEN error_notified \ {g} ELSE error_notified

(* The file of a .torrent link is added as a download, once. *)
Follows(g, status, row) ==
  /\ status = "complete" /\ sync_done /\ row
  /\ g \in link \cap TorrentLinks /\ g \notin torrent_followed

Follow(g, status, row) ==
  torrent_followed' = IF Follows(g, status, row) THEN torrent_followed \cup {g} ELSE torrent_followed

(* Which ends the user is told of *)
Notes(a, row) ==
  {End(a, of): of \in {x \in {"finished", "failed", "followed"}:
     CASE x = "finished" -> Completes(a.gid, a.status, row) /\ a.gid \in session_gids
       [] x = "failed"   -> Fails(a.gid, a.status, row)
       [] x = "followed" -> Follows(a.gid, a.status, row)}}

TaskButtons == <<"OpenFile", "RevealDir">>

Announce(g, status, row) ==
  IF Completes(g, status, row) /\ g \in session_gids
    THEN Room /\ toasts' = Push(toasts, Toast("Task", Stay, TaskButtons))
              /\ Notify(Notification(TaskButtons, "OpenFile"))
  ELSE IF Fails(g, status, row)
    THEN Room /\ toasts' = Push(toasts, Toast("Task", Stay, <<>>))
              /\ Notify(Notification(<<>>, "ActivateWindow"))
  ELSE UNCHANGED <<toasts, posted>>

HandleProgress ==
  /\ Handle("Progress")
  /\ LET a      == Head(events)
         g      == a.gid
         status == a.status
         row    == tasks[g] # "none" \/ (g \notin removed_gids /\ status \notin Ended)
     IN /\ tasks' = IF ~row THEN tasks
                    ELSE [tasks EXCEPT ![g] = IF g \in paused_gids THEN "paused" ELSE Shown(status)]
        /\ Completion(g, status, row)
        /\ Failure(g, status, row)
        /\ Follow(g, status, row)
        /\ Announce(g, status, row)
        /\ told' = told \cup Notes(a, row)
        /\ retold' = retold \cup (told \cap Notes(a, row))
        /\ disturbed' = IF a.life # life[g] THEN disturbed \cup {<<g, life[g]>>} ELSE disturbed
  /\ UNCHANGED <<aria, life, adding, again, read, link, paused_gids, removed_gids, session_gids,
                 sync_done, startup_error, misled, passed, changes, news>>

(* Torrents that are complete already are not added again. *)
HandleSyncComplete ==
  /\ Handle("SyncComplete")
  /\ sync_done' = TRUE
  /\ torrent_followed' = IF sync_done THEN torrent_followed
                         ELSE torrent_followed \cup
                              {g \in link \cap TorrentLinks: tasks[g] = "complete"}
  /\ UNCHANGED <<aria, life, adding, again, read, rows, session_gids, completion_toasted, error_notified, shown,
                 history, changes, news>>

(* One toast says that the engine cannot be started. *)
HandleFetchFailed ==
  /\ Handle("Aria2FetchFailed") /\ Room
  /\ toasts' = Push(Dismiss(toasts, startup_error), Toast("Engine", Sticky, <<>>))
  /\ startup_error' = toasts.next
  /\ Notify(Notification(<<>>, "ActivateWindow"))
  /\ UNCHANGED <<aria, life, adding, again, read, rows, tracking, sync_done, misled, history, changes, news>>

HandleEngineReady ==             \* "engine started" takes the place of other news of the engine
  /\ Handle("EngineReady") /\ Room
  /\ toasts' = Push(Dismiss(toasts, startup_error), Toast("Engine", Stay, <<>>))
  /\ startup_error' = NoToast
  /\ sync_done' = FALSE
  /\ UNCHANGED <<aria, life, adding, again, read, rows, tracking, posted, misled, history, changes, news>>

-----------------------------------------------------------------------------
(* The user *)
PauseTask ==
  \E g \in Gid:
    /\ tasks[g] = "active" /\ Change
    /\ paused_gids' = paused_gids \cup {g}
    /\ UNCHANGED <<reports, tasks, link, removed_gids, tracking, sync_done, shown, history>>

ResumeTask ==
  \E g \in Gid:
    /\ g \in paused_gids /\ Change
    /\ paused_gids' = paused_gids \ {g}
    /\ UNCHANGED <<reports, tasks, link, removed_gids, tracking, sync_done, shown, history>>

RedownloadTask ==
  \E g \in Gid:
    /\ tasks[g] \in Ended /\ g \in link \ again /\ Change
    /\ again' = again \cup {g}
    /\ paused_gids' = paused_gids \ {g}
    /\ torrent_followed' = torrent_followed \ {g}
    /\ session_gids' = session_gids \cup {g}
    /\ disturbed' = disturbed \cup {<<g, life[g]>>}
    /\ UNCHANGED <<aria, life, adding, read, events, tasks, link, removed_gids, completion_toasted,
                   error_notified, sync_done, shown, told, retold, passed>>

(* finalize_task_removal: the card is gone, and all that was noted of it. *)
RemoveTask ==
  \E g \in Gid:
    /\ tasks[g] # "none" /\ Change
    /\ tasks' = [tasks EXCEPT ![g] = "none"]
    /\ removed_gids' = removed_gids \cup {g}
    /\ paused_gids' = paused_gids \ {g}
    /\ session_gids' = session_gids \ {g}
    /\ completion_toasted' = completion_toasted \ {g}
    /\ error_notified' = error_notified \ {g}
    /\ torrent_followed' = torrent_followed \ {g}
    /\ aria' = [aria EXCEPT ![g] = "none"]
    /\ UNCHANGED <<life, adding, again, read, events, link, sync_done, shown, history>>

-----------------------------------------------------------------------------
(* Toasts *)
Only(m) == toasts' = m /\ UNCHANGED <<reports, rows, tracking, sync_done, startup_error,
                                      posted, misled, history, changes, news>>

(* An update that waits, a sync of the trackers, and everything else that  *)
(* spawn_toast says.                                                       *)
Say ==
  /\ Room /\ Tell
  /\ \E group \in {"General", "Engine"}, closeAfter \in {Sticky, Stay}:
       toasts' = Push(toasts, Toast(group, closeAfter, IF closeAfter = Sticky THEN <<"RestartEngine">> ELSE <<>>))
  /\ UNCHANGED <<reports, rows, tracking, sync_done, startup_error, posted, misled, history>>

Hovered ==               \* ToastHovered and ToastUnhovered
  \E t \in toasts.toasts:
    /\ Only(IF toasts.hovered = t.id THEN Unhover(toasts, t.id) ELSE Hover(toasts, t.id))


(* ToastActionPressed and DismissToast; a toast that leaves can still be   *)
(* pressed.                                                                *)
ActionPressed ==
  \E t \in toasts.toasts:
    /\ Only(Dismiss(toasts, t.id))

ToastTick ==             \* while a toast has a time
  /\ \E t \in toasts.toasts: t.close_after # Sticky
  /\ Only(Tick(toasts))

ToastAnim ==
  \E t \in toasts.toasts: t.dismissing /\ Only(Prune(toasts, t.id))

Handled == HandleAdded \/ HandleProgress \/ HandleSyncComplete \/ HandleFetchFailed \/ HandleEngineReady

NoticesNext ==
  \/ AriaMoves \/ Asked \/ Report \/ Sync \/ SyncEnds \/ AddDownload \/ AddedIsSent
  \/ Redownload \/ EngineFails \/ EngineStarts
  \/ Handled \/ NotificationPressed
  \/ PauseTask \/ ResumeTask \/ RedownloadTask \/ RemoveTask
  \/ Say \/ Hovered \/ ActionPressed \/ ToastTick \/ ToastAnim

NoticesSpec == NoticesInit /\ [][NoticesNext]_noticesVars

(* The timer of the toasts runs, and animations end. *)
NoticesFairSpec == NoticesSpec /\ WF_noticesVars(ToastTick) /\ WF_noticesVars(ToastAnim)

-----------------------------------------------------------------------------
(* Properties. *)

(* Type correctness; the stack is never above its limit, in the order in   *)
(* which its toasts came.                                                  *)
NoticesTypeOK ==
  /\ aria \in [Gid -> Status] /\ life \in [Gid -> Nat]
  /\ adding \subseteq Gid /\ again \subseteq Gid
  /\ tasks \in [Gid -> Status \cup {"waiting"}]
  /\ \A S \in {link, paused_gids, removed_gids, session_gids, completion_toasted, error_notified,
               torrent_followed}: S \subseteq Gid
  /\ IsManager(toasts) /\ startup_error \in 0..(toasts.next - 1)
  /\ {sync_done, misled} \subseteq BOOLEAN

(* An end is told once, however often and by however many it is reported:  *)
(* a download is announced, its failure told, and the torrent in it added, *)
(* once in each life.  Three things make the code tell it again, and are   *)
(* excepted: a seeder that is paused and goes on, or an answer reported    *)
(* behind a newer one (engine.rs:539, :608: what was told is forgotten     *)
(* when the download is reported not to have ended); a report of a life    *)
(* that is over; and the life itself once RedownloadTask was asked for     *)
(* (task.rs:36), when a second report of its end is still to come.         *)
NotedOnce == \A e \in retold: <<e.gid, e.life>> \in disturbed

(* At most one toast says that the engine cannot be started, and none when *)
(* it was started: it is looked up by the id of the last one.              *)
ErrorToastIsCurrent ==
  \A t \in toasts.toasts:
    t.group = "Engine" /\ t.close_after = Sticky /\ t.actions = <<>> /\ ~t.dismissing
      => t.id = startup_error

(* A toast that stays, an update that waits for the user, goes only when   *)
(* it was dismissed or there are too many.                                 *)
StickyStays ==
  [][\A t \in toasts.toasts:
       t.close_after = Sticky /\ ~t.dismissing /\ Cardinality(toasts.toasts) < Cap => Shows(toasts', t.id)]_noticesVars

(* A button of a notification does what is written on it: the desktop only *)
(* tells the key of the action.                                            *)
PressedIsDone == ~misled

(* A toast with a time leaves, if the pointer does not stay on it. *)
ToastsEnd ==
  \A id \in 1..MaxToasts:
    Shows(toasts, id) /\ ToastOf(toasts, id).close_after # Sticky
      ~> ~Shows(toasts, id) \/ toasts.hovered = id

(* The stack of toasts, the one about the engine and the buttons of the    *)
(* notifications say and do what they are meant to.                        *)
NoticesConsistent == NoticesTypeOK /\ ErrorToastIsCurrent /\ PressedIsDone

(* A toast that waits for the user waits, and any other leaves             *)
(* (ToastManager, push and tick).                                          *)
ToastsStayOrLeave == StickyStays /\ ToastsEnd

=============================================================================
