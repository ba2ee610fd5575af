------------------------------- MODULE Shell -------------------------------
(***************************************************************************)
(* The window of Remotrix and what decides when the application ends       *)
(* (src/app.rs, src/update/window.rs, src/update/misc.rs,                  *)
(* src/update/mod.rs, src/platform/tray.rs, src/platform/power.rs,         *)
(* src/platform/shutdown.rs): the close dialog, the tray, the one          *)
(* confirmation dialog, the shutdown card with its countdown, the blocker  *)
(* of system sleep, and the settings as far as closing writes them.        *)
(*                                                                         *)
(* The UI thread handles one message at a time; a message is an action.    *)
(* Timers, answers of the window system, the engine's events and the       *)
(* user's clicks come in any order.  The build modelled is Linux's.        *)
(***************************************************************************)
EXTENDS Naturals

CONSTANTS
  Countdown,    \* SHUTDOWN_CONFIRM_SECS
  MaxEdits,     \* bound: edits of the settings
  MaxResizes    \* bound: resizes of the window

ASSUME ConstAssumption ==
  /\ Countdown \in Nat \ {0}
  /\ {MaxEdits, MaxResizes} \subseteq Nat

VARIABLES
  (* the settings: as edited, as applied, as saved *)
  draft, applied, disk, dirty, page,
  (* the confirmation: what it asks, the seconds left, whether it leaves *)
  confirm, left, dismissing,
  (* the shutdown card, and the command that powers the machine off *)
  after_complete, timer, poweroff,
  (* the window *)
  window, close_dialog, hidden_to_tray,
  tray, menu_hidden,           \* whether there is a tray, what its menu offers
  geometry_dirty, asked,       \* asked: is_maximized is under way
  (* the end of the application *)
  closing, pending_close, timeout, engine, restart_pending, relaunched,
  (* sleep *)
  active, sleep_block_active, inhibitor,
  (* bounds, history *)
  edits, resizes,
  seen                         \* seconds the present countdown has run

store   == <<draft, applied, disk, dirty>>
dialog  == <<confirm, left, dismissing, seen>>
card    == <<after_complete, timer>>
frame   == <<window, close_dialog, hidden_to_tray, tray, menu_hidden>>
size    == <<geometry_dirty, asked, resizes>>
ending  == <<closing, pending_close, timeout, engine, restart_pending, relaunched>>
sleep   == <<sleep_block_active, inhibitor>>
vars    == <<store, page, dialog, card, poweroff, frame, size, ending, active,
             sleep, edits>>

Setting == [close_to_tray: BOOLEAN, prevent_sleep: BOOLEAN]
Asks    == {"none", "task", "engine", "leave", "close", "shutdown"}

-----------------------------------------------------------------------------
(* An autostart may begin in the tray; without one WindowOpened shows the  *)
(* window again.                                                           *)
Init ==
  /\ draft \in {[close_to_tray |-> b, prevent_sleep |-> TRUE]: b \in BOOLEAN}
  /\ applied = draft /\ disk = draft /\ dirty = FALSE
  /\ page = "tasks"
  /\ confirm = "none" /\ left = 0 /\ dismissing = FALSE /\ seen = 0
  /\ after_complete = FALSE /\ timer = "off" /\ poweroff = "no"
  /\ tray \in BOOLEAN
  /\ hidden_to_tray \in {FALSE, tray}
  /\ menu_hidden = hidden_to_tray
  /\ window = IF hidden_to_tray THEN "hidden" ELSE "shown"
  /\ close_dialog = "none"
  /\ geometry_dirty = FALSE /\ asked = FALSE
  /\ closing = FALSE /\ pending_close = FALSE /\ timeout = FALSE
  /\ engine = "running" /\ restart_pending = FALSE /\ relaunched = 0
  /\ active = FALSE /\ sleep_block_active = FALSE /\ inhibitor = FALSE
  /\ edits = 0 /\ resizes = 0

-----------------------------------------------------------------------------
(* The dialog animation: open cancels an exit under way; the exit ends     *)
(* with an event of the dialog's own widget, which is drawn while there is *)
(* something to confirm.                                                   *)
Open(what) ==
  /\ confirm' = what
  /\ left' = IF what = "shutdown" THEN Countdown ELSE 0
  /\ dismissing' = FALSE
  /\ seen' = 0

BeginExit ==
  /\ dismissing' = TRUE
  /\ seen' = 0
  /\ UNCHANGED <<confirm, left>>

NoConfirm == confirm' = "none" /\ left' = 0 /\ seen' = 0

Exited ==
  /\ window = "shown" /\ confirm # "none" /\ dismissing
  /\ NoConfirm /\ dismissing' = FALSE
  /\ UNCHANGED <<store, page, card, poweroff, frame, size, ending, active, sleep, edits>>

(* What the user reaches: a dialog covers the page and the title bar. *)
Covered   == confirm # "none" \/ close_dialog # "none"
OnPage(p) == window = "shown" /\ page = p /\ ~Covered

Buttons(what) == IF what = "shutdown" THEN {"cancel"} ELSE {"cancel", "confirm"}

Pressed(button, what) ==
  /\ window = "shown" /\ confirm = what /\ ~dismissing
  /\ button \in Buttons(what)

-----------------------------------------------------------------------------
(* Sleep is blocked while a download is active, if the applied settings    *)
(* say so.  The blocker is a child process.                                *)
SetSleepBlocked(blocked) ==
  /\ sleep_block_active' = blocked
  /\ inhibitor' = blocked

SyncSleepBlock(settings, n) ==
  LET should == settings.prevent_sleep /\ n
  IN  IF should = sleep_block_active THEN UNCHANGED sleep ELSE SetSleepBlocked(should)

(* apply_settings and revert_apply_settings; the latter's callers save. *)
ApplySettings ==
  /\ disk' = draft /\ applied' = draft
  /\ dirty' = FALSE
  /\ UNCHANGED draft
  /\ SyncSleepBlock(draft, active)

RevertSettings ==
  /\ draft' = applied /\ disk' = applied
  /\ dirty' = FALSE
  /\ UNCHANGED applied
  /\ SyncSleepBlock(applied, active)

SettingChanged ==
  /\ OnPage("settings") /\ edits < MaxEdits
  /\ \E new \in Setting \ {draft}:
       /\ draft' = new
       /\ dirty' = (new # applied)
  /\ edits' = edits + 1
  /\ UNCHANGED <<applied, disk, page, dialog, card, poweroff, frame, size, ending,
                 active, sleep>>

SaveBar ==
  /\ OnPage("settings") /\ dirty
  /\ ApplySettings \/ RevertSettings
  /\ UNCHANGED <<page, dialog, card, poweroff, frame, size, ending, active, edits>>

(* The speed popover is on every page.  It makes all that was edited the   *)
(* applied settings, and neither saves nor applies it.                     *)
SpeedLimitChanged ==
  /\ window = "shown" /\ confirm = "none"
  /\ applied' = draft
  /\ UNCHANGED <<draft, disk, dirty, page, dialog, card, poweroff, frame, size, ending,
                 active, sleep, edits>>

Navigate ==
  /\ window = "shown" /\ ~Covered
  /\ IF page = "settings" /\ dirty
       THEN Open("leave") /\ UNCHANGED page
       ELSE /\ page' = IF page = "tasks" THEN "settings" ELSE "tasks"
            /\ UNCHANGED dialog
  /\ UNCHANGED <<store, card, poweroff, frame, size, ending, active, sleep, edits>>

LeaveSettings ==
  /\ Pressed("confirm", "leave")
  /\ BeginExit
  /\ ApplySettings \/ RevertSettings
  /\ page' = "tasks"
  /\ UNCHANGED <<card, poweroff, frame, size, ending, active, edits>>

-----------------------------------------------------------------------------
(* Confirmations.  A card of a toast may ask to restart the engine whatever *)
(* else is asked.                                                          *)
RequestConfirm ==
  /\ \/ OnPage("tasks") /\ Open("task")
     \/ window = "shown" /\ Open("engine")
  /\ UNCHANGED <<store, page, card, poweroff, frame, size, ending, active, sleep, edits>>

Confirmed ==
  /\ \E what \in {"task", "engine"}: Pressed("confirm", what)
  /\ BeginExit
  /\ UNCHANGED <<store, page, card, poweroff, frame, size, ending, active, sleep, edits>>

ResetShutdownCard == after_complete' = FALSE /\ timer' = "off"

ConfirmCancel ==
  /\ confirm # "none" /\ Pressed("cancel", confirm)
  /\ IF confirm = "shutdown" THEN ResetShutdownCard ELSE UNCHANGED card
  /\ BeginExit
  /\ UNCHANGED <<store, page, poweroff, frame, size, ending, active, sleep, edits>>

-----------------------------------------------------------------------------
(* The shutdown card. *)
SetAfterComplete ==
  /\ window = "shown"
  /\ after_complete' = ~after_complete
  /\ UNCHANGED <<store, page, dialog, timer, poweroff, frame, size, ending, active,
                 sleep, edits>>

(* SetTimerEnabled and SetTimerMinutes: a deadline from now, or none. *)
SetTimer ==
  /\ window = "shown"
  /\ timer' \in {"off", "armed"}
  /\ UNCHANGED <<store, page, dialog, after_complete, poweroff, frame, size, ending,
                 active, sleep, edits>>

TimerExpires ==
  /\ window # "closed" /\ timer = "armed"
  /\ timer' = "expired"
  /\ UNCHANGED <<store, page, dialog, after_complete, poweroff, frame, size, ending,
                 active, sleep, edits>>

TriggerShutdownConfirm ==
  IF confirm = "shutdown" THEN UNCHANGED dialog ELSE Open("shutdown")

(* ShutdownTick, every second while the timer is enabled or the countdown  *)
(* asks.                                                                   *)
LastSecond ==
  /\ confirm = "shutdown" /\ left <= 1
  /\ NoConfirm /\ dismissing' = TRUE
  /\ ResetShutdownCard
  /\ poweroff' = "running"

CountDown ==
  /\ confirm = "shutdown" /\ left > 1
  /\ left' = left - 1 /\ seen' = seen + 1
  /\ UNCHANGED <<confirm, dismissing, card, poweroff>>

TimerElapsed ==
  /\ confirm = "none" /\ timer = "expired"
  /\ ResetShutdownCard
  /\ TriggerShutdownConfirm
  /\ UNCHANGED poweroff

TickAnyway ==                  \* mutant: the countdown goes on while its dialog leaves
  /\ window # "closed"
  /\ LastSecond \/ CountDown \/ TimerElapsed
  /\ UNCHANGED <<store, page, frame, size, ending, active, sleep, edits>>

ShutdownTick ==
  /\ window # "closed" /\ ~dismissing
  /\ LastSecond \/ CountDown \/ TimerElapsed
  /\ UNCHANGED <<store, page, frame, size, ending, active, sleep, edits>>

(* The command has ended, well or badly: the application goes on until the *)
(* machine stops it.                                                       *)
ShutdownExecuted ==
  /\ window # "closed" /\ poweroff = "running"
  /\ poweroff' = "no"
  /\ NoConfirm
  /\ UNCHANGED <<store, page, dismissing, card, frame, size, ending, active, sleep, edits>>

-----------------------------------------------------------------------------
(* The tray. *)
Refresh(hidden) == menu_hidden' = IF tray THEN hidden ELSE menu_hidden

HideWindow ==
  /\ close_dialog' = "none"
  /\ hidden_to_tray' = TRUE
  /\ window' = "hidden"
  /\ Refresh(TRUE)
  /\ UNCHANGED tray

Restore ==
  /\ hidden_to_tray' = FALSE
  /\ window' = "shown"
  /\ IF hidden_to_tray THEN Refresh(FALSE) ELSE UNCHANGED menu_hidden
  /\ UNCHANGED <<close_dialog, tray>>

(* continue_close_flow, and the end of CloseRequested. *)
HideOrAsk(settings) ==
  IF settings.close_to_tray /\ tray
    THEN HideWindow
    ELSE close_dialog' = "shown" /\ UNCHANGED <<window, hidden_to_tray, tray, menu_hidden>>

TrayEvents == {"ClickShow", "ToggleWindow", "OpenSettings"}

TrayClick ==
  /\ tray /\ window # "closed"
  /\ \E event \in TrayEvents:
       /\ IF event = "ToggleWindow" /\ ~hidden_to_tray THEN HideWindow ELSE Restore
       /\ page' = IF event = "OpenSettings" THEN "settings" ELSE page
  /\ UNCHANGED <<store, dialog, card, poweroff, size, ending, active, sleep, edits>>

(* A second instance asks for the window; a click on a notification does   *)
(* so even while the application closes.                                   *)
Activate ==
  /\ window # "closed"
  /\ Restore
  /\ UNCHANGED <<store, page, dialog, card, poweroff, size, ending, active, sleep, edits>>

-----------------------------------------------------------------------------
(* Closing. *)
CloseRequested ==
  /\ window = "shown" /\ ~closing
  /\ IF dirty THEN Open("close") /\ UNCHANGED frame
              ELSE HideOrAsk(draft) /\ UNCHANGED dialog
  /\ UNCHANGED <<store, page, card, poweroff, size, ending, active, sleep, edits>>

CloseConfirmed ==
  /\ Pressed("confirm", "close")
  /\ BeginExit
  /\ \/ ApplySettings /\ HideOrAsk(draft)
     \/ RevertSettings /\ HideOrAsk(applied)
  /\ UNCHANGED <<page, card, poweroff, size, ending, active, edits>>

(* Save and restart, on the settings page; begin_close follows. *)
BeginClose ==
  IF closing THEN UNCHANGED <<frame, closing, timeout, engine, sleep>>
  ELSE /\ closing' = TRUE
       /\ close_dialog' = "none" /\ window' = "hidden" /\ tray' = FALSE
       /\ SetSleepBlocked(FALSE)
       /\ timeout' = TRUE
       /\ engine' = IF engine = "running" THEN "stopping" ELSE engine
       /\ UNCHANGED <<hidden_to_tray, menu_hidden>>

RestartApp ==
  /\ OnPage("settings")
  /\ disk' = draft /\ applied' = draft /\ dirty' = FALSE
  /\ restart_pending' = TRUE
  /\ BeginClose
  /\ UNCHANGED <<draft, page, dialog, card, poweroff, size, pending_close, relaunched,
                 active, edits>>

(* The close button of the dialog, Quit in the tray's menu, a signal. *)
Quit ==
  /\ window # "closed"
  /\ BeginClose
  /\ UNCHANGED <<store, page, dialog, card, poweroff, size, pending_close,
                 restart_pending, relaunched, active, edits>>

CloseDialogCancel ==
  /\ window = "shown" /\ close_dialog = "shown"
  /\ close_dialog' = "leaving"
  /\ UNCHANGED <<store, page, dialog, card, poweroff, window, hidden_to_tray, tray,
                 menu_hidden, size,
                 ending, active, sleep, edits>>

CloseDialogGone ==
  /\ window = "shown" /\ close_dialog = "leaving"
  /\ close_dialog' = "none"
  /\ UNCHANGED <<store, page, dialog, card, poweroff, window, hidden_to_tray, tray,
                 menu_hidden, size,
                 ending, active, sleep, edits>>

CloseDialogHide ==
  /\ window = "shown" /\ close_dialog # "none" /\ tray /\ ~closing
  /\ HideWindow
  /\ UNCHANGED <<store, page, dialog, card, poweroff, size, ending, active, sleep, edits>>

PrefInDraft ==                 \* mutant: only the edited settings learn of it
  /\ window = "shown" /\ close_dialog # "none" /\ tray
  /\ draft' = [draft EXCEPT !.close_to_tray = ~@]
  /\ disk' = draft'
  /\ UNCHANGED <<applied, dirty, page, dialog, card, poweroff, frame, size, ending, active,
                 sleep, edits>>

CloseDialogTrayPrefChanged ==
  /\ window = "shown" /\ close_dialog # "none" /\ tray
  /\ LET b == ~draft.close_to_tray
     IN  /\ draft' = [draft EXCEPT !.close_to_tray = b]
         /\ applied' = [applied EXCEPT !.close_to_tray = b]
  /\ disk' = draft'
  /\ UNCHANGED <<dirty, page, dialog, card, poweroff, frame, size, ending, active, sleep,
                 edits>>

-----------------------------------------------------------------------------
(* The geometry of the window, asked for before it is saved. *)
WindowResized ==
  /\ window = "shown" /\ resizes < MaxResizes
  /\ geometry_dirty' = TRUE /\ resizes' = resizes + 1
  /\ UNCHANGED <<store, page, dialog, card, poweroff, frame, asked, ending, active, sleep,
                 edits>>

PersistWindowGeometry ==
  /\ window # "closed" /\ geometry_dirty
  /\ asked' = TRUE
  /\ UNCHANGED <<store, page, dialog, card, poweroff, frame, geometry_dirty, resizes,
                 ending, active, sleep, edits>>

CloseOnly ==                   \* mutant: the restart is left to the other path
  /\ window' = "closed"
  /\ UNCHANGED <<close_dialog, hidden_to_tray, tray, menu_hidden, relaunched,
                 restart_pending>>

CloseWindow ==
  /\ relaunched' = IF restart_pending THEN relaunched + 1 ELSE relaunched
  /\ restart_pending' = FALSE
  /\ window' = "closed"
  /\ UNCHANGED <<close_dialog, hidden_to_tray, tray, menu_hidden>>

WindowMaximized ==
  /\ window # "closed" /\ asked
  /\ disk' = draft
  /\ geometry_dirty' = FALSE /\ asked' = FALSE
  /\ pending_close' = FALSE
  /\ IF pending_close THEN CloseWindow ELSE UNCHANGED <<frame, restart_pending, relaunched>>
  /\ UNCHANGED <<draft, applied, dirty, page, dialog, card, poweroff, resizes, closing,
                 timeout, engine, active, sleep, edits>>

(* finalize_close *)
FinalizeClose ==
  IF ~closing THEN UNCHANGED <<disk, frame, asked, closing, pending_close,
                               restart_pending, relaunched>>
  ELSE /\ closing' = FALSE
       /\ IF geometry_dirty
            THEN /\ pending_close' = TRUE /\ asked' = TRUE
                 /\ UNCHANGED <<disk, frame, restart_pending, relaunched>>
            ELSE /\ disk' = applied
                 /\ CloseWindow
                 /\ UNCHANGED <<pending_close, asked>>

EngineStopped ==
  /\ window # "closed" /\ engine = "stopping"
  /\ engine' = "stopped"
  /\ FinalizeClose
  /\ UNCHANGED <<draft, applied, dirty, page, dialog, card, poweroff, geometry_dirty,
                 resizes, timeout, active, sleep, edits>>

TimeoutIgnored ==              \* mutant: only the engine's event closes
  /\ window # "closed" /\ timeout
  /\ timeout' = FALSE
  /\ UNCHANGED <<store, page, dialog, card, poweroff, frame, size, closing, pending_close,
                 engine, restart_pending, relaunched, active, sleep, edits>>

ShutdownTimeout ==
  /\ window # "closed" /\ timeout
  /\ timeout' = FALSE
  /\ FinalizeClose
  /\ UNCHANGED <<draft, applied, dirty, page, dialog, card, poweroff, geometry_dirty,
                 resizes, engine, active, sleep, edits>>

-----------------------------------------------------------------------------
(* Progress of the downloads, until the engine has stopped; the last one   *)
(* to complete may ask for the shutdown.                                   *)
TaskProgress ==
  /\ window # "closed" /\ engine # "stopped"
  /\ active' \in BOOLEAN
  /\ SyncSleepBlock(applied, active')
  /\ IF active /\ ~active' /\ after_complete
       THEN TriggerShutdownConfirm \/ UNCHANGED dialog
       ELSE UNCHANGED dialog
  /\ UNCHANGED <<store, page, card, poweroff, frame, size, ending, edits>>

User == \/ SettingChanged \/ SaveBar \/ SpeedLimitChanged \/ Navigate \/ LeaveSettings
        \/ RequestConfirm \/ Confirmed \/ ConfirmCancel
        \/ SetAfterComplete \/ SetTimer \/ TrayClick \/ Activate
        \/ CloseRequested \/ CloseConfirmed \/ RestartApp \/ Quit
        \/ CloseDialogCancel \/ CloseDialogHide \/ CloseDialogTrayPrefChanged
        \/ WindowResized

Next == \/ User \/ Exited \/ CloseDialogGone \/ TimerExpires \/ ShutdownTick
        \/ ShutdownExecuted \/ PersistWindowGeometry \/ WindowMaximized
        \/ EngineStopped \/ ShutdownTimeout \/ TaskProgress

Spec == Init /\ [][Next]_vars

(* Timers fire, the window system answers, an animation that is drawn ends. *)
FairSpec ==
  /\ Spec
  /\ WF_vars(Exited) /\ WF_vars(CloseDialogGone)
  /\ WF_vars(ShutdownTick) /\ WF_vars(ShutdownExecuted)
  /\ WF_vars(WindowMaximized) /\ WF_vars(ShutdownTimeout)

-----------------------------------------------------------------------------
(* The windows, dialogs, timers and flags of the shell have these values.   *)
TypeOK ==
  /\ draft \in Setting /\ applied \in Setting /\ disk \in Setting
  /\ page \in {"tasks", "settings"}
  /\ confirm \in Asks /\ left \in 0..Countdown /\ seen \in 0..(Countdown - 1)
  /\ timer \in {"off", "armed", "expired"}
  /\ poweroff \in {"no", "running"}
  /\ window \in {"shown", "hidden", "closed"}
  /\ close_dialog \in {"none", "shown", "leaving"}
  /\ engine \in {"running", "stopping", "stopped"}
  /\ relaunched \in 0..1
  /\ dirty \in BOOLEAN /\ dismissing \in BOOLEAN /\ after_complete \in BOOLEAN
  /\ hidden_to_tray \in BOOLEAN /\ tray \in BOOLEAN /\ menu_hidden \in BOOLEAN
  /\ geometry_dirty \in BOOLEAN /\ asked \in BOOLEAN
  /\ closing \in BOOLEAN /\ pending_close \in BOOLEAN /\ timeout \in BOOLEAN
  /\ restart_pending \in BOOLEAN /\ active \in BOOLEAN
  /\ sleep_block_active \in BOOLEAN /\ inhibitor \in BOOLEAN

(* A window that is not there is in the tray, and the tray knows it: until *)
(* the application ends the user has a way back to it                      *)
(* (hide_to_tray and the conditions of its callers).                       *)
HiddenHasTray ==
  window = "hidden" => closing \/ pending_close
                       \/ (tray /\ hidden_to_tray /\ menu_hidden)

(* Whatever the way it was edited, a setting that is not applied makes the *)
(* close ask (settings_dirty); and when nothing was left to apply, what is *)
(* on disk when the window has closed is what was applied, on either path  *)
(* of finalize_close.                                                      *)
UnappliedIsDirty ==
  /\ draft # applied => dirty
  /\ window = "closed" /\ ~dirty => disk = applied

(* The machine is powered off only when one countdown has run from its     *)
(* first second to its last: no cancelled, replaced or leaving dialog      *)
(* counts on, and one that is asked again begins anew (ShutdownTick).      *)
(* Only the seconds are claimed, not that anyone saw them: nothing shows   *)
(* the window for a countdown that begins or goes on in the tray.          *)
PoweroffAfterCountdown ==
  [][poweroff = "no" /\ poweroff' = "running" => seen = Countdown - 1]_vars

(* Save and restart starts one new process, when the old one closes, on    *)
(* either path of finalize_close (spawn_restart_if_pending).               *)
RestartIsNotLost == window = "closed" => ~restart_pending

(* A close that has begun ends, whether or not the engine stops            *)
(* (shutdown_timeout_task).                                                *)
CloseEnds == closing ~> window = "closed"

(* The system is kept awake only for an active download, also where the    *)
(* application closes or settings change meanwhile (sync_sleep_block).     *)
AwakeForDownloads == inhibitor => active

(* The window, its settings, the dialogs and the sleep blocker agree,      *)
(* whichever way the window is hidden, closed and asked for again.         *)
ShellConsistent == TypeOK /\ HiddenHasTray /\ UnappliedIsDirty /\ AwakeForDownloads

=============================================================================
