----------------------------- MODULE ShellProofs -----------------------------
(***************************************************************************)
(* Proofs about the window and about what it tells.  The first part is     *)
(* about Shell, for every countdown and any number of edits and resizes:   *)
(* its invariant IInv has four parts besides the ones the run checks, and  *)
(* each part is proved preserved from the whole of it.  The second part is *)
(* about Notices and its stack of toasts, for any downloads and any order  *)
(* in which what the engine reports is handled.                            *)
(***************************************************************************)
EXTENDS Shell, Notices, FiniteSetTheorems, WellFoundedInduction, TLAPS

(* A countdown that asks has run for the seconds that are no longer left.  *)
CountInv ==
  confirm = "shutdown" /\ ~dismissing => left >= 1 /\ seen + left = Countdown

(* The process is started anew only by the step that closes the window.    *)
ClosedInv == window # "closed" => relaunched = 0

(* The blocker runs exactly while the flag says so. *)
SleepInv == inhibitor = sleep_block_active

IInv == /\ ShellConsistent /\ RestartIsNotLost
        /\ CountInv /\ ClosedInv /\ SleepInv

LEMMA InitIInv == Init => IInv
<1> SUFFICES ASSUME Init PROVE IInv
  OBVIOUS
<1> USE ConstAssumption DEF Init
<1>1. TypeOK
  <2>1. draft \in Setting
    <3>1. PICK b \in BOOLEAN: draft = [close_to_tray |-> b, prevent_sleep |-> TRUE]
      BY Zenon
    <3> QED
      BY <3>1 DEF Setting
  <2>2. tray \in BOOLEAN /\ hidden_to_tray \in BOOLEAN
    BY Zenon
  <2>3. applied = draft /\ disk = draft /\ menu_hidden = hidden_to_tray
    BY Zenon
  <2>4. window \in {"shown", "hidden", "closed"}
    OBVIOUS
  <2>5. /\ dirty \in BOOLEAN /\ dismissing \in BOOLEAN /\ after_complete \in BOOLEAN
        /\ geometry_dirty \in BOOLEAN /\ asked \in BOOLEAN
        /\ closing \in BOOLEAN /\ pending_close \in BOOLEAN /\ timeout \in BOOLEAN
        /\ restart_pending \in BOOLEAN /\ active \in BOOLEAN
        /\ sleep_block_active \in BOOLEAN /\ inhibitor \in BOOLEAN
    BY Zenon
  <2>6. /\ page \in {"tasks", "settings"}
        /\ confirm \in Asks /\ left \in 0..Countdown /\ seen \in 0..(Countdown - 1)
        /\ timer \in {"off", "armed", "expired"}
        /\ poweroff \in {"no", "running"}
        /\ close_dialog \in {"none", "shown", "leaving"}
        /\ engine \in {"running", "stopping", "stopped"}
        /\ relaunched \in 0..1
    BY DEF Asks
  <2> HIDE DEF Init
  <2> QED
    BY <2>1, <2>2, <2>3, <2>4, <2>5, <2>6, Zenon DEF TypeOK
<1>2. HiddenHasTray /\ UnappliedIsDirty
  <2>1. hidden_to_tray => tray
    BY Zenon
  <2> QED
    BY <2>1 DEF HiddenHasTray, UnappliedIsDirty
<1>3. AwakeForDownloads /\ SleepInv
  BY DEF AwakeForDownloads, SleepInv
<1>4. RestartIsNotLost /\ CountInv /\ ClosedInv
  BY DEF RestartIsNotLost, CountInv, ClosedInv
<1> QED
  BY <1>1, <1>2, <1>3, <1>4 DEF IInv, ShellConsistent

LEMMA CountStep == IInv /\ [Next]_vars => CountInv'
<1> SUFFICES ASSUME IInv, [Next]_vars PROVE CountInv'
  OBVIOUS
<1> USE ConstAssumption DEF IInv, ShellConsistent, TypeOK, CountInv, store, dialog, card, frame, size, ending, sleep
<1>1. CASE SettingChanged
  BY <1>1 DEF SettingChanged, OnPage, Covered
<1>2. CASE SaveBar
  BY <1>2 DEF SaveBar, OnPage, Covered, ApplySettings, RevertSettings, SyncSleepBlock, SetSleepBlocked
<1>3. CASE SpeedLimitChanged
  BY <1>3 DEF SpeedLimitChanged
<1>4. CASE Navigate
  BY <1>4 DEF Navigate, Open
<1>5. CASE LeaveSettings
  BY <1>5 DEF LeaveSettings, Pressed, Buttons, BeginExit, ApplySettings, RevertSettings, SyncSleepBlock, SetSleepBlocked
<1>6. CASE RequestConfirm
  BY <1>6 DEF RequestConfirm, OnPage, Open
<1>7. CASE Confirmed
  BY <1>7 DEF Confirmed, Pressed, BeginExit
<1>8. CASE ConfirmCancel
  BY <1>8 DEF ConfirmCancel, Pressed, BeginExit, ResetShutdownCard
<1>9. CASE SetAfterComplete
  BY <1>9 DEF SetAfterComplete
<1>10. CASE SetTimer
  BY <1>10 DEF SetTimer
<1>11. CASE TrayClick
  BY <1>11 DEF TrayClick, HideWindow, Restore, Refresh, TrayEvents
<1>12. CASE Activate
  BY <1>12 DEF Activate, Restore, Refresh
<1>13. CASE CloseRequested
  BY <1>13 DEF CloseRequested, Open, HideOrAsk, HideWindow, Refresh
<1>14. CASE CloseConfirmed
  BY <1>14 DEF CloseConfirmed, Pressed, BeginExit, ApplySettings, RevertSettings, SyncSleepBlock, SetSleepBlocked, HideOrAsk, HideWindow, Refresh
<1>15. CASE RestartApp
  BY <1>15 DEF RestartApp, OnPage, BeginClose, SetSleepBlocked
<1>16. CASE Quit
  BY <1>16 DEF Quit, BeginClose, SetSleepBlocked
<1>17. CASE CloseDialogCancel
  BY <1>17 DEF CloseDialogCancel
<1>18. CASE CloseDialogHide
  BY <1>18 DEF CloseDialogHide, HideWindow, Refresh
<1>19. CASE CloseDialogTrayPrefChanged
  BY <1>19 DEF CloseDialogTrayPrefChanged
<1>20. CASE WindowResized
  BY <1>20 DEF WindowResized
<1>21. CASE Exited
  BY <1>21 DEF Exited, NoConfirm
<1>22. CASE CloseDialogGone
  BY <1>22 DEF CloseDialogGone
<1>23. CASE TimerExpires
  BY <1>23 DEF TimerExpires
<1>24. CASE ShutdownTick
  BY <1>24 DEF ShutdownTick, LastSecond, CountDown, TimerElapsed, TriggerShutdownConfirm, Open, NoConfirm, ResetShutdownCard
<1>25. CASE ShutdownExecuted
  BY <1>25 DEF ShutdownExecuted, NoConfirm
<1>26. CASE PersistWindowGeometry
  BY <1>26 DEF PersistWindowGeometry
<1>27. CASE WindowMaximized
  BY <1>27 DEF WindowMaximized, CloseWindow
<1>28. CASE EngineStopped
  BY <1>28 DEF EngineStopped, FinalizeClose, CloseWindow
<1>29. CASE ShutdownTimeout
  BY <1>29 DEF ShutdownTimeout, FinalizeClose, CloseWindow
<1>30. CASE TaskProgress
  BY <1>30 DEF TaskProgress, SyncSleepBlock, SetSleepBlocked, TriggerShutdownConfirm, Open
<1>31. CASE UNCHANGED vars
  BY <1>31 DEF vars
<1> QED
  BY <1>1, <1>2, <1>3, <1>4, <1>5, <1>6, <1>7, <1>8, <1>9, <1>10, <1>11, <1>12, <1>13, <1>14, <1>15, <1>16, <1>17, <1>18, <1>19, <1>20, <1>21, <1>22, <1>23, <1>24, <1>25, <1>26, <1>27, <1>28, <1>29, <1>30, <1>31 DEF Next, User

LEMMA SleepStep == IInv /\ [Next]_vars => (AwakeForDownloads /\ SleepInv)'
<1> SUFFICES ASSUME IInv, [Next]_vars PROVE (AwakeForDownloads /\ SleepInv)'
  OBVIOUS
<1> USE DEF IInv, ShellConsistent, TypeOK, AwakeForDownloads, SleepInv, Setting, store, dialog, card, frame, size, ending, sleep
<1>1. CASE SettingChanged
  BY <1>1 DEF SettingChanged, OnPage, Covered
<1>2. CASE SaveBar
  BY <1>2 DEF SaveBar, OnPage, Covered, ApplySettings, RevertSettings, SyncSleepBlock, SetSleepBlocked
<1>3. CASE SpeedLimitChanged
  BY <1>3 DEF SpeedLimitChanged
<1>4. CASE Navigate
  BY <1>4 DEF Navigate, Open
<1>5. CASE LeaveSettings
  BY <1>5 DEF LeaveSettings, Pressed, Buttons, BeginExit, ApplySettings, RevertSettings, SyncSleepBlock, SetSleepBlocked
<1>6. CASE RequestConfirm
  BY <1>6 DEF RequestConfirm, OnPage, Open
<1>7. CASE Confirmed
  BY <1>7 DEF Confirmed, Pressed, BeginExit
<1>8. CASE ConfirmCancel
  BY <1>8 DEF ConfirmCancel, Pressed, BeginExit, ResetShutdownCard
<1>9. CASE SetAfterComplete
  BY <1>9 DEF SetAfterComplete
<1>10. CASE SetTimer
  BY <1>10 DEF SetTimer
<1>11. CASE TrayClick
  BY <1>11 DEF TrayClick, HideWindow, Restore, Refresh, TrayEvents
<1>12. CASE Activate
  BY <1>12 DEF Activate, Restore, Refresh
<1>13. CASE CloseRequested
  BY <1>13 DEF CloseRequested, Open, HideOrAsk, HideWindow, Refresh
<1>14. CASE CloseConfirmed
  BY <1>14 DEF CloseConfirmed, Pressed, BeginExit, ApplySettings, RevertSettings, SyncSleepBlock, SetSleepBlocked, HideOrAsk, HideWindow, Refresh
<1>15. CASE RestartApp
  BY <1>15 DEF RestartApp, OnPage, BeginClose, SetSleepBlocked
<1>16. CASE Quit
  BY <1>16 DEF Quit, BeginClose, SetSleepBlocked
<1>17. CASE CloseDialogCancel
  BY <1>17 DEF CloseDialogCancel
<1>18. CASE CloseDialogHide
  BY <1>18 DEF CloseDialogHide, HideWindow, Refresh
<1>19. CASE CloseDialogTrayPrefChanged
  BY <1>19 DEF CloseDialogTrayPrefChanged
<1>20. CASE WindowResized
  BY <1>20 DEF WindowResized
<1>21. CASE Exited
  BY <1>21 DEF Exited, NoConfirm
<1>22. CASE CloseDialogGone
  BY <1>22 DEF CloseDialogGone
<1>23. CASE TimerExpires
  BY <1>23 DEF TimerExpires
<1>24. CASE ShutdownTick
  BY <1>24 DEF ShutdownTick, LastSecond, CountDown, TimerElapsed, TriggerShutdownConfirm, Open, NoConfirm, ResetShutdownCard
<1>25. CASE ShutdownExecuted
  BY <1>25 DEF ShutdownExecuted, NoConfirm
<1>26. CASE PersistWindowGeometry
  BY <1>26 DEF PersistWindowGeometry
<1>27. CASE WindowMaximized
  BY <1>27 DEF WindowMaximized, CloseWindow
<1>28. CASE EngineStopped
  BY <1>28 DEF EngineStopped, FinalizeClose, CloseWindow
<1>29. CASE ShutdownTimeout
  BY <1>29 DEF ShutdownTimeout, FinalizeClose, CloseWindow
<1>30. CASE TaskProgress
  BY <1>30 DEF TaskProgress, SyncSleepBlock, SetSleepBlocked, TriggerShutdownConfirm, Open
<1>31. CASE UNCHANGED vars
  BY <1>31 DEF vars
<1> QED
  BY <1>1, <1>2, <1>3, <1>4, <1>5, <1>6, <1>7, <1>8, <1>9, <1>10, <1>11, <1>12, <1>13, <1>14, <1>15, <1>16, <1>17, <1>18, <1>19, <1>20, <1>21, <1>22, <1>23, <1>24, <1>25, <1>26, <1>27, <1>28, <1>29, <1>30, <1>31 DEF Next, User

LEMMA DirtyStep == IInv /\ [Next]_vars => UnappliedIsDirty'
<1> SUFFICES ASSUME IInv, [Next]_vars PROVE UnappliedIsDirty'
  OBVIOUS
<1> USE DEF IInv, ShellConsistent, TypeOK, UnappliedIsDirty, Setting, OnPage, store, dialog, card, frame, size, ending, sleep
<1>1. CASE SettingChanged
  BY <1>1 DEF SettingChanged, OnPage, Covered
<1>2. CASE SaveBar
  BY <1>2 DEF SaveBar, OnPage, Covered, ApplySettings, RevertSettings, SyncSleepBlock, SetSleepBlocked
<1>3. CASE SpeedLimitChanged
  BY <1>3 DEF SpeedLimitChanged
<1>4. CASE Navigate
  BY <1>4 DEF Navigate, Open
<1>5. CASE LeaveSettings
  BY <1>5 DEF LeaveSettings, Pressed, Buttons, BeginExit, ApplySettings, RevertSettings, SyncSleepBlock, SetSleepBlocked
<1>6. CASE RequestConfirm
  BY <1>6 DEF RequestConfirm, OnPage, Open
<1>7. CASE Confirmed
  BY <1>7 DEF Confirmed, Pressed, BeginExit
<1>8. CASE ConfirmCancel
  BY <1>8 DEF ConfirmCancel, Pressed, BeginExit, ResetShutdownCard
<1>9. CASE SetAfterComplete
  BY <1>9 DEF SetAfterComplete
<1>10. CASE SetTimer
  BY <1>10 DEF SetTimer
<1>11. CASE TrayClick
  BY <1>11 DEF TrayClick, HideWindow, Restore, Refresh, TrayEvents
<1>12. CASE Activate
  BY <1>12 DEF Activate, Restore, Refresh
<1>13. CASE CloseRequested
  BY <1>13 DEF CloseRequested, Open, HideOrAsk, HideWindow, Refresh
<1>14. CASE CloseConfirmed
  BY <1>14 DEF CloseConfirmed, Pressed, BeginExit, ApplySettings, RevertSettings, SyncSleepBlock, SetSleepBlocked, HideOrAsk, HideWindow, Refresh
<1>15. CASE RestartApp
  BY <1>15 DEF RestartApp, OnPage, BeginClose, SetSleepBlocked
<1>16. CASE Quit
  BY <1>16 DEF Quit, BeginClose, SetSleepBlocked
<1>17. CASE CloseDialogCancel
  BY <1>17 DEF CloseDialogCancel
<1>18. CASE CloseDialogHide
  BY <1>18 DEF CloseDialogHide, HideWindow, Refresh
<1>19. CASE CloseDialogTrayPrefChanged
  BY <1>19 DEF CloseDialogTrayPrefChanged
<1>20. CASE WindowResized
  BY <1>20 DEF WindowResized
<1>21. CASE Exited
  BY <1>21 DEF Exited, NoConfirm
<1>22. CASE CloseDialogGone
  BY <1>22 DEF CloseDialogGone
<1>23. CASE TimerExpires
  BY <1>23 DEF TimerExpires
<1>24. CASE ShutdownTick
  BY <1>24 DEF ShutdownTick, LastSecond, CountDown, TimerElapsed, TriggerShutdownConfirm, Open, NoConfirm, ResetShutdownCard
<1>25. CASE ShutdownExecuted
  BY <1>25 DEF ShutdownExecuted, NoConfirm
<1>26. CASE PersistWindowGeometry
  BY <1>26 DEF PersistWindowGeometry
<1>27. CASE WindowMaximized
  BY <1>27 DEF WindowMaximized, CloseWindow
<1>28. CASE EngineStopped
  BY <1>28 DEF EngineStopped, FinalizeClose, CloseWindow
<1>29. CASE ShutdownTimeout
  BY <1>29 DEF ShutdownTimeout, FinalizeClose, CloseWindow
<1>30. CASE TaskProgress
  BY <1>30 DEF TaskProgress, SyncSleepBlock, SetSleepBlocked, TriggerShutdownConfirm, Open
<1>31. CASE UNCHANGED vars
  BY <1>31 DEF vars
<1> QED
  BY <1>1, <1>2, <1>3, <1>4, <1>5, <1>6, <1>7, <1>8, <1>9, <1>10, <1>11, <1>12, <1>13, <1>14, <1>15, <1>16, <1>17, <1>18, <1>19, <1>20, <1>21, <1>22, <1>23, <1>24, <1>25, <1>26, <1>27, <1>28, <1>29, <1>30, <1>31 DEF Next, User

LEMMA WindowStep == IInv /\ [Next]_vars => (HiddenHasTray /\ RestartIsNotLost /\ ClosedInv)'
<1> SUFFICES ASSUME IInv, [Next]_vars PROVE (HiddenHasTray /\ RestartIsNotLost /\ ClosedInv)'
  OBVIOUS
<1> USE DEF IInv, ShellConsistent, TypeOK, HiddenHasTray, RestartIsNotLost, ClosedInv, OnPage, store, dialog, card, frame, size, ending, sleep
<1>1. CASE SettingChanged
  BY <1>1 DEF SettingChanged, OnPage, Covered
<1>2. CASE SaveBar
  BY <1>2 DEF SaveBar, OnPage, Covered, ApplySettings, RevertSettings, SyncSleepBlock, SetSleepBlocked
<1>3. CASE SpeedLimitChanged
  BY <1>3 DEF SpeedLimitChanged
<1>4. CASE Navigate
  BY <1>4 DEF Navigate, Open
<1>5. CASE LeaveSettings
  BY <1>5 DEF LeaveSettings, Pressed, Buttons, BeginExit, ApplySettings, RevertSettings, SyncSleepBlock, SetSleepBlocked
<1>6. CASE RequestConfirm
  BY <1>6 DEF RequestConfirm, OnPage, Open
<1>7. CASE Confirmed
  BY <1>7 DEF Confirmed, Pressed, BeginExit
<1>8. CASE ConfirmCancel
  BY <1>8 DEF ConfirmCancel, Pressed, BeginExit, ResetShutdownCard
<1>9. CASE SetAfterComplete
  BY <1>9 DEF SetAfterComplete
<1>10. CASE SetTimer
  BY <1>10 DEF SetTimer
<1>11. CASE TrayClick
  BY <1>11 DEF TrayClick, HideWindow, Restore, Refresh, TrayEvents
<1>12. CASE Activate
  BY <1>12 DEF Activate, Restore, Refresh
<1>13. CASE CloseRequested
  BY <1>13 DEF CloseRequested, Open, HideOrAsk, HideWindow, Refresh
<1>14. CASE CloseConfirmed
  BY <1>14 DEF CloseConfirmed, Pressed, BeginExit, ApplySettings, RevertSettings, SyncSleepBlock, SetSleepBlocked, HideOrAsk, HideWindow, Refresh
<1>15. CASE RestartApp
  BY <1>15 DEF RestartApp, OnPage, BeginClose, SetSleepBlocked
<1>16. CASE Quit
  BY <1>16 DEF Quit, BeginClose, SetSleepBlocked
<1>17. CASE CloseDialogCancel
  BY <1>17 DEF CloseDialogCancel
<1>18. CASE CloseDialogHide
  BY <1>18 DEF CloseDialogHide, HideWindow, Refresh
<1>19. CASE CloseDialogTrayPrefChanged
  BY <1>19 DEF CloseDialogTrayPrefChanged
<1>20. CASE WindowResized
  BY <1>20 DEF WindowResized
<1>21. CASE Exited
  BY <1>21 DEF Exited, NoConfirm
<1>22. CASE CloseDialogGone
  BY <1>22 DEF CloseDialogGone
<1>23. CASE TimerExpires
  BY <1>23 DEF TimerExpires
<1>24. CASE ShutdownTick
  BY <1>24 DEF ShutdownTick, LastSecond, CountDown, TimerElapsed, TriggerShutdownConfirm, Open, NoConfirm, ResetShutdownCard
<1>25. CASE ShutdownExecuted
  BY <1>25 DEF ShutdownExecuted, NoConfirm
<1>26. CASE PersistWindowGeometry
  BY <1>26 DEF PersistWindowGeometry
<1>27. CASE WindowMaximized
  BY <1>27 DEF WindowMaximized, CloseWindow
<1>28. CASE EngineStopped
  BY <1>28 DEF EngineStopped, FinalizeClose, CloseWindow
<1>29. CASE ShutdownTimeout
  BY <1>29 DEF ShutdownTimeout, FinalizeClose, CloseWindow
<1>30. CASE TaskProgress
  BY <1>30 DEF TaskProgress, SyncSleepBlock, SetSleepBlocked, TriggerShutdownConfirm, Open
<1>31. CASE UNCHANGED vars
  BY <1>31 DEF vars
<1> QED
  BY <1>1, <1>2, <1>3, <1>4, <1>5, <1>6, <1>7, <1>8, <1>9, <1>10, <1>11, <1>12, <1>13, <1>14, <1>15, <1>16, <1>17, <1>18, <1>19, <1>20, <1>21, <1>22, <1>23, <1>24, <1>25, <1>26, <1>27, <1>28, <1>29, <1>30, <1>31 DEF Next, User

(* The state by the tuples in which the actions leave it alone. *)
StoreTyped ==
  draft \in Setting /\ applied \in Setting /\ disk \in Setting /\ dirty \in BOOLEAN
DialogTyped ==
  /\ confirm \in Asks /\ dismissing \in BOOLEAN
  /\ left \in 0..Countdown /\ seen \in 0..(Countdown - 1)
CardTyped ==
  after_complete \in BOOLEAN /\ timer \in {"off", "armed", "expired"}
FrameTyped ==
  /\ window \in {"shown", "hidden", "closed"} /\ close_dialog \in {"none", "shown", "leaving"}
  /\ hidden_to_tray \in BOOLEAN /\ tray \in BOOLEAN /\ menu_hidden \in BOOLEAN
SizeTyped == geometry_dirty \in BOOLEAN /\ asked \in BOOLEAN
EndingTyped ==
  /\ closing \in BOOLEAN /\ pending_close \in BOOLEAN /\ timeout \in BOOLEAN
  /\ engine \in {"running", "stopping", "stopped"}
  /\ restart_pending \in BOOLEAN /\ relaunched \in 0..1
SleepTyped == sleep_block_active \in BOOLEAN /\ inhibitor \in BOOLEAN
OtherTyped ==
  /\ page \in {"tasks", "settings"} /\ poweroff \in {"no", "running"}
  /\ active \in BOOLEAN

(* What the helpers of the handlers leave is of its kind. *)
LEMMA OpenTyped == \A what \in Asks: Open(what) => DialogTyped'
<1> SUFFICES ASSUME NEW what \in Asks, Open(what) PROVE DialogTyped'
  OBVIOUS
<1>1. dismissing' \in BOOLEAN
  BY Zenon DEF Open
<1> QED
  BY <1>1, ConstAssumption DEF Open, DialogTyped

LEMMA ExitTyped == DialogTyped /\ BeginExit => DialogTyped'
BY ConstAssumption DEF BeginExit, DialogTyped

LEMMA GoneTyped == NoConfirm /\ dismissing' \in BOOLEAN => DialogTyped'
BY ConstAssumption DEF NoConfirm, DialogTyped, Asks

LEMMA SleepTypedAfter ==
  \A s \in Setting, n \in BOOLEAN: SleepTyped /\ SyncSleepBlock(s, n) => SleepTyped'
<1> SUFFICES ASSUME NEW s \in Setting, NEW n \in BOOLEAN, SleepTyped, SyncSleepBlock(s, n)
             PROVE  SleepTyped'
  OBVIOUS
<1>1. (s.prevent_sleep /\ n) \in BOOLEAN
  BY DEF Setting
<1> QED
  BY <1>1, Zenon DEF SyncSleepBlock, SetSleepBlocked, SleepTyped, sleep

LEMMA SaveTyped ==
  StoreTyped /\ SleepTyped /\ active \in BOOLEAN /\ (ApplySettings \/ RevertSettings)
    => StoreTyped' /\ SleepTyped'
BY SleepTypedAfter, Zenon DEF ApplySettings, RevertSettings, StoreTyped

LEMMA FrameTypedAfter ==
  /\ FrameTyped /\ (HideWindow \/ Restore) => FrameTyped'
  /\ \A s \in Setting: FrameTyped /\ HideOrAsk(s) => FrameTyped'
<1>1. FrameTyped /\ (HideWindow \/ Restore) => FrameTyped'
  BY DEF HideWindow, Restore, Refresh, FrameTyped
<1> QED
  BY <1>1 DEF HideOrAsk, FrameTyped

LEMMA CloseTyped ==
  FrameTyped /\ SleepTyped /\ closing \in BOOLEAN /\ timeout \in BOOLEAN
    /\ engine \in {"running", "stopping", "stopped"} /\ BeginClose
    => /\ FrameTyped' /\ SleepTyped' /\ closing' \in BOOLEAN /\ timeout' \in BOOLEAN
       /\ engine' \in {"running", "stopping", "stopped"}
BY Zenon DEF BeginClose, SetSleepBlocked, FrameTyped, SleepTyped, frame, sleep

LEMMA FinalizeTyped ==
  StoreTyped /\ FrameTyped /\ asked \in BOOLEAN /\ EndingTyped /\ ClosedInv
    /\ window # "closed" /\ FinalizeClose
    => /\ disk' \in Setting /\ FrameTyped' /\ asked' \in BOOLEAN
       /\ closing' \in BOOLEAN /\ pending_close' \in BOOLEAN
       /\ restart_pending' \in BOOLEAN /\ relaunched' \in 0..1
<1> SUFFICES ASSUME StoreTyped, FrameTyped, asked \in BOOLEAN, EndingTyped, ClosedInv,
                    window # "closed", FinalizeClose
             PROVE  /\ disk' \in Setting /\ FrameTyped' /\ asked' \in BOOLEAN
                    /\ closing' \in BOOLEAN /\ pending_close' \in BOOLEAN
                    /\ restart_pending' \in BOOLEAN /\ relaunched' \in 0..1
  OBVIOUS
<1>1. CASE ~closing
  BY <1>1 DEF FinalizeClose, StoreTyped, FrameTyped, EndingTyped, frame
<1>2. CASE closing /\ geometry_dirty
  BY <1>2 DEF FinalizeClose, StoreTyped, FrameTyped, EndingTyped, frame
<1>3. CASE closing /\ ~geometry_dirty
  <2>1. CloseWindow /\ disk' = applied /\ closing' = FALSE
        /\ UNCHANGED <<pending_close, asked>>
    BY <1>3, Zenon DEF FinalizeClose
  <2>2. relaunched' \in 0..1 /\ window' = "closed"
    BY <2>1 DEF CloseWindow, ClosedInv
  <2> QED
    BY <2>1, <2>2 DEF CloseWindow, StoreTyped, FrameTyped, EndingTyped
<1> QED
  BY <1>1, <1>2, <1>3, Zenon

LEMMA TypeStep == IInv /\ [Next]_vars => TypeOK'
<1> SUFFICES ASSUME /\ StoreTyped /\ DialogTyped /\ CardTyped /\ FrameTyped
                    /\ SizeTyped /\ EndingTyped /\ SleepTyped /\ OtherTyped,
                    CountInv, ClosedInv, [Next]_vars
             PROVE  /\ StoreTyped' /\ DialogTyped' /\ CardTyped' /\ FrameTyped'
                    /\ SizeTyped' /\ EndingTyped' /\ SleepTyped' /\ OtherTyped'
  BY Zenon DEF IInv, ShellConsistent, TypeOK, StoreTyped, DialogTyped, CardTyped,
               FrameTyped, SizeTyped, EndingTyped, SleepTyped, OtherTyped
<1>a. UNCHANGED store => StoreTyped'
  BY DEF store, StoreTyped
<1>b. UNCHANGED dialog => DialogTyped'
  BY DEF dialog, DialogTyped
<1>c. UNCHANGED card => CardTyped'
  BY DEF card, CardTyped
<1>d. UNCHANGED frame => FrameTyped'
  BY DEF frame, FrameTyped
<1>e. UNCHANGED size => SizeTyped'
  BY DEF size, SizeTyped
<1>f. UNCHANGED ending => EndingTyped'
  BY DEF ending, EndingTyped
<1>g. UNCHANGED sleep => SleepTyped'
  BY DEF sleep, SleepTyped
<1>h. UNCHANGED <<page, poweroff, active>> => OtherTyped'
  BY DEF OtherTyped
<1>1. CASE SettingChanged
  BY <1>1, <1>a, <1>b, <1>c, <1>d, <1>e, <1>f, <1>g, <1>h
     DEF SettingChanged, StoreTyped, DialogTyped, CardTyped, FrameTyped, SizeTyped, EndingTyped, SleepTyped, OtherTyped
<1>2. CASE SaveBar
  BY <1>2, <1>a, <1>b, <1>c, <1>d, <1>e, <1>f, <1>g, <1>h, SaveTyped
     DEF SaveBar, StoreTyped, DialogTyped, CardTyped, FrameTyped, SizeTyped, EndingTyped, SleepTyped, OtherTyped
<1>3. CASE SpeedLimitChanged
  BY <1>3, <1>a, <1>b, <1>c, <1>d, <1>e, <1>f, <1>g, <1>h
     DEF SpeedLimitChanged, StoreTyped, DialogTyped, CardTyped, FrameTyped, SizeTyped, EndingTyped, SleepTyped, OtherTyped
<1>4. CASE Navigate
  BY <1>4, <1>a, <1>b, <1>c, <1>d, <1>e, <1>f, <1>g, <1>h, OpenTyped
     DEF Navigate, Asks, StoreTyped, DialogTyped, CardTyped, FrameTyped, SizeTyped, EndingTyped, SleepTyped, OtherTyped
<1>5. CASE LeaveSettings
  BY <1>5, <1>a, <1>b, <1>c, <1>d, <1>e, <1>f, <1>g, <1>h, SaveTyped, ExitTyped
     DEF LeaveSettings, Pressed, StoreTyped, DialogTyped, CardTyped, FrameTyped, SizeTyped, EndingTyped, SleepTyped, OtherTyped
<1>6. CASE RequestConfirm
  BY <1>6, <1>a, <1>b, <1>c, <1>d, <1>e, <1>f, <1>g, <1>h, OpenTyped
     DEF RequestConfirm, Asks, StoreTyped, DialogTyped, CardTyped, FrameTyped, SizeTyped, EndingTyped, SleepTyped, OtherTyped
<1>7. CASE Confirmed
  BY <1>7, <1>a, <1>b, <1>c, <1>d, <1>e, <1>f, <1>g, <1>h, ExitTyped
     DEF Confirmed, Pressed, StoreTyped, DialogTyped, CardTyped, FrameTyped, SizeTyped, EndingTyped, SleepTyped, OtherTyped
<1>8. CASE ConfirmCancel
  BY <1>8, <1>a, <1>b, <1>c, <1>d, <1>e, <1>f, <1>g, <1>h, ExitTyped
     DEF ConfirmCancel, ResetShutdownCard, StoreTyped, DialogTyped, CardTyped, FrameTyped, SizeTyped, EndingTyped, SleepTyped, OtherTyped
<1>9. CASE SetAfterComplete
  BY <1>9, <1>a, <1>b, <1>c, <1>d, <1>e, <1>f, <1>g, <1>h
     DEF SetAfterComplete, StoreTyped, DialogTyped, CardTyped, FrameTyped, SizeTyped, EndingTyped, SleepTyped, OtherTyped
<1>10. CASE SetTimer
  BY <1>10, <1>a, <1>b, <1>c, <1>d, <1>e, <1>f, <1>g, <1>h
     DEF SetTimer, StoreTyped, DialogTyped, CardTyped, FrameTyped, SizeTyped, EndingTyped, SleepTyped, OtherTyped
<1>11. CASE TrayClick
  BY <1>11, <1>a, <1>b, <1>c, <1>d, <1>e, <1>f, <1>g, <1>h, FrameTypedAfter
     DEF TrayClick, StoreTyped, DialogTyped, CardTyped, FrameTyped, SizeTyped, EndingTyped, SleepTyped, OtherTyped
<1>12. CASE Activate
  BY <1>12, <1>a, <1>b, <1>c, <1>d, <1>e, <1>f, <1>g, <1>h, FrameTypedAfter
     DEF Activate, StoreTyped, DialogTyped, CardTyped, FrameTyped, SizeTyped, EndingTyped, SleepTyped, OtherTyped
<1>13. CASE CloseRequested
  BY <1>13, <1>a, <1>b, <1>c, <1>d, <1>e, <1>f, <1>g, <1>h, OpenTyped, FrameTypedAfter
     DEF CloseRequested, Asks, StoreTyped, DialogTyped, CardTyped, FrameTyped, SizeTyped, EndingTyped, SleepTyped, OtherTyped
<1>14. CASE CloseConfirmed
  BY <1>14, <1>a, <1>b, <1>c, <1>d, <1>e, <1>f, <1>g, <1>h, SaveTyped, ExitTyped, FrameTypedAfter
     DEF CloseConfirmed, StoreTyped, DialogTyped, CardTyped, FrameTyped, SizeTyped, EndingTyped, SleepTyped, OtherTyped
<1>15. CASE RestartApp
  BY <1>15, <1>a, <1>b, <1>c, <1>d, <1>e, <1>f, <1>g, <1>h, CloseTyped
     DEF RestartApp, StoreTyped, DialogTyped, CardTyped, FrameTyped, SizeTyped, EndingTyped, SleepTyped, OtherTyped
<1>16. CASE Quit
  BY <1>16, <1>a, <1>b, <1>c, <1>d, <1>e, <1>f, <1>g, <1>h, CloseTyped
     DEF Quit, StoreTyped, DialogTyped, CardTyped, FrameTyped, SizeTyped, EndingTyped, SleepTyped, OtherTyped
<1>17. CASE CloseDialogCancel
  BY <1>17, <1>a, <1>b, <1>c, <1>d, <1>e, <1>f, <1>g, <1>h
     DEF CloseDialogCancel, StoreTyped, DialogTyped, CardTyped, FrameTyped, SizeTyped, EndingTyped, SleepTyped, OtherTyped
<1>18. CASE CloseDialogHide
  BY <1>18, <1>a, <1>b, <1>c, <1>d, <1>e, <1>f, <1>g, <1>h, FrameTypedAfter
     DEF CloseDialogHide, StoreTyped, DialogTyped, CardTyped, FrameTyped, SizeTyped, EndingTyped, SleepTyped, OtherTyped
<1>19. CASE CloseDialogTrayPrefChanged
  BY <1>19, <1>a, <1>b, <1>c, <1>d, <1>e, <1>f, <1>g, <1>h
     DEF CloseDialogTrayPrefChanged, Setting, StoreTyped, DialogTyped, CardTyped, FrameTyped, SizeTyped, EndingTyped, SleepTyped, OtherTyped
<1>20. CASE WindowResized
  BY <1>20, <1>a, <1>b, <1>c, <1>d, <1>e, <1>f, <1>g, <1>h
     DEF WindowResized, StoreTyped, DialogTyped, CardTyped, FrameTyped, SizeTyped, EndingTyped, SleepTyped, OtherTyped
<1>21. CASE Exited
  BY <1>21, <1>a, <1>b, <1>c, <1>d, <1>e, <1>f, <1>g, <1>h, GoneTyped, Zenon DEF Exited
<1>22. CASE CloseDialogGone
  BY <1>22, <1>a, <1>b, <1>c, <1>d, <1>e, <1>f, <1>g, <1>h
     DEF CloseDialogGone, StoreTyped, DialogTyped, CardTyped, FrameTyped, SizeTyped, EndingTyped, SleepTyped, OtherTyped
<1>23. CASE TimerExpires
  BY <1>23, <1>a, <1>b, <1>c, <1>d, <1>e, <1>f, <1>g, <1>h
     DEF TimerExpires, StoreTyped, DialogTyped, CardTyped, FrameTyped, SizeTyped, EndingTyped, SleepTyped, OtherTyped
<1>24. CASE ShutdownTick
  <2>1. UNCHANGED <<store, page, frame, size, ending, active, sleep>>
    BY <1>24, Zenon DEF ShutdownTick
  <2>2. CASE LastSecond
    BY <2>1, <2>2, <1>a, <1>b, <1>c, <1>d, <1>e, <1>f, <1>g, <1>h, GoneTyped, ZenonT(30)
       DEF LastSecond, ResetShutdownCard, CardTyped, OtherTyped
  <2>3. CASE CountDown
    <3>1. left' \in 0..Countdown /\ seen' \in 0..(Countdown - 1)
      BY <1>24, <2>3, ConstAssumption DEF ShutdownTick, CountDown, CountInv, DialogTyped
    <3> QED
      BY <2>1, <2>3, <3>1, <1>a, <1>b, <1>c, <1>d, <1>e, <1>f, <1>g, <1>h DEF CountDown, DialogTyped, OtherTyped
  <2>4. CASE TimerElapsed
    BY <2>1, <2>4, <1>a, <1>b, <1>c, <1>d, <1>e, <1>f, <1>g, <1>h, OpenTyped, ZenonT(30)
       DEF TimerElapsed, TriggerShutdownConfirm, ResetShutdownCard, CardTyped, OtherTyped, Asks
  <2> QED
    BY <1>24, <2>2, <2>3, <2>4, Zenon DEF ShutdownTick
<1>25. CASE ShutdownExecuted
  <2>1. dismissing' \in BOOLEAN
    BY <1>25 DEF ShutdownExecuted, DialogTyped
  <2> QED
    BY <1>25, <2>1, <1>a, <1>b, <1>c, <1>d, <1>e, <1>f, <1>g, <1>h, GoneTyped, ZenonT(30)
       DEF ShutdownExecuted, OtherTyped
<1>26. CASE PersistWindowGeometry
  BY <1>26, <1>a, <1>b, <1>c, <1>d, <1>e, <1>f, <1>g, <1>h
     DEF PersistWindowGeometry, StoreTyped, DialogTyped, CardTyped, FrameTyped, SizeTyped, EndingTyped, SleepTyped, OtherTyped
<1>27. CASE WindowMaximized
  <2>1. /\ disk' = draft /\ geometry_dirty' = FALSE /\ asked' = FALSE /\ pending_close' = FALSE
        /\ UNCHANGED <<draft, applied, dirty, page, dialog, card, poweroff, closing,
                       timeout, engine, active, sleep>>
    BY <1>27, Zenon DEF WindowMaximized
  <2>2. FrameTyped' /\ restart_pending' \in BOOLEAN /\ relaunched' \in 0..1
    <3>1. CASE pending_close
      <4>1. CloseWindow /\ window # "closed"
        BY <1>27, <3>1, Zenon DEF WindowMaximized
      <4>2. relaunched' \in 0..1
        BY <4>1 DEF CloseWindow, ClosedInv
      <4> QED
        BY <4>1, <4>2, Zenon DEF CloseWindow, FrameTyped
    <3>2. CASE ~pending_close
      BY <1>27, <3>2, <1>d DEF WindowMaximized, FrameTyped, EndingTyped
    <3> QED
      BY <3>1, <3>2
  <2> QED
    BY <2>1, <2>2, <1>a, <1>b, <1>c, <1>d, <1>e, <1>f, <1>g, <1>h DEF StoreTyped, SizeTyped, EndingTyped, OtherTyped
<1>28. CASE EngineStopped
  BY <1>28, <1>a, <1>b, <1>c, <1>d, <1>e, <1>f, <1>g, <1>h, FinalizeTyped
     DEF EngineStopped, StoreTyped, DialogTyped, CardTyped, FrameTyped, SizeTyped, EndingTyped, SleepTyped, OtherTyped
<1>29. CASE ShutdownTimeout
  BY <1>29, <1>a, <1>b, <1>c, <1>d, <1>e, <1>f, <1>g, <1>h, FinalizeTyped
     DEF ShutdownTimeout, StoreTyped, DialogTyped, CardTyped, FrameTyped, SizeTyped, EndingTyped, SleepTyped, OtherTyped
<1>30. CASE TaskProgress
  BY <1>30, <1>a, <1>b, <1>c, <1>d, <1>e, <1>f, <1>g, <1>h, OpenTyped, SleepTypedAfter
     DEF TaskProgress, TriggerShutdownConfirm, Asks, StoreTyped, DialogTyped, CardTyped, FrameTyped, SizeTyped, EndingTyped, SleepTyped, OtherTyped
<1>31. CASE UNCHANGED vars
  BY <1>31, <1>a, <1>b, <1>c, <1>d, <1>e, <1>f, <1>g, <1>h DEF vars
<1> QED
  BY <1>1, <1>2, <1>3, <1>4, <1>5, <1>6, <1>7, <1>8, <1>9, <1>10, <1>11, <1>12, <1>13, <1>14, <1>15, <1>16, <1>17, <1>18, <1>19, <1>20, <1>21, <1>22, <1>23, <1>24, <1>25, <1>26, <1>27, <1>28, <1>29, <1>30, <1>31 DEF Next, User

LEMMA IInvInvariant == Spec => []IInv
<1>1. IInv /\ [Next]_vars => IInv'
  BY CountStep, SleepStep, DirtyStep, WindowStep, TypeStep, Zenon
     DEF IInv, ShellConsistent
<1> QED
  BY InitIInv, <1>1, PTL DEF Spec

(* However the window is hidden, closed and asked for again: a hidden one   *)
(* can be brought back or the application ends, what is not applied makes   *)
(* the close ask, and sleep is blocked only for a download (hide_to_tray,   *)
(* settings_dirty, sync_sleep_block).                                       *)
THEOREM Consistent == Spec => []ShellConsistent
BY IInvInvariant, PTL DEF IInv

(* Save and restart has started the new process when the window has closed *)
(* (spawn_restart_if_pending).                                             *)
THEOREM RestartKept == Spec => []RestartIsNotLost
BY IInvInvariant, PTL DEF IInv

(* Whatever the length of the countdown, the machine is powered off only   *)
(* after it has run to its end without a break (ShutdownTick).             *)
THEOREM CountdownRuns == Spec => PoweroffAfterCountdown
<1>1. IInv /\ [Next]_vars
        => (poweroff = "no" /\ poweroff' = "running" => seen = Countdown - 1)
  <2> SUFFICES ASSUME IInv, Next, poweroff = "no", poweroff' = "running"
               PROVE  seen = Countdown - 1
    BY DEF vars
  <2>1. ShutdownTick
    BY DEF Next, User, SettingChanged, SaveBar, SpeedLimitChanged, Navigate, LeaveSettings,
           RequestConfirm, Confirmed, ConfirmCancel, SetAfterComplete, SetTimer, TrayClick,
           Activate, CloseRequested, CloseConfirmed, RestartApp, Quit, CloseDialogCancel,
           CloseDialogHide, CloseDialogTrayPrefChanged, WindowResized, Exited,
           CloseDialogGone, TimerExpires, ShutdownExecuted, PersistWindowGeometry,
           WindowMaximized, EngineStopped, ShutdownTimeout, TaskProgress
  <2>2. LastSecond /\ ~dismissing
    BY <2>1 DEF ShutdownTick, CountDown, TimerElapsed
  <2>3. left = 1
    BY <2>2 DEF LastSecond, IInv, CountInv, ShellConsistent, TypeOK
  <2> QED
    BY <2>2, <2>3, ConstAssumption
       DEF LastSecond, IInv, CountInv, ShellConsistent, TypeOK
<1> QED
  BY <1>1, IInvInvariant, PTL DEF Spec, PoweroffAfterCountdown

-----------------------------------------------------------------------------
(* Notices: the toasts, and the ends that are told once. *)

(* The stack: finitely many toasts of the three groups, with ids of their  *)
(* own.                                                                    *)
Group   == {"Task", "Engine", "General"}
Actions == {<<>>, TaskButtons, <<"RestartEngine">>}
Shape   == [id: Nat, group: Group, close_after: Nat, remaining: Nat, actions: Actions,
            dismissing: BOOLEAN]
Manager(m) ==
  /\ m \in [toasts: SUBSET Shape, next: Nat, hovered: Nat]
  /\ IsFiniteSet(m.toasts)
  /\ IsManager(m)
Plain(toast) == toast \in [group: Group, close_after: Nat, actions: Actions]

LEMMA NewFits ==
  ASSUME NEW m, Manager(m), NEW toast, Plain(toast)
  PROVE  /\ New(m, toast) \in Shape /\ New(m, toast).id = m.next
         /\ New(m, toast).remaining = New(m, toast).close_after
         /\ New(m, toast).close_after = toast.close_after
         /\ New(m, toast).group = toast.group /\ New(m, toast).actions = toast.actions
         /\ ~New(m, toast).dismissing
BY DEF Manager, New, Shape, Plain

(* The oldest goes, and only that. *)
LEMMA OldestGoes ==
  ASSUME NEW S, S \subseteq Shape, IsFiniteSet(S), Cardinality(S) \in Nat \ {0},
         \A t, u \in S: t.id = u.id => t = u
  PROVE  /\ IsFiniteSet(ButOldest(S)) /\ ButOldest(S) \subseteq S
         /\ Cardinality(ButOldest(S)) <= Cardinality(S) - 1
<1> DEFINE Ids == {t.id: t \in S}
<1>1. Ids \subseteq Nat /\ Ids # {}
  BY FS_EmptySet DEF Shape
<1>2. PICK id \in Ids: \A other \in Ids: ~(<<other, id>> \in OpToRel(<, Nat))
  <2> HIDE DEF Ids
  <2> QED  BY <1>1, NatLessThanWellFounded, WFMin
<1>3. PICK oldest \in S: oldest.id = id
  OBVIOUS
<1>4. \A t \in S: ~(t.id < oldest.id)
  BY <1>1, <1>2, <1>3 DEF OpToRel
<1>5. ButOldest(S) \subseteq S \ {oldest}
  BY <1>4 DEF ButOldest
<1>6. IsFiniteSet(S \ {oldest}) /\ Cardinality(S \ {oldest}) = Cardinality(S) - 1
  BY FS_RemoveElement
<1>7. IsFiniteSet(ButOldest(S)) /\ Cardinality(ButOldest(S)) <= Cardinality(S \ {oldest})
  BY <1>5, <1>6, FS_Subset
<1> QED  BY <1>5, <1>6, <1>7, FS_CardinalityType

(* What each operation of the stack leaves: a stack, and of the toasts     *)
(* that were there the same ones, or fewer, which may have begun to leave. *)
Same(t, u) ==
  /\ u.id = t.id /\ u.group = t.group /\ u.close_after = t.close_after
  /\ u.actions = t.actions /\ (t.dismissing => u.dismissing)
Fewer(m, n) ==
  /\ n.next = m.next
  /\ \A u \in n.toasts: \E t \in m.toasts: Same(t, u)

LEMMA PushKeeps ==
  ASSUME NEW m, Manager(m), NEW toast, Plain(toast)
  PROVE  /\ Manager(Push(m, toast))
         /\ Push(m, toast).next = m.next + 1
         /\ \A u \in Push(m, toast).toasts: u \in m.toasts \/ u = New(m, toast)
         /\ Cardinality(m.toasts) < Cap =>
              \A t \in m.toasts: t.close_after = Sticky => t \in Push(m, toast).toasts
<1> DEFINE kept == {t \in m.toasts: ~Evicted(t, toast)}
           room == IF Cardinality(kept) >= Cap THEN ButOldest(kept) ELSE kept
           new  == New(m, toast)
<1>1. m \in [toasts: SUBSET Shape, next: Nat, hovered: Nat] /\ IsFiniteSet(m.toasts) /\ IsManager(m)
  BY DEF Manager
<1>2. Push(m, toast).toasts = room \cup {new} /\ Push(m, toast).next = m.next + 1
      /\ Push(m, toast).hovered \in {NoToast, m.hovered}
  BY DEF Push
<1>3. Push(m, toast) \in [toasts: SUBSET (room \cup {new}), next: {m.next + 1}, hovered: {NoToast, m.hovered}]
  BY DEF Push
<1>4. IsFiniteSet(kept) /\ Cardinality(kept) <= Cardinality(m.toasts) /\ Cardinality(kept) \in Nat
  BY <1>1, FS_Subset, FS_CardinalityType
<1>5. Cap \in Nat \ {0} /\ Cardinality(m.toasts) \in Nat /\ Cardinality(m.toasts) <= Cap
  BY <1>1, CapAssumption, FS_CardinalityType DEF IsManager
<1>6. IsFiniteSet(room) /\ room \subseteq kept /\ Cardinality(room) <= Cap - 1
  <2>1. CASE Cardinality(kept) >= Cap
    <3>1. kept \subseteq Shape /\ \A t, u \in kept: t.id = u.id => t = u
      BY <1>1 DEF IsManager
    <3>2. Cardinality(kept) \in Nat \ {0}
      BY <1>4, <1>5, <2>1
    <3> HIDE DEF kept
    <3>3. IsFiniteSet(ButOldest(kept)) /\ ButOldest(kept) \subseteq kept
          /\ Cardinality(ButOldest(kept)) <= Cardinality(kept) - 1
      BY <1>4, <3>1, <3>2, OldestGoes
    <3> QED  BY <1>4, <1>5, <2>1, <3>3, FS_CardinalityType
  <2>2. CASE ~(Cardinality(kept) >= Cap)
    <3> HIDE DEF kept
    <3> QED  BY <1>4, <1>5, <2>2
  <2> QED  BY <2>1, <2>2
<1>7. new \in Shape /\ new.id = m.next /\ new.remaining = new.close_after
  BY NewFits
<1>8. new \notin room
  BY <1>1, <1>6, <1>7 DEF IsManager
<1> HIDE DEF room, new
<1>9. IsFiniteSet(room \cup {new}) /\ Cardinality(room \cup {new}) <= Cap
  <2>1. IsFiniteSet(room \cup {new}) /\ Cardinality(room \cup {new}) = Cardinality(room) + 1
    BY <1>6, <1>8, FS_AddElement
  <2>2. Cardinality(room) \in Nat
    BY <1>6, FS_CardinalityType
  <2> QED  BY <1>5, <1>6, <2>1, <2>2
<1>10. room \subseteq m.toasts
  BY <1>6
<1>11. IsManager(Push(m, toast))
  <2>1. Push(m, toast).next \in Nat \ {0}
        /\ Push(m, toast).hovered \in 0..(Push(m, toast).next - 1)
    BY <1>1, <1>2 DEF IsManager, NoToast
  <2>2. Cardinality(Push(m, toast).toasts) <= Cap
    BY <1>2, <1>9
  <2>3. \A t \in room \cup {new}: t.id \in 1..m.next /\ t.remaining \in 0..t.close_after
    BY <1>1, <1>7, <1>10 DEF IsManager, Shape
  <2>4. \A t, u \in room \cup {new}: t.id = u.id => t = u
    BY <1>1, <1>7, <1>10 DEF IsManager, Shape
  <2> QED  BY <1>1, <1>2, <2>1, <2>2, <2>3, <2>4 DEF IsManager
<1>12. Manager(Push(m, toast))
  BY <1>1, <1>2, <1>3, <1>7, <1>9, <1>10, <1>11 DEF Manager, NoToast
<1>13. Cardinality(m.toasts) < Cap =>
         \A t \in m.toasts: t.close_after = Sticky => t \in Push(m, toast).toasts
  BY <1>2, <1>4, <1>5 DEF room, Evicted
<1> QED  BY <1>2, <1>10, <1>12, <1>13 DEF new

(* A function on the toasts that keeps their ids keeps the stack. *)
LEMMA MapKeeps ==
  ASSUME NEW m, Manager(m), NEW n,
         n \in [toasts: SUBSET Shape, next: {m.next}, hovered: {NoToast, m.hovered}],
         NEW f, n.toasts = {f[t]: t \in m.toasts},
         \A t \in m.toasts: /\ f[t] \in Shape /\ Same(t, f[t])
                            /\ f[t].remaining \in 0..f[t].close_after
  PROVE  Manager(n) /\ Fewer(m, n) /\ Cardinality(n.toasts) <= Cardinality(m.toasts)
<1>1. m \in [toasts: SUBSET Shape, next: Nat, hovered: Nat] /\ IsFiniteSet(m.toasts) /\ IsManager(m)
  BY DEF Manager
<1>2. IsFiniteSet(n.toasts) /\ Cardinality(n.toasts) <= Cardinality(m.toasts)
  <2> DEFINE g == [t \in m.toasts |-> f[t]]
  <2>1. g \in Surjection(m.toasts, n.toasts)
    BY DEF Surjection
  <2> HIDE DEF g
  <2> QED  BY <1>1, <2>1, FS_Surjection
<1>3. Fewer(m, n)
  BY DEF Fewer
<1>4. IsManager(n)
  <2>1. n.next \in Nat \ {0} /\ n.hovered \in 0..(n.next - 1)
    BY <1>1 DEF IsManager, NoToast
  <2>2. Cardinality(n.toasts) <= Cap
    BY <1>1, <1>2, FS_CardinalityType, CapAssumption DEF IsManager
  <2>3. \A u \in n.toasts: u.id \in 1..(n.next - 1) /\ u.remaining \in 0..u.close_after
    BY <1>1 DEF IsManager, Same
  <2>4. \A u, v \in n.toasts: u.id = v.id => u = v
    BY <1>1 DEF IsManager, Same
  <2> QED  BY <2>1, <2>2, <2>3, <2>4 DEF IsManager
<1> QED  BY <1>1, <1>2, <1>3, <1>4 DEF Manager, NoToast

LEMMA LeavingFits ==
  ASSUME NEW t \in Shape
  PROVE  /\ Leaving(t) \in Shape /\ Same(t, Leaving(t))
         /\ Leaving(t).remaining = t.remaining /\ Leaving(t).dismissing = TRUE
BY DEF Leaving, Shape, Same

LEMMA DismissKeeps ==
  ASSUME NEW m, Manager(m), NEW id
  PROVE  /\ Manager(Dismiss(m, id)) /\ Fewer(m, Dismiss(m, id))
         /\ Cardinality(Dismiss(m, id).toasts) <= Cardinality(m.toasts)
         /\ Dismiss(m, id).toasts = {IF t.id = id THEN Leaving(t) ELSE t: t \in m.toasts}
<1> DEFINE f == [t \in m.toasts |-> IF t.id = id THEN Leaving(t) ELSE t]
           n == Dismiss(m, id)
<1>1. m \in [toasts: SUBSET Shape, next: Nat, hovered: Nat] /\ IsManager(m)
  BY DEF Manager
<1>2. \A t \in m.toasts: f[t] \in Shape /\ Same(t, f[t]) /\ f[t].remaining \in 0..f[t].close_after
  BY <1>1, LeavingFits DEF IsManager, Same
<1>3. n.toasts = {IF t.id = id THEN Leaving(t) ELSE t: t \in m.toasts}
      /\ n.next = m.next /\ n.hovered \in {NoToast, m.hovered}
  BY <1>1 DEF Dismiss
<1>4. n.toasts = {f[t]: t \in m.toasts}
  BY <1>3
<1>5. n \in [toasts: SUBSET Shape, next: {m.next}, hovered: {NoToast, m.hovered}]
  <2>1. n.toasts \subseteq Shape
    BY <1>2, <1>4
  <2>2. n = [toasts |-> n.toasts, next |-> n.next, hovered |-> n.hovered]
    <3>1. m = [toasts |-> m.toasts, next |-> m.next, hovered |-> m.hovered]
      BY <1>1
    <3>2. n = [[m EXCEPT !.toasts = n.toasts] EXCEPT !.hovered = n.hovered]
      BY <1>1 DEF Dismiss
    <3> HIDE DEF n, f
    <3> QED  BY <3>1, <3>2
  <2> QED  BY <1>3, <2>1, <2>2
<1> HIDE DEF f, n
<1>6. Manager(n) /\ Fewer(m, n) /\ Cardinality(n.toasts) <= Cardinality(m.toasts)
  BY <1>2, <1>4, <1>5, MapKeeps
<1> QED  BY <1>3, <1>6 DEF n

LEMMA TickKeeps ==
  ASSUME NEW m, Manager(m)
  PROVE  Manager(Tick(m)) /\ Fewer(m, Tick(m)) /\ Tick(m).toasts = {Ticked(m, t): t \in m.toasts}
<1> DEFINE f == [t \in m.toasts |-> Ticked(m, t)]
           n == Tick(m)
<1>1. m \in [toasts: SUBSET Shape, next: Nat, hovered: Nat] /\ IsManager(m)
  BY DEF Manager
<1>2. \A t \in m.toasts: f[t] \in Shape /\ Same(t, f[t]) /\ f[t].remaining \in 0..f[t].close_after
  <2> SUFFICES ASSUME NEW t \in m.toasts
               PROVE  /\ Ticked(m, t) \in Shape /\ Same(t, Ticked(m, t))
                      /\ Ticked(m, t).remaining \in 0..Ticked(m, t).close_after
    OBVIOUS
  <2>1. t \in Shape /\ t.remaining \in 0..t.close_after
    BY <1>1 DEF IsManager
  <2>2. CASE ~Counts(m, t)
    BY <2>1, <2>2 DEF Ticked, Same
  <2>3. CASE Counts(m, t) /\ t.remaining <= 1
    <3>1. [t EXCEPT !.remaining = 0] \in Shape /\ Same(t, [t EXCEPT !.remaining = 0])
          /\ [t EXCEPT !.remaining = 0].remaining = 0
      BY <2>1 DEF Shape, Same
    <3>2. Ticked(m, t) = Leaving([t EXCEPT !.remaining = 0])
      BY <2>3 DEF Ticked
    <3>3. Ticked(m, t) \in Shape /\ Same([t EXCEPT !.remaining = 0], Ticked(m, t)) /\ Ticked(m, t).remaining = 0
      BY <3>1, <3>2, LeavingFits
    <3> QED  BY <2>1, <3>1, <3>3 DEF Same, Shape
  <2>4. CASE Counts(m, t) /\ ~(t.remaining <= 1)
    <3>1. Ticked(m, t) = [t EXCEPT !.remaining = @ - 1]
      BY <2>4 DEF Ticked
    <3> QED  BY <2>1, <2>4, <3>1 DEF Shape, Same
  <2> QED  BY <2>2, <2>3, <2>4
<1>3. n.toasts = {Ticked(m, t): t \in m.toasts} /\ n.next = m.next /\ n.hovered = m.hovered
  BY <1>1 DEF Tick
<1>4. n.toasts = {f[t]: t \in m.toasts}
  BY <1>3
<1>5. n \in [toasts: SUBSET Shape, next: {m.next}, hovered: {NoToast, m.hovered}]
  <2>1. n.toasts \subseteq Shape
    BY <1>2, <1>4
  <2>2. n = [toasts |-> n.toasts, next |-> n.next, hovered |-> n.hovered]
    BY <1>1 DEF Tick
  <2> QED  BY <1>3, <2>1, <2>2
<1> HIDE DEF f, n
<1>6. Manager(n) /\ Fewer(m, n)
  BY <1>2, <1>4, <1>5, MapKeeps
<1> QED  BY <1>3, <1>6 DEF n

LEMMA PruneKeeps ==
  ASSUME NEW m, Manager(m), NEW id
  PROVE  /\ Manager(Prune(m, id)) /\ Fewer(m, Prune(m, id))
         /\ Prune(m, id).toasts = {t \in m.toasts: ~(t.id = id /\ t.dismissing)}
<1> DEFINE n == Prune(m, id)
<1>1. m \in [toasts: SUBSET Shape, next: Nat, hovered: Nat] /\ IsFiniteSet(m.toasts) /\ IsManager(m)
  BY DEF Manager
<1>2. n.toasts = {t \in m.toasts: ~(t.id = id /\ t.dismissing)}
      /\ n.next = m.next /\ n.hovered \in {NoToast, m.hovered}
  BY <1>1 DEF Prune
<1>3. n = [toasts |-> n.toasts, next |-> n.next, hovered |-> n.hovered]
  <2>1. m = [toasts |-> m.toasts, next |-> m.next, hovered |-> m.hovered]
    BY <1>1
  <2>2. n = [[m EXCEPT !.toasts = n.toasts] EXCEPT !.hovered = n.hovered]
    BY <1>1 DEF Prune
  <2> HIDE DEF n
  <2> QED  BY <2>1, <2>2
<1> HIDE DEF n
<1>4. n.toasts \subseteq m.toasts
  BY <1>2
<1>5. IsFiniteSet(n.toasts) /\ Cardinality(n.toasts) <= Cardinality(m.toasts)
  BY <1>1, <1>4, FS_Subset
<1>6. Cardinality(n.toasts) <= Cap
  BY <1>1, <1>5, FS_CardinalityType, CapAssumption DEF IsManager
<1>7. IsManager(n)
  BY <1>1, <1>2, <1>4, <1>6 DEF IsManager, NoToast
<1>8. n \in [toasts: SUBSET Shape, next: Nat, hovered: Nat]
  BY <1>1, <1>2, <1>3, <1>4 DEF NoToast
<1>9. Fewer(m, n)
  BY <1>2, <1>4 DEF Fewer, Same
<1> QED  BY <1>2, <1>5, <1>7, <1>8, <1>9 DEF Manager, n

LEMMA HoverKeeps ==
  ASSUME NEW m, Manager(m), NEW t \in m.toasts
  PROVE  /\ Manager(Hover(m, t.id)) /\ Fewer(m, Hover(m, t.id))
         /\ Manager(Unhover(m, t.id)) /\ Fewer(m, Unhover(m, t.id))
         /\ Hover(m, t.id).toasts = m.toasts /\ Unhover(m, t.id).toasts = m.toasts
<1>1. m \in [toasts: SUBSET Shape, next: Nat, hovered: Nat] /\ IsManager(m)
  BY DEF Manager
<1>2. t.id \in 1..(m.next - 1)
  BY <1>1 DEF IsManager
<1>3. ASSUME NEW n, n = [toasts |-> m.toasts, next |-> m.next, hovered |-> n.hovered],
             n.hovered \in {NoToast, m.hovered, t.id}
      PROVE  Manager(n) /\ Fewer(m, n) /\ n.toasts = m.toasts
  <2>1. n.toasts = m.toasts /\ n.next = m.next
    BY <1>3
  <2>2. n \in [toasts: SUBSET Shape, next: Nat, hovered: Nat]
    BY <1>1, <1>2, <1>3 DEF NoToast
  <2>3. IsManager(n)
    BY <1>1, <1>2, <1>3, <2>1 DEF IsManager, NoToast
  <2> QED  BY <2>1, <2>2, <2>3 DEF Manager, Fewer, Same
<1>4. Hover(m, t.id) = [toasts |-> m.toasts, next |-> m.next, hovered |-> t.id]
  BY <1>1 DEF Hover
<1>5. Unhover(m, t.id) = [toasts |-> m.toasts, next |-> m.next, hovered |-> Unhover(m, t.id).hovered]
      /\ Unhover(m, t.id).hovered \in {NoToast, m.hovered}
  BY <1>1 DEF Unhover
<1>6. Manager(Hover(m, t.id)) /\ Fewer(m, Hover(m, t.id)) /\ Hover(m, t.id).toasts = m.toasts
  BY <1>3, <1>4
<1> QED  BY <1>3, <1>5, <1>6

-----------------------------------------------------------------------------
(* Types: what the engine reports names a download where it should. *)
Kinds == {"Progress", "Added", "SyncComplete", "Aria2FetchFailed", "EngineReady"}
Answers == [gid: Gid, life: Nat, status: Status \ {"none"}]
Ends == [gid: Gid, life: Nat, of: {"finished", "failed", "followed"}]
EventShape ==
  {v \in [type: Kinds, gid: Gid \cup {"none"}, life: Nat, status: Status, sync: BOOLEAN]:
     /\ v.type \in {"Progress", "Added"} => v.gid \in Gid
     /\ v.type = "Progress" => v.status # "none"}
Note == [buttons: {<<>>, TaskButtons}, default: {"OpenFile", "ActivateWindow"}]

EngineTyped ==
  /\ aria \in [Gid -> Status] /\ life \in [Gid -> Nat]
  /\ adding \subseteq Gid /\ again \subseteq Gid
  /\ read \subseteq Answers /\ events \in Seq(EventShape)
RowsTyped ==
  /\ tasks \in [Gid -> Status \cup {"waiting"}] /\ link \subseteq Gid
  /\ paused_gids \subseteq Gid /\ removed_gids \subseteq Gid
TrackingTyped ==
  /\ session_gids \subseteq Gid /\ completion_toasted \subseteq Gid
  /\ error_notified \subseteq Gid /\ torrent_followed \subseteq Gid /\ sync_done \in BOOLEAN
ToldTyped == told \subseteq Ends /\ passed \subseteq Ends
ShownInv ==
  /\ Manager(toasts) /\ startup_error \in 0..(toasts.next - 1)
  /\ posted \in Seq(Note) /\ misled = FALSE
  /\ ErrorToastIsCurrent
StateTyped == EngineTyped /\ RowsTyped /\ TrackingTyped /\ ToldTyped

LEMMA MovesFits ==
  ASSUME NEW a \in Status, NEW s \in Moves[a]
  PROVE  s \in Status /\ s # "none" /\ a # "none"
<1>1. Moves["none"] = {} /\ Moves["complete"] = {} /\ Moves["error"] = {} /\ Moves["paused"] = {"active"}
      /\ Moves["active"] = {"paused", "seeding", "complete", "error"}
      /\ Moves["seeding"] = {"paused", "complete"}
  BY DEF Moves
<1> QED  BY <1>1 DEF Status, Finished

LEMMA EmitFits ==
  ASSUME NEW q \in Seq(EventShape), NEW u \in EventShape, NEW v \in EventShape
  PROVE  /\ q \o <<u>> = Append(q, u) /\ Append(q, u) \in Seq(EventShape)
         /\ q \o <<u, v>> = Append(Append(q, u), v) /\ Append(Append(q, u), v) \in Seq(EventShape)
<1>1. q \o <<u>> = Append(q, u) /\ Append(q, u) \in Seq(EventShape)
  OBVIOUS
<1>2. Append(Append(q, u), v) \in Seq(EventShape)
  BY <1>1
<1>3. q \o <<u, v>> = Append(Append(q, u), v)
  <2> HIDE DEF EventShape
  <2>1. q \o <<u, v>> \in Seq(EventShape) /\ Len(q \o <<u, v>>) = Len(q) + 2
    OBVIOUS
  <2>2. Len(Append(Append(q, u), v)) = Len(q) + 2
    OBVIOUS
  <2>3. \A i \in 1..(Len(q) + 2): (q \o <<u, v>>)[i] = Append(Append(q, u), v)[i]
    OBVIOUS
  <2> QED  BY <1>2, <2>1, <2>2, <2>3
<1> QED  BY <1>1, <1>2, <1>3

LEMMA EmitIs ==
  ASSUME events \in Seq(EventShape), NEW u \in EventShape, NEW v \in EventShape
  PROVE  /\ Emit(<<u>>) => events' = Append(events, u) /\ events' \in Seq(EventShape)
         /\ Emit(<<u, v>>) => events' = Append(Append(events, u), v) /\ events' \in Seq(EventShape)
<1>1. /\ Emit(<<u>>) => events' = events \o <<u>>
      /\ Emit(<<u, v>>) => events' = events \o <<u, v>>
  BY DEF Emit
<1>2. /\ events \o <<u>> = Append(events, u) /\ Append(events, u) \in Seq(EventShape)
      /\ events \o <<u, v>> = Append(Append(events, u), v) /\ Append(Append(events, u), v) \in Seq(EventShape)
  BY EmitFits
<1> QED  BY <1>1, <1>2

LEMMA EventFits ==
  ASSUME NEW g \in Gid, NEW a \in Answers, NEW sync \in BOOLEAN,
         NEW type \in {"SyncComplete", "Aria2FetchFailed", "EngineReady"}
  PROVE  /\ Progress(a) \in EventShape /\ Progress(a).type = "Progress" /\ Progress(a).gid = a.gid
         /\ Progress(a).life = a.life /\ Progress(a).status = a.status
         /\ Added(g, sync) \in EventShape /\ Added(g, sync).type = "Added"
         /\ Other(type) \in EventShape /\ Other(type).type # "Progress"
<1>1. Progress(a) = [type |-> "Progress", gid |-> a.gid, life |-> a.life, status |-> a.status, sync |-> FALSE]
      /\ a.gid \in Gid /\ a.life \in Nat /\ a.status \in Status /\ a.status # "none"
  BY DEF Progress, Event, Answers
<1>2. Progress(a) \in EventShape /\ Progress(a).type = "Progress" /\ Progress(a).gid = a.gid
      /\ Progress(a).life = a.life /\ Progress(a).status = a.status
  BY <1>1 DEF EventShape, Kinds
<1>3. Added(g, sync) \in EventShape /\ Added(g, sync).type = "Added"
  BY DEF Added, Event, EventShape, Kinds, Status
<1>4. Other(type) \in EventShape /\ Other(type).type # "Progress"
  BY DEF Other, Event, EventShape, Kinds, Status
<1> QED  BY <1>2, <1>3, <1>4

(* Answers and events of the restarted download. *)
LEMMA RestartFits ==
  ASSUME EngineTyped, NEW g \in Gid
  PROVE  [gid |-> g, life |-> life[g] + 1, status |-> "active"] \in Answers
BY DEF EngineTyped, Answers, Status

LEMMA EndFits ==
  ASSUME NEW a, a.gid \in Gid, a.life \in Nat, NEW of \in {"finished", "failed", "followed"}
  PROVE  /\ End(a, of) \in Ends
         /\ End(a, of).gid = a.gid /\ End(a, of).life = a.life /\ End(a, of).of = of
BY DEF End, Ends

LEMMA EndOfFits ==
  ASSUME NEW status
  PROVE  /\ EndOf(status) \in {"none", "finished", "failed"}
         /\ EndOf(status) = "finished" <=> status \in Finished
         /\ EndOf(status) = "failed" <=> status = "error"
BY DEF EndOf, Finished

LEMMA NotesFit ==
  ASSUME NEW a, a.gid \in Gid, a.life \in Nat, NEW row
  PROVE  /\ Notes(a, row) \subseteq Ends
         /\ \A e \in Notes(a, row):
              /\ e = End(a, e.of) /\ e.gid = a.gid /\ e.life = a.life
              /\ e.of = "finished" => Completes(a.gid, a.status, row)
              /\ e.of = "failed" => Fails(a.gid, a.status, row)
              /\ e.of = "followed" => Follows(a.gid, a.status, row)
<1> SUFFICES ASSUME NEW e \in Notes(a, row)
             PROVE  /\ e \in Ends /\ e = End(a, e.of) /\ e.gid = a.gid /\ e.life = a.life
                    /\ e.of = "finished" => Completes(a.gid, a.status, row)
                    /\ e.of = "failed" => Fails(a.gid, a.status, row)
                    /\ e.of = "followed" => Follows(a.gid, a.status, row)
  OBVIOUS
<1>1. PICK of \in {"finished", "failed", "followed"}:
        /\ e = End(a, of)
        /\ CASE of = "finished" -> Completes(a.gid, a.status, row) /\ a.gid \in session_gids
             [] of = "failed"   -> Fails(a.gid, a.status, row)
             [] of = "followed" -> Follows(a.gid, a.status, row)
  BY DEF Notes
<1>2. e \in Ends /\ e.gid = a.gid /\ e.life = a.life /\ e.of = of
  BY <1>1, EndFits
<1> QED  BY <1>1, <1>2

-----------------------------------------------------------------------------
(* Every step keeps the types. *)
LEMMA TypedInit == NoticesInit => StateTyped
<1> SUFFICES ASSUME NoticesInit
             PROVE  StateTyped
  OBVIOUS
<1>1. tasks \in [Gid -> {"none", "active", "paused", "complete"}]
  BY DEF NoticesInit
<1>2. tasks \in [Gid -> Status \cup {"waiting"}] /\ aria \in [Gid -> Status]
  BY <1>1 DEF NoticesInit, Status, Finished
<1>3. events \in Seq(EventShape) /\ life \in [Gid -> Nat] /\ read = {} /\ adding = {} /\ again = {}
  BY DEF NoticesInit
<1>4. link \subseteq Gid /\ paused_gids \subseteq Gid /\ removed_gids \subseteq Gid /\ session_gids \subseteq Gid
  BY DEF NoticesInit
<1>5. told = {} /\ passed = {}
  BY DEF NoticesInit
<1> QED  BY <1>2, <1>3, <1>4, <1>5 DEF NoticesInit, StateTyped, EngineTyped, RowsTyped, TrackingTyped, ToldTyped

EngineActs == AriaMoves \/ Asked \/ Report \/ Sync \/ SyncEnds \/ AddDownload \/ AddedIsSent \/ Redownload
              \/ EngineFails \/ EngineStarts

(* What a report changes. *)
LEMMA ReportedTyped ==
  ASSUME StateTyped, NEW a \in read, Reported(a), events' \in Seq(EventShape)
  PROVE  StateTyped'
<1>1. a \in Answers /\ a.gid \in Gid /\ a.life \in Nat
  BY DEF StateTyped, EngineTyped, Answers
<1>2. passed' \subseteq Ends
  <2>1. EndOf(a.status) # "none" => End(a, EndOf(a.status)) \in Ends
    BY <1>1, EndFits, EndOfFits
  <2> QED  BY <2>1 DEF Reported, StateTyped, ToldTyped
<1>3. read' \subseteq Answers
  BY DEF Reported, StateTyped, EngineTyped
<1>4. UNCHANGED <<aria, life, adding, again, rows, tracking, sync_done, told>>
  BY DEF Reported
<1> QED  BY <1>2, <1>3, <1>4 DEF StateTyped, EngineTyped, RowsTyped, TrackingTyped, ToldTyped, rows, tracking

LEMMA EngineKeepsTypes == StateTyped /\ EngineActs => StateTyped'
<1> SUFFICES ASSUME StateTyped, EngineActs
             PROVE  StateTyped'
  OBVIOUS
<1>0. EngineTyped /\ RowsTyped /\ TrackingTyped /\ ToldTyped
  BY DEF StateTyped
<1>1. CASE AriaMoves
  <2>1. PICK g \in Gid: \E s \in Moves[aria[g]]: aria' = [aria EXCEPT ![g] = s]
    BY <1>1 DEF AriaMoves
  <2>2. aria' \in [Gid -> Status]
    BY <1>0, <2>1, MovesFits DEF EngineTyped
  <2>3. UNCHANGED <<life, adding, again, read, events, rows, tracking, sync_done, told, passed>>
    BY <1>1 DEF AriaMoves, history
  <2> QED  BY <1>0, <2>2, <2>3 DEF StateTyped, EngineTyped, RowsTyped, TrackingTyped, ToldTyped, rows, tracking
<1>2. CASE Asked
  <2>1. PICK g \in Gid: aria[g] # "none" /\ read' = read \cup {Answer(g)}
    BY <1>2 DEF Asked
  <2>2. Answer(g) \in Answers
    BY <1>0, <2>1 DEF Answer, Answers, EngineTyped
  <2>3. UNCHANGED <<aria, life, adding, again, events, rows, tracking, sync_done, told, passed>>
    BY <1>2 DEF Asked, history
  <2> QED  BY <1>0, <2>1, <2>2, <2>3 DEF StateTyped, EngineTyped, RowsTyped, TrackingTyped, ToldTyped, rows, tracking
<1>3. CASE Report \/ Sync
  <2>1. PICK a \in read: /\ Reported(a)
                         /\ Emit(<<Progress(a)>>) \/ Emit(<<Added(a.gid, TRUE), Progress(a)>>)
    BY <1>3 DEF Report, Sync
  <2>2. a \in Answers /\ a.gid \in Gid
    BY <1>0 DEF EngineTyped, Answers
  <2>3. Progress(a) \in EventShape /\ Added(a.gid, TRUE) \in EventShape
    BY <2>2, EventFits
  <2>4. events' \in Seq(EventShape)
    BY <1>0, <2>1, <2>3, EmitIs DEF EngineTyped
  <2> QED  BY <2>1, <2>4, ReportedTyped
<1>4. CASE SyncEnds \/ EngineFails \/ EngineStarts
  <2>1. PICK kind \in {"SyncComplete", "Aria2FetchFailed", "EngineReady"}: Emit(<<Other(kind)>>)
    BY <1>4 DEF SyncEnds, EngineFails, EngineStarts
  <2>2. Other(kind) \in EventShape
    BY DEF Other, Event, EventShape, Kinds, Status
  <2>3. events' \in Seq(EventShape)
    BY <1>0, <2>1, <2>2, EmitIs DEF EngineTyped
  <2>4. UNCHANGED <<aria, life, adding, again, read, rows, tracking, sync_done, told, passed>>
    BY <1>4 DEF SyncEnds, EngineFails, EngineStarts, history
  <2> QED  BY <1>0, <2>3, <2>4 DEF StateTyped, EngineTyped, RowsTyped, TrackingTyped, ToldTyped, rows, tracking
<1>5. CASE AddDownload \/ AddedIsSent
  <2>1. PICK g \in Gid: /\ aria' \in {aria, [aria EXCEPT ![g] = "active"]}
                        /\ adding' \in {adding \cup {g}, adding \ {g}}
                        /\ events' = events \/ Emit(<<Added(g, FALSE)>>)
    BY <1>0, <1>5 DEF AddDownload, AddedIsSent, EngineTyped
  <2>2. aria' \in [Gid -> Status] /\ adding' \subseteq Gid
    BY <1>0, <2>1 DEF EngineTyped, Status
  <2>3. Added(g, FALSE) \in EventShape
    BY DEF Added, Event, EventShape, Kinds, Status
  <2>4. events' \in Seq(EventShape)
    <3>1. CASE UNCHANGED events
      BY <1>0, <3>1 DEF EngineTyped
    <3>2. CASE Emit(<<Added(g, FALSE)>>)
      BY <1>0, <2>3, <3>2, EmitIs DEF EngineTyped
    <3> QED  BY <2>1, <3>1, <3>2
  <2>5. UNCHANGED <<life, again, read, rows, tracking, sync_done, told, passed>>
    BY <1>5 DEF AddDownload, AddedIsSent, history
  <2> QED  BY <1>0, <2>2, <2>4, <2>5 DEF StateTyped, EngineTyped, RowsTyped, TrackingTyped, ToldTyped, rows, tracking
<1>6. CASE Redownload
  <2> DEFINE fresh(g) == [gid |-> g, life |-> life[g] + 1, status |-> "active"]
  <2>1. PICK g \in Gid:
          /\ again' = again \ {g}
          /\ \/ UNCHANGED <<aria, life, events>>
             \/ /\ aria' = [aria EXCEPT ![g] = "active"] /\ life' = [life EXCEPT ![g] = @ + 1]
                /\ Emit(<<Added(g, FALSE), Progress(fresh(g))>>) \/ UNCHANGED events
    BY <1>0, <1>6 DEF Redownload, EngineTyped
  <2>2. aria' \in [Gid -> Status] /\ life' \in [Gid -> Nat] /\ again' \subseteq Gid
    BY <1>0, <2>1 DEF EngineTyped, Status
  <2>3. Added(g, FALSE) \in EventShape /\ Progress(fresh(g)) \in EventShape
    BY <1>0, EventFits, RestartFits
  <2> HIDE DEF fresh
  <2>4. events' \in Seq(EventShape)
    <3>1. CASE UNCHANGED events
      BY <1>0, <3>1 DEF EngineTyped
    <3>2. CASE Emit(<<Added(g, FALSE), Progress(fresh(g))>>)
      BY <1>0, <2>3, <3>2, EmitIs DEF EngineTyped
    <3> QED  BY <2>1, <3>1, <3>2
  <2>5. UNCHANGED <<adding, read, rows, tracking, sync_done, told, passed>>
    BY <1>6 DEF Redownload, history
  <2> QED  BY <1>0, <2>2, <2>4, <2>5 DEF StateTyped, EngineTyped, RowsTyped, TrackingTyped, ToldTyped, rows, tracking
<1> QED  BY <1>1, <1>2, <1>3, <1>4, <1>5, <1>6 DEF EngineActs

LEMMA HeadFits ==
  ASSUME EngineTyped, NEW kind, Handle(kind)
  PROVE  /\ Head(events) \in EventShape /\ Head(events).type = kind /\ events' = Tail(events)
         /\ events' \in Seq(EventShape)
         /\ events # <<>>
<1>1. events \in Seq(EventShape) /\ events # <<>>
  BY DEF Handle, EngineTyped
<1>2. Head(events) \in EventShape /\ Tail(events) \in Seq(EventShape)
  <2> HIDE DEF EventShape
  <2> QED  BY <1>1
<1> QED  BY <1>1, <1>2 DEF Handle

(* What HandleProgress does to the download it is of. *)
RowAfter(g, status) == tasks[g] # "none" \/ (g \notin removed_gids /\ status \notin Ended)

LEMMA ProgressHandled ==
  ASSUME EngineTyped, HandleProgress
  PROVE  LET a == Head(events) IN
         /\ events # <<>> /\ events' = Tail(events) /\ events' \in Seq(EventShape)
         /\ a \in EventShape /\ a.type = "Progress" /\ a.gid \in Gid /\ a.life \in Nat /\ a.status \in Status
         /\ tasks' = IF ~RowAfter(a.gid, a.status) THEN tasks
                     ELSE [tasks EXCEPT ![a.gid] = IF a.gid \in paused_gids THEN "paused" ELSE Shown(a.status)]
         /\ Completion(a.gid, a.status, RowAfter(a.gid, a.status))
         /\ Failure(a.gid, a.status, RowAfter(a.gid, a.status))
         /\ Follow(a.gid, a.status, RowAfter(a.gid, a.status))
         /\ Announce(a.gid, a.status, RowAfter(a.gid, a.status))
         /\ told' = told \cup Notes(a, RowAfter(a.gid, a.status))
         /\ retold' = retold \cup (told \cap Notes(a, RowAfter(a.gid, a.status)))
         /\ disturbed' = IF a.life # life[a.gid] THEN disturbed \cup {<<a.gid, life[a.gid]>>} ELSE disturbed
         /\ UNCHANGED <<aria, life, adding, again, read, link, paused_gids, removed_gids, session_gids,
                        sync_done, startup_error, misled, passed>>
<1>1. Handle("Progress")
  BY DEF HandleProgress
<1>2. LET a == Head(events) IN
        /\ events # <<>> /\ events' = Tail(events) /\ events' \in Seq(EventShape)
        /\ a \in EventShape /\ a.type = "Progress"
  BY <1>1, HeadFits
<1>3. LET a == Head(events) IN a.gid \in Gid /\ a.life \in Nat /\ a.status \in Status
  BY <1>2 DEF EventShape
<1> QED  BY <1>2, <1>3 DEF HandleProgress, RowAfter

LEMMA HandledKeepsTypes == StateTyped /\ Handled => StateTyped'
<1> SUFFICES ASSUME StateTyped, Handled
             PROVE  StateTyped'
  OBVIOUS
<1>0. EngineTyped /\ RowsTyped /\ TrackingTyped /\ ToldTyped
  BY DEF StateTyped
<1>1. CASE HandleAdded
  <2>1. Handle("Added")
    BY <1>1 DEF HandleAdded
  <2>2. Head(events).gid \in Gid /\ events' \in Seq(EventShape)
    BY <1>0, <2>1, HeadFits DEF EventShape
  <2>3. UNCHANGED <<aria, life, adding, again, read, paused_gids, removed_gids, completion_toasted,
                    error_notified, torrent_followed, sync_done, told, passed>>
    BY <1>1 DEF HandleAdded, history
  <2>4. session_gids' \subseteq Gid /\ link' \subseteq Gid /\ tasks' \in [Gid -> Status \cup {"waiting"}]
    BY <1>0, <1>1, <2>2 DEF HandleAdded, RowsTyped, TrackingTyped
  <2> QED  BY <1>0, <2>2, <2>3, <2>4 DEF StateTyped, EngineTyped, RowsTyped, TrackingTyped, ToldTyped
<1>2. CASE HandleProgress
  <2> DEFINE a   == Head(events)
             row == RowAfter(a.gid, a.status)
  <2>1. /\ a.gid \in Gid /\ a.life \in Nat /\ a.status \in Status /\ events' \in Seq(EventShape)
        /\ tasks' = IF ~row THEN tasks
                    ELSE [tasks EXCEPT ![a.gid] = IF a.gid \in paused_gids THEN "paused" ELSE Shown(a.status)]
        /\ Completion(a.gid, a.status, row) /\ Failure(a.gid, a.status, row) /\ Follow(a.gid, a.status, row)
        /\ told' = told \cup Notes(a, row)
        /\ UNCHANGED <<aria, life, adding, again, read, link, paused_gids, removed_gids, session_gids,
                       sync_done, passed>>
    BY <1>0, <1>2, ProgressHandled
  <2> HIDE DEF a, row
  <2>2. Shown(a.status) \in Status /\ "paused" \in Status
    BY <2>1 DEF Shown, Status
  <2>3. tasks' \in [Gid -> Status \cup {"waiting"}]
    BY <1>0, <2>1, <2>2 DEF RowsTyped
  <2>4. completion_toasted' \subseteq Gid
    BY <1>0, <2>1 DEF Completion, TrackingTyped
  <2>5. error_notified' \subseteq Gid
    BY <1>0, <2>1 DEF Failure, TrackingTyped
  <2>6. torrent_followed' \subseteq Gid
    BY <1>0, <2>1 DEF Follow, TrackingTyped
  <2>7. told' \subseteq Ends
    BY <1>0, <2>1, NotesFit DEF ToldTyped
  <2> QED  BY <1>0, <2>1, <2>3, <2>4, <2>5, <2>6, <2>7 DEF StateTyped, EngineTyped, RowsTyped, TrackingTyped, ToldTyped
<1>3. CASE HandleSyncComplete
  <2>1. events' \in Seq(EventShape)
    BY <1>0, <1>3, HeadFits DEF HandleSyncComplete
  <2>2. UNCHANGED <<aria, life, adding, again, read, rows, session_gids, completion_toasted, error_notified,
                    told, passed>>
    BY <1>3 DEF HandleSyncComplete, history
  <2>3. torrent_followed' \subseteq Gid /\ sync_done' = TRUE
    BY <1>0, <1>3 DEF HandleSyncComplete, RowsTyped, TrackingTyped
  <2> QED  BY <1>0, <2>1, <2>2, <2>3 DEF StateTyped, EngineTyped, RowsTyped, TrackingTyped, ToldTyped, rows
<1>4. CASE HandleFetchFailed \/ HandleEngineReady
  <2>1. events' \in Seq(EventShape)
    BY <1>0, <1>4, HeadFits DEF HandleFetchFailed, HandleEngineReady
  <2>2. UNCHANGED <<aria, life, adding, again, read, rows, tracking, told, passed>>
        /\ sync_done' \in {FALSE, sync_done}
    BY <1>4 DEF HandleFetchFailed, HandleEngineReady, history
  <2> QED  BY <1>0, <2>1, <2>2 DEF StateTyped, EngineTyped, RowsTyped, TrackingTyped, ToldTyped, rows, tracking
<1> QED  BY <1>1, <1>2, <1>3, <1>4 DEF Handled

UserActs  == PauseTask \/ ResumeTask \/ RedownloadTask \/ RemoveTask
ToastActs == Say \/ Hovered \/ ActionPressed \/ ToastTick \/ ToastAnim \/ NotificationPressed

LEMMA RestKeepsTypes == StateTyped /\ (UserActs \/ ToastActs \/ UNCHANGED noticesVars) => StateTyped'
<1> SUFFICES ASSUME StateTyped, UserActs \/ ToastActs \/ UNCHANGED noticesVars
             PROVE  StateTyped'
  OBVIOUS
<1>0. EngineTyped /\ RowsTyped /\ TrackingTyped /\ ToldTyped
  BY DEF StateTyped
<1>1. CASE PauseTask \/ ResumeTask
  <2>1. paused_gids' \subseteq Gid
    BY <1>0, <1>1 DEF PauseTask, ResumeTask, RowsTyped
  <2>2. UNCHANGED <<reports, tasks, link, removed_gids, tracking, sync_done, told, passed>>
    BY <1>1 DEF PauseTask, ResumeTask, history
  <2> QED  BY <1>0, <2>1, <2>2 DEF StateTyped, EngineTyped, RowsTyped, TrackingTyped, ToldTyped, tracking, reports
<1>2. CASE RedownloadTask
  <2>1. paused_gids' \subseteq Gid /\ torrent_followed' \subseteq Gid /\ session_gids' \subseteq Gid /\ again' \subseteq Gid
    BY <1>0, <1>2 DEF RedownloadTask, RowsTyped, TrackingTyped, EngineTyped
  <2>2. UNCHANGED <<aria, life, adding, read, events, tasks, link, removed_gids, completion_toasted,
                    error_notified, sync_done, told, passed>>
    BY <1>2 DEF RedownloadTask
  <2> QED  BY <1>0, <2>1, <2>2 DEF StateTyped, EngineTyped, RowsTyped, TrackingTyped, ToldTyped
<1>3. CASE RemoveTask
  <2>1. /\ paused_gids' \subseteq Gid /\ torrent_followed' \subseteq Gid /\ session_gids' \subseteq Gid
        /\ removed_gids' \subseteq Gid /\ completion_toasted' \subseteq Gid /\ error_notified' \subseteq Gid
    BY <1>0, <1>3 DEF RemoveTask, RowsTyped, TrackingTyped
  <2>2. tasks' \in [Gid -> Status \cup {"waiting"}] /\ aria' \in [Gid -> Status]
    BY <1>0, <1>3 DEF RemoveTask, RowsTyped, EngineTyped, Status
  <2>3. UNCHANGED <<life, adding, again, read, events, link, sync_done, told, passed>>
    BY <1>3 DEF RemoveTask, history
  <2> QED  BY <1>0, <2>1, <2>2, <2>3 DEF StateTyped, EngineTyped, RowsTyped, TrackingTyped, ToldTyped
<1>4. CASE ToastActs \/ UNCHANGED noticesVars
  <2>1. UNCHANGED <<reports, rows, tracking, sync_done, told, passed>>
    BY <1>4 DEF ToastActs, Say, Hovered, ActionPressed, ToastTick, ToastAnim, NotificationPressed, Only,
                noticesVars, history
  <2> QED  BY <1>0, <2>1 DEF StateTyped, EngineTyped, RowsTyped, TrackingTyped, ToldTyped, rows, tracking, reports
<1> QED  BY <1>1, <1>2, <1>3, <1>4 DEF UserActs

LEMMA NextSplits == NoticesNext => EngineActs \/ Handled \/ UserActs \/ ToastActs
BY DEF NoticesNext, EngineActs, UserActs, ToastActs

LEMMA TypedNext == StateTyped /\ [NoticesNext]_noticesVars => StateTyped'
BY NextSplits, EngineKeepsTypes, HandledKeepsTypes, RestKeepsTypes

-----------------------------------------------------------------------------
(* What is shown. *)
Failing(t) == t.group = "Engine" /\ t.close_after = Sticky /\ t.actions = <<>> /\ ~t.dismissing

LEMMA ToastFits ==
  ASSUME NEW group \in Group, NEW actions \in Actions, NEW after \in {Sticky, Stay}
  PROVE  Plain(Toast(group, after, actions))
BY NoticesAssumption DEF Plain, Toast, Sticky

(* A new toast that says something else. *)
LEMMA PushStaysCurrent ==
  ASSUME ShownInv, NEW group \in Group, NEW actions \in Actions, NEW after \in {Sticky, Stay},
         ~(group = "Engine" /\ after = Sticky /\ actions = <<>>),
         toasts' = Push(toasts, Toast(group, after, actions)), UNCHANGED startup_error
  PROVE  Manager(toasts') /\ startup_error' \in 0..(toasts'.next - 1) /\ ErrorToastIsCurrent'
<1> DEFINE toast == Toast(group, after, actions)
<1>1. Plain(toast) /\ Manager(toasts)
  BY ToastFits DEF ShownInv
<1>2. ~Failing(New(toasts, toast))
  BY DEF New, Toast, Failing
<1> HIDE DEF toast
<1>3. /\ Manager(toasts') /\ toasts'.next = toasts.next + 1
      /\ \A u \in toasts'.toasts: u \in toasts.toasts \/ u = New(toasts, toast)
  BY <1>1, PushKeeps DEF toast
<1>4. startup_error' \in 0..(toasts'.next - 1)
  BY <1>1, <1>3 DEF ShownInv, Manager
<1>5. ErrorToastIsCurrent'
  <2> SUFFICES ASSUME NEW u \in toasts'.toasts, Failing(u)
               PROVE  u.id = startup_error
    BY DEF ErrorToastIsCurrent, Failing
  <2> QED  BY <1>2, <1>3 DEF ErrorToastIsCurrent, Failing, ShownInv
<1> QED  BY <1>3, <1>4, <1>5

(* Toasts leave. *)
LEMMA FewerStaysCurrent ==
  ASSUME ShownInv, Manager(toasts'), Fewer(toasts, toasts'), UNCHANGED startup_error
  PROVE  startup_error' \in 0..(toasts'.next - 1) /\ ErrorToastIsCurrent'
<1>1. startup_error' \in 0..(toasts'.next - 1)
  BY DEF ShownInv, Fewer
<1>2. ErrorToastIsCurrent'
  <2> SUFFICES ASSUME NEW u \in toasts'.toasts, Failing(u)
               PROVE  u.id = startup_error
    BY DEF ErrorToastIsCurrent, Failing
  <2>1. PICK t \in toasts.toasts: Same(t, u)
    BY DEF Fewer
  <2>2. t.dismissing \in BOOLEAN
    BY DEF ShownInv, Manager, Shape
  <2> QED  BY <2>1, <2>2 DEF Same, Failing, ErrorToastIsCurrent, ShownInv
<1> QED  BY <1>1, <1>2

(* News of the engine takes the place of the toast that it cannot start. *)
LEMMA EngineNewsIsCurrent ==
  ASSUME ShownInv, NEW after \in {Sticky, Stay},
         toasts' = Push(Dismiss(toasts, startup_error), Toast("Engine", after, <<>>)),
         startup_error' = IF after = Sticky THEN toasts.next ELSE NoToast
  PROVE  Manager(toasts') /\ startup_error' \in 0..(toasts'.next - 1) /\ ErrorToastIsCurrent'
<1> DEFINE toast == Toast("Engine", after, <<>>)
           remain  == Dismiss(toasts, startup_error)
<1>1. Plain(toast) /\ Manager(toasts)
  BY ToastFits DEF ShownInv, Group, Actions
<1>2. Manager(remain) /\ Fewer(toasts, remain)
      /\ remain.toasts = {IF t.id = startup_error THEN Leaving(t) ELSE t: t \in toasts.toasts}
  BY <1>1, DismissKeeps
<1>3. \A u \in remain.toasts: ~Failing(u)
  <2> SUFFICES ASSUME NEW t \in toasts.toasts
               PROVE  ~Failing(IF t.id = startup_error THEN Leaving(t) ELSE t)
    BY <1>2
  <2>1. CASE t.id = startup_error
    <3>1. Leaving(t).dismissing = TRUE
      BY <1>1, LeavingFits DEF Manager
    <3> QED  BY <2>1, <3>1 DEF Failing
  <2>2. CASE t.id # startup_error
    BY <2>2 DEF Failing, ShownInv, ErrorToastIsCurrent
  <2> QED  BY <2>1, <2>2
<1>4. New(remain, toast).id = toasts.next /\ New(remain, toast).close_after = after
  BY <1>2 DEF New, Toast, Fewer
<1> HIDE DEF toast, remain
<1>5. /\ Manager(toasts') /\ toasts'.next = toasts.next + 1
      /\ \A u \in toasts'.toasts: u \in remain.toasts \/ u = New(remain, toast)
  BY <1>1, <1>2, PushKeeps DEF toast, remain, Fewer
<1>6. startup_error' \in 0..(toasts'.next - 1)
  BY <1>1, <1>5 DEF Manager, NoToast
<1>7. ErrorToastIsCurrent'
  <2> SUFFICES ASSUME NEW u \in toasts'.toasts, Failing(u)
               PROVE  u.id = startup_error'
    BY DEF ErrorToastIsCurrent, Failing
  <2>1. u = New(remain, toast)
    BY <1>3, <1>5
  <2> QED  BY <1>4, <2>1 DEF Failing
<1> QED  BY <1>5, <1>6, <1>7

LEMMA PostedKeeps ==
  ASSUME posted \in Seq(Note), NEW note \in Note, Notify(note)
  PROVE  posted' \in Seq(Note)
BY DEF Notify

(* The keys of the two buttons differ. *)
LEMMA PressedFindsButton ==
  ASSUME NEW note \in Note, NEW i \in DOMAIN note.buttons
  PROVE  ResponseToMessage(note, ActionKey(note.buttons[i])) = note.buttons[i]
<1>1. note.buttons = <<"OpenFile", "RevealDir">>
  BY DEF Note, TaskButtons
<1>2. DOMAIN note.buttons = 1..2 /\ note.buttons[1] = "OpenFile" /\ note.buttons[2] = "RevealDir"
  BY <1>1
<1>3. {j \in DOMAIN note.buttons: ActionKey(note.buttons[j]) = ActionKey(note.buttons[i])} = {i}
  BY <1>2 DEF ActionKey
<1>4. Min({i}) = i
  BY <1>2 DEF Min
<1> QED  BY <1>3, <1>4 DEF ResponseToMessage

LEMMA ShownInit == NoticesInit => ShownInv
<1> SUFFICES ASSUME NoticesInit
             PROVE  ShownInv
  OBVIOUS
<1>1. toasts.toasts = {} /\ toasts.next = 1 /\ toasts.hovered = NoToast
      /\ toasts = [toasts |-> {}, next |-> 1, hovered |-> NoToast]
  BY DEF NoticesInit, EmptyManager
<1>2. IsFiniteSet({}) /\ Cardinality({}) = 0
  BY FS_EmptySet
<1>3. IsManager(toasts)
  BY <1>1, <1>2, CapAssumption DEF IsManager, NoToast
<1>4. toasts \in [toasts: SUBSET Shape, next: Nat, hovered: Nat]
  BY <1>1 DEF NoToast
<1>5. posted \in Seq(Note) /\ misled = FALSE /\ startup_error = NoToast
  BY DEF NoticesInit
<1> QED  BY <1>1, <1>2, <1>3, <1>4, <1>5 DEF ShownInv, Manager, ErrorToastIsCurrent, NoToast

LEMMA ShownNext == ShownInv /\ [NoticesNext]_noticesVars => ShownInv'
<1> SUFFICES ASSUME ShownInv, [NoticesNext]_noticesVars
             PROVE  ShownInv'
  OBVIOUS
<1>0. Manager(toasts) /\ posted \in Seq(Note) /\ misled = FALSE
  BY DEF ShownInv
<1>1. CASE UNCHANGED shown
  BY <1>1 DEF shown, ShownInv, ErrorToastIsCurrent
<1>2. CASE HandleProgress
  <2>1. PICK g, status, row: Announce(g, status, row) /\ UNCHANGED <<startup_error, misled>>
    BY <1>2 DEF HandleProgress
  <2>2. \A buttons \in {<<>>, TaskButtons}, default \in {"OpenFile", "ActivateWindow"}:
           Notification(buttons, default) \in Note
    BY DEF Notification, Note
  <2>3. posted' \in Seq(Note)
    <3>1. (\E note \in Note: Notify(note)) \/ posted' = posted
      BY <2>1, <2>2 DEF Announce
    <3> QED  BY <1>0, <3>1, PostedKeeps
  <2>4. \/ toasts' = toasts
        \/ \E actions \in {<<>>, TaskButtons}: toasts' = Push(toasts, Toast("Task", Stay, actions))
    BY <2>1 DEF Announce
  <2>5. Manager(toasts') /\ startup_error' \in 0..(toasts'.next - 1) /\ ErrorToastIsCurrent'
    <3>1. CASE toasts' = toasts
      BY <2>1, <3>1 DEF ShownInv, ErrorToastIsCurrent
    <3>2. ASSUME NEW actions \in {<<>>, TaskButtons}, toasts' = Push(toasts, Toast("Task", Stay, actions))
          PROVE  Manager(toasts') /\ startup_error' \in 0..(toasts'.next - 1) /\ ErrorToastIsCurrent'
      BY <2>1, <3>2, PushStaysCurrent DEF Group, Actions
    <3> QED  BY <2>4, <3>1, <3>2
  <2> QED  BY <1>0, <2>1, <2>3, <2>5 DEF ShownInv
<1>3. CASE HandleFetchFailed
  <2>1. /\ toasts' = Push(Dismiss(toasts, startup_error), Toast("Engine", Sticky, <<>>))
        /\ startup_error' = toasts.next /\ misled' = misled
        /\ Notify(Notification(<<>>, "ActivateWindow"))
    BY <1>3 DEF HandleFetchFailed
  <2>2. posted' \in Seq(Note)
    <3>1. Notification(<<>>, "ActivateWindow") \in Note
      BY DEF Notification, Note
    <3> QED  BY <1>0, <2>1, <3>1, PostedKeeps
  <2>3. Manager(toasts') /\ startup_error' \in 0..(toasts'.next - 1) /\ ErrorToastIsCurrent'
    BY <2>1, EngineNewsIsCurrent
  <2> QED  BY <1>0, <2>1, <2>2, <2>3 DEF ShownInv
<1>4. CASE HandleEngineReady
  <2>1. /\ toasts' = Push(Dismiss(toasts, startup_error), Toast("Engine", Stay, <<>>))
        /\ startup_error' = NoToast /\ UNCHANGED <<posted, misled>>
    BY <1>4 DEF HandleEngineReady
  <2>2. Stay # Sticky
    BY NoticesAssumption DEF Sticky
  <2>3. Manager(toasts') /\ startup_error' \in 0..(toasts'.next - 1) /\ ErrorToastIsCurrent'
    BY <2>1, <2>2, EngineNewsIsCurrent
  <2> QED  BY <1>0, <2>1, <2>3 DEF ShownInv
<1>5. CASE NotificationPressed
  <2>1. posted # <<>> /\ posted' = Tail(posted) /\ UNCHANGED <<toasts, startup_error>>
        /\ \/ \E i \in DOMAIN Head(posted).buttons:
                LET button == Head(posted).buttons[i]
                IN misled' = (misled \/ ResponseToMessage(Head(posted), ActionKey(button)) # button)
           \/ UNCHANGED misled
    BY <1>5 DEF NotificationPressed
  <2>2. Head(posted) \in Note /\ posted' \in Seq(Note)
    <3> HIDE DEF Note
    <3> QED  BY <1>0, <2>1
  <2>3. misled' = FALSE
    BY <1>0, <2>1, <2>2, PressedFindsButton
  <2> QED  BY <2>1, <2>2, <2>3 DEF ShownInv, ErrorToastIsCurrent
<1>6. CASE Say
  <2>1. PICK group \in {"General", "Engine"}, after \in {Sticky, Stay}:
          toasts' = Push(toasts, Toast(group, after, IF after = Sticky THEN <<"RestartEngine">> ELSE <<>>))
    BY <1>6 DEF Say
  <2>2. UNCHANGED <<startup_error, posted, misled>>
    BY <1>6 DEF Say
  <2>3. PICK actions \in Actions: /\ actions = IF after = Sticky THEN <<"RestartEngine">> ELSE <<>>
                                  /\ ~(after = Sticky /\ actions = <<>>)
    BY DEF Actions
  <2>4. Manager(toasts') /\ startup_error' \in 0..(toasts'.next - 1) /\ ErrorToastIsCurrent'
    BY <2>1, <2>2, <2>3, PushStaysCurrent DEF Group
  <2> QED  BY <1>0, <2>2, <2>4 DEF ShownInv
<1>7. CASE Hovered \/ ActionPressed \/ ToastTick \/ ToastAnim
  <2>1. UNCHANGED <<startup_error, posted, misled>>
    BY <1>7 DEF Hovered, ActionPressed, ToastTick, ToastAnim, Only
  <2>2. Manager(toasts') /\ Fewer(toasts, toasts')
    <3>1. CASE Hovered
      BY <1>0, <3>1, HoverKeeps DEF Hovered, Only
    <3>2. CASE ActionPressed
      BY <1>0, <3>2, DismissKeeps DEF ActionPressed, Only
    <3>3. CASE ToastTick
      BY <1>0, <3>3, TickKeeps DEF ToastTick, Only
    <3>4. CASE ToastAnim
      BY <1>0, <3>4, PruneKeeps DEF ToastAnim, Only
    <3> QED  BY <1>7, <3>1, <3>2, <3>3, <3>4
  <2>3. startup_error' \in 0..(toasts'.next - 1) /\ ErrorToastIsCurrent'
    BY <2>1, <2>2, FewerStaysCurrent
  <2> QED  BY <1>0, <2>1, <2>2, <2>3 DEF ShownInv
<1>8. CASE \/ EngineActs
           \/ HandleAdded \/ HandleSyncComplete \/ UserActs \/ UNCHANGED noticesVars
  <2>1. UNCHANGED shown
    BY <1>8 DEF EngineActs, AriaMoves, Asked, Report, Sync, Reported, SyncEnds, AddDownload, AddedIsSent, Redownload,
                EngineFails, EngineStarts,
                HandleAdded, HandleSyncComplete, UserActs, PauseTask, ResumeTask, RedownloadTask, RemoveTask,
                noticesVars
  <2> QED  BY <1>1, <2>1
<1> QED  BY <1>2, <1>3, <1>4, <1>5, <1>6, <1>7, <1>8, NextSplits DEF Handled, ToastActs

LEMMA ShownIsConsistent == StateTyped /\ ShownInv => NoticesConsistent
<1> SUFFICES ASSUME StateTyped, ShownInv
             PROVE  NoticesConsistent
  OBVIOUS
<1>1. /\ aria \in [Gid -> Status] /\ life \in [Gid -> Nat] /\ tasks \in [Gid -> Status \cup {"waiting"}]
      /\ adding \subseteq Gid /\ again \subseteq Gid
  BY DEF StateTyped, EngineTyped, RowsTyped
<1>2. \A S \in {link, paused_gids, removed_gids, session_gids, completion_toasted, error_notified,
                torrent_followed}: S \subseteq Gid
  BY DEF StateTyped, RowsTyped, TrackingTyped
<1>3. IsManager(toasts) /\ startup_error \in 0..(toasts.next - 1) /\ {sync_done, misled} \subseteq BOOLEAN
  BY DEF StateTyped, TrackingTyped, ShownInv, Manager
<1>4. PressedIsDone /\ ErrorToastIsCurrent
  BY DEF ShownInv, PressedIsDone
<1> QED  BY <1>1, <1>2, <1>3, <1>4 DEF NoticesConsistent, NoticesTypeOK

(* A step takes a toast that stays away only when it was dismissed or the  *)
(* stack is full.                                                          *)
LEMMA StickyStep ==
  ShownInv /\ [NoticesNext]_noticesVars =>
    \A t \in toasts.toasts:
      t.close_after = Sticky /\ ~t.dismissing /\ Cardinality(toasts.toasts) < Cap => Shows(toasts', t.id)
<1> SUFFICES ASSUME ShownInv, [NoticesNext]_noticesVars, NEW t \in toasts.toasts,
                    t.close_after = Sticky, ~t.dismissing, Cardinality(toasts.toasts) < Cap
             PROVE  Shows(toasts', t.id)
  OBVIOUS
<1>0. Manager(toasts) /\ toasts \in [toasts: SUBSET Shape, next: Nat, hovered: Nat]
  BY DEF ShownInv, Manager
<1>1. ASSUME NEW toast, Plain(toast), toasts' = Push(toasts, toast)
      PROVE  Shows(toasts', t.id)
  BY <1>0, <1>1, PushKeeps DEF Shows
<1>2. ASSUME NEW n, t \in n.toasts \/ Leaving(t) \in n.toasts \/ Ticked(toasts, t) \in n.toasts
      PROVE  Shows(n, t.id)
  <2>1. Leaving(t).id = t.id
    BY <1>0, LeavingFits DEF Same
  <2>2. Ticked(toasts, t) = t
    BY DEF Ticked, Counts
  <2> QED  BY <1>2, <2>1, <2>2 DEF Shows
<1>3. ASSUME NEW id PROVE Shows(Dismiss(toasts, id), t.id)
  <2>1. (IF t.id = id THEN Leaving(t) ELSE t) \in Dismiss(toasts, id).toasts
    BY <1>0, DismissKeeps
  <2> QED  BY <1>2, <2>1
<1>4. CASE HandleProgress \/ Say
  <2>1. toasts' = toasts \/ \E toast: Plain(toast) /\ toasts' = Push(toasts, toast)
    <3>1. \A group \in Group, actions \in Actions, after \in {Sticky, Stay}: Plain(Toast(group, after, actions))
      BY ToastFits
    <3>2. CASE HandleProgress
      <4>1. PICK g, status, row: Announce(g, status, row)
        BY <3>2 DEF HandleProgress
      <4> QED  BY <3>1, <4>1 DEF Announce, Group, Actions
    <3>3. CASE Say
      <4>1. PICK group \in {"General", "Engine"}, after \in {Sticky, Stay}:
              toasts' = Push(toasts, Toast(group, after, IF after = Sticky THEN <<"RestartEngine">> ELSE <<>>))
        BY <3>3 DEF Say
      <4>2. PICK actions \in Actions: actions = IF after = Sticky THEN <<"RestartEngine">> ELSE <<>>
        BY DEF Actions
      <4> QED  BY <3>1, <4>1, <4>2 DEF Group
    <3> QED  BY <1>4, <3>2, <3>3
  <2> QED  BY <1>1, <1>2, <2>1
<1>5. CASE HandleFetchFailed \/ HandleEngineReady
  <2>1. PICK after \in {Sticky, Stay}:
          toasts' = Push(Dismiss(toasts, startup_error), Toast("Engine", after, <<>>))
    BY <1>5 DEF HandleFetchFailed, HandleEngineReady
  <2> DEFINE remain == Dismiss(toasts, startup_error)
             u    == IF t.id = startup_error THEN Leaving(t) ELSE t
  <2>2. /\ Manager(remain) /\ Cardinality(remain.toasts) <= Cardinality(toasts.toasts) /\ u \in remain.toasts
        /\ IsFiniteSet(remain.toasts) /\ IsFiniteSet(toasts.toasts)
    BY <1>0, DismissKeeps DEF Manager
  <2>3. u.close_after = Sticky /\ u.id = t.id
    BY <1>0, LeavingFits DEF Same
  <2>4. Plain(Toast("Engine", after, <<>>))
    BY ToastFits DEF Group, Actions
  <2> HIDE DEF remain, u
  <2>5. Cardinality(remain.toasts) < Cap
    BY <2>2, FS_CardinalityType, CapAssumption
  <2>6. u \in toasts'.toasts
    BY <2>1, <2>2, <2>3, <2>4, <2>5, PushKeeps DEF remain
  <2> QED  BY <2>3, <2>6 DEF Shows
<1>6. CASE Hovered
  <2>1. PICK w \in toasts.toasts: toasts' = IF toasts.hovered = w.id THEN Unhover(toasts, w.id) ELSE Hover(toasts, w.id)
    BY <1>6 DEF Hovered, Only
  <2>2. toasts'.toasts = toasts.toasts
    BY <1>0, <2>1, HoverKeeps
  <2> QED  BY <1>2, <2>2
<1>7. CASE ActionPressed
  BY <1>3, <1>7 DEF ActionPressed, Only
<1>8. CASE ToastTick
  <2>1. Ticked(toasts, t) \in toasts'.toasts
    BY <1>0, <1>8, TickKeeps DEF ToastTick, Only
  <2> QED  BY <1>2, <2>1
<1>9. CASE ToastAnim
  <2>1. t \in toasts'.toasts
    BY <1>0, <1>9, PruneKeeps DEF ToastAnim, Only
  <2> QED  BY <1>2, <2>1
<1>10. CASE UNCHANGED toasts
  BY <1>2, <1>10
<1>11. CASE \/ EngineActs
            \/ HandleAdded \/ HandleSyncComplete \/ NotificationPressed \/ UserActs \/ UNCHANGED noticesVars
  BY <1>10, <1>11 DEF EngineActs, AriaMoves, Asked, Report, Sync, Reported, SyncEnds, AddDownload, AddedIsSent,
              Redownload, EngineFails, EngineStarts,
              HandleAdded, HandleSyncComplete, NotificationPressed, UserActs, PauseTask, ResumeTask,
              RedownloadTask, RemoveTask, noticesVars, shown
<1> QED  BY <1>4, <1>5, <1>6, <1>7, <1>8, <1>9, <1>11, NextSplits DEF Handled, ToastActs

(* The stack of toasts, the one about the engine and the buttons of the    *)
(* notifications say and do what they are meant to.                        *)
THEOREM NoticesAreConsistent == NoticesSpec => []NoticesConsistent
<1>1. NoticesInit => StateTyped /\ ShownInv
  BY TypedInit, ShownInit
<1>2. (StateTyped /\ ShownInv) /\ [NoticesNext]_noticesVars => (StateTyped /\ ShownInv)'
  BY TypedNext, ShownNext
<1>3. StateTyped /\ ShownInv => NoticesConsistent
  BY ShownIsConsistent
<1> QED  BY <1>1, <1>2, <1>3, PTL DEF NoticesSpec

(* A toast that waits for the user waits until it is dismissed or there    *)
(* are too many.                                                           *)
THEOREM StickyToastsStay == NoticesSpec => StickyStays
<1>1. NoticesInit => ShownInv
  BY ShownInit
<1>2. ShownInv /\ [NoticesNext]_noticesVars => ShownInv'
  BY ShownNext
<1>3. ShownInv /\ [NoticesNext]_noticesVars =>
        [\A t \in toasts.toasts:
           t.close_after = Sticky /\ ~t.dismissing /\ Cardinality(toasts.toasts) < Cap
             => Shows(toasts', t.id)]_noticesVars
  BY StickyStep
<1> QED  BY <1>1, <1>2, <1>3, PTL DEF NoticesSpec, StickyStays

-----------------------------------------------------------------------------
(* Ends that are told once.  An end that was told is remembered, until the *)
(* download is removed, unless its life is disturbed: what waits in the    *)
(* queue is of the end that was told, since every other report would have  *)
(* contradicted it.                                                        *)
Remembers(of) ==
  IF of = "finished" THEN completion_toasted ELSE IF of = "failed" THEN error_notified ELSE torrent_followed

(* A life that is over is disturbed, and so is one that is to be over. *)
LivesEnd ==
  \A g \in Gid: /\ \A n \in Nat: n < life[g] => <<g, n>> \in disturbed
                /\ g \in again => <<g, life[g]>> \in disturbed
                /\ g \in removed_gids => tasks[g] = "none"

(* Nothing is of a life to come. *)
QueueOfLives(q, l) == \A i \in 1..Len(q): q[i].type = "Progress" => q[i].life <= l[q[i].gid]

OfLives ==
  /\ \A a \in read: a.life <= life[a.gid]
  /\ QueueOfLives(events, life)
  /\ \A e \in passed \cup told: e.life <= life[e.gid]

ToldIsRemembered ==
  \A e \in told: /\ <<e.gid, e.life>> \in disturbed \/ e.gid \in Remembers(e.of) \cup removed_gids
                 /\ e.of # "followed" => e \in passed

(* In a queue, with the ends T told, P passed and the lives D disturbed: v *)
(* comes behind u, and e was told before it.                               *)
SameLife(u, v)    == u.gid = v.gid /\ u.life = v.life
Reports(v)        == v.type = "Progress" /\ EndOf(v.status) # "none"
SaysOnly(v, of, D) == <<v.gid, v.life>> \in D \/ EndOf(v.status) = of

Agrees(u, v, D)  == Reports(u) /\ v.type = "Progress" /\ SameLife(u, v) => SaysOnly(v, EndOf(u.status), D)
Repeats(e, v, D) == v.type = "Progress" /\ SameLife(e, v) /\ e.of # "followed" => SaysOnly(v, e.of, D)
Passed(v, P)     == Reports(v) => End(v, EndOf(v.status)) \in P

Joins(q, v, T, P, D) ==
  Passed(v, P) /\ (\A i \in 1..Len(q): Agrees(q[i], v, D)) /\ \A e \in T: Repeats(e, v, D)

InOrder(q, T, P, D) ==
  \A j \in 1..Len(q): /\ Passed(q[j], P)
                      /\ \A i \in 1..(j - 1): Agrees(q[i], q[j], D)
                      /\ \A e \in T: Repeats(e, q[j], D)

OnceInv == LivesEnd /\ OfLives /\ ToldIsRemembered /\ InOrder(events, told, passed, disturbed) /\ NotedOnce

LEMMA OnceInit == NoticesInit => OnceInv
<1> SUFFICES ASSUME NoticesInit PROVE OnceInv
  OBVIOUS
<1>1. /\ \A g \in Gid: life[g] = 0 /\ g \notin again \cup removed_gids
      /\ read = {} /\ events = <<>> /\ told = {} /\ retold = {} /\ passed = {}
  BY DEF NoticesInit
<1>2. \A n \in Nat: ~(n < 0)
  OBVIOUS
<1> QED  BY <1>1, <1>2 DEF OnceInv, LivesEnd, OfLives, QueueOfLives, ToldIsRemembered, InOrder, NotedOnce

(* More is disturbed and more has passed. *)
LEMMA OrderStays ==
  ASSUME NEW q, NEW T, NEW P, NEW D, NEW P2, NEW D2, InOrder(q, T, P, D), D \subseteq D2, P \subseteq P2
  PROVE  InOrder(q, T, P2, D2)
BY DEF InOrder, Passed, Agrees, Repeats, SaysOnly

LEMMA OrderAppends ==
  ASSUME NEW q \in Seq(EventShape), NEW v \in EventShape, NEW T, NEW P, NEW D,
         InOrder(q, T, P, D), Joins(q, v, T, P, D)
  PROVE  InOrder(Append(q, v), T, P, D)
<1> HIDE DEF EventShape
<1>1. Len(Append(q, v)) = Len(q) + 1 /\ Append(q, v)[Len(q) + 1] = v /\ Len(q) \in Nat
      /\ \A i \in 1..Len(q): Append(q, v)[i] = q[i]
  OBVIOUS
<1> SUFFICES ASSUME NEW j \in 1..(Len(q) + 1)
             PROVE  /\ Passed(Append(q, v)[j], P)
                    /\ \A i \in 1..(j - 1): Agrees(Append(q, v)[i], Append(q, v)[j], D)
                    /\ \A e \in T: Repeats(e, Append(q, v)[j], D)
  BY <1>1 DEF InOrder
<1>2. \A i \in 1..(j - 1): i \in 1..Len(q) /\ Append(q, v)[i] = q[i]
  BY <1>1
<1>3. CASE j = Len(q) + 1
  BY <1>1, <1>2, <1>3 DEF Joins
<1>4. CASE j \in 1..Len(q)
  BY <1>1, <1>2, <1>4 DEF InOrder
<1> QED  BY <1>1, <1>3, <1>4

(* What is not about a download is in order anywhere. *)
LEMMA OtherAppends ==
  ASSUME NEW q \in Seq(EventShape), NEW v \in EventShape, NEW T, NEW P, NEW D, v.type # "Progress",
         InOrder(q, T, P, D)
  PROVE  InOrder(Append(q, v), T, P, D)
<1>1. Joins(q, v, T, P, D)
  BY DEF Joins, Passed, Agrees, Repeats, Reports
<1> QED  BY <1>1, OrderAppends

LEMMA LivesAppend ==
  ASSUME NEW q \in Seq(EventShape), NEW v \in EventShape, NEW l, QueueOfLives(q, l),
         v.type = "Progress" => v.life <= l[v.gid]
  PROVE  QueueOfLives(Append(q, v), l)
<1> HIDE DEF EventShape
<1>1. Len(Append(q, v)) = Len(q) + 1 /\ Append(q, v)[Len(q) + 1] = v /\ Len(q) \in Nat
      /\ \A i \in 1..Len(q): Append(q, v)[i] = q[i]
  OBVIOUS
<1>2. \A i \in 1..(Len(q) + 1): i = Len(q) + 1 \/ i \in 1..Len(q)
  BY <1>1
<1> QED  BY <1>1, <1>2 DEF QueueOfLives

LEMMA OrderTail ==
  ASSUME NEW q \in Seq(EventShape), NEW T, NEW P, NEW D, NEW l, q # <<>>,
         InOrder(q, T, P, D), QueueOfLives(q, l)
  PROVE  /\ InOrder(Tail(q), T, P, D) /\ QueueOfLives(Tail(q), l)
         /\ \A j \in 1..Len(Tail(q)): Agrees(Head(q), Tail(q)[j], D)
         /\ Passed(Head(q), P) /\ \A e \in T: Repeats(e, Head(q), D)
         /\ Head(q).type = "Progress" => Head(q).life <= l[Head(q).gid]
<1> HIDE DEF EventShape
<1>1. Len(Tail(q)) = Len(q) - 1 /\ Len(q) \in Nat \ {0} /\ Head(q) = q[1]
      /\ \A i \in 1..Len(Tail(q)): Tail(q)[i] = q[i + 1]
  OBVIOUS
<1>2. \A j \in 1..Len(Tail(q)): j + 1 \in 1..Len(q) /\ 1 \in 1..((j + 1) - 1)
      /\ \A i \in 1..(j - 1): i + 1 \in 1..((j + 1) - 1) /\ i \in 1..Len(Tail(q))
  BY <1>1
<1>3. 1 \in 1..Len(q)
  BY <1>1
<1>4. \A j \in 1..Len(Tail(q)): /\ Passed(Tail(q)[j], P) /\ Agrees(Head(q), Tail(q)[j], D)
                                /\ \A i \in 1..(j - 1): Agrees(Tail(q)[i], Tail(q)[j], D)
                                /\ \A e \in T: Repeats(e, Tail(q)[j], D)
  BY <1>1, <1>2 DEF InOrder
<1>5. Passed(Head(q), P) /\ \A e \in T: Repeats(e, Head(q), D)
  BY <1>1, <1>3 DEF InOrder
<1>6. QueueOfLives(Tail(q), l) /\ (Head(q).type = "Progress" => Head(q).life <= l[Head(q).gid])
  BY <1>1, <1>2, <1>3 DEF QueueOfLives
<1> QED  BY <1>4, <1>5, <1>6 DEF InOrder

(* More is disturbed, and the rest stays. *)
LEMMA OnceStays ==
  ASSUME OnceInv, disturbed \subseteq disturbed', UNCHANGED <<life, told, retold, events, passed>>,
         \A a \in read': a.life <= life[a.gid],
         \A g \in again': g \in again \/ <<g, life[g]>> \in disturbed',
         \A g \in Gid: g \in removed_gids' => tasks'[g] = "none",
         \A e \in told: <<e.gid, e.life>> \in disturbed' \/ e.gid \in (Remembers(e.of) \cup removed_gids)'
  PROVE  OnceInv'
<1>1. LivesEnd'
  BY DEF OnceInv, LivesEnd
<1>2. OfLives'
  BY DEF OnceInv, OfLives
<1>3. ToldIsRemembered'
  BY DEF OnceInv, ToldIsRemembered
<1>4. InOrder(events', told', passed', disturbed')
  BY OrderStays DEF OnceInv
<1>5. NotedOnce'
  BY DEF OnceInv, NotedOnce
<1> QED  BY <1>1, <1>2, <1>3, <1>4, <1>5 DEF OnceInv

(* The queue changes, but nothing that is remembered. *)
LEMMA QueueChanges ==
  ASSUME OnceInv, UNCHANGED <<life, again, read, tasks, removed_gids, told, retold, passed, disturbed>>,
         completion_toasted' = completion_toasted, error_notified' = error_notified,
         torrent_followed \subseteq torrent_followed',
         InOrder(events', told, passed, disturbed), QueueOfLives(events', life)
  PROVE  OnceInv'
<1>1. LivesEnd' /\ NotedOnce' /\ OfLives'
  BY DEF OnceInv, LivesEnd, NotedOnce, OfLives
<1>2. ToldIsRemembered'
  BY DEF OnceInv, ToldIsRemembered, Remembers
<1> QED  BY <1>1, <1>2 DEF OnceInv

LEMMA OnceEmits ==
  ASSUME StateTyped, OnceInv, NEW v \in EventShape, v.type # "Progress", events' = Append(events, v),
         UNCHANGED <<life, again, read, rows, tracking, told, retold, passed, disturbed>>
  PROVE  OnceInv'
<1>1. events \in Seq(EventShape)
  BY DEF StateTyped, EngineTyped
<1>2. InOrder(events', told, passed, disturbed) /\ QueueOfLives(events', life)
  BY <1>1, OtherAppends, LivesAppend DEF OnceInv, OfLives
<1> QED  BY <1>2, QueueChanges DEF rows, tracking

(* A report is of the end that was reported, or it contradicts it. *)
LEMMA OnceReports ==
  ASSUME StateTyped, OnceInv, NEW a \in read, Reported(a),
         NEW v \in EventShape, v.type = "Progress", v.gid = a.gid, v.life = a.life, v.status = a.status,
         NEW u \in EventShape, u.type # "Progress",
         events' = Append(events, v) \/ events' = Append(Append(events, u), v)
  PROVE  OnceInv'
<1>1. a \in Answers /\ a.gid \in Gid /\ a.life \in Nat /\ a.life <= life[a.gid]
      /\ events \in Seq(EventShape) /\ told \subseteq Ends /\ passed \subseteq Ends
  BY DEF StateTyped, EngineTyped, ToldTyped, Answers, OnceInv, OfLives
<1>2. /\ passed' = IF EndOf(a.status) = "none" THEN passed ELSE passed \cup {End(a, EndOf(a.status))}
      /\ disturbed' = IF Contradicts(a) THEN disturbed \cup {<<a.gid, a.life>>} ELSE disturbed
      /\ UNCHANGED <<aria, life, adding, again, rows, tracking, sync_done, shown, told, retold>>
      /\ read' = read \ {a}
  BY DEF Reported
<1>3. passed \subseteq passed' /\ disturbed \subseteq disturbed'
  BY <1>2
<1>4. LivesEnd' /\ ToldIsRemembered' /\ NotedOnce'
  BY <1>2, <1>3 DEF OnceInv, LivesEnd, ToldIsRemembered, NotedOnce, Remembers, rows, tracking
<1>5. Passed(v, passed')
  <2>1. End(v, EndOf(v.status)) = End(a, EndOf(a.status))
    BY DEF End
  <2> QED  BY <1>2, <2>1 DEF Passed, Reports
<1>6. ASSUME NEW of \in {"finished", "failed"}, End(a, of) \in passed
      PROVE  SaysOnly(v, of, disturbed')
  <2>1. CASE EndOf(a.status) # of
    <3>1. Contradicts(a)
      BY <1>6, <2>1 DEF Contradicts
    <3> QED  BY <1>2, <3>1 DEF SaysOnly
  <2> QED  BY <2>1 DEF SaysOnly
<1>7. ASSUME NEW e \in told PROVE Repeats(e, v, disturbed')
  <2> SUFFICES ASSUME SameLife(e, v), e.of # "followed"
               PROVE  SaysOnly(v, e.of, disturbed')
    BY DEF Repeats
  <2>1. e \in passed /\ e \in Ends
    BY <1>1 DEF OnceInv, ToldIsRemembered
  <2>2. e = End(a, e.of) /\ e.of \in {"finished", "failed"}
    BY <2>1 DEF End, Ends, SameLife
  <2> QED  BY <1>6, <2>1, <2>2
<1>8. ASSUME NEW w, Passed(w, passed) PROVE Agrees(w, v, disturbed')
  <2> SUFFICES ASSUME Reports(w), SameLife(w, v)
               PROVE  SaysOnly(v, EndOf(w.status), disturbed')
    BY DEF Agrees
  <2>1. End(w, EndOf(w.status)) \in passed
    BY <1>8 DEF Passed
  <2>2. End(w, EndOf(w.status)) = End(a, EndOf(w.status))
    BY DEF End, SameLife
  <2>3. EndOf(w.status) \in {"finished", "failed"}
    BY EndOfFits DEF Reports
  <2> QED  BY <1>6, <2>1, <2>2, <2>3
<1>9. ASSUME NEW q \in Seq(EventShape), InOrder(q, told, passed, disturbed), QueueOfLives(q, life),
             events' = Append(q, v)
      PROVE  InOrder(events', told, passed', disturbed') /\ QueueOfLives(events', life)
  <2>1. InOrder(q, told, passed', disturbed')
    BY <1>3, <1>9, OrderStays
  <2>2. \A i \in 1..Len(q): Agrees(q[i], v, disturbed')
    BY <1>8, <1>9 DEF InOrder
  <2>3. Joins(q, v, told, passed', disturbed')
    BY <1>5, <1>7, <2>2 DEF Joins
  <2> QED  BY <1>1, <1>9, <2>1, <2>3, OrderAppends, LivesAppend
<1>10. InOrder(events', told, passed', disturbed') /\ QueueOfLives(events', life)
  <2>1. CASE events' = Append(events, v)
    BY <1>1, <1>9, <2>1 DEF OnceInv, OfLives
  <2>2. CASE events' = Append(Append(events, u), v)
    <3>1. Append(events, u) \in Seq(EventShape)
      BY <1>1, EmitFits
    <3>2. InOrder(Append(events, u), told, passed, disturbed) /\ QueueOfLives(Append(events, u), life)
      BY <1>1, OtherAppends, LivesAppend DEF OnceInv, OfLives
    <3> QED  BY <1>9, <2>2, <3>1, <3>2
  <2> QED  BY <2>1, <2>2
<1>11. \A e \in passed' \cup told': e.life <= life[e.gid]
  <2>1. End(a, EndOf(a.status)).gid = a.gid /\ End(a, EndOf(a.status)).life = a.life
    BY DEF End
  <2> QED  BY <1>1, <1>2, <2>1 DEF OnceInv, OfLives
<1>12. OfLives'
  BY <1>2, <1>10, <1>11 DEF OnceInv, OfLives
<1> QED  BY <1>2, <1>4, <1>10, <1>12 DEF OnceInv

(* The download begins a new life; what is asked of it at once is reported. *)
LEMMA OnceRedownloads ==
  ASSUME StateTyped, OnceInv, Redownload
  PROVE  OnceInv'
<1>1. PICK g \in again:
        /\ again' = again \ {g}
        /\ \/ UNCHANGED <<life, events>>
           \/ /\ life' = [life EXCEPT ![g] = @ + 1]
              /\ \/ Emit(<<Added(g, FALSE), Progress([gid |-> g, life |-> life[g] + 1, status |-> "active"])>>)
                 \/ UNCHANGED events
  BY DEF Redownload
<1>2. UNCHANGED <<adding, read, rows, tracking, sync_done, shown, told, retold, passed, disturbed>>
  BY DEF Redownload, history
<1>3. /\ g \in Gid /\ life \in [Gid -> Nat] /\ events \in Seq(EventShape) /\ again \subseteq Gid
      /\ told \subseteq Ends /\ passed \subseteq Ends /\ read \subseteq Answers
  BY DEF StateTyped, EngineTyped, ToldTyped
<1>4. CASE UNCHANGED <<life, events>>
  BY <1>1, <1>2, <1>3, <1>4, OnceStays DEF OnceInv, LivesEnd, OfLives, ToldIsRemembered, Remembers, rows, tracking
<1>5. CASE life' = [life EXCEPT ![g] = @ + 1]
  <2> DEFINE n == life[g] + 1
             a == [gid |-> g, life |-> n, status |-> "active"]
  <2>1. /\ \A h \in Gid: life'[h] = (IF h = g THEN n ELSE life[h]) /\ life[h] \in Nat /\ life[h] <= life'[h]
        /\ n = life[g] + 1
    BY <1>3, <1>5
  <2>2. LivesEnd'
    <3> SUFFICES ASSUME NEW h \in Gid
                 PROVE  /\ \A k \in Nat: k < life'[h] => <<h, k>> \in disturbed
                        /\ h \in again' => <<h, life'[h]>> \in disturbed
                        /\ h \in removed_gids => tasks[h] = "none"
      BY <1>2 DEF LivesEnd, rows
    <3>1. CASE h # g
      BY <1>1, <2>1, <3>1 DEF OnceInv, LivesEnd
    <3>2. CASE h = g
      <4>1. \A k \in Nat: k < n => k < life[g] \/ k = life[g]
        BY <2>1, <1>3
      <4> HIDE DEF n
      <4> QED  BY <1>1, <1>3, <2>1, <3>2, <4>1 DEF OnceInv, LivesEnd
    <3> QED  BY <3>1, <3>2
  <2>3. ToldIsRemembered' /\ NotedOnce'
    BY <1>2 DEF OnceInv, ToldIsRemembered, NotedOnce, Remembers, rows, tracking
  <2>4. ASSUME NEW e, e.gid \in Gid, e.life \in Nat, e.life <= life[e.gid]
        PROVE  e.life <= life'[e.gid] /\ ~(e.gid = g /\ e.life = n)
    <3>1. e.gid = g => e.life < n
      BY <1>3, <2>1, <2>4
    <3> HIDE DEF n
    <3>2. e.life <= life'[e.gid]
      BY <2>1, <2>4, <3>1
    <3> QED  BY <2>1, <2>4, <3>1, <3>2
  <2>5. \A e \in passed \cup told \cup read: e.gid \in Gid /\ e.life \in Nat /\ e.life <= life[e.gid]
    BY <1>3 DEF OnceInv, OfLives, Ends, Answers
  <2>6. \A i \in 1..Len(events): events[i].type = "Progress" =>
          events[i].gid \in Gid /\ events[i].life \in Nat /\ events[i].life <= life[events[i].gid]
    <3>1. \A i \in 1..Len(events): events[i] \in EventShape
      <4> HIDE DEF EventShape
      <4> QED  BY <1>3
    <3> QED  BY <3>1 DEF OnceInv, OfLives, QueueOfLives, EventShape
  <2>7. QueueOfLives(events, life')
    BY <2>4, <2>6 DEF QueueOfLives
  <2>8. InOrder(events', told, passed, disturbed) /\ QueueOfLives(events', life')
    <3>1. CASE UNCHANGED events
      BY <2>7, <3>1 DEF OnceInv
    <3>2. CASE Emit(<<Added(g, FALSE), Progress(a)>>)
      <4>1. PICK u \in EventShape, v \in EventShape:
              /\ u.type = "Added" /\ v.type = "Progress" /\ v.gid = g /\ v.life = n /\ v.status = "active"
              /\ events' = Append(Append(events, u), v)
        <5>1. a \in Answers /\ a.gid = g /\ a.life = n /\ a.status = "active"
          BY <1>3, RestartFits DEF StateTyped
        <5> HIDE DEF a, n
        <5>2. Added(g, FALSE) \in EventShape /\ Added(g, FALSE).type = "Added"
              /\ Progress(a) \in EventShape /\ Progress(a).type = "Progress" /\ Progress(a).gid = g
              /\ Progress(a).life = n /\ Progress(a).status = "active"
          BY <1>3, <5>1, EventFits
        <5>3. events' = Append(Append(events, Added(g, FALSE)), Progress(a))
          BY <1>3, <3>2, <5>2, EmitIs
        <5> QED  BY <5>2, <5>3
      <4> HIDE DEF a
      <4>2. Append(events, u) \in Seq(EventShape)
        BY <1>3, EmitFits
      <4>3. InOrder(Append(events, u), told, passed, disturbed) /\ QueueOfLives(Append(events, u), life')
        BY <1>3, <2>7, <4>1, OtherAppends, LivesAppend DEF OnceInv
      <4>4. \A i \in 1..Len(Append(events, u)): Agrees(Append(events, u)[i], v, disturbed)
        <5>1. \A i \in 1..Len(Append(events, u)): Append(events, u)[i].type = "Progress" =>
                i \in 1..Len(events) /\ Append(events, u)[i] = events[i]
          <6> HIDE DEF EventShape
          <6>1. Len(Append(events, u)) = Len(events) + 1 /\ Len(events) \in Nat
                /\ Append(events, u)[Len(events) + 1] = u
                /\ \A i \in 1..Len(events): Append(events, u)[i] = events[i]
            BY <1>3
          <6>2. \A i \in 1..(Len(events) + 1): i = Len(events) + 1 \/ i \in 1..Len(events)
            BY <6>1
          <6> QED  BY <4>1, <6>1, <6>2
        <5>2. \A i \in 1..Len(events): events[i].type = "Progress" => ~SameLife(events[i], v)
          BY <2>4, <2>6, <4>1 DEF SameLife
        <5> QED  BY <5>1, <5>2 DEF Agrees, Reports
      <4>5. \A e \in told: Repeats(e, v, disturbed)
        BY <2>4, <2>5, <4>1 DEF Repeats, SameLife
      <4>6. EndOf(v.status) = "none"
        BY <4>1 DEF EndOf, Finished
      <4>7. Joins(Append(events, u), v, told, passed, disturbed)
        BY <4>4, <4>5, <4>6 DEF Joins, Passed, Reports
      <4>8. v.life <= life'[v.gid]
        BY <1>3, <2>1, <4>1
      <4> HIDE DEF n
      <4> QED  BY <4>1, <4>2, <4>3, <4>7, <4>8, OrderAppends, LivesAppend
    <3> QED  BY <1>1, <1>5, <3>1, <3>2, <1>3
  <2>9. OfLives'
    BY <1>2, <2>4, <2>5, <2>8 DEF OfLives
  <2> QED  BY <1>2, <2>2, <2>3, <2>8, <2>9 DEF OnceInv
<1> QED  BY <1>1, <1>4, <1>5

LEMMA EngineOnce == StateTyped /\ OnceInv /\ EngineActs => OnceInv'
<1> SUFFICES ASSUME StateTyped, OnceInv, EngineActs
             PROVE  OnceInv'
  OBVIOUS
<1>1. /\ life \in [Gid -> Nat] /\ events \in Seq(EventShape) /\ aria \in [Gid -> Status]
      /\ read \subseteq Answers /\ adding \subseteq Gid
  BY DEF StateTyped, EngineTyped
<1>2. CASE AriaMoves \/ AddDownload
  <2>1. UNCHANGED <<life, again, read, events, rows, tracking, history>>
    BY <1>2 DEF AriaMoves, AddDownload
  <2> QED  BY <2>1, OnceStays DEF OnceInv, LivesEnd, OfLives, ToldIsRemembered, Remembers, rows, tracking, history
<1>3. CASE Asked
  <2>1. PICK g \in Gid: read' = read \cup {Answer(g)}
    BY <1>3 DEF Asked
  <2>2. UNCHANGED <<life, again, events, rows, tracking, history>>
    BY <1>3 DEF Asked
  <2>3. Answer(g).life <= life[Answer(g).gid]
    BY <1>1 DEF Answer
  <2> QED  BY <2>1, <2>2, <2>3, OnceStays
           DEF OnceInv, LivesEnd, OfLives, ToldIsRemembered, Remembers, rows, tracking, history
<1>4. CASE Report \/ Sync
  <2>1. PICK a \in read: /\ Reported(a)
                         /\ Emit(<<Progress(a)>>) \/ Emit(<<Added(a.gid, TRUE), Progress(a)>>)
    BY <1>4 DEF Report, Sync
  <2>2. a \in Answers /\ a.gid \in Gid
    BY <1>1 DEF Answers
  <2>3. /\ Progress(a) \in EventShape /\ Progress(a).type = "Progress" /\ Progress(a).gid = a.gid
        /\ Progress(a).life = a.life /\ Progress(a).status = a.status
        /\ Added(a.gid, TRUE) \in EventShape /\ Added(a.gid, TRUE).type # "Progress"
    BY <2>2, EventFits
  <2>4. \/ events' = Append(events, Progress(a))
        \/ events' = Append(Append(events, Added(a.gid, TRUE)), Progress(a))
    BY <1>1, <2>1, <2>3, EmitIs
  <2> QED  BY <2>1, <2>3, <2>4, OnceReports
<1>5. CASE SyncEnds \/ EngineFails \/ EngineStarts \/ AddedIsSent
  <2>1. PICK v \in EventShape: v.type # "Progress" /\ Emit(<<v>>)
    <3>1. CASE AddedIsSent
      <4>1. PICK g \in adding: Emit(<<Added(g, FALSE)>>)
        BY <3>1 DEF AddedIsSent
      <4>2. Added(g, FALSE) \in EventShape /\ Added(g, FALSE).type # "Progress"
        BY <1>1 DEF Added, Event, EventShape, Kinds, Status
      <4> QED  BY <4>1, <4>2
    <3>2. CASE SyncEnds \/ EngineFails \/ EngineStarts
      <4>1. PICK kind \in {"SyncComplete", "Aria2FetchFailed", "EngineReady"}: Emit(<<Other(kind)>>)
        BY <3>2 DEF SyncEnds, EngineFails, EngineStarts
      <4>2. Other(kind) \in EventShape /\ Other(kind).type # "Progress"
        BY DEF Other, Event, EventShape, Kinds, Status
      <4> QED  BY <4>1, <4>2
    <3> QED  BY <1>5, <3>1, <3>2
  <2>2. events' = Append(events, v)
    BY <1>1, <2>1, EmitIs
  <2>3. UNCHANGED <<life, again, read, rows, tracking, told, retold, passed, disturbed>>
    BY <1>5 DEF SyncEnds, EngineFails, EngineStarts, AddedIsSent, history
  <2> QED  BY <2>1, <2>2, <2>3, OnceEmits
<1>6. CASE Redownload
  BY <1>6, OnceRedownloads
<1> QED  BY <1>2, <1>3, <1>4, <1>5, <1>6 DEF EngineActs

(* What is handled is of the end that was told of its life; what was told  *)
(* is not told again, and what is told now is remembered.                  *)
LEMMA ProgressOnce ==
  ASSUME StateTyped, OnceInv, HandleProgress
  PROVE  OnceInv'
<1> DEFINE a   == Head(events)
           g   == Head(events).gid
           row == RowAfter(Head(events).gid, Head(events).status)
<1>1. EngineTyped /\ life \in [Gid -> Nat] /\ events \in Seq(EventShape) /\ told \subseteq Ends
      /\ tasks \in [Gid -> Status \cup {"waiting"}]
  BY DEF StateTyped, EngineTyped, ToldTyped, RowsTyped
<1>2. /\ events # <<>> /\ events' = Tail(events)
      /\ a \in EventShape /\ a.type = "Progress" /\ a.gid = g /\ g \in Gid /\ a.life \in Nat /\ a.status \in Status
      /\ tasks' = IF ~row THEN tasks
                  ELSE [tasks EXCEPT ![g] = IF g \in paused_gids THEN "paused" ELSE Shown(a.status)]
      /\ Completion(g, a.status, row) /\ Failure(g, a.status, row) /\ Follow(g, a.status, row)
      /\ told' = told \cup Notes(a, row)
      /\ retold' = retold \cup (told \cap Notes(a, row))
      /\ disturbed' = IF a.life # life[g] THEN disturbed \cup {<<g, life[g]>>} ELSE disturbed
      /\ UNCHANGED <<life, again, read, removed_gids, passed>>
  BY <1>1, ProgressHandled
<1>3. /\ InOrder(events', told, passed, disturbed) /\ QueueOfLives(events', life)
      /\ \A j \in 1..Len(events'): Agrees(a, events'[j], disturbed)
      /\ Passed(a, passed) /\ (\A e \in told: Repeats(e, a, disturbed)) /\ a.life <= life[g]
  BY <1>1, <1>2, OrderTail DEF OnceInv, OfLives
<1>4. row => g \notin removed_gids
  BY <1>2 DEF OnceInv, LivesEnd, RowAfter
<1> HIDE DEF a, g, row
<1>5. \A e \in Notes(a, row): /\ e \in Ends /\ e = End(a, e.of) /\ e.gid = g /\ e.life = a.life
                              /\ e.of = "finished" => Completes(g, a.status, row)
                              /\ e.of = "failed" => Fails(g, a.status, row)
                              /\ e.of = "followed" => Follows(g, a.status, row)
  BY <1>2, NotesFit
<1>6. \A e \in Notes(a, row): e.of \in {"finished", "failed", "followed"}
                              /\ (e.of # "followed" => EndOf(a.status) = e.of)
  BY <1>5, EndOfFits DEF Ends, Completes, Fails
<1>7. disturbed \subseteq disturbed'
  BY <1>2
<1>8. ASSUME NEW e \in told, <<e.gid, e.life>> \notin disturbed'
      PROVE  /\ e.gid \in Gid /\ e.life = life[e.gid] /\ e.gid \in Remembers(e.of) \cup removed_gids
             /\ e.gid = g => SameLife(e, a)
  <2>1. e.gid \in Gid /\ e.life \in Nat /\ life[e.gid] \in Nat /\ e.life <= life[e.gid]
    BY <1>1 DEF OnceInv, OfLives, Ends
  <2>2. <<e.gid, e.life>> \notin disturbed
    BY <1>7, <1>8
  <2>3. ~(e.life < life[e.gid])
    BY <2>1, <2>2 DEF OnceInv, LivesEnd
  <2>4. e.life = life[e.gid]
    BY <2>1, <2>3
  <2>5. e.gid = g => a.life = life[g]
    BY <1>2, <1>8, <2>4
  <2> QED  BY <1>2, <2>1, <2>2, <2>4, <2>5 DEF OnceInv, ToldIsRemembered, SameLife
<1>9. ASSUME NEW e \in told, <<e.gid, e.life>> \notin disturbed'
      PROVE  e.gid \in (Remembers(e.of) \cup removed_gids)'
  <2>1. e.gid = g /\ e.of # "followed" => EndOf(a.status) = e.of
    BY <1>2, <1>3, <1>7, <1>8, <1>9 DEF Repeats, SaysOnly, SameLife
  <2>2. e.of \in {"finished", "failed", "followed"} /\ (e.gid \in removed_gids \/ e.gid \in Remembers(e.of))
    BY <1>1, <1>8, <1>9 DEF Ends
  <2>3. CASE e.gid \in removed_gids
    BY <1>2, <2>3
  <2>4. CASE e.of = "finished" /\ e.gid \in completion_toasted
    <3>1. e.gid = g => a.status \in Finished
      BY <2>1, <2>4, EndOfFits
    <3>2. e.gid \in completion_toasted'
      BY <1>2, <2>4, <3>1 DEF Completion
    <3> QED  BY <2>4, <3>2 DEF Remembers
  <2>5. CASE e.of = "failed" /\ e.gid \in error_notified
    <3>1. e.gid = g => a.status = "error"
      BY <2>1, <2>5, EndOfFits
    <3>2. e.gid \in error_notified'
      BY <1>2, <2>5, <3>1 DEF Failure
    <3> QED  BY <2>5, <3>2 DEF Remembers
  <2>6. CASE e.of = "followed" /\ e.gid \in torrent_followed
    <3>1. e.gid \in torrent_followed'
      BY <1>2, <2>6 DEF Follow
    <3> QED  BY <2>6, <3>1 DEF Remembers
  <2> QED  BY <2>2, <2>3, <2>4, <2>5, <2>6 DEF Remembers
<1>10. ASSUME NEW e \in Notes(a, row)
       PROVE  e.gid \in Remembers(e.of)' /\ (e.of # "followed" => e \in passed)
  <2>1. e.gid \in Remembers(e.of)'
    <3>1. CASE e.of = "finished"
      BY <1>2, <1>5, <1>10, <3>1 DEF Completes, Completion, Remembers
    <3>2. CASE e.of = "failed"
      BY <1>2, <1>5, <1>10, <3>2 DEF Failure, Remembers
    <3>3. CASE e.of = "followed"
      BY <1>2, <1>5, <1>10, <3>3 DEF Follow, Remembers
    <3> QED  BY <1>6, <1>10, <3>1, <3>2, <3>3
  <2>2. e.of # "followed" => e \in passed
    BY <1>2, <1>3, <1>5, <1>6, <1>10 DEF Passed, Reports
  <2> QED  BY <2>1, <2>2
<1>11. ASSUME NEW e \in told, e \in Notes(a, row)
       PROVE  <<e.gid, e.life>> \in disturbed'
  <2> SUFFICES ASSUME <<e.gid, e.life>> \notin disturbed'
               PROVE  FALSE
    OBVIOUS
  <2>1. e.gid = g /\ e.gid \in Remembers(e.of) \cup removed_gids
    BY <1>5, <1>8, <1>11
  <2>2. row
    BY <1>5, <1>6, <1>11 DEF Completes, Fails, Follows
  <2>3. g \in Remembers(e.of)
    BY <1>4, <2>1, <2>2 DEF g, row
  <2>4. e.of \in {"finished", "failed", "followed"}
    BY <1>6, <1>11
  <2>5. CASE e.of = "finished"
    BY <1>5, <1>11, <2>3, <2>5 DEF Completes, Remembers
  <2>6. CASE e.of = "failed"
    BY <1>5, <1>11, <2>3, <2>6 DEF Fails, Remembers
  <2>7. CASE e.of = "followed"
    BY <1>5, <1>11, <2>3, <2>7 DEF Follows, Remembers
  <2> QED  BY <2>4, <2>5, <2>6, <2>7
<1>12. LivesEnd'
  <2>1. \A h \in Gid: h \in removed_gids => tasks'[h] = "none"
    <3> SUFFICES ASSUME NEW h \in Gid, h \in removed_gids
                 PROVE  tasks'[h] = "none"
      OBVIOUS
    <3>1. tasks[h] = "none"
      BY DEF OnceInv, LivesEnd
    <3>2. row => h # g
      BY <1>4 DEF g, row
    <3> QED  BY <1>1, <1>2, <3>1, <3>2
  <2> QED  BY <1>2, <1>7, <2>1 DEF OnceInv, LivesEnd
<1>13. ToldIsRemembered'
  BY <1>2, <1>9, <1>10 DEF OnceInv, ToldIsRemembered
<1>14. NotedOnce'
  BY <1>2, <1>7, <1>11 DEF OnceInv, NotedOnce
<1>15. OfLives'
  BY <1>2, <1>3, <1>5 DEF OnceInv, OfLives
<1>16. InOrder(events', told', passed', disturbed')
  <2>1. InOrder(events', told, passed, disturbed')
    BY <1>3, <1>7, OrderStays
  <2>2. ASSUME NEW j \in 1..Len(events'), NEW e \in Notes(a, row)
        PROVE  Repeats(e, events'[j], disturbed')
    <3> SUFFICES ASSUME events'[j].type = "Progress", SameLife(e, events'[j]), e.of # "followed"
                 PROVE  SaysOnly(events'[j], e.of, disturbed')
      BY DEF Repeats
    <3>1. SameLife(a, events'[j]) /\ Reports(a) /\ EndOf(a.status) = e.of
      BY <1>2, <1>5, <1>6, <2>2 DEF SameLife, Reports
    <3>2. SaysOnly(events'[j], e.of, disturbed)
      BY <1>3, <2>2, <3>1 DEF Agrees
    <3> QED  BY <1>7, <3>2 DEF SaysOnly
  <2> QED  BY <1>2, <2>1, <2>2 DEF InOrder
<1> QED  BY <1>12, <1>13, <1>14, <1>15, <1>16 DEF OnceInv

LEMMA HandledOnce == StateTyped /\ OnceInv /\ Handled => OnceInv'
<1> SUFFICES ASSUME StateTyped, OnceInv, Handled
             PROVE  OnceInv'
  OBVIOUS
<1>1. EngineTyped /\ life \in [Gid -> Nat] /\ events \in Seq(EventShape)
      /\ tasks \in [Gid -> Status \cup {"waiting"}]
  BY DEF StateTyped, EngineTyped, RowsTyped
<1>2. CASE HandleProgress
  BY <1>2, ProgressOnce
<1>3. ASSUME events # <<>>, events' = Tail(events)
      PROVE  InOrder(events', told, passed, disturbed) /\ QueueOfLives(events', life)
  BY <1>1, <1>3, OrderTail DEF OnceInv, OfLives
<1>4. CASE HandleAdded
  <2>1. /\ Handle("Added")
        /\ LET g == Head(events).gid IN
             tasks' = IF tasks[g] = "none" /\ g \notin removed_gids THEN [tasks EXCEPT ![g] = "waiting"] ELSE tasks
        /\ UNCHANGED <<life, again, read, removed_gids, completion_toasted, error_notified, torrent_followed,
                       told, retold, passed, disturbed>>
    BY <1>4 DEF HandleAdded, history
  <2>2. InOrder(events', told, passed, disturbed) /\ QueueOfLives(events', life)
    BY <1>3, <2>1 DEF Handle
  <2>3. \A h \in Gid: h \in removed_gids => tasks'[h] = tasks[h]
    BY <1>1, <2>1
  <2>4. LivesEnd' /\ OfLives' /\ ToldIsRemembered' /\ NotedOnce'
    BY <2>1, <2>2, <2>3 DEF OnceInv, LivesEnd, OfLives, ToldIsRemembered, NotedOnce, Remembers
  <2> QED  BY <2>1, <2>2, <2>4 DEF OnceInv
<1>5. CASE HandleSyncComplete \/ HandleFetchFailed \/ HandleEngineReady
  <2>1. events # <<>> /\ events' = Tail(events)
    BY <1>5 DEF HandleSyncComplete, HandleFetchFailed, HandleEngineReady, Handle
  <2>2. /\ UNCHANGED <<life, again, read, tasks, removed_gids, told, retold, passed, disturbed>>
        /\ completion_toasted' = completion_toasted /\ error_notified' = error_notified
        /\ torrent_followed \subseteq torrent_followed'
    BY <1>5 DEF HandleSyncComplete, HandleFetchFailed, HandleEngineReady, history, rows, tracking
  <2> QED  BY <1>3, <2>1, <2>2, QueueChanges
<1> QED  BY <1>2, <1>4, <1>5 DEF Handled

LEMMA RestOnce == StateTyped /\ OnceInv /\ (UserActs \/ ToastActs \/ UNCHANGED noticesVars) => OnceInv'
<1> SUFFICES ASSUME StateTyped, OnceInv, UserActs \/ ToastActs \/ UNCHANGED noticesVars
             PROVE  OnceInv'
  OBVIOUS
<1>1. CASE PauseTask \/ ResumeTask \/ ToastActs \/ UNCHANGED noticesVars
  <2>1. UNCHANGED <<reports, tasks, removed_gids, tracking, history>>
    BY <1>1 DEF PauseTask, ResumeTask, ToastActs, Say, Hovered, ActionPressed, ToastTick, ToastAnim,
                NotificationPressed, Only, noticesVars, rows
  <2> QED  BY <2>1, OnceStays DEF OnceInv, LivesEnd, OfLives, ToldIsRemembered, Remembers, tracking, history, reports
<1>2. CASE RedownloadTask
  <2>1. PICK g \in Gid: /\ again' = again \cup {g} /\ torrent_followed' = torrent_followed \ {g}
                        /\ disturbed' = disturbed \cup {<<g, life[g]>>}
    BY <1>2 DEF RedownloadTask
  <2>2. UNCHANGED <<life, read, events, tasks, removed_gids, completion_toasted, error_notified,
                    told, retold, passed>>
    BY <1>2 DEF RedownloadTask
  <2>3. life \in [Gid -> Nat] /\ told \subseteq Ends
    BY DEF StateTyped, EngineTyped, ToldTyped
  <2>4. ASSUME NEW e \in told
        PROVE  <<e.gid, e.life>> \in disturbed' \/ e.gid \in (Remembers(e.of) \cup removed_gids)'
    <3>1. e.gid \in Gid /\ e.life \in Nat /\ life[e.gid] \in Nat /\ e.life <= life[e.gid]
      BY <2>3 DEF OnceInv, OfLives, Ends
    <3>2. e.life < life[e.gid] \/ e.life = life[e.gid]
      BY <3>1
    <3>3. CASE e.gid = g
      BY <2>1, <3>1, <3>2, <3>3 DEF OnceInv, LivesEnd
    <3>4. CASE e.gid # g
      BY <2>1, <2>2, <3>4 DEF OnceInv, ToldIsRemembered, Remembers
    <3> QED  BY <3>3, <3>4
  <2> QED  BY <2>1, <2>2, <2>4, OnceStays DEF OnceInv, LivesEnd, OfLives
<1>3. CASE RemoveTask
  <2>1. PICK g \in Gid: /\ tasks' = [tasks EXCEPT ![g] = "none"]
                        /\ removed_gids' = removed_gids \cup {g}
                        /\ completion_toasted' = completion_toasted \ {g}
                        /\ error_notified' = error_notified \ {g}
                        /\ torrent_followed' = torrent_followed \ {g}
    BY <1>3 DEF RemoveTask
  <2>2. UNCHANGED <<life, again, read, events, history>>
    BY <1>3 DEF RemoveTask
  <2>3. tasks \in [Gid -> Status \cup {"waiting"}]
    BY DEF StateTyped, RowsTyped
  <2>4. \A h \in Gid: h \in removed_gids' => tasks'[h] = "none"
    BY <2>1, <2>3 DEF OnceInv, LivesEnd
  <2>5. \A e \in told: <<e.gid, e.life>> \in disturbed \/ e.gid \in (Remembers(e.of) \cup removed_gids)'
    BY <2>1 DEF OnceInv, ToldIsRemembered, Remembers
  <2> QED  BY <2>2, <2>4, <2>5, OnceStays DEF OnceInv, OfLives, history
<1> QED  BY <1>1, <1>2, <1>3 DEF UserActs

(* An end is told once, however often and late it is reported, unless the  *)
(* reports of its life contradict each other or it is downloaded again:    *)
(* the handling of EngineEvent::Progress in src/update/engine.rs.          *)
THEOREM EndsAreNotedOnce == NoticesSpec => []NotedOnce
<1> DEFINE Inv == StateTyped /\ OnceInv
<1>1. NoticesInit => Inv
  BY TypedInit, OnceInit
<1>2. Inv /\ [NoticesNext]_noticesVars => Inv'
  BY TypedNext, EngineOnce, HandledOnce, RestOnce, NextSplits
<1>3. Inv => NotedOnce
  BY DEF OnceInv
<1> HIDE DEF Inv
<1> QED  BY <1>1, <1>2, <1>3, PTL DEF NoticesSpec

=============================================================================
