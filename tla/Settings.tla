------------------------------ MODULE Settings ------------------------------
(***************************************************************************)
(* The settings of Remotrix (src/config/settings.rs, migrations.rs,        *)
(* paths.rs, src/update/settings/mod.rs, src/app.rs): the drafts the user  *)
(* edits, the settings that are applied, the file they are saved in, and   *)
(* what follows from them: the directory of the data, which the next start *)
(* moves, the server for the browser extension                             *)
(* (src/integration/extension_api.rs) and the synchronisation of trackers  *)
(* (src/storage/trackers.rs).                                              *)
(*                                                                         *)
(* The UI thread handles one message at a time and writes the file         *)
(* itself; the program may be killed between any two steps, and launched   *)
(* again while it runs: the second process loads, moves and saves before   *)
(* it finds that it is the second (src/main.rs:14).                        *)
(***************************************************************************)
EXTENDS Integers

CONSTANTS
  Ports,        \* ports of the extension's server
  Dirs,         \* directories for the data
  Home,         \* the directory in use at first
  MaxSecrets,   \* bound: secrets to tell apart
  MaxEdits,     \* bound: edits of the settings
  MaxSyncs,     \* bound: tracker synchronisations
  MaxKills,     \* bound: ends of the program
  MaxChanges,   \* bound: changes of the data
  MaxLaunches,  \* bound: launches of a second process
  MaxEvents     \* bound: the last four together

ASSUME ConstAssumption ==
  /\ Home \in Dirs /\ Ports # {}
  /\ {MaxSecrets, MaxEdits, MaxSyncs, MaxKills, MaxChanges, MaxLaunches,
      MaxEvents} \subseteq Nat
  /\ MaxSecrets > 3         \* a new secret differs from the three that are known
  /\ MaxChanges > 0         \* there is some data

VARIABLES
  (* the settings: as edited, as applied *)
  draft, applied, dirty,
  (* the file, the file it is renamed from, what is being saved, and what   *)
  (* the UI thread does when it is saved                                    *)
  disk, tmp, buffer, at,
  legacy,                      \* the file is one of an older version
  app,                         \* down, rewriting, migrating, starting, up
  guest, launches,             \* what the second process has read
  data,                        \* the data in each directory: 0 none, -1 half copied
  newest,                      \* the version of the data the user has seen last
  opened,                      \* the directory the program opened
  (* the extension's server; ports its aborted predecessors still hold *)
  server, port, dying, told,
  (* trackers: the flag, answers and timers to come *)
  syncing, fetches, timers,
  (* history and bounds *)
  loose,                       \* fields whose saved value nobody applied
  clash,                       \* the second process saved during a save: no, now, past
  behind,                      \* directories that a move did not fill, or filled badly
  unserved,                    \* applied without the server being asked
  edits, syncs, kills

store   == <<draft, applied, dirty>>
file    == <<disk, tmp, buffer, at, legacy, clash>>
content == <<data, newest, opened, behind>>
service == <<server, port, dying, told>>
sync    == <<syncing, fetches, timers, syncs>>
history == <<loose, unserved>>
second  == <<guest, launches>>
vars    == <<store, file, app, content, service, sync, history, second, edits, kills>>

Torn == [cut |-> TRUE]      \* a file cut short
Gone == [gone |-> TRUE]     \* no file, no second process

(* One field for all that aria2 is told; one for the trackers, of which 2   *)
(* is what the sources answer; last_resolved is where the data is.          *)
Record == [options: 0..1, trackers: 0..2, dir: Dirs, last_resolved: Dirs,
           enabled: BOOLEAN, port: Ports, secret: 0..MaxSecrets]
Field     == DOMAIN [options |-> 0, trackers |-> 0, dir |-> 0, last_resolved |-> 0,
                     enabled |-> 0, port |-> 0, secret |-> 0]
Extension == {"enabled", "port", "secret"}

Differ(s, t) == {f \in Field: s[f] # t[f]}

Default == [options |-> 0, trackers |-> 0, dir |-> Home, last_resolved |-> Home,
            enabled |-> FALSE, port |-> CHOOSE p \in Ports: TRUE, secret |-> 0]

Init ==
  /\ disk = [Default EXCEPT !.enabled = TRUE]
  /\ tmp = Gone /\ buffer = Default /\ at = "idle"
  /\ legacy \in BOOLEAN /\ clash = "no"
  /\ draft = Default /\ applied = Default /\ dirty = FALSE
  /\ app = "down"
  /\ data = [d \in Dirs |-> IF d = Home THEN 1 ELSE 0] /\ newest = 1 /\ opened = Home
  /\ behind = {} /\ guest = Gone /\ launches = 0
  /\ server = "off" /\ port = Default.port /\ dying = {} /\ told = "nothing"
  /\ syncing = FALSE /\ fetches = 0 /\ timers = 0
  /\ loose = {} /\ unserved = FALSE
  /\ edits = 0 /\ syncs = 0 /\ kills = 0

Spare == syncs + kills + launches + (newest - 1) < MaxEvents
MayEnd == kills < MaxKills /\ Spare

-----------------------------------------------------------------------------
(* save: the whole file beside it, then a rename.  What the handler does   *)
(* after that is the action that renames.                                  *)
SaveInPlace(s, then) ==        \* mutant: the file itself is written
  /\ at' = then /\ buffer' = s /\ tmp' = Torn /\ disk' = Torn
  /\ UNCHANGED <<legacy, clash>>

Save(s, then) ==
  /\ at' = then /\ buffer' = s /\ tmp' = Torn
  /\ UNCHANGED <<disk, legacy, clash>>

Write ==
  /\ at # "idle" /\ tmp = Torn
  /\ tmp' = buffer
  /\ UNCHANGED <<store, disk, buffer, at, legacy, clash, app, content, service, sync, history, edits, kills, second>>

Saved(then) == at = then /\ tmp = buffer
Idle        == app = "up" /\ at = "idle"

(* The file beside it has one name for every process: one that was saved   *)
(* by two may be mixed.                                                    *)
Rename ==
  /\ disk' \in IF clash = "now" THEN {tmp, Torn} ELSE {tmp}
  /\ clash' = (IF clash = "now" THEN "past" ELSE "no")
  /\ legacy' = FALSE

SaveEnds ==
  /\ Saved("done") /\ Rename /\ tmp' = Gone /\ at' = "idle"
  /\ UNCHANGED <<store, buffer, app, content, service, sync, history, edits, kills, second>>

(* load: a file that does not parse counts as none. *)
Load == IF disk \in Record THEN disk ELSE Default

(* generate_secret: one that is in use nowhere. *)
NewSecret == CHOOSE s \in 1..MaxSecrets:
               s \notin {draft.secret, applied.secret, Load.secret}

-----------------------------------------------------------------------------
(* The start.  load rewrites a file of an older version in place.          *)
MigrateLegacy ==
  /\ app = "down" /\ guest = Gone /\ legacy /\ disk \in Record
  /\ app' = "rewriting" /\ buffer' = disk /\ disk' = Torn
  /\ UNCHANGED <<store, tmp, at, legacy, clash, content, service, sync, history, edits, kills,
                 second>>

LegacyMigrated ==
  /\ app = "rewriting"
  /\ app' = "down" /\ disk' = buffer /\ legacy' = FALSE
  /\ UNCHANGED <<store, tmp, buffer, at, clash, content, service, sync, history, edits, kills,
                 second>>

(* Data that is not yet where the settings want it is copied; what is      *)
(* already there is kept, whatever it is.  Until that is done, or has      *)
(* failed, the program does nothing else.                                  *)
MoveNot(s) == s.dir = s.last_resolved \/ data[s.last_resolved] = 0 \/ data[s.dir] # 0
Moved(s)   == [s EXCEPT !.last_resolved = s.dir]

(* Directories that are opened for what is in them already: where a move   *)
(* was to go, and the first one when the file was lost.                    *)
Found(s) == {d \in {s.dir}: d # s.last_resolved /\ data[d] # 0}
              \cup {d \in {Home}: disk \notin Record}

StartTellsFirst ==             \* mutant: the move is saved before it is done
  /\ app = "down" /\ guest = Gone /\ ~(legacy /\ disk \in Record)
  /\ IF MoveNot(Load)
       THEN draft' = Moved(Load) /\ Save(draft', "init") /\ app' = "starting"
       ELSE /\ draft' = Load /\ app' = "migrating" /\ disk' = Moved(Load)
            /\ UNCHANGED <<tmp, buffer, at, legacy, clash>>
  /\ behind' = behind \cup Found(Load)
  /\ UNCHANGED <<applied, dirty, data, newest, opened, service, sync, history, edits, kills,
                 second>>

Start ==
  /\ app = "down" /\ guest = Gone /\ ~(legacy /\ disk \in Record)
  /\ IF MoveNot(Load)
       THEN draft' = Moved(Load) /\ Save(draft', "init") /\ app' = "starting"
       ELSE draft' = Load /\ app' = "migrating" /\ UNCHANGED file
  /\ behind' = behind \cup Found(Load)
  /\ UNCHANGED <<applied, dirty, data, newest, opened, service, sync, history, edits, kills,
                 second>>

CopyBegins ==
  /\ app = "migrating" /\ data[draft.dir] = 0
  /\ data' = [data EXCEPT ![draft.dir] = -1]
  /\ behind' = behind \cup {draft.dir}
  /\ UNCHANGED <<store, file, app, newest, opened, service, sync, history, edits, kills, second>>

CopyEnds ==
  /\ app = "migrating" /\ data[draft.dir] = -1
  /\ \/ /\ data' = [data EXCEPT ![draft.dir] = data[draft.last_resolved]]
        /\ draft' = Moved(draft)
        /\ behind' = IF draft.last_resolved \in behind THEN behind ELSE behind \ {draft.dir}
     \/ UNCHANGED <<data, draft, behind>>        \* no space, no access
  /\ app' = "starting" /\ Save(draft', "init")
  /\ UNCHANGED <<applied, dirty, newest, opened, service, sync, history, edits, kills, second>>

-----------------------------------------------------------------------------
(* The server for the extension.  The old task is told to end and not      *)
(* waited for.  A secret is made for a server that has none, and saved.    *)
Abort == dying' = IF server = "serving" THEN dying \cup {port} ELSE dying

SpawnServer(s) ==
  /\ Abort
  /\ port' = s.port
  /\ server' = IF s.enabled THEN "binding" ELSE "off"
  /\ IF s.enabled /\ s.secret = 0
       THEN /\ buffer' = [s EXCEPT !.secret = NewSecret]
            /\ tmp' = Torn /\ at' = "done"
       ELSE UNCHANGED <<buffer>> /\ tmp' = Gone /\ at' = "idle"

(* init reads the file again, and makes the secret if there is none. *)
Initialise ==
  /\ Saved("init") /\ Rename
  /\ app' = "up" /\ dirty' = FALSE /\ opened' = tmp.dir
  /\ IF tmp.secret = 0
       THEN /\ draft' = [tmp EXCEPT !.secret = NewSecret]
            /\ at' = "serve" /\ buffer' = draft' /\ tmp' = Torn
            /\ UNCHANGED <<server, port, dying>>
       ELSE draft' = tmp /\ SpawnServer(tmp)
  /\ applied' = draft'
  /\ loose' = {} /\ unserved' = FALSE
  /\ UNCHANGED <<data, newest, behind, told, sync, edits, kills, second>>

InitialServe ==
  /\ Saved("serve") /\ Rename
  /\ SpawnServer(tmp)
  /\ UNCHANGED <<store, app, content, told, sync, history, edits, kills, second>>

(* A server that a change of the settings started reports when it ends,    *)
(* which a server that listens does not.                                   *)
Bind ==
  /\ app = "up" /\ server = "binding"
  /\ server' = IF port \in dying THEN "failed" ELSE "serving"
  /\ told' = IF port \in dying /\ told = "restarting" THEN "failed" ELSE told
  /\ UNCHANGED <<store, file, app, content, port, dying, sync, history, edits, kills, second>>

Dropped ==
  /\ \E p \in dying: dying' = dying \ {p}
  /\ UNCHANGED <<store, file, app, content, server, port, told, sync, history, edits, kills, second>>

-----------------------------------------------------------------------------
(* The settings page. *)
Drafted(s) == draft' = s /\ dirty' = (s # applied)

SettingChanged ==
  /\ Idle /\ edits < MaxEdits
  /\ \/ Drafted([draft EXCEPT !.options = 1 - @])
     \/ Drafted([draft EXCEPT !.enabled = ~@])
     \/ \E p \in Ports \ {draft.port}: Drafted([draft EXCEPT !.port = p])
     \/ draft.secret # 0 /\ Drafted([draft EXCEPT !.secret = 0])
  /\ edits' = edits + 1
  /\ UNCHANGED <<applied, file, app, content, service, sync, history, kills, second>>

PathChanged ==
  /\ Idle /\ edits < MaxEdits
  /\ \E d \in Dirs \ {draft.dir}: Drafted([draft EXCEPT !.dir = d])
  /\ edits' = edits + 1
  /\ UNCHANGED <<applied, file, app, content, service, sync, history, kills, second>>

TrackerEdited ==
  /\ Idle /\ edits < MaxEdits
  /\ \E t \in {0, 1} \ {draft.trackers}: Drafted([draft EXCEPT !.trackers = t])
  /\ edits' = edits + 1
  /\ UNCHANGED <<applied, file, app, content, service, sync, history, kills, second>>

GenerateSecret ==
  /\ Idle /\ edits < MaxEdits
  /\ Drafted([draft EXCEPT !.secret = NewSecret])
  /\ edits' = edits + 1
  /\ UNCHANGED <<applied, file, app, content, service, sync, history, kills, second>>

ApplySettings ==
  /\ Idle /\ dirty
  /\ Save(draft, "apply")
  /\ UNCHANGED <<store, app, content, service, sync, history, edits, kills, second>>

(* Only what differs from the applied settings is acted upon. *)
Applied ==
  /\ Saved("apply") /\ Rename
  /\ IF Differ(draft, applied) \cap Extension # {}
       THEN /\ SpawnServer(draft)
            /\ told' = IF draft.enabled THEN "restarting" ELSE "stopped"
            /\ unserved' = FALSE
       ELSE /\ tmp' = Gone /\ at' = "idle"
            /\ UNCHANGED <<server, port, dying, told, buffer, unserved>>
  /\ loose' = IF draft.enabled /\ draft.secret = 0 THEN {"secret"} ELSE {}
  /\ applied' = draft /\ dirty' = FALSE
  /\ UNCHANGED <<draft, app, content, sync, edits, kills, second>>

Discard ==
  /\ Idle /\ dirty
  /\ draft' = applied /\ dirty' = FALSE
  /\ Save(applied, "done") /\ loose' = {}
  /\ UNCHANGED <<applied, app, content, service, sync, unserved, edits, kills, second>>

(* The theme, the language, a path that is remembered, the clipboard's last *)
(* content, the size of the window: saved at once, with every draft.        *)
SaveDirectly ==
  /\ Idle
  /\ Save(draft, "done")
  /\ loose' = Differ(draft, applied)
  /\ UNCHANGED <<store, app, content, service, sync, unserved, edits, kills, second>>

(* The speed popover makes every draft the applied setting and saves none. *)
SpeedLimitChanged ==
  /\ Idle /\ edits < MaxEdits
  /\ draft' = [draft EXCEPT !.options = 1 - @] /\ applied' = draft'
  /\ edits' = edits + 1
  /\ loose' = loose \cup Differ(draft', applied)
  /\ unserved' = (unserved \/ Differ(draft, applied) \cap Extension # {})
  /\ UNCHANGED <<dirty, file, app, content, service, sync, kills, second>>

-----------------------------------------------------------------------------
(* Trackers: a fetch and a timer of 30 s are started together, and neither *)
(* knows of which synchronisation it is.                                   *)
StartTrackerFetch ==
  /\ syncs < MaxSyncs /\ Spare /\ syncs' = syncs + 1
  /\ syncing' = TRUE /\ fetches' = fetches + 1 /\ timers' = timers + 1

SyncTrackers ==
  /\ Idle /\ ~syncing
  /\ StartTrackerFetch
  /\ UNCHANGED <<store, file, app, content, service, history, edits, kills, second>>

CheckTrackerAutoSync ==
  /\ Idle /\ ~syncing /\ draft.trackers = applied.trackers
  /\ StartTrackerFetch
  /\ UNCHANGED <<store, file, app, content, service, history, edits, kills, second>>

Fetched(s) == [s EXCEPT !.trackers = 2]

TrackersSyncedDraft ==         \* mutant: the drafts are saved with the trackers
  /\ Idle /\ fetches > 0
  /\ fetches' = fetches - 1 /\ syncing' = FALSE
  /\ \/ UNCHANGED <<store, file, loose>>
     \/ /\ syncing
        /\ draft' = Fetched(draft) /\ applied' = Fetched(applied)
        /\ Save(draft', "done") /\ loose' = {}
        /\ UNCHANGED dirty
  /\ UNCHANGED <<app, content, service, timers, syncs, unserved, edits, kills, second>>

TrackersSynced ==
  /\ Idle /\ fetches > 0
  /\ fetches' = fetches - 1 /\ syncing' = FALSE
  /\ \/ UNCHANGED <<store, file, loose>>         \* too late, or no source answered
     \/ /\ syncing
        /\ draft' = Fetched(draft) /\ applied' = Fetched(applied)
        /\ Save(applied', "done") /\ loose' = {}
        /\ UNCHANGED dirty
  /\ UNCHANGED <<app, content, service, timers, syncs, unserved, edits, kills, second>>

TrackerSyncTimedOutOnce ==     \* mutant: where one was answered, a timer is taken for its own
  /\ Idle /\ timers > 0
  /\ timers' = timers - 1 /\ syncing' = (syncing /\ fetches < syncs)
  /\ UNCHANGED <<store, file, app, content, service, fetches, syncs, history, edits, kills, second>>

TrackerSyncTimedOut ==
  /\ Idle /\ timers > 0
  /\ timers' = timers - 1 /\ syncing' = FALSE
  /\ UNCHANGED <<store, file, app, content, service, fetches, syncs, history, edits, kills, second>>

-----------------------------------------------------------------------------
(* The data: the program writes what it opened, which is what the settings *)
(* said when it started, whether or not the move had succeeded.            *)
DataChanges ==
  /\ Idle /\ newest < MaxChanges /\ Spare
  /\ data[opened] = newest
  /\ data' = [data EXCEPT ![opened] = newest + 1]
  /\ newest' = newest + 1
  /\ UNCHANGED <<store, file, app, opened, behind, service, sync, history, edits, kills, second>>

(* The end: a close saves what is applied, a restart from the settings page *)
(* the drafts; a kill saves nothing and may come at any time.               *)
Ends ==
  /\ app' = "down" /\ at' = "idle"
  /\ server' = "off" /\ dying' = {} /\ told' = "nothing"
  /\ syncing' = FALSE /\ fetches' = 0 /\ timers' = 0
  /\ MayEnd /\ kills' = kills + 1

Kill ==
  /\ app # "down"
  /\ Ends /\ clash' = IF clash = "now" THEN "past" ELSE clash
  /\ UNCHANGED <<store, disk, tmp, buffer, legacy, content, port, syncs, history, edits, second>>

FinalizeClose ==
  /\ Idle /\ MayEnd
  /\ Save(applied, "close") /\ loose' = {}
  /\ UNCHANGED <<store, app, content, service, sync, unserved, edits, kills, second>>

RestartApp ==
  /\ Idle /\ dirty /\ MayEnd
  /\ applied' = draft /\ dirty' = FALSE /\ loose' = {}
  /\ Save(draft, "close")
  /\ UNCHANGED <<draft, app, content, service, sync, unserved, edits, kills, second>>

Closed ==
  /\ Saved("close") /\ Rename /\ tmp' = Gone
  /\ Ends
  /\ UNCHANGED <<store, buffer, content, port, syncs, history, edits, second>>

(* A second process, started while this one runs: it loads, moves the data *)
(* and saves what it has loaded, and only then finds that it is the        *)
(* second.  It copies data that is in use.                                 *)
GuestLoads ==
  /\ app = "up" /\ guest = Gone /\ launches < MaxLaunches /\ Spare
  /\ launches' = launches + 1
  /\ \/ /\ MoveNot(Load)
        /\ guest' = Moved(Load) /\ behind' = behind \cup Found(Load)
        /\ UNCHANGED data
     \/ /\ ~MoveNot(Load)
        /\ \E copy \in {data[Load.last_resolved], -1, 0}:
             /\ data' = [data EXCEPT ![Load.dir] = copy]
             /\ guest' \in IF copy = -1 THEN {Load, Moved(Load)}
                          ELSE IF copy = 0 THEN {Load} ELSE {Moved(Load)}
        /\ behind' = behind \cup {Load.dir}
  /\ UNCHANGED <<store, file, app, newest, opened, service, sync, history, edits, kills>>

GuestSaves ==
  /\ guest # Gone /\ guest' = Gone
  /\ IF at = "idle"
       THEN disk' = guest /\ tmp' = Gone /\ clash' = "no"
       ELSE disk' \in {guest, Torn} /\ clash' = "now" /\ UNCHANGED tmp
  /\ legacy' = FALSE
  /\ loose' = loose \cup Differ(guest, applied)
  /\ UNCHANGED <<store, buffer, at, app, content, service, sync, unserved, launches, edits,
                 kills>>

GuestDies ==
  /\ guest # Gone /\ guest' = Gone
  /\ UNCHANGED <<store, file, app, content, service, sync, history, launches, edits, kills>>

Guest == GuestLoads \/ GuestSaves \/ GuestDies

User == \/ SettingChanged \/ PathChanged \/ TrackerEdited \/ GenerateSecret
        \/ ApplySettings \/ Discard \/ SaveDirectly \/ SpeedLimitChanged
        \/ SyncTrackers \/ FinalizeClose \/ RestartApp

Step == \/ Write \/ SaveEnds \/ MigrateLegacy \/ LegacyMigrated \/ Start \/ CopyBegins \/ CopyEnds
        \/ Initialise \/ InitialServe \/ Bind \/ Dropped \/ Applied \/ Closed

Next == \/ User \/ Step \/ Guest \/ CheckTrackerAutoSync \/ TrackersSynced
        \/ TrackerSyncTimedOut \/ DataChanges \/ Kill

Spec == Init /\ [][Next]_vars

-----------------------------------------------------------------------------
(* Draft, applied and saved settings, the files of a move and the flags of  *)
(* a synchronisation have these values.                                     *)
TypeOK ==
  /\ draft \in Record /\ applied \in Record /\ buffer \in Record
  /\ dirty \in BOOLEAN
  /\ disk \in Record \cup {Torn} /\ tmp \in Record \cup {Torn, Gone}
  /\ at \in {"idle", "done", "init", "serve", "apply", "close"}
  /\ legacy \in BOOLEAN /\ clash \in {"no", "now", "past"}
  /\ app \in {"down", "rewriting", "migrating", "starting", "up"}
  /\ guest \in Record \cup {Gone} /\ launches \in 0..MaxLaunches
  /\ data \in [Dirs -> -1..MaxChanges] /\ newest \in 1..MaxChanges /\ opened \in Dirs /\ behind \subseteq Dirs
  /\ server \in {"off", "binding", "serving", "failed"}
  /\ port \in Ports /\ dying \subseteq Ports
  /\ told \in {"nothing", "restarting", "failed", "stopped"}
  /\ syncing \in BOOLEAN
  /\ fetches \in 0..MaxSyncs /\ timers \in 0..MaxSyncs /\ syncs \in 0..MaxSyncs
  /\ loose \subseteq Field /\ unserved \in BOOLEAN
  /\ edits \in 0..MaxEdits /\ kills \in 0..MaxKills

(* settings.rs:1100: wherever the program is killed during a save, the     *)
(* file that the next start reads is whole, with the settings before the   *)
(* save or after.  Two ways of writing it are not that safe: the file of   *)
(* an older version is rewritten in place (settings.rs:1095), and a second *)
(* process that saves during a save shares the file that is renamed.       *)
DiskWhole == disk \in Record \/ legacy \/ clash # "no"

(* Whenever the program is idle, the file holds what is applied, but for   *)
(* the fields that were drafts when something else was saved, those the    *)
(* speed popover applied, a secret that the server made for itself, and     *)
(* those that a second process, which had read the file earlier, put back:  *)
(* a save of a synchronisation, a discard and an apply all take back what   *)
(* had slipped into the file.  A file that DiskWhole excepts holds nothing. *)
AppliedIsSaved ==
  Idle /\ disk \in Record => \A f \in Field: disk[f] # applied[f] => f \in loose

(* migrations.rs:61: however often the data is moved, and wherever a move  *)
(* fails or is killed, some directory has the newest data whole.           *)
NewestDataKept == \E d \in Dirs: data[d] = newest

(* migrations.rs:118: what the program opens is the newest data, however   *)
(* often the directory was changed and wherever a move was killed: but for *)
(* a directory that held something when a move came to it, an earlier move *)
(* cut short included, or to which a move failed or came from a second     *)
(* process, and for the first directory after the file was lost.           *)
OpensNewest == app = "up" => data[opened] = newest \/ opened \in behind

(* extension_api.rs:160: a server that was switched off, or moved, by an   *)
(* apply no longer answers, unless the popover applied the change.         *)
ServesAsApplied ==
  Idle /\ ~unserved /\ server # "off" => applied.enabled /\ port = applied.port

(* A synchronisation ends: the border animates until then and no other can *)
(* be started (settings/mod.rs:744).  While one is under way a timer runs  *)
(* that will end it, whatever answers and timers of earlier ones, which    *)
(* nothing tells apart from its own, come in the middle of it.             *)
SyncHasTimer == syncing => timers > 0

(* Wherever the program is killed, neither the settings nor the newest     *)
(* data are lost (config::save, run_pending).                              *)
DataKept == TypeOK /\ DiskWhole /\ NewestDataKept

(* The file and the extension's server follow what is applied, whatever    *)
(* was edited, discarded or saved on the side (apply_settings,             *)
(* revert_apply_settings, restart), and the synchronisation that changes   *)
(* and saves them does not go on for ever.                                 *)
SettingsConsistent == AppliedIsSaved /\ ServesAsApplied /\ SyncHasTimer

=============================================================================
