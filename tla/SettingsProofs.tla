--------------------------- MODULE SettingsProofs ---------------------------
(***************************************************************************)
(* Proofs about what the user sets.  The first part is about Settings, for *)
(* every set of ports and of directories, and for any number of edits,     *)
(* synchronisations, ends and changes.  The second part is about Details,  *)
(* for any downloads with any files, in paths of any depth.                *)
(***************************************************************************)
EXTENDS Settings, Details, WellFoundedInduction, TLAPS

(* Nothing is saved before the start, and what it saves is what it begins  *)
(* with.                                                                   *)
SavingInv ==
  /\ app \in {"down", "rewriting", "migrating"} => at = "idle" /\ server = "off"
  /\ app = "starting" <=> at = "init"
  /\ app = "starting" => server = "off"
  /\ at = "serve" => buffer = applied /\ buffer.secret # 0 /\ server = "off"
  /\ at = "apply" => buffer = draft

(* What is in the file, or on its way there, differs from what is applied  *)
(* in the loose fields only; a file that does not parse holds nothing.     *)
Near(s) == \A f \in Field: s[f] # applied[f] => f \in loose
NearInv ==
  app = "up" => /\ at = "idle" /\ disk \in Record => Near(disk)
                /\ at = "done" => Near(buffer)

(* The server is the one that is applied until a restart applies drafts.   *)
ServerInv ==
  app = "up" /\ at \in {"idle", "done", "apply"} /\ ~unserved /\ server # "off"
    => applied.enabled /\ port = applied.port

(* What is rewritten in place is a file of an older version.              *)
LegacyInv == app = "rewriting" => legacy /\ guest = Gone

(* Each synchronisation has one answer and one timer. *)
SyncInv == fetches <= syncs /\ timers <= syncs /\ SyncHasTimer

IInv == DataKept /\ LegacyInv /\ SavingInv /\ NearInv /\ ServerInv /\ SyncInv

LEMMA FieldsListed ==
  Field = {"options", "trackers", "dir", "last_resolved", "enabled", "port", "secret"}
BY DEF Field

(* Records stay records. *)
LEMMA DefaultTyped == Default \in Record
<1>1. (CHOOSE p \in Ports: TRUE) \in Ports
  BY ConstAssumption
<1> QED
  BY <1>1, ConstAssumption DEF Default, Record

LEMMA RecordEdits ==
  ASSUME NEW s \in Record
  PROVE  /\ [s EXCEPT !.options = 1 - @] \in Record
         /\ [s EXCEPT !.enabled = ~@] \in Record
         /\ \A p \in Ports: [s EXCEPT !.port = p] \in Record
         /\ \A n \in 0..MaxSecrets: [s EXCEPT !.secret = n] \in Record
         /\ \A d \in Dirs: [s EXCEPT !.dir = d] \in Record
         /\ \A d \in Dirs: [s EXCEPT !.last_resolved = d] \in Record
         /\ \A t \in {0, 1, 2}: [s EXCEPT !.trackers = t] \in Record
<1>1. \A t \in {0, 1, 2}: t \in 0..2
  OBVIOUS
<1>2. s.options \in 0..1 /\ 1 - s.options \in 0..1
  BY DEF Record
<1> QED
  BY <1>1, <1>2 DEF Record

LEMMA SecretIsNew ==
  ASSUME draft \in Record, applied \in Record
  PROVE  NewSecret \in 1..MaxSecrets
<1>1. Load \in Record
  BY DefaultTyped DEF Load
<1> DEFINE a == draft.secret
           b == applied.secret
           c == Load.secret
<1>2. a \in 0..MaxSecrets /\ b \in 0..MaxSecrets /\ c \in 0..MaxSecrets
  BY <1>1 DEF Record
<1>3. \E s \in 1..MaxSecrets: s \notin {a, b, c}
  <2> HIDE DEF a, b, c
  <2>1. 1 \in 1..MaxSecrets /\ 2 \in 1..MaxSecrets /\ 3 \in 1..MaxSecrets /\ 4 \in 1..MaxSecrets
    BY ConstAssumption
  <2> QED
    BY <2>1, <1>2
<1> HIDE DEF a, b, c
<1> QED
  BY <1>3 DEF NewSecret, a, b, c

LEMMA LoadTyped == Load \in Record
BY DefaultTyped DEF Load

LEMMA NoFile == Torn \notin Record /\ Gone \notin Record
BY DEF Torn, Gone, Record

(* The state by the tuples in which the actions leave it alone. *)
StoreTyped == draft \in Record /\ applied \in Record /\ dirty \in BOOLEAN
FileTyped ==
  /\ disk \in Record \cup {Torn} /\ tmp \in Record \cup {Torn, Gone} /\ buffer \in Record
  /\ at \in {"idle", "done", "init", "serve", "apply", "close"}
  /\ legacy \in BOOLEAN /\ clash \in {"no", "now", "past"}
AppTyped == app \in {"down", "rewriting", "migrating", "starting", "up"}
ContentTyped ==
  /\ data \in [Dirs -> -1..MaxChanges] /\ newest \in 1..MaxChanges /\ opened \in Dirs
  /\ behind \subseteq Dirs
ServiceTyped ==
  /\ server \in {"off", "binding", "serving", "failed"}
  /\ port \in Ports /\ dying \subseteq Ports
  /\ told \in {"nothing", "restarting", "failed", "stopped"}
SyncTyped ==
  /\ syncing \in BOOLEAN
  /\ fetches \in 0..MaxSyncs /\ timers \in 0..MaxSyncs /\ syncs \in 0..MaxSyncs
HistoryTyped == loose \subseteq Field /\ unserved \in BOOLEAN
SecondTyped == guest \in Record \cup {Gone} /\ launches \in 0..MaxLaunches
BoundsTyped == edits \in 0..MaxEdits /\ kills \in 0..MaxKills

Typed ==
  /\ StoreTyped /\ FileTyped /\ AppTyped /\ ContentTyped /\ ServiceTyped /\ SyncTyped
  /\ HistoryTyped /\ SecondTyped /\ BoundsTyped

LEMMA TypedIsTypeOK == Typed <=> TypeOK
BY Zenon DEF Typed, TypeOK, StoreTyped, FileTyped, AppTyped, ContentTyped, ServiceTyped,
       SyncTyped, HistoryTyped, SecondTyped, BoundsTyped

LEMMA UnchangedTyped ==
  ASSUME Typed
  PROVE  /\ UNCHANGED store => StoreTyped'
         /\ UNCHANGED file => FileTyped'
         /\ UNCHANGED app => AppTyped'
         /\ UNCHANGED content => ContentTyped'
         /\ UNCHANGED service => ServiceTyped'
         /\ UNCHANGED sync => SyncTyped'
         /\ UNCHANGED history => HistoryTyped'
         /\ UNCHANGED second => SecondTyped'
         /\ UNCHANGED <<edits, kills>> => BoundsTyped'
BY DEF Typed, StoreTyped, FileTyped, AppTyped, ContentTyped, ServiceTyped, SyncTyped,
       HistoryTyped, SecondTyped, BoundsTyped, store, file, content, service, sync, history, second

LEMMA SaveTyped ==
  ASSUME FileTyped, NEW s \in Record, NEW then \in {"done", "init", "serve", "apply", "close"},
         Save(s, then)
  PROVE  FileTyped'
BY DEF Save, FileTyped

LEMMA RenameTyped ==
  ASSUME FileTyped, tmp \in Record, Rename
  PROVE  /\ disk' \in Record \cup {Torn} /\ legacy' \in BOOLEAN
         /\ clash' \in {"no", "now", "past"}
BY DEF Rename, FileTyped

LEMMA SpawnTyped ==
  ASSUME Typed, NEW s \in Record, SpawnServer(s), tmp \in Record, Rename
  PROVE  /\ FileTyped' /\ port' \in Ports /\ dying' \subseteq Ports
         /\ server' \in {"off", "binding"}
<1>1. port' \in Ports /\ dying' \subseteq Ports /\ server' \in {"off", "binding"}
  BY DEF SpawnServer, Abort, Typed, ServiceTyped, Record
<1>2. FileTyped'
  <2>1. NewSecret \in 0..MaxSecrets
    BY SecretIsNew, ConstAssumption DEF Typed, StoreTyped
  <2>2. [s EXCEPT !.secret = NewSecret] \in Record
    BY <2>1, RecordEdits
  <2> QED
    BY <2>2, RenameTyped DEF SpawnServer, Typed, FileTyped
<1> QED
  BY <1>1, <1>2

LEMMA EndsTyped ==
  ASSUME Typed, Ends, UNCHANGED <<port, syncs, edits>>
  PROVE  /\ AppTyped' /\ ServiceTyped' /\ SyncTyped' /\ BoundsTyped'
         /\ at' \in {"idle", "done", "init", "serve", "apply", "close"}
<1>1. AppTyped' /\ ServiceTyped' /\ at' \in {"idle", "done", "init", "serve", "apply", "close"}
  BY DEF Ends, Typed, AppTyped, ServiceTyped
<1>2. syncing' \in BOOLEAN
  BY Zenon DEF Ends
<1>3. fetches' \in 0..MaxSyncs /\ timers' \in 0..MaxSyncs /\ syncs' \in 0..MaxSyncs
  BY ConstAssumption DEF Ends, Typed, SyncTyped
<1>4. BoundsTyped'
  BY ConstAssumption DEF Ends, MayEnd, Typed, BoundsTyped
<1> QED
  BY <1>1, <1>2, <1>3, <1>4, Zenon DEF SyncTyped

LEMMA FetchTyped ==
  ASSUME Typed, SyncInv, StartTrackerFetch
  PROVE  SyncTyped' /\ SyncInv'
BY ConstAssumption DEF StartTrackerFetch, Typed, SyncTyped, SyncInv, SyncHasTimer

LEMMA DraftedTyped ==
  ASSUME Typed, NEW s \in Record, Drafted(s), UNCHANGED applied
  PROVE  StoreTyped'
<1>1. (s # applied) \in BOOLEAN
  BY Zenon
<1> QED
  BY <1>1, Zenon DEF Drafted, Typed, StoreTyped

LEMMA SecretTyped ==
  ASSUME Typed, NEW s \in Record
  PROVE  /\ [s EXCEPT !.secret = NewSecret] \in Record
         /\ [s EXCEPT !.secret = NewSecret].secret # 0
<1>1. NewSecret \in 1..MaxSecrets
  BY SecretIsNew DEF Typed, StoreTyped
<1>2. NewSecret \in 0..MaxSecrets /\ NewSecret # 0
  BY <1>1, ConstAssumption
<1>3. [s EXCEPT !.secret = NewSecret].secret = NewSecret
  BY DEF Record
<1> QED
  BY <1>2, <1>3, RecordEdits

LEMMA MovedTyped ==
  ASSUME NEW s \in Record
  PROVE  Moved(s) \in Record /\ Found(s) \subseteq Dirs
<1>1. s.dir \in Dirs
  BY DEF Record
<1> QED
  BY <1>1, RecordEdits, ConstAssumption DEF Moved, Found

LEMMA TypeStep == TypeOK /\ SyncInv /\ [Next]_vars => TypeOK'
<1> SUFFICES ASSUME Typed, SyncInv, [Next]_vars PROVE Typed'
  <2>1. Typed' <=> TypeOK'
    BY Zenon DEF Typed, TypeOK, StoreTyped, FileTyped, AppTyped, ContentTyped, ServiceTyped,
       SyncTyped, HistoryTyped, SecondTyped, BoundsTyped
  <2> QED
    BY <2>1, TypedIsTypeOK, Zenon
<1>e. edits < MaxEdits /\ edits' = edits + 1 /\ UNCHANGED kills => BoundsTyped'
  BY ConstAssumption DEF Typed, BoundsTyped
<1>1. ASSUME SettingChanged \/ PathChanged \/ TrackerEdited \/ GenerateSecret PROVE Typed'
  <2>1. PICK s \in Record: Drafted(s) /\ UNCHANGED applied
    <3>0. draft \in Record /\ 0 \in 0..MaxSecrets
      BY ConstAssumption DEF Typed, StoreTyped
    <3>1. CASE SettingChanged
      BY <3>0, <3>1, RecordEdits, Zenon DEF SettingChanged
    <3>2. CASE PathChanged
      BY <3>0, <3>2, RecordEdits DEF PathChanged
    <3>3. CASE TrackerEdited
      BY <3>0, <3>3, RecordEdits DEF TrackerEdited
    <3>4. CASE GenerateSecret
      BY <3>0, <3>4, SecretTyped DEF GenerateSecret
    <3> QED
      BY <1>1, <3>1, <3>2, <3>3, <3>4
  <2>2. StoreTyped'
    BY <2>1, DraftedTyped
  <2> QED
    BY <1>1, <1>e, <2>2, UnchangedTyped, Zenon
       DEF Typed, SettingChanged, PathChanged, TrackerEdited, GenerateSecret
<1>2. ASSUME ApplySettings PROVE Typed'
  BY <1>2, SaveTyped, UnchangedTyped DEF Typed, ApplySettings, StoreTyped
<1>3. ASSUME Discard PROVE Typed'
  <2>1. StoreTyped' /\ HistoryTyped'
    BY <1>3 DEF Typed, Discard, StoreTyped, HistoryTyped
  <2>2. FileTyped'
    BY <1>3, SaveTyped DEF Typed, Discard, StoreTyped
  <2> QED
    BY <1>3, <2>1, <2>2, UnchangedTyped, Zenon DEF Typed, Discard
<1>4. ASSUME SaveDirectly PROVE Typed'
  <2>1. HistoryTyped'
    BY <1>4 DEF Typed, SaveDirectly, HistoryTyped, Differ
  <2>2. FileTyped'
    BY <1>4, SaveTyped DEF Typed, SaveDirectly, StoreTyped
  <2> QED
    BY <1>4, <2>1, <2>2, UnchangedTyped, Zenon DEF Typed, SaveDirectly
<1>5. ASSUME SpeedLimitChanged PROVE Typed'
  <2>1. StoreTyped'
    BY <1>5, RecordEdits DEF Typed, SpeedLimitChanged, StoreTyped
  <2>2. loose' \subseteq Field
    BY <1>5 DEF Typed, SpeedLimitChanged, HistoryTyped, Differ
  <2>3. unserved' \in BOOLEAN
    BY <1>5, Zenon DEF Typed, SpeedLimitChanged, HistoryTyped
  <2> QED
    BY <1>5, <1>e, <2>1, <2>2, <2>3, UnchangedTyped, Zenon DEF Typed, SpeedLimitChanged, HistoryTyped
<1>6. ASSUME SyncTrackers \/ CheckTrackerAutoSync PROVE Typed'
  <2>1. SyncTyped'
    BY <1>6, FetchTyped DEF SyncTrackers, CheckTrackerAutoSync
  <2> QED
    BY <1>6, <2>1, UnchangedTyped, Zenon DEF Typed, SyncTrackers, CheckTrackerAutoSync
<1>7. ASSUME FinalizeClose PROVE Typed'
  <2>1. HistoryTyped'
    BY <1>7 DEF Typed, FinalizeClose, HistoryTyped
  <2>2. FileTyped'
    BY <1>7, SaveTyped DEF Typed, FinalizeClose, StoreTyped
  <2> QED
    BY <1>7, <2>1, <2>2, UnchangedTyped, Zenon DEF Typed, FinalizeClose
<1>8. ASSUME RestartApp PROVE Typed'
  <2>1. HistoryTyped' /\ StoreTyped'
    BY <1>8 DEF Typed, RestartApp, HistoryTyped, StoreTyped
  <2>2. FileTyped'
    BY <1>8, SaveTyped DEF Typed, RestartApp, StoreTyped
  <2> QED
    BY <1>8, <2>1, <2>2, UnchangedTyped, Zenon DEF Typed, RestartApp
<1>9. ASSUME Write \/ SaveEnds PROVE Typed'
  <2>1. FileTyped'
    BY <1>9, RenameTyped DEF Typed, Write, SaveEnds, Saved, FileTyped
  <2> QED
    BY <1>9, <2>1, UnchangedTyped, Zenon DEF Typed, Write, SaveEnds
<1>10. ASSUME Start PROVE Typed'
  <2>1. Load \in Record /\ Moved(Load) \in Record /\ Found(Load) \subseteq Dirs
    BY LoadTyped, MovedTyped
  <2>2. UNCHANGED <<applied, dirty, data, newest, opened, service, sync, history, edits, kills,
                    second>>
        /\ behind' = behind \cup Found(Load)
    BY <1>10 DEF Start
  <2>3. ContentTyped'
    BY <2>1, <2>2 DEF Typed, ContentTyped
  <2>4. CASE MoveNot(Load)
    <3>1. draft' = Moved(Load) /\ Save(draft', "init") /\ app' = "starting"
      BY <1>10, <2>4 DEF Start
    <3>2. FileTyped' /\ StoreTyped' /\ AppTyped'
      BY <2>1, <2>2, <3>1, SaveTyped DEF Typed, StoreTyped, AppTyped
    <3> QED
      BY <2>2, <2>3, <3>2, UnchangedTyped, Zenon DEF Typed
  <2>5. CASE ~MoveNot(Load)
    <3>1. draft' = Load /\ app' = "migrating" /\ UNCHANGED file
      BY <1>10, <2>5 DEF Start
    <3>2. StoreTyped' /\ AppTyped'
      BY <2>1, <2>2, <3>1 DEF Typed, StoreTyped, AppTyped
    <3> QED
      BY <2>2, <2>3, <3>1, <3>2, UnchangedTyped, Zenon DEF Typed
  <2> QED
    BY <2>4, <2>5
<1>11. ASSUME CopyBegins PROVE Typed'
  <2>1. -1 \in -1..MaxChanges
    BY ConstAssumption
  <2>2. ContentTyped'
    BY <1>11, <2>1 DEF Typed, CopyBegins, ContentTyped, StoreTyped, Record
  <2> QED
    BY <1>11, <2>2, UnchangedTyped, Zenon DEF Typed, CopyBegins
<1>12. ASSUME CopyEnds PROVE Typed'
  <2>1. draft.dir \in Dirs /\ draft.last_resolved \in Dirs
    BY DEF Typed, StoreTyped, Record
  <2>2. ContentTyped' /\ StoreTyped' /\ AppTyped'
    <3>1. Moved(draft) \in Record
      BY MovedTyped DEF Typed, StoreTyped
    <3> QED
      BY <1>12, <2>1, <3>1 DEF Typed, CopyEnds, ContentTyped, StoreTyped, AppTyped
  <2>3. FileTyped'
    BY <1>12, <2>2, SaveTyped DEF Typed, CopyEnds, StoreTyped
  <2> QED
    BY <1>12, <2>2, <2>3, UnchangedTyped, Zenon DEF Typed, CopyEnds
<1>13. ASSUME Initialise PROVE Typed'
  <2>1. tmp = buffer /\ tmp \in Record /\ Rename
    BY <1>13 DEF Initialise, Saved, Typed, FileTyped
  <2>2. tmp.dir \in Dirs
    BY <2>1 DEF Record
  <2>3. AppTyped' /\ ContentTyped' /\ HistoryTyped' /\ dirty' \in BOOLEAN
    BY <1>13, <2>2 DEF Initialise, Typed, AppTyped, ContentTyped, HistoryTyped
  <2>4. CASE tmp.secret = 0
    <3>1. draft' = [tmp EXCEPT !.secret = NewSecret] /\ applied' = draft' /\ at' = "serve"
          /\ buffer' = draft' /\ tmp' = Torn /\ UNCHANGED <<server, port, dying, told>>
      BY <1>13, <2>4 DEF Initialise
    <3>2. draft' \in Record
      BY <2>1, <3>1, SecretTyped
    <3>3. FileTyped' /\ StoreTyped' /\ ServiceTyped'
      BY <2>1, <2>3, <3>1, <3>2, RenameTyped DEF FileTyped, StoreTyped, ServiceTyped, Typed
    <3> QED
      BY <1>13, <2>3, <3>3, UnchangedTyped, Zenon DEF Typed, Initialise
  <2>5. CASE tmp.secret # 0
    <3>1. draft' = tmp /\ applied' = draft' /\ SpawnServer(tmp) /\ UNCHANGED told
      BY <1>13, <2>5 DEF Initialise
    <3>2. FileTyped' /\ StoreTyped' /\ ServiceTyped'
      BY <2>1, <2>3, <3>1, SpawnTyped DEF StoreTyped, ServiceTyped, Typed
    <3> QED
      BY <1>13, <2>3, <3>2, UnchangedTyped, Zenon DEF Typed, Initialise
  <2> QED
    BY <2>4, <2>5
<1>14. ASSUME InitialServe PROVE Typed'
  <2>1. tmp \in Record /\ Rename
    BY <1>14 DEF InitialServe, Saved, Typed, FileTyped
  <2>2. FileTyped' /\ ServiceTyped'
    BY <1>14, <2>1, SpawnTyped DEF InitialServe, ServiceTyped, Typed
  <2> QED
    BY <1>14, <2>2, UnchangedTyped, Zenon DEF Typed, InitialServe
<1>15. ASSUME Bind \/ Dropped PROVE Typed'
  <2>1. ServiceTyped'
    BY <1>15 DEF Bind, Dropped, Typed, ServiceTyped
  <2> QED
    BY <1>15, <2>1, UnchangedTyped, Zenon DEF Typed, Bind, Dropped
<1>16. ASSUME Applied PROVE Typed'
  <2>1. tmp \in Record /\ Rename /\ draft \in Record
    BY <1>16 DEF Applied, Saved, Typed, FileTyped, StoreTyped
  <2>2. StoreTyped' /\ HistoryTyped'
    BY <1>16 DEF Applied, StoreTyped, HistoryTyped, Typed, Field
  <2>3. FileTyped' /\ ServiceTyped'
    <3>1. CASE Differ(draft, applied) \cap Extension # {}
      BY <1>16, <2>1, <3>1, SpawnTyped DEF Applied, ServiceTyped, Typed
    <3>2. CASE Differ(draft, applied) \cap Extension = {}
      BY <1>16, <2>1, <3>2, RenameTyped DEF Applied, FileTyped, ServiceTyped, Typed
    <3> QED
      BY <3>1, <3>2
  <2> QED
    BY <1>16, <2>2, <2>3, UnchangedTyped, Zenon DEF Typed, Applied
<1>17. ASSUME Closed PROVE Typed'
  <2>1. FileTyped' /\ AppTyped' /\ ServiceTyped' /\ SyncTyped' /\ BoundsTyped'
    BY <1>17, EndsTyped, RenameTyped DEF Closed, Saved, Typed, FileTyped
  <2> QED
    BY <1>17, <2>1, UnchangedTyped, Zenon DEF Typed, Closed
<1>18. ASSUME TrackersSynced PROVE Typed'
  <2>1. Fetched(draft) \in Record /\ Fetched(applied) \in Record
    BY RecordEdits DEF Fetched, Typed, StoreTyped
  <2>2. SyncTyped'
    <3>1. syncing' \in BOOLEAN
      BY <1>18, Zenon DEF TrackersSynced
    <3>2. fetches' \in 0..MaxSyncs /\ timers' \in 0..MaxSyncs /\ syncs' \in 0..MaxSyncs
      BY <1>18, ConstAssumption DEF TrackersSynced, SyncTyped, Typed
    <3> QED
      BY <3>1, <3>2, Zenon DEF SyncTyped
  <2>3. StoreTyped' /\ FileTyped' /\ HistoryTyped'
    <3>1. CASE UNCHANGED <<store, file, loose>>
      BY <1>18, <3>1, UnchangedTyped DEF TrackersSynced, HistoryTyped, Typed
    <3>2. CASE draft' = Fetched(draft) /\ applied' = Fetched(applied)
               /\ Save(applied', "done") /\ loose' = {} /\ UNCHANGED dirty
      <4>1. StoreTyped' /\ HistoryTyped'
        BY <1>18, <2>1, <3>2 DEF TrackersSynced, StoreTyped, HistoryTyped, Typed
      <4> QED
        BY <3>2, <4>1, SaveTyped DEF StoreTyped, Typed
    <3> QED
      BY <1>18, <3>1, <3>2 DEF TrackersSynced
  <2> QED
    BY <1>18, <2>2, <2>3, UnchangedTyped, Zenon DEF Typed, TrackersSynced
<1>19. ASSUME TrackerSyncTimedOut PROVE Typed'
  <2>1. SyncTyped'
    <3>1. syncing' \in BOOLEAN
      BY <1>19, Zenon DEF TrackerSyncTimedOut
    <3>2. fetches' \in 0..MaxSyncs /\ timers' \in 0..MaxSyncs /\ syncs' \in 0..MaxSyncs
      BY <1>19, ConstAssumption DEF TrackerSyncTimedOut, SyncTyped, Typed
    <3> QED
      BY <3>1, <3>2, Zenon DEF SyncTyped
  <2> QED
    BY <1>19, <2>1, UnchangedTyped, Zenon DEF Typed, TrackerSyncTimedOut
<1>20. ASSUME DataChanges PROVE Typed'
  <2>1. newest + 1 \in 1..MaxChanges /\ newest + 1 \in -1..MaxChanges
    BY <1>20, ConstAssumption DEF DataChanges, Typed, ContentTyped
  <2>2. ContentTyped'
    BY <1>20, <2>1 DEF DataChanges, Typed, ContentTyped
  <2> QED
    BY <1>20, <2>2, UnchangedTyped, Zenon DEF Typed, DataChanges
<1>21. ASSUME Kill PROVE Typed'
  <2>1. AppTyped' /\ ServiceTyped' /\ SyncTyped' /\ BoundsTyped'
        /\ at' \in {"idle", "done", "init", "serve", "apply", "close"}
    BY <1>21, EndsTyped DEF Kill
  <2>2. FileTyped'
    BY <1>21, <2>1 DEF Kill, Typed, FileTyped
  <2> QED
    BY <1>21, <2>1, <2>2, UnchangedTyped, Zenon DEF Typed, Kill
<1>23. ASSUME MigrateLegacy \/ LegacyMigrated PROVE Typed'
  <2>1. FileTyped' /\ AppTyped'
    BY <1>23 DEF MigrateLegacy, LegacyMigrated, Typed, FileTyped, AppTyped
  <2> QED
    BY <1>23, <2>1, UnchangedTyped, Zenon DEF Typed, MigrateLegacy, LegacyMigrated
<1>24. ASSUME GuestLoads PROVE Typed'
  <2>1. Load \in Record /\ Moved(Load) \in Record /\ Found(Load) \subseteq Dirs
        /\ Load.dir \in Dirs /\ Load.last_resolved \in Dirs
    BY LoadTyped, MovedTyped DEF Record
  <2>2. SecondTyped'
    BY <1>24, <2>1, ConstAssumption DEF GuestLoads, Typed, SecondTyped
  <2>3. ContentTyped'
    <3>1. behind' \subseteq Dirs /\ UNCHANGED <<newest, opened>>
      BY <1>24, <2>1 DEF GuestLoads, Typed, ContentTyped
    <3>2. data' \in [Dirs -> -1..MaxChanges]
      <4>1. -1 \in -1..MaxChanges /\ 0 \in -1..MaxChanges
            /\ data[Load.last_resolved] \in -1..MaxChanges
        BY <2>1, ConstAssumption DEF Typed, ContentTyped
      <4>2. data' = data \/ \E copy \in {data[Load.last_resolved], -1, 0}:
                             data' = [data EXCEPT ![Load.dir] = copy]
        BY <1>24, Zenon DEF GuestLoads
      <4> QED
        BY <4>1, <4>2 DEF Typed, ContentTyped
    <3> QED
      BY <3>1, <3>2 DEF Typed, ContentTyped
  <2> QED
    BY <1>24, <2>2, <2>3, UnchangedTyped, Zenon DEF Typed, GuestLoads
<1>25. ASSUME GuestSaves PROVE Typed'
  <2>1. FileTyped' /\ SecondTyped'
    BY <1>25 DEF GuestSaves, Typed, FileTyped, SecondTyped
  <2>2. HistoryTyped'
    BY <1>25 DEF GuestSaves, Typed, HistoryTyped, Differ
  <2> QED
    BY <1>25, <2>1, <2>2, UnchangedTyped, Zenon DEF Typed, GuestSaves
<1>26. ASSUME GuestDies PROVE Typed'
  <2>1. SecondTyped'
    BY <1>26 DEF GuestDies, Typed, SecondTyped
  <2> QED
    BY <1>26, <2>1, UnchangedTyped, Zenon DEF Typed, GuestDies
<1>22. CASE UNCHANGED vars
  BY <1>22, UnchangedTyped, Zenon DEF vars, Typed
<1> QED
  BY <1>1, <1>2, <1>3, <1>4, <1>5, <1>6, <1>7, <1>8, <1>9, <1>10, <1>11, <1>12, <1>13, <1>14,
     <1>15, <1>16, <1>17, <1>18, <1>19, <1>20, <1>21, <1>22, <1>23, <1>24, <1>25, <1>26,
     Zenon DEF Next, User, Step, Guest

LEMMA InitInv == Init => IInv
<1> SUFFICES ASSUME Init PROVE IInv
  OBVIOUS
<1>1. Default \in Record /\ [Default EXCEPT !.enabled = TRUE] \in Record
  <2>1. Default.enabled = FALSE
    BY DEF Default
  <2>2. [Default EXCEPT !.enabled = ~@] = [Default EXCEPT !.enabled = TRUE]
    BY <2>1
  <2> QED
    BY <2>2, DefaultTyped, RecordEdits
<1>2. TypeOK
  <2>1. /\ Default.port \in Ports /\ 1 \in 1..MaxChanges
        /\ \A d \in Dirs: (IF d = Home THEN 1 ELSE 0) \in -1..MaxChanges
        /\ 0 \in 0..MaxSyncs /\ 0 \in 0..MaxEdits /\ 0 \in 0..MaxKills
        /\ 0 \in 0..MaxLaunches
    <3>1. Default.port \in Ports
      BY <1>1 DEF Record
    <3> QED
      BY <3>1, ConstAssumption
  <2>2. StoreTyped /\ FileTyped
    BY <1>1, Zenon DEF Init, StoreTyped, FileTyped
  <2>3. AppTyped /\ ContentTyped
    BY <2>1, ConstAssumption DEF Init, AppTyped, ContentTyped
  <2>4. ServiceTyped /\ HistoryTyped
    BY <2>1 DEF Init, ServiceTyped, HistoryTyped
  <2>5. SyncTyped /\ SecondTyped /\ BoundsTyped
    BY <2>1, Zenon DEF Init, SyncTyped, SecondTyped, BoundsTyped
  <2> QED
    BY <2>2, <2>3, <2>4, <2>5, TypedIsTypeOK, Zenon DEF Typed
<1>3. DiskWhole
  BY <1>1 DEF Init, DiskWhole
<1>4. NewestDataKept
  BY ConstAssumption DEF Init, NewestDataKept
<1>5. LegacyInv /\ SavingInv /\ NearInv /\ ServerInv /\ SyncInv
  BY DEF Init, LegacyInv, SavingInv, NearInv, ServerInv, SyncInv, SyncHasTimer
<1> QED
  BY <1>2, <1>3, <1>4, <1>5 DEF IInv, DataKept

ClashKept == UNCHANGED clash \/ (clash = "now" /\ clash' = "past")

(* The file is replaced by a whole one, by one that two processes wrote, or *)
(* rewritten when it is one of an older version.                           *)
LEMMA DiskStep == TypeOK /\ SavingInv /\ DiskWhole /\ LegacyInv /\ [Next]_vars => DiskWhole' /\ LegacyInv'
<1> SUFFICES ASSUME TypeOK, SavingInv, DiskWhole, LegacyInv, [Next]_vars PROVE DiskWhole' /\ LegacyInv'
  OBVIOUS
<1>0. buffer \in Record
  BY DEF TypeOK
<1>1. \/ UNCHANGED <<disk, legacy>> /\ app' # "rewriting"
         /\ ClashKept
      \/ UNCHANGED <<disk, legacy, clash, app>> /\ guest' \in {guest, Gone}
      \/ Rename /\ tmp = buffer /\ app' # "rewriting"
      \/ MigrateLegacy \/ LegacyMigrated
      \/ GuestSaves
  <2>1. CASE User
    BY <2>1 DEF User, SettingChanged, PathChanged, TrackerEdited, GenerateSecret, ApplySettings,
       Discard, SaveDirectly, SpeedLimitChanged, SyncTrackers, FinalizeClose, RestartApp, Save, file,
       Idle, ClashKept
  <2>2. CASE Write \/ Start \/ CopyBegins \/ CopyEnds \/ Bind \/ Dropped
    BY <2>2 DEF Write, Start, CopyBegins, CopyEnds, Bind, Dropped, Save, file, second, ClashKept
  <2>3. CASE SaveEnds \/ InitialServe \/ Applied
    <3>1. Rename /\ tmp = buffer /\ UNCHANGED app /\ at \in {"done", "serve", "apply"}
      BY <2>3 DEF SaveEnds, InitialServe, Applied, Saved
    <3>2. CASE app # "rewriting"
      BY <3>1, <3>2
    <3>3. CASE app = "rewriting"
      BY <3>1, <3>3 DEF SavingInv
    <3> QED
      BY <3>2, <3>3
  <2>4. CASE Initialise \/ Closed
    BY <2>4 DEF Initialise, Closed, Ends, Saved
  <2>5. CASE CheckTrackerAutoSync \/ TrackersSynced \/ TrackerSyncTimedOut \/ DataChanges \/ Kill
    BY <2>5 DEF CheckTrackerAutoSync, TrackersSynced, TrackerSyncTimedOut, DataChanges, Kill, Ends,
       Save, file, Idle, ClashKept
  <2>6. CASE GuestLoads \/ GuestDies
    BY <2>6 DEF GuestLoads, GuestDies, file, ClashKept
  <2>7. CASE UNCHANGED vars
    BY <2>7 DEF vars, file, second, ClashKept
  <2> QED
    BY <2>1, <2>2, <2>3, <2>4, <2>5, <2>6, <2>7, Zenon DEF Next, Step, Guest
<1>2. CASE UNCHANGED <<disk, legacy>> /\ app' # "rewriting"
           /\ ClashKept
  BY <1>2 DEF DiskWhole, LegacyInv, ClashKept
<1>3. CASE UNCHANGED <<disk, legacy, clash, app>> /\ guest' \in {guest, Gone}
  BY <1>3 DEF DiskWhole, LegacyInv
<1>4. CASE Rename /\ tmp = buffer /\ app' # "rewriting"
  BY <1>0, <1>4 DEF Rename, DiskWhole, LegacyInv
<1>5. CASE MigrateLegacy \/ LegacyMigrated
  BY <1>0, <1>5 DEF MigrateLegacy, LegacyMigrated, DiskWhole, LegacyInv, second
<1>6. CASE GuestSaves
  <2>1. guest \in Record
    BY <1>6 DEF GuestSaves, TypeOK
  <2>2. DiskWhole'
    BY <1>6, <2>1 DEF GuestSaves, DiskWhole
  <2> QED
    BY <1>6, <2>2 DEF GuestSaves, LegacyInv
<1> QED
  BY <1>1, <1>2, <1>3, <1>4, <1>5, <1>6

(* Where the newest data is, nothing is copied to. *)
LEMMA DataStep == TypeOK /\ NewestDataKept /\ [Next]_vars => NewestDataKept'
<1> SUFFICES ASSUME TypeOK, NewestDataKept, [Next]_vars PROVE NewestDataKept'
  OBVIOUS
<1>1. PICK d \in Dirs: data[d] = newest
  BY DEF NewestDataKept
<1>2. data \in [Dirs -> -1..MaxChanges] /\ newest \in 1..MaxChanges /\ opened \in Dirs
  BY DEF TypeOK
<1>3. newest # 0 /\ newest # -1
  BY <1>2, ConstAssumption
<1>4. CASE CopyBegins
  <2>1. d # draft.dir
    BY <1>1, <1>3, <1>4 DEF CopyBegins
  <2> QED
    BY <1>1, <1>2, <1>4, <2>1 DEF CopyBegins, NewestDataKept
<1>5. CASE CopyEnds
  <2>1. d # draft.dir
    BY <1>1, <1>3, <1>5 DEF CopyEnds
  <2> QED
    BY <1>1, <1>2, <1>5, <2>1 DEF CopyEnds, NewestDataKept
<1>6. CASE DataChanges
  BY <1>2, <1>6 DEF DataChanges, NewestDataKept
<1>9. CASE GuestLoads
  <2>1. CASE MoveNot(Load)
    BY <1>1, <1>9, <2>1 DEF GuestLoads, NewestDataKept
  <2>2. CASE ~MoveNot(Load)
    <3>1. d # Load.dir
      BY <1>1, <1>3, <2>2 DEF MoveNot
    <3>2. PICK copy: data' = [data EXCEPT ![Load.dir] = copy] /\ newest' = newest
      BY <1>9, <2>2, Zenon DEF GuestLoads
    <3> QED
      BY <1>1, <1>2, <3>1, <3>2 DEF NewestDataKept
  <2> QED
    BY <2>1, <2>2
<1>7. CASE UNCHANGED <<data, newest>>
  BY <1>7 DEF NewestDataKept
<1>8. CopyBegins \/ CopyEnds \/ DataChanges \/ GuestLoads \/ UNCHANGED <<data, newest>>
  <2>1. CASE User
    BY <2>1, Zenon DEF User, SettingChanged, PathChanged, TrackerEdited, GenerateSecret,
       ApplySettings, Discard, SaveDirectly, SpeedLimitChanged, SyncTrackers, FinalizeClose,
       RestartApp, content
  <2>2. CASE Step
    BY <2>2, Zenon DEF Step, Write, SaveEnds, MigrateLegacy, LegacyMigrated, Start, Initialise, InitialServe,
       Bind, Dropped, Applied, Closed, content
  <2>3. CASE CheckTrackerAutoSync \/ TrackersSynced \/ TrackerSyncTimedOut \/ DataChanges \/ Kill
    BY <2>3, Zenon DEF CheckTrackerAutoSync, TrackersSynced, TrackerSyncTimedOut, Kill, content
  <2>4. CASE UNCHANGED vars
    BY <2>4, Zenon DEF vars, content
  <2>5. CASE Guest
    BY <2>5, Zenon DEF Guest, GuestSaves, GuestDies, content
  <2> QED
    BY <2>1, <2>2, <2>3, <2>4, <2>5, Zenon DEF Next
<1> QED
  BY <1>4, <1>5, <1>6, <1>7, <1>8, <1>9

(* What a save or a new server leaves to be written. *)
LEMMA Spawned ==
  ASSUME Typed, NEW s \in Record, SpawnServer(s)
  PROVE  /\ at' \in {"idle", "done"}
         /\ server' # "off" => s.enabled /\ port' = s.port
         /\ at' = "done" => /\ s.enabled /\ s.secret = 0
                            /\ \A f \in Field: buffer'[f] # s[f] => f = "secret"
<1>1. at' \in {"idle", "done"} /\ (server' # "off" => s.enabled /\ port' = s.port)
  BY DEF SpawnServer
<1>2. ASSUME at' = "done"
      PROVE  /\ s.enabled /\ s.secret = 0
             /\ \A f \in Field: buffer'[f] # s[f] => f = "secret"
  <2>1. s.enabled /\ s.secret = 0 /\ buffer' = [s EXCEPT !.secret = NewSecret]
    BY <1>2 DEF SpawnServer
  <2>2. \A f \in Field: f # "secret" => [s EXCEPT !.secret = NewSecret][f] = s[f]
    BY FieldsListed DEF Record
  <2> QED
    BY <2>1, <2>2
<1> QED
  BY <1>1, <1>2

Follows == SavingInv /\ NearInv /\ ServerInv

(* Most of what happens while nothing is saved touches none of it. *)
LEMMA Aside ==
  ASSUME Follows, UNCHANGED <<applied, file, app, loose, unserved>>,
         at = "idle" \/ UNCHANGED draft,
         UNCHANGED <<server, port>> \/ (server \notin {"off"} /\ UNCHANGED port)
  PROVE  Follows'
<1>1. NearInv'
  BY DEF Follows, NearInv, Near, file
<1>2. SavingInv'
  BY DEF Follows, SavingInv, file
<1>3. ServerInv'
  BY DEF Follows, ServerInv, file
<1> QED
  BY <1>1, <1>2, <1>3 DEF Follows

(* A save of the settings that are applied, or of the drafts. *)
LEMMA SaveFollows ==
  ASSUME Follows, Idle, NEW s, NEW then \in {"done", "apply", "close"}, Save(s, then),
         UNCHANGED <<app, service, unserved>>,
         \/ UNCHANGED <<applied>>
         \/ /\ then = "close"
         \/ applied'.enabled = applied.enabled /\ applied'.port = applied.port,
         then = "apply" => s = draft /\ UNCHANGED draft,
         then = "done" => Near(s)'
  PROVE  Follows'
<1>1. at' = then /\ buffer' = s /\ app' = "up" /\ UNCHANGED <<server, port>>
  BY DEF Save, Idle, service
<1>2. NearInv'
  BY <1>1 DEF NearInv, Near
<1>3. SavingInv'
  BY <1>1 DEF Follows, SavingInv, Idle
<1>4. ServerInv'
  BY <1>1 DEF Follows, ServerInv, Idle
<1> QED
  BY <1>2, <1>3, <1>4 DEF Follows

(* A file that was renamed and parses is the one beside it. *)
LEMMA Renamed == Rename /\ disk' \in Record => disk' = tmp
BY NoFile DEF Rename

LEMMA FollowStep == Typed /\ Follows /\ [Next]_vars => Follows'
<1> SUFFICES ASSUME Typed, Follows, [Next]_vars PROVE Follows'
  OBVIOUS
<1>0. draft \in Record /\ applied \in Record
  BY DEF Typed, StoreTyped
<1>1. ASSUME SettingChanged \/ PathChanged \/ TrackerEdited \/ GenerateSecret PROVE Follows'
  <2>1. Idle /\ UNCHANGED <<applied, file, app, service, history>>
    BY <1>1, Zenon DEF SettingChanged, PathChanged, TrackerEdited, GenerateSecret
  <2> QED
    BY <2>1, Aside DEF Idle, service, history
<1>2. ASSUME ApplySettings PROVE Follows'
  BY <1>2, SaveFollows DEF ApplySettings, store, history
<1>3. ASSUME Discard PROVE Follows'
  <2>1. Near(applied)'
    BY <1>3 DEF Near, Discard
  <2> QED
    BY <1>3, <2>1, SaveFollows DEF Discard
<1>4. ASSUME SaveDirectly PROVE Follows'
  <2>1. Near(draft)'
    BY <1>4 DEF Near, SaveDirectly, Differ, store
  <2> QED
    BY <1>4, <2>1, SaveFollows DEF SaveDirectly, store
<1>5. ASSUME SpeedLimitChanged PROVE Follows'
  <2>1. /\ app' = "up" /\ at' = "idle" /\ UNCHANGED <<disk, server, port>>
        /\ (disk \in Record => Near(disk))
        /\ applied' = draft' /\ draft' = [draft EXCEPT !.options = 1 - @]
        /\ loose' = loose \cup Differ(draft', applied)
        /\ unserved' = (unserved \/ Differ(draft, applied) \cap Extension # {})
    BY <1>5 DEF SpeedLimitChanged, Idle, file, service, Follows, NearInv
  <2>2. NearInv'
    BY <2>1 DEF NearInv, Near, Differ
  <2>3. SavingInv'
    BY <2>1 DEF SavingInv
  <2>4. ServerInv'
    <3>1. draft'.enabled = draft.enabled /\ draft'.port = draft.port
      BY <1>0, <2>1 DEF Record
    <3> SUFFICES ASSUME ~unserved', server' # "off"
                 PROVE  applied'.enabled /\ port' = applied'.port
      BY DEF ServerInv
    <3>2. ~unserved /\ Differ(draft, applied) \cap Extension = {}
      BY <2>1, Zenon
    <3>3. draft["enabled"] = applied["enabled"] /\ draft["port"] = applied["port"]
      BY <3>2, FieldsListed DEF Differ, Extension
    <3>4. applied.enabled /\ port = applied.port
      BY <1>5, <2>1, <3>2 DEF SpeedLimitChanged, Idle, Follows, ServerInv
    <3>5. draft.enabled = applied.enabled /\ draft.port = applied.port
      BY <3>3
    <3> QED
      BY <2>1, <3>1, <3>4, <3>5
  <2> QED
    BY <2>2, <2>3, <2>4 DEF Follows
<1>6. ASSUME SyncTrackers \/ CheckTrackerAutoSync PROVE Follows'
  BY <1>6, Aside DEF SyncTrackers, CheckTrackerAutoSync, store, service, history
<1>7. ASSUME FinalizeClose PROVE Follows'
  BY <1>7, SaveFollows DEF FinalizeClose, store
<1>8. ASSUME RestartApp PROVE Follows'
  BY <1>8, SaveFollows DEF RestartApp
<1>9. ASSUME Write PROVE Follows'
  BY <1>9 DEF Write, Follows, SavingInv, NearInv, Near, ServerInv, store, service, history
<1>10. ASSUME SaveEnds PROVE Follows'
  <2>1. /\ at = "done" /\ at' = "idle" /\ (disk' \in Record => disk' = buffer)
        /\ UNCHANGED <<draft, applied, app, server, port, loose, unserved, buffer>>
    BY <1>10, Renamed DEF SaveEnds, Saved, store, service, history
  <2>2. SavingInv' /\ ServerInv'
    BY <2>1 DEF Follows, SavingInv, ServerInv
  <2>3. NearInv'
    BY <2>1 DEF Follows, NearInv, Near
  <2> QED
    BY <2>2, <2>3 DEF Follows
<1>11. ASSUME Start PROVE Follows'
  <2>1. /\ app = "down" /\ UNCHANGED server
        /\ \/ app' = "starting" /\ at' = "init"
           \/ app' = "migrating" /\ UNCHANGED at
    BY <1>11 DEF Start, Save, service, file
  <2> QED
    BY <2>1 DEF Follows, SavingInv, NearInv, ServerInv
<1>12. ASSUME CopyBegins \/ CopyEnds PROVE Follows'
  <2>1. /\ app = "migrating" /\ UNCHANGED server
        /\ \/ app' = "starting" /\ at' = "init"
           \/ app' = "migrating" /\ UNCHANGED at
    BY <1>12 DEF CopyBegins, CopyEnds, Save, service, file
  <2> QED
    BY <2>1 DEF Follows, SavingInv, NearInv, ServerInv
<1>13. ASSUME Initialise PROVE Follows'
  <2>1. tmp \in Record /\ (disk' \in Record => disk' = tmp) /\ app' = "up" /\ applied' = draft'
    BY <1>13, Renamed DEF Initialise, Saved, Typed, FileTyped
  <2>2. CASE tmp.secret = 0
    <3>1. /\ draft' = [tmp EXCEPT !.secret = NewSecret] /\ at' = "serve"
          /\ buffer' = draft' /\ UNCHANGED server /\ server = "off"
      BY <1>13, <2>2 DEF Initialise, Saved, Follows, SavingInv
    <3>2. draft'.secret # 0
      BY <2>1, <3>1, SecretTyped
    <3> QED
      BY <2>1, <3>1, <3>2 DEF Follows, SavingInv, NearInv, ServerInv
  <2>3. CASE tmp.secret # 0
    <3>1. draft' = tmp /\ SpawnServer(tmp)
      BY <1>13, <2>3 DEF Initialise
    <3>2. at' = "idle" /\ (server' # "off" => tmp.enabled /\ port' = tmp.port)
      BY <2>1, <2>3, <3>1, Spawned
    <3> QED
      BY <2>1, <3>1, <3>2 DEF Follows, SavingInv, NearInv, Near, ServerInv
  <2> QED
    BY <2>2, <2>3
<1>14. ASSUME InitialServe PROVE Follows'
  <2>1. /\ tmp \in Record /\ (disk' \in Record => disk' = tmp)
        /\ SpawnServer(tmp) /\ tmp = applied /\ tmp.secret # 0
        /\ UNCHANGED <<applied, app, loose, unserved>>
    BY <1>14, Renamed DEF InitialServe, Saved, Typed, FileTyped, Follows, SavingInv, store, history
  <2>2. at' = "idle" /\ (server' # "off" => tmp.enabled /\ port' = tmp.port)
    BY <2>1, Spawned
  <2>3. app' \notin {"down", "rewriting", "migrating", "starting"}
    BY <1>14, <2>1 DEF InitialServe, Saved, Follows, SavingInv
  <2> QED
    BY <2>1, <2>2, <2>3 DEF Follows, SavingInv, NearInv, Near, ServerInv
<1>15. ASSUME Bind \/ Dropped PROVE Follows'
  <2>1. UNCHANGED <<store, file, app, history, port>>
        /\ (UNCHANGED server \/ (server # "off" /\ app = "up" /\ server' # "off"))
    BY <1>15 DEF Bind, Dropped
  <2> QED
    BY <2>1 DEF Follows, SavingInv, NearInv, Near, ServerInv, store, file, history
<1>16. ASSUME Applied PROVE Follows'
  <2>1. /\ tmp \in Record /\ (disk' \in Record => disk' = tmp)
        /\ tmp = draft /\ applied' = draft /\ app' = app
        /\ at = "apply" /\ UNCHANGED draft
        /\ loose' = IF draft.enabled /\ draft.secret = 0 THEN {"secret"} ELSE {}
    BY <1>16, Renamed DEF Applied, Saved, Typed, FileTyped, Follows, SavingInv
  <2>2. app \notin {"down", "rewriting", "migrating", "starting"}
    BY <2>1 DEF Follows, SavingInv
  <2>3. CASE Differ(draft, applied) \cap Extension # {}
    <3>1. SpawnServer(draft)
      BY <1>16, <2>3 DEF Applied
    <3>2. /\ at' \in {"idle", "done"}
          /\ server' # "off" => draft.enabled /\ port' = draft.port
          /\ at' = "done" => /\ draft.enabled /\ draft.secret = 0
                             /\ \A f \in Field: buffer'[f] # draft[f] => f = "secret"
      BY <1>0, <3>1, Spawned
    <3>3. SavingInv' /\ ServerInv'
      BY <2>1, <2>2, <3>2 DEF SavingInv, ServerInv
    <3>4. NearInv'
      BY <2>1, <3>2 DEF NearInv, Near
    <3> QED
      BY <3>3, <3>4 DEF Follows
  <2>4. CASE Differ(draft, applied) \cap Extension = {}
    <3>1. at' = "idle" /\ UNCHANGED <<server, port, unserved>>
      BY <1>16, <2>4 DEF Applied
    <3>2. draft["enabled"] = applied["enabled"] /\ draft["port"] = applied["port"]
      BY <2>4, FieldsListed DEF Differ, Extension
    <3>3. draft.enabled = applied.enabled /\ draft.port = applied.port
      BY <3>2
    <3>4. SavingInv' /\ NearInv'
      BY <2>1, <2>2, <3>1 DEF SavingInv, NearInv, Near
    <3>5. ServerInv'
      BY <2>1, <3>1, <3>3 DEF Follows, ServerInv
    <3> QED
      BY <3>4, <3>5 DEF Follows
  <2> QED
    BY <2>3, <2>4
<1>17. ASSUME Closed \/ Kill PROVE Follows'
  <2>1. app' = "down" /\ at' = "idle" /\ server' = "off"
    BY <1>17 DEF Closed, Kill, Ends
  <2> QED
    BY <2>1 DEF Follows, SavingInv, NearInv, ServerInv
<1>18. ASSUME TrackersSynced PROVE Follows'
  <2>0. Idle /\ UNCHANGED <<app, service, unserved>>
    BY <1>18 DEF TrackersSynced
  <2>1. CASE UNCHANGED <<store, file, loose>>
    BY <2>0, <2>1, Aside DEF store, service
  <2>2. CASE /\ applied' = Fetched(applied)
             /\ Save(applied', "done") /\ loose' = {}
    <3>1. applied'.enabled = applied.enabled /\ applied'.port = applied.port
      BY <1>0, <2>2 DEF Fetched, Record
    <3>2. Near(applied)'
      BY DEF Near
    <3> DEFINE s == applied'
    <3>3. Save(s, "done")
      BY <2>2
    <3>4. at' = "done" /\ buffer' = applied' /\ app' = "up" /\ UNCHANGED <<server, port>>
      BY <2>0, <2>2 DEF Save, Idle, service
    <3>5. SavingInv' /\ NearInv'
      BY <3>4 DEF SavingInv, NearInv, Near
    <3>6. ServerInv'
      BY <2>0, <3>1, <3>4 DEF Follows, ServerInv, Idle
    <3> QED
      BY <3>5, <3>6 DEF Follows
  <2> QED
    BY <1>18, <2>1, <2>2 DEF TrackersSynced
<1>19. ASSUME TrackerSyncTimedOut \/ DataChanges PROVE Follows'
  BY <1>19, Aside DEF TrackerSyncTimedOut, DataChanges, store, service, history
<1>21. ASSUME MigrateLegacy \/ LegacyMigrated PROVE Follows'
  BY <1>21 DEF MigrateLegacy, LegacyMigrated, Follows, SavingInv, NearInv, ServerInv, service
<1>22. ASSUME GuestLoads \/ GuestDies PROVE Follows'
  BY <1>22, Aside DEF GuestLoads, GuestDies, store, service, history
<1>23. ASSUME GuestSaves PROVE Follows'
  <2>1. /\ UNCHANGED <<draft, applied, buffer, at, app, server, port, unserved>>
        /\ at = "idle" => disk' = guest
        /\ loose' = loose \cup Differ(guest, applied)
    BY <1>23 DEF GuestSaves, store, service
  <2>2. SavingInv' /\ ServerInv'
    BY <2>1 DEF Follows, SavingInv, ServerInv
  <2>3. NearInv'
    BY <2>1 DEF Follows, NearInv, Near, Differ
  <2> QED
    BY <2>2, <2>3 DEF Follows
<1>20. CASE UNCHANGED vars
  BY <1>20, Aside DEF vars, store, service, history
<1> QED
  BY <1>1, <1>2, <1>3, <1>4, <1>5, <1>6, <1>7, <1>8, <1>9, <1>10, <1>11, <1>12, <1>13, <1>14,
     <1>15, <1>16, <1>17, <1>18, <1>19, <1>20, <1>21, <1>22, <1>23, Zenon
     DEF Next, User, Step, Guest

LEMMA SyncStep == TypeOK /\ SyncInv /\ [Next]_vars => SyncInv'
<1> SUFFICES ASSUME TypeOK, SyncInv, [Next]_vars PROVE SyncInv'
  OBVIOUS
<1>t. fetches \in Nat /\ timers \in Nat /\ syncs \in Nat
  BY ConstAssumption DEF TypeOK
<1>1. ASSUME StartTrackerFetch PROVE SyncInv'
  BY <1>1, <1>t DEF StartTrackerFetch, SyncInv, SyncHasTimer
<1>2. ASSUME Ends, UNCHANGED syncs PROVE SyncInv'
  BY <1>2, <1>t DEF Ends, SyncInv, SyncHasTimer
<1>3. ASSUME TrackersSynced \/ TrackerSyncTimedOut PROVE SyncInv'
  BY <1>3, <1>t DEF TrackersSynced, TrackerSyncTimedOut, SyncInv, SyncHasTimer
<1>4. ASSUME UNCHANGED sync PROVE SyncInv'
  BY <1>4 DEF sync, SyncInv, SyncHasTimer
<1>5. CASE User
  <2>1. StartTrackerFetch \/ UNCHANGED sync
    BY <1>5, Zenon DEF User, SettingChanged, PathChanged, TrackerEdited, GenerateSecret,
       ApplySettings, Discard, SaveDirectly, SpeedLimitChanged, SyncTrackers, FinalizeClose,
       RestartApp
  <2> QED
    BY <1>1, <1>4, <2>1
<1>6. CASE Step
  <2>1. (Ends /\ UNCHANGED syncs) \/ UNCHANGED sync
    BY <1>6, Zenon DEF Step, Write, SaveEnds, MigrateLegacy, LegacyMigrated, Start, CopyBegins, CopyEnds, Initialise,
       InitialServe, Bind, Dropped, Applied, Closed
  <2> QED
    BY <1>2, <1>4, <2>1
<1>7. CASE CheckTrackerAutoSync \/ TrackersSynced \/ TrackerSyncTimedOut \/ DataChanges \/ Kill
  <2>1. \/ StartTrackerFetch \/ TrackersSynced \/ TrackerSyncTimedOut
        \/ (Ends /\ UNCHANGED syncs) \/ UNCHANGED sync
    BY <1>7, Zenon DEF CheckTrackerAutoSync, DataChanges, Kill
  <2> QED
    BY <1>1, <1>2, <1>3, <1>4, <2>1
<1>8. CASE UNCHANGED vars
  BY <1>4, <1>8 DEF vars
<1>9. CASE Guest
  BY <1>4, <1>9, Zenon DEF Guest, GuestLoads, GuestSaves, GuestDies
<1> QED
  BY <1>5, <1>6, <1>7, <1>8, <1>9 DEF Next

THEOREM Inductive == Spec => []IInv
<1>1. Init => IInv
  BY InitInv
<1>2. IInv /\ [Next]_vars => IInv'
  <2> SUFFICES ASSUME IInv, [Next]_vars PROVE IInv'
    OBVIOUS
  <2>1. TypeOK' /\ SyncInv'
    BY TypeStep, SyncStep DEF IInv, DataKept
  <2>2. DiskWhole' /\ LegacyInv' /\ NewestDataKept'
    BY DiskStep, DataStep DEF IInv, DataKept
  <2>3. Follows'
    <3>1. Typed /\ Follows
      BY TypedIsTypeOK DEF IInv, DataKept, Follows
    <3> QED
      BY <3>1, FollowStep
  <2> QED
    BY <2>1, <2>2, <2>3 DEF IInv, DataKept, Follows
<1> QED
  BY <1>1, <1>2, PTL DEF Spec

(* Wherever the program is killed, some directory has the newest data and  *)
(* the settings file is whole, but for one of an older version, which load *)
(* rewrites in place, and one that two processes saved at once             *)
(* (config::save, migrate_legacy_silent_update_scope, migrate_paths).      *)
THEOREM Kept == Spec => []DataKept
<1>1. IInv => DataKept
  BY DEF IInv
<1> QED
  BY <1>1, Inductive, PTL

(* The file and the extension's server follow what is applied              *)
(* (apply_settings, revert_apply_settings, update_speed_limit), and a      *)
(* synchronisation always has a timer to end it, though nothing tells its  *)
(* answers and timers from those of another (start_tracker_fetch).         *)
THEOREM Followed == Spec => []SettingsConsistent
<1>1. IInv => SettingsConsistent
  BY DEF IInv, SettingsConsistent, AppliedIsSaved, ServesAsApplied, NearInv, Near, ServerInv,
     SyncInv, Idle
<1> QED
  BY <1>1, Inductive, PTL

-----------------------------------------------------------------------------
(* Details: the tree of the files, what is selected, and the row.          *)

(* A set of numbers that is not empty has a least member. *)
LEMMA LeastMember ==
  ASSUME NEW S, S \subseteq Nat, S # {}
  PROVE  \E n \in S: \A m \in S: n <= m
<1>1. PICK n \in S: \A m \in S: ~(<<m, n>> \in OpToRel(<, Nat))
  BY NatLessThanWellFounded, WFMin
<1>2. \A m \in S: n <= m
  <2> SUFFICES ASSUME NEW m \in S PROVE n <= m
    OBVIOUS
  <2>1. m \in Nat /\ n \in Nat /\ ~(<<m, n>> \in OpToRel(<, Nat))
    BY <1>1
  <2>2. ~(m < n)
    BY <2>1 DEF OpToRel
  <2>3. m \in Nat /\ n \in Nat
    BY <2>1
  <2> QED  BY ONLY <2>2, <2>3
<1> QED  BY <1>2

LEMMA LeastIsMin ==
  ASSUME NEW S, S \subseteq Nat, S # {}
  PROVE  Min(S) \in S
BY LeastMember DEF Min

(* build_tree takes the files one after the other: f[k] is the tree of the *)
(* first k.                                                                *)
Trees(files_, n, f) ==
  f = [k \in 0..n |-> IF k = 0 THEN {} ELSE AddFile(f[k - 1], files_[k])]

LEMMA TreesExist ==
  ASSUME NEW list, NEW n \in Nat
  PROVE  \E f: Trees(list, n, f)
<1> DEFINE Bad == {k \in Nat: ~\E f: Trees(list, k, f)}
<1> SUFFICES ASSUME Bad # {} PROVE FALSE
  OBVIOUS
<1>1. PICK k \in Bad: \A m \in Bad: k <= m
  <2> HIDE DEF Bad
  <2>1. Bad \subseteq Nat
    BY DEF Bad
  <2> QED  BY <2>1, LeastMember
<1>2. CASE k = 0
  <2>1. Trees(list, 0, [i \in 0..0 |-> {}])
    BY DEF Trees
  <2> QED  BY <1>1, <1>2, <2>1
<1>3. CASE k # 0
  <2>1. k - 1 \in Nat /\ k - 1 \notin Bad
    BY <1>1, <1>3
  <2>2. PICK f: Trees(list, k - 1, f)
    BY <2>1
  <2> DEFINE g == [i \in 0..k |-> IF i = k THEN AddFile(f[k - 1], list[k]) ELSE f[i]]
  <2>3. \A i \in 0..(k - 1): g[i] = IF i = 0 THEN {} ELSE AddFile(g[i - 1], list[i])
    <3> SUFFICES ASSUME NEW i \in 0..(k - 1)
                 PROVE  g[i] = IF i = 0 THEN {} ELSE AddFile(g[i - 1], list[i])
      OBVIOUS
    <3>1. f[i] = IF i = 0 THEN {} ELSE AddFile(f[i - 1], list[i])
      BY <2>2 DEF Trees
    <3>2. g[i] = f[i] /\ (i # 0 => g[i - 1] = f[i - 1])
      BY <2>1
    <3> QED  BY <3>1, <3>2
  <2>4. g[k] = AddFile(g[k - 1], list[k])
    BY <2>1, <1>3
  <2>5. g = [i \in 0..k |-> g[i]]
    OBVIOUS
  <2>6. \A i \in 0..k: g[i] = IF i = 0 THEN {} ELSE AddFile(g[i - 1], list[i])
    <3> HIDE DEF g
    <3>1. \A i \in 0..k: i = k \/ i \in 0..(k - 1)
      BY <1>1
    <3> QED  BY <1>3, <2>3, <2>4, <3>1
  <2>7. Trees(list, k, g)
    <3> HIDE DEF g
    <3> QED  BY <2>5, <2>6 DEF Trees
  <2> QED  BY <1>1, <2>7
<1> QED  BY <1>2, <1>3

(* The nodes of a tree: a file has the index of a file, a directory has    *)
(* none and a file below it.                                               *)
NodesFit(tree, Indices) ==
  \A n \in tree: /\ n.dir \in BOOLEAN
                 /\ n.dir => n.index = NoIndex
                 /\ ~n.dir => n.index \in Indices
DirsHold(tree) == \A n \in tree: n.dir => \E m \in Below(tree, n): ~m.dir

LEMMA SegmentsFit ==
  ASSUME NEW path \in Seq(Seq(STRING))
  PROVE  \E S: Segments(path) \in Seq(S)
<1>1. Len(path) \in Nat
  OBVIOUS
<1>2. CASE Len(path) <= MaxTreeDepth
  BY <1>2 DEF Segments
<1>3. CASE ~(Len(path) <= MaxTreeDepth)
  <2> DEFINE last  == Joined(SubSeq(path, MaxTreeDepth, Len(path)))
             front == SubSeq(path, 1, MaxTreeDepth - 1)
             S     == Seq(STRING) \cup {last}
  <2>1. Segments(path) = Append(front, last)
    BY <1>3 DEF Segments
  <2>2. front \in Seq(Seq(STRING))
    BY <1>1, <1>3, DepthAssumption
  <2> HIDE DEF last, front
  <2>3. front \in Seq(S) /\ last \in S
    BY <2>2
  <2> HIDE DEF S
  <2>4. Append(front, last) \in Seq(S)
    BY <2>3
  <2> QED  BY <2>1, <2>4
<1> QED  BY <1>2, <1>3

LEMMA PrefixIsStrict ==
  ASSUME NEW S, NEW path \in Seq(S), NEW k \in 1..(Len(path) - 1)
  PROVE  IsStrictPrefix(SubSeq(path, 1, k), path)
<1>1. Len(path) \in Nat /\ Len(SubSeq(path, 1, k)) = k
  OBVIOUS
<1>2. SubSeq(SubSeq(path, 1, k), 1, k) = SubSeq(path, 1, k)
  OBVIOUS
<1>3. SubSeq(path, 1, k) # path
  BY <1>1
<1> QED  BY <1>1, <1>2, <1>3 DEF IsStrictPrefix, IsPrefix

LEMMA AddFileFits ==
  ASSUME NEW tree, NEW Indices, NoIndex \notin Indices, NodesFit(tree, Indices), DirsHold(tree),
         NEW one \in TorrentFile, one.index \in Indices
  PROVE  NodesFit(AddFile(tree, one), Indices) /\ DirsHold(AddFile(tree, one))
<1> DEFINE path    == Segments(one.path)
           parents == {SubSeq(path, 1, k) : k \in 1 .. Len(path) - 1}
           missing == {Directory(p) : p \in {q \in parents : ~ Taken(tree, q)}}
           there   == {node \in tree : node.path = path}
           full    == \E node \in there : node.index # NoIndex
           leaf    == IF path # << >> /\ full THEN Leaf(FreePath(tree, path), one) ELSE Leaf(path, one)
           kept    == IF path # << >> /\ ~full THEN tree \ there ELSE tree
           new     == IF path # << >> /\ ~full THEN missing ELSE {}
<1>1. AddFile(tree, one) = kept \cup new \cup {leaf}
  <2>1. CASE path = << >>
    BY <2>1 DEF AddFile
  <2>2. CASE path # << >> /\ full
    BY <2>2 DEF AddFile
  <2>3. CASE path # << >> /\ ~full
    BY <2>3 DEF AddFile
  <2> QED  BY <2>1, <2>2, <2>3
<1>2. leaf.dir = FALSE /\ leaf.index = one.index
  BY DEF Leaf
<1>3. \A n \in kept: n \in tree
  OBVIOUS
<1>4. \A n \in tree: ~n.dir => n \in kept
  BY DEF NodesFit
<1>5. \A n \in new: n.dir = TRUE /\ n.index = NoIndex /\ IsStrictPrefix(n.path, leaf.path)
  <2> SUFFICES ASSUME NEW n \in new
               PROVE  n.dir = TRUE /\ n.index = NoIndex /\ IsStrictPrefix(n.path, leaf.path)
    OBVIOUS
  <2>1. path # << >> /\ ~full /\ n \in missing /\ leaf = Leaf(path, one)
    OBVIOUS
  <2>2. PICK k \in 1 .. Len(path) - 1: n = Directory(SubSeq(path, 1, k))
    BY <2>1
  <2>3. n.dir = TRUE /\ n.index = NoIndex /\ n.path = SubSeq(path, 1, k)
    BY <2>2 DEF Directory
  <2>4. PICK S: path \in Seq(S)
    BY SegmentsFit DEF TorrentFile
  <2>5. leaf.path = path
    BY <2>1 DEF Leaf
  <2> HIDE DEF path, leaf
  <2>6. IsStrictPrefix(SubSeq(path, 1, k), path)
    BY <2>4, PrefixIsStrict
  <2> QED  BY <2>3, <2>5, <2>6
<1> HIDE DEF leaf, kept, new
<1>6. NodesFit(kept \cup new \cup {leaf}, Indices)
  BY <1>2, <1>3, <1>5 DEF NodesFit
<1>7. DirsHold(kept \cup new \cup {leaf})
  <2> SUFFICES ASSUME NEW n \in kept \cup new \cup {leaf}, n.dir
               PROVE  \E m \in Below(kept \cup new \cup {leaf}, n): ~m.dir
    BY DEF DirsHold
  <2>1. CASE n \in new
    BY <1>2, <1>5, <2>1 DEF Below
  <2>2. CASE n \in kept
    <3>1. PICK m \in Below(tree, n): ~m.dir
      BY <1>3, <2>2 DEF DirsHold
    <3> QED  BY <1>4, <3>1 DEF Below
  <2> QED  BY <1>2, <2>1, <2>2
<1> QED  BY <1>1, <1>6, <1>7

LEMMA IndicesAreNumbers ==
  ASSUME NEW list \in Seq(TorrentFile) \ {<< >>}
  PROVE  IndicesOf(list) \subseteq Nat \ {NoIndex} /\ IndicesOf(list) # {}
<1>1. \A k \in DOMAIN list: list[k] \in TorrentFile /\ list[k].index \in Nat \ {NoIndex}
  <2>1. \A k \in DOMAIN list: list[k] \in TorrentFile
    <3> HIDE DEF TorrentFile
    <3> QED  OBVIOUS
  <2>2. \A x \in TorrentFile: x.index \in Nat \ {NoIndex}
    BY DEF TorrentFile
  <2> HIDE DEF TorrentFile
  <2> QED  BY <2>1, <2>2
<1>2. 1 \in DOMAIN list
  <2> HIDE DEF TorrentFile
  <2> QED  OBVIOUS
<1> QED  BY <1>1, <1>2 DEF IndicesOf

LEMMA TreeFits ==
  ASSUME NEW list \in Seq(TorrentFile) \ {<< >>}
  PROVE  NodesFit(BuildTree(list), IndicesOf(list)) /\ DirsHold(BuildTree(list))
<1> DEFINE n == Len(list)
           f == CHOOSE f: Trees(list, n, f)
<1>1. n \in Nat /\ DOMAIN list = 1..n
  OBVIOUS
<1>2. \A k \in 1..n: list[k] \in TorrentFile /\ list[k].index \in IndicesOf(list)
  <2>1. \A k \in 1..n: list[k] \in TorrentFile
    <3> HIDE DEF TorrentFile
    <3> QED  OBVIOUS
  <2> QED  BY <1>1, <2>1 DEF IndicesOf
<1>3. Trees(list, n, f)
  <2>1. \E g: Trees(list, n, g)
    BY <1>1, TreesExist
  <2> QED  BY <2>1
<1>4. BuildTree(list) = f[n]
  BY DEF BuildTree, Trees
<1> HIDE DEF n, f
<1> DEFINE Fits(tree) == NodesFit(tree, IndicesOf(list)) /\ DirsHold(tree)
           Bad == {k \in 0..n: ~Fits(f[k])}
<1>5. \A k \in 0..n: f[k] = IF k = 0 THEN {} ELSE AddFile(f[k - 1], list[k])
  BY <1>3 DEF Trees
<1>6. Bad = {}
  <2> SUFFICES ASSUME Bad # {} PROVE FALSE
    OBVIOUS
  <2>1. PICK k \in Bad: \A m \in Bad: k <= m
    <3>1. Bad \subseteq Nat
      BY <1>1
    <3> HIDE DEF Bad
    <3> QED  BY <3>1, LeastMember
  <2>2. CASE k = 0
    <3>1. f[k] = {}
      BY <1>1, <1>5, <2>2
    <3> QED  BY <2>1, <3>1 DEF NodesFit, DirsHold
  <2>3. CASE k # 0
    <3>1. k \in 1..n /\ k - 1 \in 0..n /\ k - 1 \notin Bad
      BY <1>1, <2>1, <2>3
    <3>2. NodesFit(f[k - 1], IndicesOf(list)) /\ DirsHold(f[k - 1])
      BY <3>1
    <3>3. NoIndex \notin IndicesOf(list)
      BY IndicesAreNumbers
    <3>4. f[k] = AddFile(f[k - 1], list[k])
      BY <1>5, <3>1, <2>3
    <3>5. NodesFit(f[k], IndicesOf(list)) /\ DirsHold(f[k])
      BY <1>2, <3>1, <3>2, <3>3, <3>4, AddFileFits
    <3> QED  BY <2>1, <3>5
  <2> QED  BY <2>2, <2>3
<1> QED  BY <1>1, <1>4, <1>6

LEMMA FlipsFit ==
  ASSUME NEW list \in Seq(TorrentFile) \ {<< >>}, NEW node \in BuildTree(list)
  PROVE  DescendantIndices(BuildTree(list), node) \subseteq IndicesOf(list)
<1>1. NodesFit(BuildTree(list), IndicesOf(list))
  BY TreeFits
<1> QED  BY <1>1 DEF DescendantIndices, NodesFit, Below


----------------------------------------------------------------------------
(* The parts of the state.  What is chosen is files of the download it was *)
(* chosen for, in the commands and answers under way as well.              *)

Choice(layout, g, S) == S # {} /\ S \subseteq IndicesOf(layout[g])

CmdShape == [op : {"details", "advanced", "change", "select", "shutdown"},
             gid : Gid \cup {NoGid}, files : SUBSET Nat, options : Options]
Commands(layout) ==
  {c \in CmdShape: /\ c.op # "shutdown" => c.gid \in Gid
                   /\ c.op = "select" => Choice(layout, c.gid, c.files)}

AnswerShape == [ev : {"details", "detailsFailed", "loaded", "loadFailed", "applied",
                      "applyFailed", "selectFailed"},
                gid : Gid, files : SUBSET Nat, options : Options]
Answers(layout) ==
  {e \in AnswerShape: e.ev = "details" => Choice(layout, e.gid, e.files)}

PendingShape == [gid : Gid, files : SUBSET Nat]
Pendings(layout) == {p \in PendingShape: Choice(layout, p.gid, p.files)}

DownloadsFit ==
  /\ files \in Layouts
  /\ life \in [Gid -> {"running", "finished", "completed", "gone"}]
  /\ options \in [Gid -> Options]
  /\ selected \in [Gid -> SUBSET Nat]
  /\ \A g \in Gid: Choice(files, g, selected[g])
QueuesFit == cmds \in Seq(Commands(files)) /\ events \in Seq(Answers(files))
DialogFits ==
  /\ phase \in {"closed", "open", "leaving"}
  /\ gid \in Gid \cup {NoGid} /\ (gid = NoGid <=> phase = "closed")
  /\ shown \subseteq Nat
  /\ gid # NoGid /\ shown # NotShown => Choice(files, gid, shown)
  /\ loading \in BOOLEAN /\ fetch_failed \in BOOLEAN
SelectFits ==
  /\ pending_select = NoPending \/ pending_select \in Pendings(files)
  /\ select_gen \in Nat /\ select_timers \in Seq(Nat)
EditFits ==
  /\ text \in Options
  /\ advanced_saving \in BOOLEAN /\ advanced_dirty \in BOOLEAN
  /\ advanced \in [Gid -> [out : Text, options : Options]]
RestFits ==
  /\ closing \in BOOLEAN
  /\ wanted \in [Gid -> SUBSET Nat] /\ made \in [Gid -> {"open", "leaving", "dropped"}]
  /\ inputs \in 0..MaxInputs /\ failures \in 0..MaxFailures

DetailsFit ==
  DownloadsFit /\ QueuesFit /\ DialogFits /\ SelectFits /\ EditFits /\ RestFits

(* The row follows aria2: when answers to a change are under way, the last *)
(* of them carries the options the download runs with.                     *)
Carries(queue, g, k) == queue[k].ev = "applied" /\ queue[k].gid = g
RowFollows(queue, row, runs, g) ==
  /\ row.out = "x"
  /\ (\A k \in DOMAIN queue: ~Carries(queue, g, k)) => row.options["ua"] = runs["ua"]
  /\ \A k \in DOMAIN queue:
       Carries(queue, g, k) /\ (\A m \in DOMAIN queue: m > k => ~Carries(queue, g, m))
         => queue[k].options["ua"] = runs["ua"]
RowsFollow ==
  \A g \in Gid: HasRow(g) => RowFollows(events, advanced[g], options[g], g)

DetailsInv == DetailsFit /\ RowsFollow

LEMMA LayoutFits ==
  ASSUME NEW layout \in Layouts, NEW g \in Gid
  PROVE  /\ layout[g] \in Seq(TorrentFile) \ {<< >>}
         /\ IndicesOf(layout[g]) \subseteq Nat \ {NoIndex}
         /\ IndicesOf(layout[g]) # {}
<1>1. layout[g] \in Seq(TorrentFile) \ {<< >>}
  <2> HIDE DEF TorrentFile
  <2> QED  BY DetailsAssumption
<1> QED  BY <1>1, IndicesAreNumbers

LEMMA OptionsAreTexts ==
  /\ Empty \in Options
  /\ [f \in AdvancedField |-> "x"] \in Options
  /\ \A o \in Options, f \in AdvancedField, t \in Text: [o EXCEPT ![f] = t] \in Options
  /\ \A o, n \in Options: Rewritten(o, n) \in Options /\ Rewritten(o, n)["ua"] = n["ua"]
<1>1. Empty \in Options
  BY DEF Empty, Options, Text
<1>2. [f \in AdvancedField |-> "x"] \in Options
  BY DEF Options, Text
<1>3. \A o \in Options, f \in AdvancedField, t \in Text: [o EXCEPT ![f] = t] \in Options
  BY DEF Options
<1>4. \A o, n \in Options: Rewritten(o, n) \in Options /\ Rewritten(o, n)["ua"] = n["ua"]
  BY DEF Options, Rewritten, AdvancedField
<1> QED  BY <1>1, <1>2, <1>3, <1>4

(* The commands and answers that are sent. *)
LEMMA CommandsSent ==
  ASSUME NEW layout \in Layouts
  PROVE  /\ \A g \in Gid, op \in {"details", "advanced"}: Cmd(op, g) \in Commands(layout)
         /\ \A g \in Gid, o \in Options:
              [Cmd("change", g) EXCEPT !.options = o] \in Commands(layout)
         /\ Cmd("shutdown", NoGid) \in Commands(layout)
         /\ \A p \in Pendings(layout): SelectFiles(p) \in Commands(layout)
<1>1. \A op \in {"details", "advanced", "change", "select", "shutdown"},
         g \in Gid \cup {NoGid}: Cmd(op, g) \in CmdShape /\ Cmd(op, g).op = op
                                   /\ Cmd(op, g).gid = g
  BY OptionsAreTexts DEF Cmd, CmdShape
<1>2. \A g \in Gid, o \in Options:
        LET c == [Cmd("change", g) EXCEPT !.options = o]
        IN  c \in CmdShape /\ c.op = "change" /\ c.gid = g
  BY OptionsAreTexts DEF Cmd, CmdShape
<1>3. \A p \in Pendings(layout):
        LET c == SelectFiles(p)
        IN  c \in CmdShape /\ c.op = "select" /\ c.gid = p.gid /\ c.files = p.files
  BY OptionsAreTexts DEF Cmd, CmdShape, SelectFiles, Pendings, PendingShape
<1>4. \A p \in Pendings(layout): p.gid \in Gid /\ Choice(layout, p.gid, p.files)
  BY DEF Pendings, PendingShape
<1> HIDE DEF CmdShape
<1>5. \A c \in CmdShape:
        c \in Commands(layout) <=> /\ c.op # "shutdown" => c.gid \in Gid
                                   /\ c.op = "select" => Choice(layout, c.gid, c.files)
  BY DEF Commands
<1>6. \A g \in Gid, op \in {"details", "advanced"}: Cmd(op, g) \in Commands(layout)
  BY <1>1, <1>5
<1>7. \A g \in Gid, o \in Options:
        [Cmd("change", g) EXCEPT !.options = o] \in Commands(layout)
  <2> SUFFICES ASSUME NEW g \in Gid, NEW o \in Options
               PROVE  [Cmd("change", g) EXCEPT !.options = o] \in Commands(layout)
    OBVIOUS
  <2> DEFINE c == [Cmd("change", g) EXCEPT !.options = o]
  <2>1. c \in CmdShape /\ c.op = "change" /\ c.gid = g
    BY <1>2
  <2> HIDE DEF c
  <2>2. c \in Commands(layout)
    BY <1>5, <2>1
  <2> QED  BY <2>2 DEF c
<1>8. Cmd("shutdown", NoGid) \in Commands(layout)
  BY <1>1, <1>5
<1>9. \A p \in Pendings(layout): SelectFiles(p) \in Commands(layout)
  <2> SUFFICES ASSUME NEW p \in Pendings(layout)
               PROVE  SelectFiles(p) \in Commands(layout)
    OBVIOUS
  <2> DEFINE c == SelectFiles(p)
  <2>1. c \in CmdShape /\ c.op = "select" /\ c.gid = p.gid /\ c.files = p.files
    BY <1>3
  <2> HIDE DEF c
  <2>2. c \in Commands(layout)
    BY <1>4, <1>5, <2>1
  <2> QED  BY <2>2 DEF c
<1> QED  BY <1>6, <1>7, <1>8, <1>9

LEMMA AnswersSent ==
  ASSUME NEW layout \in Layouts, NEW g \in Gid
  PROVE  /\ \A ev \in {"detailsFailed", "loadFailed", "applyFailed", "selectFailed"}:
              Answer(ev, g) \in Answers(layout) /\ Answer(ev, g).ev = ev
         /\ \A ev \in {"loaded", "applied"}, o \in Options:
              LET e == [Answer(ev, g) EXCEPT !.options = o]
              IN  e \in Answers(layout) /\ e.ev = ev /\ e.gid = g /\ e.options = o
         /\ \A S \in SUBSET Nat: Choice(layout, g, S) =>
              LET e == [Answer("details", g) EXCEPT !.files = S]
              IN  e \in Answers(layout) /\ e.ev = "details"
<1>1. \A ev \in {"detailsFailed", "loadFailed", "applyFailed", "selectFailed"}:
        Answer(ev, g) \in AnswerShape /\ Answer(ev, g).ev = ev
  BY OptionsAreTexts DEF Answer, AnswerShape
<1>2. \A ev \in {"loaded", "applied"}, o \in Options:
        LET e == [Answer(ev, g) EXCEPT !.options = o]
        IN  e \in AnswerShape /\ e.ev = ev /\ e.gid = g /\ e.options = o
  BY OptionsAreTexts DEF Answer, AnswerShape
<1>3. \A S \in SUBSET Nat:
        LET e == [Answer("details", g) EXCEPT !.files = S]
        IN  e \in AnswerShape /\ e.ev = "details" /\ e.gid = g /\ e.files = S
  BY OptionsAreTexts DEF Answer, AnswerShape
<1> HIDE DEF AnswerShape
<1>4. \A e \in AnswerShape:
        e \in Answers(layout) <=> (e.ev = "details" => Choice(layout, e.gid, e.files))
  BY DEF Answers
<1>5. \A ev \in {"detailsFailed", "loadFailed", "applyFailed", "selectFailed"}:
        Answer(ev, g) \in Answers(layout) /\ Answer(ev, g).ev = ev
  BY <1>1, <1>4
<1>6. \A ev \in {"loaded", "applied"}, o \in Options:
        LET e == [Answer(ev, g) EXCEPT !.options = o]
        IN  e \in Answers(layout) /\ e.ev = ev /\ e.gid = g /\ e.options = o
  <2> SUFFICES ASSUME NEW ev \in {"loaded", "applied"}, NEW o \in Options
               PROVE  LET e == [Answer(ev, g) EXCEPT !.options = o]
                      IN  e \in Answers(layout) /\ e.ev = ev /\ e.gid = g /\ e.options = o
    OBVIOUS
  <2> DEFINE e == [Answer(ev, g) EXCEPT !.options = o]
  <2>1. e \in AnswerShape /\ e.ev = ev /\ e.gid = g /\ e.options = o
    BY <1>2
  <2> HIDE DEF e
  <2>2. e \in Answers(layout)
    BY <1>4, <2>1
  <2> QED  BY <2>1, <2>2 DEF e
<1>7. \A S \in SUBSET Nat: Choice(layout, g, S) =>
        LET e == [Answer("details", g) EXCEPT !.files = S]
        IN  e \in Answers(layout) /\ e.ev = "details"
  <2> SUFFICES ASSUME NEW S \in SUBSET Nat, Choice(layout, g, S)
               PROVE  LET e == [Answer("details", g) EXCEPT !.files = S]
                      IN  e \in Answers(layout) /\ e.ev = "details"
    OBVIOUS
  <2> DEFINE e == [Answer("details", g) EXCEPT !.files = S]
  <2>1. e \in AnswerShape /\ e.ev = "details" /\ e.gid = g /\ e.files = S
    BY <1>3
  <2> HIDE DEF e
  <2>2. e \in Answers(layout)
    BY <1>4, <2>1
  <2> QED  BY <2>1, <2>2 DEF e
<1> QED  BY <1>5, <1>6, <1>7

LEMMA PendingsMade ==
  ASSUME NEW layout \in Layouts, NEW g \in Gid, NEW S \in SUBSET Nat, Choice(layout, g, S)
  PROVE  [gid |-> g, files |-> S] \in Pendings(layout)
BY DEF Pendings, PendingShape

LEMMA CommandParts ==
  ASSUME NEW layout, NEW c \in Commands(layout)
  PROVE  /\ c.op \in {"details", "advanced", "change", "select", "shutdown"}
         /\ c.op # "shutdown" => c.gid \in Gid
         /\ c.op = "select" => Choice(layout, c.gid, c.files)
         /\ c.files \in SUBSET Nat /\ c.options \in Options
BY DEF Commands, CmdShape

LEMMA AnswerParts ==
  ASSUME NEW layout, NEW e \in Answers(layout)
  PROVE  /\ e.gid \in Gid /\ e.files \in SUBSET Nat /\ e.options \in Options
         /\ e.ev = "details" => Choice(layout, e.gid, e.files)
BY DEF Answers, AnswerShape

(* Nothing selected is never what a flip leaves (flip_with_guard). *)
LEMMA FlipKeeps ==
  ASSUME NEW layout \in Layouts, NEW g \in Gid,
         NEW S \in SUBSET Nat, Choice(layout, g, S),
         NEW node \in BuildTree(layout[g])
  PROVE  Choice(layout, g, Flip(S, DescendantIndices(BuildTree(layout[g]), node)))
<1> DEFINE F == DescendantIndices(BuildTree(layout[g]), node)
<1>1. F \subseteq IndicesOf(layout[g])
  BY LayoutFits, FlipsFit
<1> HIDE DEF F
<1>2. Flip(S, F) \subseteq S \cup F
  BY DEF Flip
<1>3. Flip(S, F) # {}
  <2>1. CASE (S \ F) \cup (F \ S) = {}
    <3>1. S = F
      BY <2>1
    <3> QED  BY <2>1, <3>1 DEF Flip, Choice
  <2>2. CASE (S \ F) \cup (F \ S) # {}
    BY <2>2 DEF Flip
  <2> QED  BY <2>1, <2>2
<1> QED  BY <1>1, <1>2, <1>3 DEF Choice, F

LEMMA MasterKeeps ==
  ASSUME NEW layout \in Layouts, NEW g \in Gid
  PROVE  LET all == IndicesOf(layout[g])
         IN  Choice(layout, g, all) /\ Choice(layout, g, {Min(all)})
<1>1. IndicesOf(layout[g]) \subseteq Nat /\ IndicesOf(layout[g]) # {}
  BY LayoutFits
<1> QED  BY <1>1, LeastIsMin DEF Choice

----------------------------------------------------------------------------
(* The row and the answers to changes.                                     *)

LEMMA RowFollowsSent ==
  ASSUME NEW S, NEW queue \in Seq(S), NEW e, NEW row, NEW runs, NEW now, NEW g,
         RowFollows(queue, row, runs, g),
         \/ ~(e.ev = "applied" /\ e.gid = g) /\ now = runs
         \/ e.ev = "applied" /\ e.gid = g /\ e.options["ua"] = now["ua"]
  PROVE  RowFollows(Append(queue, e), row, now, g)
<1> DEFINE n == Len(queue)
           q == Append(queue, e)
<1>1. /\ n \in Nat /\ DOMAIN queue = 1..n /\ DOMAIN q = 1..(n + 1)
      /\ q[n + 1] = e /\ \A k \in 1..n: q[k] = queue[k]
  <2> DEFINE T == S \cup {e}
  <2>1. queue \in Seq(T) /\ e \in T
    OBVIOUS
  <2> HIDE DEF T
  <2> QED  BY <2>1
<1> HIDE DEF n, q
<1>2. \A k \in 1..n: Carries(q, g, k) <=> Carries(queue, g, k)
  BY <1>1 DEF Carries
<1>3. Carries(q, g, n + 1) <=> (e.ev = "applied" /\ e.gid = g)
  BY <1>1 DEF Carries
<1>4. n + 1 \in DOMAIN q /\ \A k \in 1..n: k \in DOMAIN q /\ k \in DOMAIN queue /\ n + 1 > k
  BY <1>1
<1>5. row.out = "x"
  BY DEF RowFollows
<1>6. (\A k \in DOMAIN q: ~Carries(q, g, k)) => row.options["ua"] = now["ua"]
  BY <1>1, <1>2, <1>3, <1>4 DEF RowFollows
<1>7. ASSUME NEW k \in DOMAIN q, Carries(q, g, k),
             \A m \in DOMAIN q: m > k => ~Carries(q, g, m)
      PROVE  q[k].options["ua"] = now["ua"]
  <2>1. CASE k = n + 1
    BY <1>1, <1>3, <1>7, <2>1
  <2>2. CASE k # n + 1
    <3>1. k \in 1..n
      BY <1>1, <2>2
    <3>2. ~Carries(q, g, n + 1)
      BY <1>4, <1>7, <3>1
    <3>3. now = runs
      BY <1>3, <3>2
    <3>4. \A m \in DOMAIN queue: m > k => ~Carries(queue, g, m)
      BY <1>1, <1>2, <1>4, <1>7
    <3>5. queue[k].options["ua"] = runs["ua"]
      BY <1>1, <1>2, <1>7, <3>1, <3>4 DEF RowFollows
    <3> QED  BY <1>1, <3>1, <3>3, <3>5
  <2> QED  BY <2>1, <2>2
<1>8. RowFollows(q, row, now, g)
  BY <1>5, <1>6, <1>7 DEF RowFollows
<1> QED  BY <1>8 DEF q

LEMMA RowFollowsTaken ==
  ASSUME NEW S, NEW queue \in Seq(S), queue # << >>, NEW row, NEW new, NEW runs, NEW g,
         RowFollows(queue, row, runs, g),
         \/ ~Carries(queue, g, 1) /\ new = row
         \/ Carries(queue, g, 1) /\ new.out = row.out /\ new.options = queue[1].options
  PROVE  RowFollows(Tail(queue), new, runs, g)
<1> DEFINE n == Len(queue)
           q == Tail(queue)
<1>1. /\ n \in Nat \ {0} /\ DOMAIN queue = 1..n /\ DOMAIN q = 1..(n - 1)
      /\ \A k \in 1..(n - 1): q[k] = queue[k + 1]
  OBVIOUS
<1> HIDE DEF n, q
<1>2. \A k \in 1..(n - 1): Carries(q, g, k) <=> Carries(queue, g, k + 1)
  BY <1>1 DEF Carries
<1>3. \A m \in DOMAIN queue: m = 1 \/ (m - 1 \in 1..(n - 1) /\ m = (m - 1) + 1)
  BY <1>1
<1>4. new.out = "x"
  BY DEF RowFollows
<1>5. ASSUME \A k \in DOMAIN q: ~Carries(q, g, k)
      PROVE  new.options["ua"] = runs["ua"]
  <2>1. \A m \in DOMAIN queue: m > 1 => ~Carries(queue, g, m)
    BY <1>1, <1>2, <1>3, <1>5
  <2>2. 1 \in DOMAIN queue
    BY <1>1
  <2>3. CASE Carries(queue, g, 1)
    BY <2>1, <2>2, <2>3 DEF RowFollows
  <2>4. CASE ~Carries(queue, g, 1)
    <3>1. \A m \in DOMAIN queue: m = 1 \/ m > 1
      BY <1>1
    <3>2. \A m \in DOMAIN queue: ~Carries(queue, g, m)
      BY <2>1, <2>4, <3>1
    <3> QED  BY <2>4, <3>2 DEF RowFollows
  <2> QED  BY <2>3, <2>4
<1>6. ASSUME NEW k \in DOMAIN q, Carries(q, g, k),
             \A m \in DOMAIN q: m > k => ~Carries(q, g, m)
      PROVE  q[k].options["ua"] = runs["ua"]
  <2>1. k \in 1..(n - 1) /\ k + 1 \in DOMAIN queue /\ Carries(queue, g, k + 1)
    BY <1>1, <1>2, <1>6
  <2>2. ASSUME NEW m \in DOMAIN queue, m > k + 1
        PROVE  ~Carries(queue, g, m)
    <3>1. m - 1 \in DOMAIN q /\ m - 1 > k /\ m = (m - 1) + 1
      BY <1>1, <2>1, <2>2
    <3> QED  BY <1>1, <1>2, <1>6, <3>1
  <2>3. queue[k + 1].options["ua"] = runs["ua"]
    BY <2>1, <2>2 DEF RowFollows
  <2> QED  BY <1>1, <2>1, <2>3
<1>7. RowFollows(q, new, runs, g)
  BY <1>4, <1>5, <1>6 DEF RowFollows
<1> QED  BY <1>7 DEF q

----------------------------------------------------------------------------
(* What each action keeps.                                                 *)

LEMMA InputCounts ==
  ASSUME RestFits, Input
  PROVE  inputs' \in 0..MaxInputs /\ failures' \in 0..MaxFailures
<1>1. inputs \in 0..MaxInputs /\ inputs < MaxInputs /\ inputs' = inputs + 1
  BY DEF RestFits, Input
<1>2. failures' = failures /\ failures \in 0..MaxFailures
  BY DEF RestFits, Input
<1>3. MaxInputs \in Nat
  BY DetailsAssumption
<1>4. inputs' \in 0..MaxInputs
  BY <1>1, <1>3
<1> QED  BY <1>2, <1>4

LEMMA CmdsGrow ==
  ASSUME QueuesFit, UNCHANGED <<files, events>>, cmds' \in Seq(Commands(files))
  PROVE  QueuesFit'
BY DEF QueuesFit

LEMMA OneMore ==
  ASSUME NEW S, NEW q \in Seq(S), NEW a \in S
  PROVE  Append(q, a) \in Seq(S) /\ q \o <<a>> \in Seq(S)
OBVIOUS

LEMMA TwoMore ==
  ASSUME NEW S, NEW q \in Seq(S), NEW a \in S, NEW b \in S
  PROVE  q \o <<a, b>> \in Seq(S)
OBVIOUS

LEMMA NoneShown == NotShown \in SUBSET Nat
BY DEF NotShown, NoIndex

LEMMA NothingWanted ==
  ASSUME NEW g
  PROVE  wanted \in [Gid -> SUBSET Nat] => [wanted EXCEPT ![g] = NotShown] \in [Gid -> SUBSET Nat]
BY NoneShown

LEMMA OpenKeeps ==
  ASSUME DetailsFit, NEW g \in Gid, Open(g)
  PROVE  DetailsFit'
<1> USE DEF DetailsFit, past
<1>1. UNCHANGED <<aria2, events, closing, failures, select_timers, advanced>>
  BY DEF Open, Input
<1>2. DownloadsFit'
  BY <1>1 DEF aria2, DownloadsFit
<1>3. QueuesFit'
  <2>1. Cmd("details", g) \in Commands(files) /\ Cmd("advanced", g) \in Commands(files)
    BY CommandsSent DEF DownloadsFit
  <2>2. cmds \o <<Cmd("details", g), Cmd("advanced", g)>> \in Seq(Commands(files))
    BY <2>1, TwoMore DEF QueuesFit
  <2>3. cmds' \in Seq(Commands(files))
    BY <2>2 DEF Open, QueuesFit
  <2> QED  BY <1>1, <2>3, CmdsGrow DEF aria2
<1>4. DialogFits'
  <2>1. phase' = "open" /\ gid' = g /\ shown' = NotShown
    BY DEF Open, Forget
  <2>2. loading' \in BOOLEAN /\ fetch_failed' \in BOOLEAN
    BY DEF Open, Forget
  <2>3. g # NoGid
    BY DetailsAssumption
  <2> QED  BY <2>1, <2>2, <2>3, NoneShown DEF DialogFits
<1>5. SelectFits'
  BY <1>1 DEF Open, SelectFits
<1>6. EditFits'
  <2>1. advanced[g].options \in Options
    BY DEF EditFits
  <2>2. text' \in Options /\ advanced_saving' \in BOOLEAN /\ advanced_dirty' \in BOOLEAN
    BY <2>1 DEF Open
  <2> QED  BY <1>1, <2>2 DEF EditFits
<1>7. RestFits'
  <2>1. wanted' \in [Gid -> SUBSET Nat] /\ made' \in [Gid -> {"open", "leaving", "dropped"}]
    BY DEF Open, RestFits
  <2>2. inputs' \in 0..MaxInputs /\ failures' \in 0..MaxFailures
    BY InputCounts DEF Open
  <2> QED  BY <1>1, <2>1, <2>2 DEF RestFits
<1> QED  BY <1>2, <1>3, <1>4, <1>5, <1>6, <1>7

LEMMA FlushKeeps ==
  ASSUME DetailsFit, FlushPending, UNCHANGED <<files, events, select_timers>>
  PROVE  QueuesFit' /\ SelectFits'
<1> USE DEF DetailsFit, past
<1>1. pending_select # NoPending => SelectFiles(pending_select) \in Commands(files)
  BY CommandsSent DEF SelectFits, DownloadsFit
<1>2. cmds' \in Seq(Commands(files))
  <2>1. CASE pending_select = NoPending
    BY <2>1 DEF FlushPending, QueuesFit
  <2>2. CASE pending_select # NoPending
    <3>1. Append(cmds, SelectFiles(pending_select)) \in Seq(Commands(files))
      BY <1>1, <2>2, OneMore DEF QueuesFit
    <3> QED  BY <2>2, <3>1 DEF FlushPending
  <2> QED  BY <2>1, <2>2
<1>3. QueuesFit'
  BY <1>2, CmdsGrow
<1>4. SelectFits'
  BY DEF SelectFits, FlushPending
<1> QED  BY <1>3, <1>4

LEMMA CloseKeeps ==
  ASSUME DetailsFit, Close
  PROVE  DetailsFit'
<1> USE DEF DetailsFit, past
<1>1. /\ UNCHANGED <<aria2, events, closing, failures>>
      /\ UNCHANGED <<gid, shown, loading, fetch_failed, select_timers, edit, advanced, past>>
      /\ phase = "open" /\ phase' = "leaving"
  BY DEF Close, Input
<1>2. DownloadsFit'
  BY <1>1 DEF aria2, DownloadsFit
<1>3. QueuesFit' /\ SelectFits'
  BY <1>1, FlushKeeps DEF Close, aria2
<1>4. DialogFits'
  BY <1>1 DEF DialogFits, aria2
<1>5. EditFits'
  BY <1>1 DEF edit, EditFits
<1>6. RestFits'
  <2>1. inputs' \in 0..MaxInputs /\ failures' \in 0..MaxFailures
    BY InputCounts DEF Close
  <2> QED  BY <1>1, <2>1 DEF RestFits
<1> QED  BY <1>2, <1>3, <1>4, <1>5, <1>6

LEMMA ExitedKeeps ==
  ASSUME DetailsFit, Exited
  PROVE  DetailsFit'
<1> USE DEF DetailsFit, past
<1>1. /\ UNCHANGED <<aria2, engine, select, advanced, closing, past, bounds>>
      /\ phase' = "closed" /\ gid' = NoGid /\ shown' = NotShown /\ text' = Empty
      /\ loading' = FALSE /\ fetch_failed' = FALSE
      /\ advanced_saving' = FALSE /\ advanced_dirty' = FALSE
  BY DEF Exited, Forget
<1>2. DownloadsFit'
  BY <1>1 DEF aria2, DownloadsFit
<1>3. QueuesFit'
  BY <1>1 DEF aria2, engine, QueuesFit
<1>4. DialogFits'
  BY <1>1, NoneShown DEF DialogFits
<1>5. SelectFits'
  BY <1>1 DEF aria2, select, SelectFits
<1>6. EditFits'
  BY <1>1, OptionsAreTexts DEF EditFits
<1>7. RestFits'
  BY <1>1 DEF bounds, RestFits
<1> QED  BY <1>2, <1>3, <1>4, <1>5, <1>6, <1>7

LEMMA RefreshKeeps ==
  ASSUME DetailsFit, Refresh
  PROVE  DetailsFit'
<1> USE DEF DetailsFit, past
<1>1. UNCHANGED <<aria2, events, dialog, select, edit, advanced, closing, past, bounds>>
  BY DEF Refresh
<1>2. DownloadsFit'
  BY <1>1 DEF aria2, DownloadsFit
<1>3. QueuesFit'
  <2>1. gid \in Gid
    BY DEF Refresh, Visible, DialogFits
  <2>2. Cmd("details", gid) \in Commands(files) /\ Cmd("advanced", gid) \in Commands(files)
    BY <2>1, CommandsSent DEF DownloadsFit
  <2>3. cmds' = cmds \o <<Cmd("details", gid)>>
                     \o (IF advanced_dirty THEN << >> ELSE <<Cmd("advanced", gid)>>)
    BY DEF Refresh
  <2>4. cmds \o <<Cmd("details", gid)>> \in Seq(Commands(files))
    BY <2>2, OneMore DEF QueuesFit
  <2>5. cmds' \in Seq(Commands(files))
    <3> DEFINE q == cmds \o <<Cmd("details", gid)>>
               S == Commands(files)
               c == Cmd("advanced", gid)
    <3>1. q \in Seq(S) /\ c \in S
      BY <2>2, <2>4
    <3>2. cmds' = q \o (IF advanced_dirty THEN << >> ELSE <<c>>)
      BY <2>3
    <3> HIDE DEF q, S, c
    <3>3. cmds' \in Seq(S)
      BY <3>1, <3>2
    <3> QED  BY <3>3 DEF S
  <2> QED  BY <1>1, <2>5, CmdsGrow DEF aria2
<1>4. DialogFits'
  BY <1>1 DEF dialog, aria2, DialogFits
<1>5. SelectFits'
  BY <1>1 DEF aria2, select, SelectFits
<1>6. EditFits'
  BY <1>1 DEF edit, EditFits
<1>7. RestFits'
  BY <1>1 DEF bounds, RestFits
<1> QED  BY <1>2, <1>3, <1>4, <1>5, <1>6, <1>7

LEMMA ScheduleKeeps ==
  ASSUME DetailsFit, NEW S \in SUBSET Nat, gid \in Gid, Choice(files, gid, S),
         Schedule(S), Input
  PROVE  DetailsFit'
<1> USE DEF DetailsFit, past
<1>1. /\ UNCHANGED <<aria2, events, closing, failures>>
      /\ UNCHANGED <<cmds, phase, gid, loading, fetch_failed, edit, advanced>>
      /\ shown' = S
  BY DEF Schedule, Input
<1>2. /\ pending_select' = [gid |-> gid, files |-> S] /\ select_gen' = select_gen + 1
      /\ select_timers' = Append(select_timers, select_gen + 1)
      /\ wanted' = [wanted EXCEPT ![gid] = S] /\ made' = [made EXCEPT ![gid] = phase]
  BY DEF Schedule, Choice
<1>3. DownloadsFit'
  BY <1>1 DEF aria2, DownloadsFit
<1>4. QueuesFit'
  BY <1>1 DEF aria2, QueuesFit
<1>5. DialogFits'
  BY <1>1 DEF DialogFits, aria2
<1>6. SelectFits'
  <2>1. pending_select' \in Pendings(files)
    BY <1>2, PendingsMade DEF DownloadsFit
  <2>2. select_gen' \in Nat /\ select_timers' \in Seq(Nat)
    BY <1>2 DEF SelectFits
  <2> QED  BY <1>1, <2>1, <2>2 DEF SelectFits, aria2
<1>7. EditFits'
  BY <1>1 DEF edit, EditFits
<1>8. RestFits'
  <2>1. inputs' \in 0..MaxInputs /\ failures' \in 0..MaxFailures
    BY InputCounts
  <2>2. wanted' \in [Gid -> SUBSET Nat]
    BY <1>2 DEF RestFits
  <2>3. made' \in [Gid -> {"open", "leaving", "dropped"}]
    <3>1. phase \in {"open", "leaving"}
      BY DetailsAssumption DEF DialogFits
    <3> QED  BY <1>2, <3>1 DEF RestFits
  <2> QED  BY <1>1, <2>1, <2>2, <2>3 DEF RestFits
<1> QED  BY <1>3, <1>4, <1>5, <1>6, <1>7, <1>8

LEMMA ChosenFits ==
  ASSUME DetailsFit, Editable, shown # NotShown
  PROVE  gid \in Gid /\ shown \in SUBSET Nat /\ Choice(files, gid, shown) /\ files \in Layouts
BY DEF DetailsFit, DialogFits, DownloadsFit, Editable, Visible

LEMMA ChoiceIsNat ==
  ASSUME NEW layout \in Layouts, NEW g \in Gid, NEW S, Choice(layout, g, S)
  PROVE  S \in SUBSET Nat
BY LayoutFits DEF Choice

LEMMA ToggleKeeps ==
  ASSUME DetailsFit, Toggle
  PROVE  DetailsFit'
<1>1. gid \in Gid /\ shown \in SUBSET Nat /\ Choice(files, gid, shown) /\ files \in Layouts
  BY ChosenFits DEF Toggle
<1>2. PICK node \in VisibleRows(Tree, files_expanded) :
        Schedule(Flip(shown, DescendantIndices(Tree, node)))
  BY DEF Toggle
<1>3. node \in BuildTree(files[gid])
  BY DEF VisibleRows, Tree
<1>4. Choice(files, gid, Flip(shown, DescendantIndices(Tree, node)))
  BY <1>1, <1>3, FlipKeeps DEF Tree
<1>5. Input
  BY DEF Toggle
<1> DEFINE S == Flip(shown, DescendantIndices(Tree, node))
<1>6. S \in SUBSET Nat /\ Schedule(S) /\ Choice(files, gid, S)
  BY <1>1, <1>2, <1>4, ChoiceIsNat
<1> HIDE DEF S
<1> QED  BY <1>1, <1>5, <1>6, ScheduleKeeps

LEMMA MasterKeepsFit ==
  ASSUME DetailsFit, Master
  PROVE  DetailsFit'
<1>1. gid \in Gid /\ files \in Layouts
  BY ChosenFits DEF Master
<1> DEFINE all == IndicesOf(files[gid])
           S == IF MasterSelects(Tree, shown) = "all" THEN all ELSE {Min(all)}
<1>2. Schedule(S) /\ Input
  BY DEF Master
<1>3. Choice(files, gid, all) /\ Choice(files, gid, {Min(all)})
  BY <1>1, MasterKeeps
<1> HIDE DEF all
<1>4. Choice(files, gid, S)
  BY <1>3
<1> HIDE DEF S
<1>5. S \in SUBSET Nat
  BY <1>1, <1>4, ChoiceIsNat
<1> QED  BY <1>1, <1>2, <1>4, <1>5, ScheduleKeeps

LEMMA ExpandKeeps ==
  ASSUME DetailsFit, Expand
  PROVE  DetailsFit'
<1> USE DEF DetailsFit, past
<1>1. /\ UNCHANGED <<aria2, events, closing, failures>>
      /\ UNCHANGED <<cmds, phase, gid, shown, loading, fetch_failed, select, edit,
                     advanced, past>>
  BY DEF Expand, Input
<1>2. DownloadsFit'
  BY <1>1 DEF aria2, DownloadsFit
<1>3. QueuesFit'
  BY <1>1 DEF aria2, QueuesFit
<1>4. DialogFits'
  BY <1>1 DEF DialogFits, aria2
<1>5. SelectFits'
  BY <1>1 DEF aria2, select, SelectFits
<1>6. EditFits'
  BY <1>1 DEF edit, EditFits
<1>7. RestFits'
  <2>1. inputs' \in 0..MaxInputs /\ failures' \in 0..MaxFailures
    BY InputCounts DEF Expand
  <2> QED  BY <1>1, <2>1 DEF RestFits
<1> QED  BY <1>2, <1>3, <1>4, <1>5, <1>6, <1>7

LEMMA EditKeeps ==
  ASSUME DetailsFit, Edit
  PROVE  DetailsFit'
<1> USE DEF DetailsFit, past
<1>1. /\ UNCHANGED <<aria2, events, closing, failures>>
      /\ UNCHANGED <<cmds, dialog, select, advanced_saving, advanced, past>>
      /\ advanced_dirty' = TRUE
  BY DEF Edit, Input
<1>2. DownloadsFit'
  BY <1>1 DEF aria2, DownloadsFit
<1>3. QueuesFit'
  BY <1>1 DEF aria2, QueuesFit
<1>4. DialogFits'
  BY <1>1 DEF DialogFits, dialog, aria2
<1>5. SelectFits'
  BY <1>1 DEF aria2, select, SelectFits
<1>6. EditFits'
  <2>1. text' \in Options
    <3>1. PICK f \in AdvancedField, t \in Text: text' = [text EXCEPT ![f] = t]
      BY DEF Edit
    <3>2. text \in Options
      BY DEF EditFits
    <3> QED  BY <3>1, <3>2, OptionsAreTexts
  <2> QED  BY <1>1, <2>1 DEF EditFits
<1>7. RestFits'
  <2>1. inputs' \in 0..MaxInputs /\ failures' \in 0..MaxFailures
    BY InputCounts DEF Edit
  <2> QED  BY <1>1, <2>1 DEF RestFits
<1> QED  BY <1>2, <1>3, <1>4, <1>5, <1>6, <1>7

LEMMA SaveAdvancedKeeps ==
  ASSUME DetailsFit, SaveAdvanced
  PROVE  DetailsFit'
<1> USE DEF DetailsFit, past
<1>1. /\ UNCHANGED <<aria2, events, closing, failures>>
      /\ UNCHANGED <<dialog, select, text, advanced_dirty, advanced, past>>
      /\ advanced_saving' = TRUE
      /\ cmds' = Append(cmds, [Cmd("change", gid) EXCEPT !.options = text])
  BY DEF SaveAdvanced, Input
<1>2. DownloadsFit'
  BY <1>1 DEF aria2, DownloadsFit
<1>3. QueuesFit'
  <2>1. gid \in Gid /\ text \in Options
    BY DEF SaveAdvanced, Editable, Visible, DialogFits, EditFits
  <2>2. [Cmd("change", gid) EXCEPT !.options = text] \in Commands(files)
    BY <2>1, CommandsSent DEF DownloadsFit
  <2>3. cmds' \in Seq(Commands(files))
    BY <1>1, <2>2, OneMore DEF QueuesFit
  <2> QED  BY <1>1, <2>3, CmdsGrow DEF aria2
<1>4. DialogFits'
  BY <1>1 DEF DialogFits, dialog, aria2
<1>5. SelectFits'
  BY <1>1 DEF aria2, select, SelectFits
<1>6. EditFits'
  BY <1>1 DEF EditFits
<1>7. RestFits'
  <2>1. inputs' \in 0..MaxInputs /\ failures' \in 0..MaxFailures
    BY InputCounts DEF SaveAdvanced
  <2> QED  BY <1>1, <2>1 DEF RestFits
<1> QED  BY <1>2, <1>3, <1>4, <1>5, <1>6, <1>7

LEMMA FlushTimerKeeps ==
  ASSUME DetailsFit, Flush
  PROVE  DetailsFit'
<1> USE DEF DetailsFit, past
<1>1. /\ UNCHANGED <<aria2, events, dialog, select_gen, edit, advanced, closing, past, bounds>>
      /\ select_timers # << >> /\ select_timers' = Tail(select_timers)
  BY DEF Flush
<1>2. \/ pending_select # NoPending /\ pending_select' = NoPending
           /\ cmds' = cmds \o <<SelectFiles(pending_select),
                                Cmd("details", pending_select.gid)>>
      \/ UNCHANGED <<pending_select, cmds>>
  BY DEF Flush
<1>3. DownloadsFit'
  BY <1>1 DEF aria2, DownloadsFit
<1>4. QueuesFit'
  <2>1. pending_select # NoPending =>
          /\ SelectFiles(pending_select) \in Commands(files)
          /\ Cmd("details", pending_select.gid) \in Commands(files)
    <3>1. pending_select # NoPending =>
            pending_select \in Pendings(files) /\ pending_select.gid \in Gid
      BY DEF SelectFits, Pendings, PendingShape
    <3> QED  BY <3>1, CommandsSent DEF DownloadsFit
  <2>2. cmds' \in Seq(Commands(files))
    <3>1. CASE UNCHANGED <<pending_select, cmds>>
      BY <3>1 DEF QueuesFit
    <3>2. CASE pending_select # NoPending
                 /\ cmds' = cmds \o <<SelectFiles(pending_select),
                                      Cmd("details", pending_select.gid)>>
      BY <2>1, <3>2, TwoMore DEF QueuesFit
    <3> QED  BY <1>2, <3>1, <3>2
  <2> QED  BY <1>1, <2>2, CmdsGrow DEF aria2
<1>5. DialogFits'
  BY <1>1 DEF DialogFits, dialog, aria2
<1>6. SelectFits'
  <2>1. Tail(select_timers) \in Seq(Nat)
    BY <1>1 DEF SelectFits
  <2> QED  BY <1>1, <1>2, <2>1 DEF aria2, SelectFits
<1>7. EditFits'
  BY <1>1 DEF edit, EditFits
<1>8. RestFits'
  BY <1>1 DEF bounds, RestFits
<1> QED  BY <1>3, <1>4, <1>5, <1>6, <1>7, <1>8

LEMMA BeginCloseKeeps ==
  ASSUME DetailsFit, BeginClose
  PROVE  DetailsFit'
<1> USE DEF DetailsFit, past
<1>1. /\ UNCHANGED <<aria2, events, dialog, select_timers, edit, advanced, past, bounds>>
      /\ closing' = TRUE /\ pending_select' = NoPending /\ select_gen' = select_gen + 1
  BY DEF BeginClose
<1>2. DownloadsFit'
  BY <1>1 DEF aria2, DownloadsFit
<1>3. QueuesFit'
  <2> DEFINE S == Commands(files)
             c == SelectFiles(pending_select)
             d == Cmd("shutdown", NoGid)
             waits == pending_select # NoPending
  <2>1. cmds \in Seq(S) /\ d \in S /\ (waits => c \in S)
    BY CommandsSent DEF SelectFits, DownloadsFit, QueuesFit
  <2>2. cmds' = cmds \o (IF waits THEN <<c>> ELSE << >>) \o <<d>>
    BY DEF BeginClose
  <2> HIDE DEF S, c, d, waits
  <2>3. cmds \o (IF waits THEN <<c>> ELSE << >>) \in Seq(S)
    BY <2>1
  <2>4. cmds' \in Seq(S)
    BY <2>1, <2>2, <2>3, OneMore
  <2>5. cmds' \in Seq(Commands(files))
    BY <2>4 DEF S
  <2> QED  BY <1>1, <2>5, CmdsGrow DEF aria2
<1>4. DialogFits'
  BY <1>1 DEF DialogFits, dialog, aria2
<1>5. SelectFits'
  BY <1>1 DEF aria2, SelectFits
<1>6. EditFits'
  BY <1>1 DEF edit, EditFits
<1>7. RestFits'
  BY <1>1 DEF bounds, RestFits
<1> QED  BY <1>2, <1>3, <1>4, <1>5, <1>6, <1>7

LEMMA WorkTells ==
  ASSUME DetailsFit, NEW e \in Answers(files), Tell(e), UNCHANGED files,
         cmds' \in Seq(Commands(files))
  PROVE  QueuesFit'
<1>1. Append(events, e) \in Seq(Answers(files))
  BY OneMore DEF DetailsFit, QueuesFit
<1> QED  BY <1>1 DEF Tell, QueuesFit

LEMMA FailsCounts ==
  ASSUME RestFits, NEW p, Fails(p)
  PROVE  failures' \in 0..MaxFailures
<1>1. failures \in 0..MaxFailures /\ MaxFailures \in Nat
  BY DetailsAssumption DEF RestFits
<1>2. failures' = failures \/ (failures < MaxFailures /\ failures' = failures + 1)
  BY DEF Fails
<1> QED  BY <1>1, <1>2

WorkParts ==
  /\ events' \in Seq(Answers(files))
  /\ options' \in [Gid -> Options]
  /\ selected' \in [Gid -> SUBSET Nat] /\ \A g \in Gid: Choice(files, g, selected'[g])
  /\ wanted' \in [Gid -> SUBSET Nat] /\ failures' \in 0..MaxFailures /\ made' = made

LEMMA FetchKeeps ==
  ASSUME DetailsFit, NEW c \in Commands(files), Fetch(c)
  PROVE  WorkParts
<1> USE DEF DetailsFit, past
<1>1. c.gid \in Gid
  <2>1. c.op # "shutdown"
    BY DEF Fetch
  <2> QED  BY <2>1, CommandParts
<1>2. UNCHANGED <<selected, options, past>>
  BY DEF Fetch
<1>3. failures' \in 0..MaxFailures
  <2>1. UNCHANGED failures \/ Fails(life[c.gid] # "gone")
    BY DEF Fetch
  <2> QED  BY <2>1, FailsCounts DEF RestFits
<1>4. \E e \in Answers(files): events' = Append(events, e)
  <2>1. files \in Layouts /\ options[c.gid] \in Options /\ selected[c.gid] \in SUBSET Nat
          /\ Choice(files, c.gid, selected[c.gid])
    BY <1>1 DEF DownloadsFit
  <2> DEFINE d == [Answer("details", c.gid) EXCEPT !.files = selected[c.gid]]
             l == [Answer("loaded", c.gid) EXCEPT !.options = options[c.gid]]
             f == Answer("detailsFailed", c.gid)
             n == Answer("loadFailed", c.gid)
  <2>2. d \in Answers(files)
    BY <1>1, <2>1, AnswersSent
  <2>3. l \in Answers(files)
    BY <1>1, <2>1, AnswersSent
  <2>4. f \in Answers(files) /\ n \in Answers(files)
    BY <1>1, <2>1, AnswersSent
  <2>5. \/ events' = Append(events, IF c.op = "details" THEN d ELSE l)
        \/ events' = Append(events, Answer(IF c.op = "details" THEN "detailsFailed"
                                                              ELSE "loadFailed", c.gid))
    BY DEF Fetch, Tell
  <2>6. events' = Append(events, d) \/ events' = Append(events, l)
          \/ events' = Append(events, f) \/ events' = Append(events, n)
    BY <2>5
  <2> QED  BY <2>2, <2>3, <2>4, <2>6
<1>5. events' \in Seq(Answers(files))
  BY <1>4, OneMore DEF QueuesFit
<1> QED  BY <1>2, <1>3, <1>5 DEF WorkParts, DownloadsFit, RestFits

LEMMA ChangeKeeps ==
  ASSUME DetailsFit, NEW c \in Commands(files), Change(c)
  PROVE  WorkParts
<1> USE DEF DetailsFit, past
<1>1. c.gid \in Gid /\ c.options \in Options
  <2>1. c.op # "shutdown"
    BY DEF Change
  <2> QED  BY <2>1, CommandParts
<1>2. UNCHANGED <<selected, past>>
  BY DEF Change
<1>3. failures' \in 0..MaxFailures
  <2>1. UNCHANGED failures \/ Fails(life[c.gid] = "running")
    BY DEF Change
  <2> QED  BY <2>1, FailsCounts DEF RestFits
<1>4. \E e \in Answers(files): events' = Append(events, e)
  <2> DEFINE d == [Answer("applied", c.gid) EXCEPT !.options = c.options]
             f == Answer("applyFailed", c.gid)
  <2>1. d \in Answers(files) /\ f \in Answers(files)
    BY <1>1, AnswersSent DEF DownloadsFit
  <2>2. events' = Append(events, d) \/ events' = Append(events, f)
    BY DEF Change, Tell
  <2> QED  BY <2>1, <2>2
<1>5. events' \in Seq(Answers(files))
  BY <1>4, OneMore DEF QueuesFit
<1>6. options' \in [Gid -> Options]
  <2>1. options' = options
          \/ options' = [options EXCEPT ![c.gid] = Rewritten(options[c.gid], c.options)]
    BY DEF Change
  <2>2. options \in [Gid -> Options]
    BY DEF DownloadsFit
  <2>3. Rewritten(options[c.gid], c.options) \in Options
    BY <1>1, <2>2, OptionsAreTexts
  <2> QED  BY <2>1, <2>2, <2>3
<1> QED  BY <1>2, <1>3, <1>5, <1>6 DEF WorkParts, DownloadsFit, RestFits

LEMMA SelectKeeps ==
  ASSUME DetailsFit, NEW c \in Commands(files), Select(c)
  PROVE  WorkParts
<1> USE DEF DetailsFit, past
<1>1. c.gid \in Gid /\ Choice(files, c.gid, c.files) /\ c.files \in SUBSET Nat
  <2>1. c.op = "select"
    BY DEF Select
  <2> QED  BY <2>1, CommandParts
<1>2. UNCHANGED <<options, made>>
  BY DEF Select
<1>3. failures' \in 0..MaxFailures
  <2>1. UNCHANGED failures \/ Fails(life[c.gid] = "running")
    BY DEF Select
  <2> QED  BY <2>1, FailsCounts DEF RestFits
<1>4. events' \in Seq(Answers(files))
  <2>1. Answer("selectFailed", c.gid) \in Answers(files)
    BY <1>1, AnswersSent DEF DownloadsFit
  <2>2. events' = events \/ events' = Append(events, Answer("selectFailed", c.gid))
    BY DEF Select, Tell
  <2> QED  BY <2>1, <2>2, OneMore DEF QueuesFit
<1>5. selected' \in [Gid -> SUBSET Nat] /\ \A g \in Gid: Choice(files, g, selected'[g])
  <2>1. selected' = selected \/ selected' = [selected EXCEPT ![c.gid] = c.files]
    BY DEF Select
  <2>2. selected \in [Gid -> SUBSET Nat] /\ \A g \in Gid: Choice(files, g, selected[g])
    BY DEF DownloadsFit
  <2>3. CASE selected' = [selected EXCEPT ![c.gid] = c.files]
    <3>1. selected' \in [Gid -> SUBSET Nat]
      BY <1>1, <2>2, <2>3
    <3>2. \A g \in Gid: selected'[g] = IF g = c.gid THEN c.files ELSE selected[g]
      BY <2>2, <2>3
    <3> QED  BY <1>1, <2>2, <3>1, <3>2
  <2> QED  BY <2>1, <2>2, <2>3
<1>6. wanted' \in [Gid -> SUBSET Nat]
  <2>1. wanted \in [Gid -> SUBSET Nat]
    BY DEF RestFits
  <2>2. wanted' = wanted
          \/ wanted' = [wanted EXCEPT ![c.gid] = IF wanted[c.gid] = c.files THEN NotShown
                                                 ELSE wanted[c.gid]]
    BY DEF Select
  <2>3. (IF wanted[c.gid] = c.files THEN NotShown ELSE wanted[c.gid]) \in SUBSET Nat
    BY <1>1, <2>1, NoneShown
  <2> QED  BY <2>1, <2>2, <2>3
<1> QED  BY <1>2, <1>3, <1>4, <1>5, <1>6 DEF WorkParts, DownloadsFit

LEMMA WorkKeeps ==
  ASSUME DetailsFit, Work
  PROVE  DetailsFit'
<1> USE DEF DetailsFit, past
<1>1. /\ UNCHANGED <<files, life, dialog, select, edit, advanced, closing, inputs>>
      /\ cmds # << >>
  BY DEF Work
<1> DEFINE c == Head(cmds)
<1>2. c \in Commands(files) /\ Tail(cmds) \in Seq(Commands(files))
  <2> DEFINE S == Commands(files)
  <2>1. cmds \in Seq(S)
    BY DEF QueuesFit
  <2> HIDE DEF S
  <2>2. Head(cmds) \in S /\ Tail(cmds) \in Seq(S)
    BY <1>1, <2>1
  <2> QED  BY <2>2 DEF S
<1>3. cmds' \in Seq(Commands(files))
  <2>1. cmds' = << >> \/ cmds' = Tail(cmds)
    BY DEF Work
  <2> DEFINE S == Commands(files)
  <2>2. Tail(cmds) \in Seq(S)
    BY <1>2
  <2> HIDE DEF S
  <2>3. << >> \in Seq(S)
    OBVIOUS
  <2>4. cmds' \in Seq(S)
    BY <2>1, <2>2, <2>3
  <2> QED  BY <2>4 DEF S
<1>4. WorkParts
  <2>1. CASE c.op = "shutdown"
    <3>1. UNCHANGED <<events, selected, options, failures, past>>
      BY <2>1 DEF Work
    <3> QED  BY <3>1 DEF WorkParts, DownloadsFit, RestFits, QueuesFit
  <2>2. CASE c.op # "shutdown"
    <3>1. Fetch(c) \/ Change(c) \/ Select(c)
      BY <2>2 DEF Work
    <3> HIDE DEF c
    <3> QED  BY <1>2, <3>1, FetchKeeps, ChangeKeeps, SelectKeeps
  <2> QED  BY <2>1, <2>2
<1>5. DownloadsFit'
  BY <1>1, <1>4 DEF WorkParts, DownloadsFit
<1>6. QueuesFit'
  BY <1>1, <1>3, <1>4 DEF WorkParts, QueuesFit
<1>7. DialogFits'
  BY <1>1 DEF dialog, DialogFits
<1>8. SelectFits'
  BY <1>1 DEF select, SelectFits
<1>9. EditFits'
  BY <1>1 DEF edit, EditFits
<1>10. RestFits'
  BY <1>1, <1>4 DEF WorkParts, RestFits
<1> QED  BY <1>5, <1>6, <1>7, <1>8, <1>9, <1>10

LEMMA DeliverParts ==
  ASSUME Deliver, NEW e, e = Head(events)
  PROVE  /\ (shown' = shown \/ (e.ev = "details" /\ gid = e.gid /\ shown' = e.files))
         /\ (loading' = loading \/ loading' = FALSE)
         /\ (fetch_failed' = fetch_failed \/ fetch_failed' \in BOOLEAN)
         /\ (text' = text \/ text' = e.options)
         /\ (advanced_saving' = advanced_saving \/ advanced_saving' \in BOOLEAN)
         /\ (advanced_dirty' = advanced_dirty \/ advanced_dirty' = FALSE)
<1>1. CASE TaskDetails(e)
  BY <1>1 DEF TaskDetails, edit
<1>2. CASE TaskDetailsFailed(e)
  BY <1>2 DEF TaskDetailsFailed, edit
<1>3. CASE AdvancedLoaded(e)
  BY <1>3 DEF AdvancedLoaded
<1>4. CASE AdvancedApplied(e)
  BY <1>4 DEF AdvancedApplied
<1>5. CASE Failed(e)
  BY <1>5 DEF Failed
<1> QED  BY <1>1, <1>2, <1>3, <1>4, <1>5 DEF Deliver

LEMMA RowTold ==
  ASSUME Deliver, NEW e, e = Head(events)
  PROVE  IF e.ev = "applied" /\ HasRow(e.gid)
         THEN advanced' = [advanced EXCEPT ![e.gid].options = e.options]
         ELSE advanced' = advanced
<1>1. CASE TaskDetails(e)
  BY <1>1 DEF TaskDetails
<1>2. CASE TaskDetailsFailed(e)
  BY <1>2 DEF TaskDetailsFailed
<1>3. CASE AdvancedLoaded(e)
  BY <1>3 DEF AdvancedLoaded
<1>4. CASE AdvancedApplied(e)
  BY <1>4 DEF AdvancedApplied
<1>5. CASE Failed(e)
  BY <1>5 DEF Failed
<1> QED  BY <1>1, <1>2, <1>3, <1>4, <1>5 DEF Deliver

LEMMA DeliverKeeps ==
  ASSUME DetailsFit, Deliver
  PROVE  DetailsFit'
<1> USE DEF DetailsFit, past
<1>1. /\ UNCHANGED <<aria2, cmds, phase, gid, select, closing, past, bounds>>
      /\ events # << >> /\ events' = Tail(events)
  BY DEF Deliver
<1> DEFINE e == Head(events)
<1>2. e \in Answers(files) /\ Tail(events) \in Seq(Answers(files))
  <2> DEFINE S == Answers(files)
  <2>1. events \in Seq(S)
    BY DEF QueuesFit
  <2> HIDE DEF S
  <2>2. Head(events) \in S /\ Tail(events) \in Seq(S)
    BY <1>1, <2>1
  <2> QED  BY <2>2 DEF S
<1>3. /\ (shown' = shown \/ (e.ev = "details" /\ gid = e.gid /\ shown' = e.files))
      /\ (loading' = loading \/ loading' = FALSE)
      /\ (fetch_failed' = fetch_failed \/ fetch_failed' \in BOOLEAN)
      /\ (text' = text \/ text' = e.options)
      /\ (advanced_saving' = advanced_saving \/ advanced_saving' \in BOOLEAN)
      /\ (advanced_dirty' = advanced_dirty \/ advanced_dirty' = FALSE)
  BY DeliverParts
<1>4. IF e.ev = "applied" /\ HasRow(e.gid)
      THEN advanced' = [advanced EXCEPT ![e.gid].options = e.options]
      ELSE advanced' = advanced
  BY RowTold
<1> HIDE DEF e
<1>5. e.gid \in Gid /\ e.files \in SUBSET Nat /\ e.options \in Options
        /\ (e.ev = "details" => Choice(files, e.gid, e.files))
  BY <1>2, AnswerParts
<1>6. DownloadsFit'
  BY <1>1 DEF aria2, DownloadsFit
<1>7. QueuesFit'
  BY <1>1, <1>2 DEF aria2, QueuesFit
<1>8. DialogFits'
  <2>1. loading' \in BOOLEAN /\ fetch_failed' \in BOOLEAN
    BY <1>3 DEF DialogFits
  <2>2. shown' \subseteq Nat /\ (gid # NoGid /\ shown' # NotShown => Choice(files, gid, shown'))
    BY <1>3, <1>5 DEF DialogFits
  <2> QED  BY <1>1, <2>1, <2>2 DEF aria2, DialogFits
<1>9. SelectFits'
  BY <1>1 DEF aria2, select, SelectFits
<1>10. EditFits'
  <2>1. text' \in Options
    BY <1>3, <1>5 DEF EditFits
  <2>2. advanced_saving' \in BOOLEAN /\ advanced_dirty' \in BOOLEAN
    BY <1>3 DEF EditFits
  <2>3. advanced' \in [Gid -> [out : Text, options : Options]]
    BY <1>4, <1>5 DEF EditFits
  <2> QED  BY <2>1, <2>2, <2>3 DEF EditFits
<1>11. RestFits'
  BY <1>1 DEF bounds, RestFits
<1> QED  BY <1>6, <1>7, <1>8, <1>9, <1>10, <1>11

LEMMA LiveKeeps ==
  ASSUME DetailsFit, NEW g \in Gid, Finishes(g) \/ RowCompletes(g) \/ Vanishes(g)
  PROVE  DetailsFit'
<1> USE DEF DetailsFit, past
<1>1. PICK to \in {"finished", "completed", "gone"}: life' = [life EXCEPT ![g] = to]
  BY DEF Finishes, RowCompletes, Vanishes, Live
<1>2. /\ UNCHANGED <<files, selected, options, engine, dialog, select, edit,
                     advanced, closing, made, failures>>
      /\ inputs < MaxInputs /\ inputs' = inputs + 1
      /\ wanted' = [wanted EXCEPT ![g] = NotShown]
  BY DEF Finishes, RowCompletes, Vanishes, Live
<1>3. DownloadsFit'
  <2>1. life' \in [Gid -> {"running", "finished", "completed", "gone"}]
    BY <1>1 DEF DownloadsFit
  <2> QED  BY <1>2, <2>1 DEF DownloadsFit
<1>4. QueuesFit'
  BY <1>2 DEF engine, QueuesFit
<1>5. DialogFits'
  BY <1>2 DEF DialogFits, dialog
<1>6. SelectFits'
  BY <1>2 DEF select, SelectFits
<1>7. EditFits'
  BY <1>2 DEF edit, EditFits
<1>8. RestFits'
  <2>1. inputs' \in 0..MaxInputs
    <3>1. inputs \in 0..MaxInputs /\ MaxInputs \in Nat
      BY DetailsAssumption DEF RestFits
    <3> QED  BY <1>2, <3>1
  <2>2. wanted' \in [Gid -> SUBSET Nat]
    BY <1>2, NothingWanted DEF RestFits
  <2> QED  BY <1>2, <2>1, <2>2 DEF RestFits
<1> QED  BY <1>3, <1>4, <1>5, <1>6, <1>7, <1>8

LEMMA DetailsFitInit == DetailsInit => DetailsFit
<1> SUFFICES ASSUME DetailsInit PROVE DetailsFit
  OBVIOUS
<1>1. \A g \in Gid: Choice(files, g, IndicesOf(files[g])) /\ IndicesOf(files[g]) \in SUBSET Nat
  <2> SUFFICES ASSUME NEW g \in Gid
               PROVE  Choice(files, g, IndicesOf(files[g])) /\ IndicesOf(files[g]) \in SUBSET Nat
    OBVIOUS
  <2>1. files \in Layouts
    BY DEF DetailsInit
  <2> QED  BY <2>1, LayoutFits DEF Choice
<1>2. \A g \in Gid: selected[g] = IndicesOf(files[g])
  BY DEF DetailsInit
<1>3. DownloadsFit
  <2>1. files \in Layouts /\ life \in [Gid -> {"running", "finished", "completed", "gone"}]
    BY DEF DetailsInit
  <2>2. options \in [Gid -> Options]
    <3> DEFINE o == [f \in AdvancedField |-> "x"]
    <3>1. o \in Options
      BY OptionsAreTexts
    <3>2. options = [g \in Gid |-> o]
      BY DEF DetailsInit
    <3> HIDE DEF o
    <3> QED  BY <3>1, <3>2
  <2>3. selected \in [Gid -> SUBSET Nat]
    BY <1>1 DEF DetailsInit
  <2> QED  BY <1>1, <1>2, <2>1, <2>2, <2>3 DEF DownloadsFit
<1>4. QueuesFit
  <2>1. \A S: << >> \in Seq(S)
    OBVIOUS
  <2> QED  BY <2>1 DEF DetailsInit, QueuesFit
<1>5. DialogFits
  BY NoneShown DEF DetailsInit, DialogFits
<1>6. SelectFits
  BY DEF DetailsInit, SelectFits
<1>7. EditFits
  <2>1. advanced = [g \in Gid |-> [out |-> "x", options |-> options[g]]]
    BY DEF DetailsInit
  <2>2. \A g \in Gid: options[g] \in Options
    BY <1>3 DEF DownloadsFit
  <2>3. "x" \in Text
    BY DEF Text
  <2>4. advanced \in [Gid -> [out : Text, options : Options]]
    BY <2>1, <2>2, <2>3
  <2> QED  BY <2>4, OptionsAreTexts DEF DetailsInit, EditFits
<1>8. RestFits
  <2>1. wanted \in [Gid -> SUBSET Nat] /\ made \in [Gid -> {"open", "leaving", "dropped"}]
    BY NoneShown DEF DetailsInit, Nothing
  <2>2. MaxInputs \in Nat /\ MaxFailures \in Nat
    BY DetailsAssumption
  <2>3. inputs = 0 /\ failures = 0 /\ closing = FALSE
    BY DEF DetailsInit
  <2>4. inputs \in 0..MaxInputs /\ failures \in 0..MaxFailures
    BY ONLY <2>2, <2>3
  <2> QED  BY <2>1, <2>3, <2>4 DEF RestFits
<1> QED  BY <1>3, <1>4, <1>5, <1>6, <1>7, <1>8 DEF DetailsFit

LEMMA DetailsFitNext ==
  ASSUME DetailsFit, [DetailsNext]_detailsVars
  PROVE  DetailsFit'
<1>1. CASE DetailsUser
  BY <1>1, OpenKeeps, CloseKeeps, ToggleKeeps, MasterKeepsFit, ExpandKeeps, EditKeeps,
     SaveAdvancedKeeps, BeginCloseKeeps DEF DetailsUser
<1>2. CASE Exited \/ Refresh \/ Flush
  BY <1>2, ExitedKeeps, RefreshKeeps, FlushTimerKeeps
<1>3. CASE Work \/ Deliver
  BY <1>3, WorkKeeps, DeliverKeeps
<1>4. CASE \E g \in Gid : Finishes(g) \/ RowCompletes(g) \/ Vanishes(g)
  BY <1>4, LiveKeeps
<1>5. CASE UNCHANGED detailsVars
  <2>1. DownloadsFit'
    BY <1>5 DEF DetailsFit, DownloadsFit, detailsVars, aria2
  <2>2. QueuesFit'
    BY <1>5 DEF DetailsFit, QueuesFit, detailsVars, aria2, engine
  <2>3. DialogFits'
    BY <1>5 DEF DetailsFit, DialogFits, detailsVars, aria2, dialog
  <2>4. SelectFits'
    BY <1>5 DEF DetailsFit, SelectFits, detailsVars, aria2, select
  <2>5. EditFits'
    BY <1>5 DEF DetailsFit, EditFits, detailsVars, edit
  <2>6. RestFits'
    BY <1>5 DEF DetailsFit, RestFits, detailsVars, past, bounds
  <2> QED  BY <2>1, <2>2, <2>3, <2>4, <2>5, <2>6 DEF DetailsFit
<1> QED  BY <1>1, <1>2, <1>3, <1>4, <1>5 DEF DetailsNext

LEMMA DetailsAlwaysFit == DetailsSpec => []DetailsFit
<1>1. DetailsInit => DetailsFit
  BY DetailsFitInit
<1>2. DetailsFit /\ [DetailsNext]_detailsVars => DetailsFit'
  BY DetailsFitNext
<1> QED  BY <1>1, <1>2, PTL DEF DetailsSpec

LEMMA FitIsTyped == DetailsFit => DetailsTypeOK
<1> SUFFICES ASSUME DetailsFit PROVE DetailsTypeOK
  OBVIOUS
<1> USE DEF DetailsFit
<1>1. \A g \in Gid : selected[g] \subseteq IndicesOf(files[g])
  BY DEF DownloadsFit, Choice
<1>2. \A k \in DOMAIN cmds : cmds[k].op \in {"details", "advanced", "change",
                                            "select", "shutdown"}
  <2>1. \A k \in DOMAIN cmds: cmds[k] \in Commands(files)
    BY DEF QueuesFit
  <2> QED  BY <2>1, CommandParts
<1>3. \A k \in DOMAIN events : events[k].gid \in Gid
  <2>1. \A k \in DOMAIN events: events[k] \in Answers(files)
    BY DEF QueuesFit
  <2> QED  BY <2>1, AnswerParts
<1>4. {loading, fetch_failed, advanced_saving, advanced_dirty, closing} \subseteq BOOLEAN
  BY DEF DialogFits, EditFits, RestFits
<1>5. pending_select.gid \in Gid \cup {NoGid}
  BY DEF SelectFits, NoPending, Pendings, PendingShape
<1> QED
  BY <1>1, <1>2, <1>3, <1>4, <1>5
  DEF DetailsTypeOK, DownloadsFit, DialogFits, SelectFits, EditFits, RestFits

LEMMA FitIsChosen == DetailsFit => SelectionFits
<1> SUFFICES ASSUME DetailsFit PROVE SelectionFits
  OBVIOUS
<1>1. (Visible /\ shown # NotShown) => shown # {} /\ shown \subseteq IndicesOf(files[gid])
  BY DEF DetailsFit, DialogFits, Visible, Choice
<1>2. \A k \in DOMAIN cmds : cmds[k].op = "select"
        => cmds[k].files # {} /\ cmds[k].files \subseteq IndicesOf(files[cmds[k].gid])
  <2>1. \A k \in DOMAIN cmds: cmds[k] \in Commands(files)
    BY DEF DetailsFit, QueuesFit
  <2> QED  BY <2>1, CommandParts DEF Choice
<1> QED  BY <1>1, <1>2 DEF SelectionFits

THEOREM DetailsIsTyped == DetailsSpec => []DetailsTypeOK
BY DetailsAlwaysFit, FitIsTyped, PTL

(* What is shown and what is sent is a choice of files of the download it  *)
(* is for, and never none of them.                                         *)
THEOREM SelectionIsOfFiles == DetailsSpec => []SelectionFits
BY DetailsAlwaysFit, FitIsChosen, PTL

----------------------------------------------------------------------------
(* The boxes.                                                              *)

LEMMA BoxTells ==
  ASSUME NEW tree, NEW Indices \in SUBSET Nat, NoIndex \notin Indices,
         NodesFit(tree, Indices), DirsHold(tree), NEW node \in tree, NEW S
  PROVE  LET flips == DescendantIndices(tree, node)
             box   == CheckState(tree, node, S)
         IN  /\ box = "checked" <=> flips \subseteq S
             /\ box = "unchecked" <=> flips \cap S = {}
<1> DEFINE part   == Below(tree, node) \cup {node}
           leaves == {m \in part : ~m.dir}
           chosen == {m \in leaves : m.index \in S}
           flips  == DescendantIndices(tree, node)
<1>1. \A m \in part: m \in tree /\ m.dir \in BOOLEAN /\ (m.dir => m.index = NoIndex)
                       /\ (~m.dir => m.index \in Indices)
  BY DEF NodesFit, Below
<1>2. flips = {m.index : m \in leaves}
  <2>1. \A m \in part: m.index # NoIndex <=> ~m.dir
    BY <1>1
  <2> QED  BY <2>1 DEF DescendantIndices
<1>3. leaves # {}
  <2>1. CASE node.dir
    BY <2>1 DEF DirsHold
  <2>2. CASE ~node.dir
    BY <2>2
  <2> QED  BY <2>1, <2>2
<1>4. CheckState(tree, node, S) =
        CASE leaves # {} /\ chosen = leaves -> "checked"
          [] chosen = {}                    -> "unchecked"
          [] OTHER                          -> "partial"
  BY DEF CheckState
<1> HIDE DEF leaves, flips
<1>5. chosen = leaves <=> flips \subseteq S
  BY <1>2
<1>6. chosen = {} <=> flips \cap S = {}
  BY <1>2
<1>7. ~(chosen = {} /\ chosen = leaves)
  BY <1>3
<1> HIDE DEF chosen
<1>8. (CheckState(tree, node, S) = "checked" <=> chosen = leaves)
        /\ (CheckState(tree, node, S) = "unchecked" <=> chosen = {})
  BY <1>3, <1>4, <1>7
<1> QED  BY <1>5, <1>6, <1>8 DEF flips

LEMMA FitBoxes == DetailsFit => BoxesTellSelection
<1> SUFFICES ASSUME DetailsFit, Visible, NEW node \in Tree
             PROVE  LET flips == DescendantIndices(Tree, node)
                        box   == CheckState(Tree, node, shown)
                    IN  /\ box = "checked" <=> flips \subseteq shown
                        /\ box = "unchecked" <=> flips \cap shown = {}
  BY DEF BoxesTellSelection
<1>1. gid \in Gid /\ files \in Layouts
  BY DEF DetailsFit, DialogFits, DownloadsFit, Visible
<1> DEFINE list == files[gid]
<1>2. list \in Seq(TorrentFile) \ {<< >>} /\ IndicesOf(list) \subseteq Nat \ {NoIndex}
  BY <1>1, LayoutFits
<1> HIDE DEF list
<1>3. NodesFit(BuildTree(list), IndicesOf(list)) /\ DirsHold(BuildTree(list))
  BY <1>2, TreeFits
<1>4. IndicesOf(list) \in SUBSET Nat /\ NoIndex \notin IndicesOf(list)
  BY <1>2
<1>5. Tree = BuildTree(list)
  BY DEF Tree, list
<1> QED  BY <1>3, <1>4, <1>5, BoxTells

(* The box of a row is checked when all files that a press on it flips are *)
(* selected and empty when none is, whatever the paths of the files.       *)
THEOREM BoxesAreRight == DetailsSpec => []BoxesTellSelection
BY DetailsAlwaysFit, FitBoxes, PTL

----------------------------------------------------------------------------
(* The row.                                                                *)

LEMMA RowsFollowInit == DetailsInit => RowsFollow
<1> SUFFICES ASSUME DetailsInit, NEW g \in Gid
             PROVE  RowFollows(events, advanced[g], options[g], g)
  BY DEF RowsFollow
<1>1. events = << >> /\ advanced[g].out = "x" /\ advanced[g].options = options[g]
  BY DEF DetailsInit
<1>2. DOMAIN events = {}
  BY <1>1
<1> QED  BY <1>1, <1>2 DEF RowFollows

LEMMA RowsStay ==
  ASSUME RowsFollow, UNCHANGED <<events, advanced, options>>,
         \A g \in Gid: HasRow(g)' => HasRow(g)
  PROVE  RowsFollow'
BY DEF RowsFollow

LEMMA RowsAtWork ==
  ASSUME DetailsFit, RowsFollow, Work
  PROVE  RowsFollow'
<1> DEFINE c == Head(cmds)
           S == Answers(files)
<1>1. UNCHANGED <<life, advanced>> /\ cmds # << >>
  BY DEF Work
<1>2. c \in Commands(files)
  <2> DEFINE T == Commands(files)
  <2>1. cmds \in Seq(T)
    BY DEF DetailsFit, QueuesFit
  <2> HIDE DEF T
  <2>2. Head(cmds) \in T
    BY <1>1, <2>1
  <2> QED  BY <2>2 DEF T
<1>3. events \in Seq(S) /\ options \in [Gid -> Options] /\ files \in Layouts
  BY DEF DetailsFit, QueuesFit, DownloadsFit
<1> SUFFICES ASSUME NEW g \in Gid, HasRow(g)'
             PROVE  RowFollows(events', advanced'[g], options'[g], g)
  BY DEF RowsFollow
<1>4. RowFollows(events, advanced[g], options[g], g)
  BY <1>1 DEF RowsFollow, HasRow
<1> HIDE DEF S
<1>5. CASE c.op = "shutdown"
  <2>1. UNCHANGED <<events, options>>
    BY <1>5 DEF Work
  <2> QED  BY <1>1, <1>4, <2>1
<1>6. CASE c.op # "shutdown"
  <2>1. Fetch(c) \/ Change(c) \/ Select(c)
    BY <1>6 DEF Work
  <2>2. c.gid \in Gid /\ c.options \in Options
    BY <1>2, <1>6, CommandParts
  <2> HIDE DEF c
  <2>3. UNCHANGED events /\ UNCHANGED options => RowFollows(events', advanced'[g], options'[g], g)
    BY <1>1, <1>4
  <2>4. ASSUME NEW e, e.ev # "applied", events' = Append(events, e), UNCHANGED options
        PROVE  RowFollows(events', advanced'[g], options'[g], g)
    <3> DEFINE row == advanced[g]
               runs == options[g]
    <3> HIDE DEF row, runs
    <3>1. RowFollows(events, row, runs, g)
      BY <1>4 DEF row, runs
    <3>2. RowFollows(Append(events, e), row, runs, g)
      BY <1>3, <2>4, <3>1, RowFollowsSent
    <3> QED  BY <1>1, <2>4, <3>2 DEF row, runs
  <2>5. CASE Fetch(c)
    <3>1. UNCHANGED options
      BY <2>5 DEF Fetch
    <3>2. \E e: events' = Append(events, e) /\ e.ev # "applied"
      BY <2>5 DEF Fetch, Tell, Answer
    <3> QED  BY <2>4, <3>1, <3>2
  <2>6. CASE Select(c)
    <3>1. UNCHANGED options
      BY <2>6 DEF Select
    <3>2. UNCHANGED events \/ \E e: events' = Append(events, e) /\ e.ev # "applied"
      BY <2>6 DEF Select, Tell, Answer
    <3> QED  BY <2>3, <2>4, <3>1, <3>2
  <2>7. CASE Change(c)
    <3>1. CASE events' = Append(events, Answer("applyFailed", c.gid)) /\ UNCHANGED options
      BY <2>4, <3>1 DEF Answer
    <3>2. CASE /\ options' = [options EXCEPT ![c.gid] = Rewritten(options[c.gid], c.options)]
               /\ Tell([Answer("applied", c.gid) EXCEPT !.options = c.options])
      <4> DEFINE e == [Answer("applied", c.gid) EXCEPT !.options = c.options]
                 row == advanced[g]
                 runs == options[g]
                 now == options'[g]
      <4>1. events' = Append(events, e)
        BY <3>2 DEF Tell
      <4>2. e.ev = "applied" /\ e.gid = c.gid /\ e.options = c.options
        BY DEF Answer
      <4>3. g # c.gid => now = runs
        BY <1>3, <3>2
      <4>4. g = c.gid => now["ua"] = c.options["ua"]
        <5>1. g = c.gid => now = Rewritten(runs, c.options)
          BY <1>3, <3>2
        <5>2. runs \in Options
          BY <1>3
        <5> QED  BY <2>2, <5>1, <5>2, OptionsAreTexts
      <4>5. RowFollows(events, row, runs, g)
        BY <1>4
      <4> HIDE DEF e, row, runs, now
      <4>6. \/ ~(e.ev = "applied" /\ e.gid = g) /\ now = runs
            \/ e.ev = "applied" /\ e.gid = g /\ e.options["ua"] = now["ua"]
        BY <4>2, <4>3, <4>4
      <4>7. RowFollows(Append(events, e), row, now, g)
        BY <1>3, <4>5, <4>6, RowFollowsSent
      <4> QED  BY <1>1, <4>1, <4>7 DEF row, now
    <3> QED  BY <2>7, <3>1, <3>2 DEF Change, Tell
  <2> QED  BY <2>1, <2>5, <2>6, <2>7
<1> QED  BY <1>5, <1>6

LEMMA RowsAtDelivery ==
  ASSUME DetailsFit, RowsFollow, Deliver
  PROVE  RowsFollow'
<1> DEFINE e == Head(events)
           S == Answers(files)
<1>1. UNCHANGED <<life, options>> /\ events # << >> /\ events' = Tail(events)
  BY DEF Deliver, aria2
<1>2. events \in Seq(S) /\ advanced \in [Gid -> [out : Text, options : Options]]
  BY DEF DetailsFit, QueuesFit, EditFits
<1> HIDE DEF S
<1>3. e = events[1] /\ e \in S
  BY <1>1, <1>2
<1>4. IF e.ev = "applied" /\ HasRow(e.gid)
      THEN advanced' = [advanced EXCEPT ![e.gid].options = e.options]
      ELSE advanced' = advanced
  BY RowTold
<1>5. e.gid \in Gid /\ e.options \in Options
  BY <1>3, AnswerParts DEF S
<1> HIDE DEF e
<1> SUFFICES ASSUME NEW g \in Gid, HasRow(g)'
             PROVE  RowFollows(events', advanced'[g], options'[g], g)
  BY DEF RowsFollow
<1>6. HasRow(g) /\ RowFollows(events, advanced[g], options[g], g)
  BY <1>1 DEF RowsFollow, HasRow
<1>7. \/ ~Carries(events, g, 1) /\ advanced'[g] = advanced[g]
      \/ /\ Carries(events, g, 1) /\ advanced'[g].out = advanced[g].out
         /\ advanced'[g].options = events[1].options
  <2>1. CASE Carries(events, g, 1)
    <3>1. e.ev = "applied" /\ e.gid = g
      BY <1>3, <2>1 DEF Carries
    <3>2. advanced' = [advanced EXCEPT ![g].options = e.options]
      BY <1>4, <1>6, <3>1
    <3>3. advanced'[g] = [advanced[g] EXCEPT !.options = e.options]
      BY <1>2, <3>2
    <3>4. advanced[g] \in [out : Text, options : Options]
      BY <1>2
    <3> QED  BY <1>3, <2>1, <3>3, <3>4
  <2>2. CASE ~Carries(events, g, 1)
    <3>1. ~(e.ev = "applied" /\ e.gid = g)
      BY <1>3, <2>2 DEF Carries
    <3>2. advanced'[g] = advanced[g]
      BY <1>2, <1>4, <1>5, <3>1
    <3> QED  BY <2>2, <3>2
  <2> QED  BY <2>1, <2>2
<1> DEFINE row == advanced[g]
           new == advanced'[g]
           runs == options[g]
<1> HIDE DEF row, new, runs
<1>8. RowFollows(Tail(events), new, runs, g)
  <2>1. RowFollows(events, row, runs, g)
    BY <1>6 DEF row, runs
  <2>2. \/ ~Carries(events, g, 1) /\ new = row
        \/ Carries(events, g, 1) /\ new.out = row.out /\ new.options = events[1].options
    BY <1>7 DEF new, row
  <2> QED  BY <1>1, <1>2, <2>1, <2>2, RowFollowsTaken
<1> QED  BY <1>1, <1>8 DEF new, runs

LEMMA RowsFollowNext ==
  ASSUME DetailsFit, RowsFollow, [DetailsNext]_detailsVars
  PROVE  RowsFollow'
<1>1. CASE DetailsUser
  <2>1. UNCHANGED <<events, advanced, options, life>>
    BY <1>1 DEF DetailsUser, Open, Close, Toggle, Master, Expand, Edit, SaveAdvanced,
       BeginClose, Schedule, Input, aria2
  <2> QED  BY <2>1, RowsStay DEF HasRow
<1>2. CASE Exited \/ Refresh \/ Flush
  <2>1. UNCHANGED <<events, advanced, options, life>>
    BY <1>2 DEF Exited, Refresh, Flush, aria2, engine
  <2> QED  BY <2>1, RowsStay DEF HasRow
<1>3. CASE Work
  BY <1>3, RowsAtWork
<1>4. CASE Deliver
  BY <1>4, RowsAtDelivery
<1>5. CASE \E g \in Gid : Finishes(g) \/ RowCompletes(g) \/ Vanishes(g)
  <2>1. UNCHANGED <<events, advanced, options>>
    BY <1>5 DEF Finishes, RowCompletes, Vanishes, Live, engine
  <2>2. PICK g \in Gid: Finishes(g) \/ RowCompletes(g) \/ Vanishes(g)
    BY <1>5
  <2>3. life[g] # "gone" /\ \E to: life' = [life EXCEPT ![g] = to]
    BY <2>2 DEF Finishes, RowCompletes, Vanishes, Live
  <2>4. life \in [Gid -> {"running", "finished", "completed", "gone"}]
    BY DEF DetailsFit, DownloadsFit
  <2>5. \A h \in Gid: HasRow(h)' => HasRow(h)
    BY <2>3, <2>4 DEF HasRow
  <2> QED  BY <2>1, <2>5, RowsStay
<1>6. CASE UNCHANGED detailsVars
  <2>1. UNCHANGED <<events, advanced, options, life>>
    BY <1>6 DEF detailsVars, aria2, engine
  <2> QED  BY <2>1, RowsStay DEF HasRow
<1> QED  BY <1>1, <1>2, <1>3, <1>4, <1>5, <1>6 DEF DetailsNext

LEMMA FollowingRowHasOptions == RowsFollow => RowHasOptions
<1> SUFFICES ASSUME RowsFollow, NEW g \in Gid, ~ChangeUnderWay(g), HasRow(g)
             PROVE  advanced[g].out = "x" /\ advanced[g].options["ua"] = options[g]["ua"]
  BY DEF RowHasOptions
<1>1. RowFollows(events, advanced[g], options[g], g)
  BY DEF RowsFollow
<1>2. \A k \in DOMAIN events: ~Carries(events, g, k)
  BY DEF ChangeUnderWay, Carries
<1> QED  BY <1>1, <1>2 DEF RowFollows

(* While no change of a download's options is under way, its row has the   *)
(* options aria2 runs it with, and the name it was given.                  *)
THEOREM RowsKeepOptions == DetailsSpec => []RowHasOptions
<1>1. DetailsInit => DetailsInv
  BY DetailsFitInit, RowsFollowInit DEF DetailsInv
<1>2. DetailsInv /\ [DetailsNext]_detailsVars => DetailsInv'
  BY DetailsFitNext, RowsFollowNext DEF DetailsInv
<1>3. DetailsInv => RowHasOptions
  BY FollowingRowHasOptions DEF DetailsInv
<1> QED  BY <1>1, <1>2, <1>3, PTL DEF DetailsSpec

----------------------------------------------------------------------------
(* The tree has every file: what build_tree moves or gives another name    *)
(* keeps its index, and only directories are taken out.                    *)

FilesOf(tree) == {n.index : n \in tree} \ {NoIndex}

LEMMA AddFileKeeps ==
  ASSUME NEW tree, NEW one, one.index # NoIndex,
         \A n \in tree: n.dir => n.index = NoIndex
  PROVE  FilesOf(AddFile(tree, one)) = FilesOf(tree) \cup {one.index}
<1> DEFINE path    == Segments(one.path)
           parents == {SubSeq(path, 1, k) : k \in 1 .. Len(path) - 1}
           missing == {Directory(p) : p \in {q \in parents : ~ Taken(tree, q)}}
           there   == {node \in tree : node.path = path}
           full    == \E node \in there : node.index # NoIndex
           leaf    == IF path # << >> /\ full THEN Leaf(FreePath(tree, path), one) ELSE Leaf(path, one)
           kept    == IF path # << >> /\ ~full THEN tree \ there ELSE tree
           new     == IF path # << >> /\ ~full THEN missing ELSE {}
<1>1. AddFile(tree, one) = kept \cup new \cup {leaf}
  <2>1. CASE path = << >>
    BY <2>1 DEF AddFile
  <2>2. CASE path # << >> /\ full
    BY <2>2 DEF AddFile
  <2>3. CASE path # << >> /\ ~full
    BY <2>3 DEF AddFile
  <2> QED  BY <2>1, <2>2, <2>3
<1>2. leaf.index = one.index
  BY DEF Leaf
<1>3. \A n \in new: n.index = NoIndex
  BY DEF Directory
<1>4. kept \subseteq tree /\ \A n \in tree: n.index # NoIndex => n \in kept
  OBVIOUS
<1> HIDE DEF leaf, kept, new
<1>5. FilesOf(kept \cup new \cup {leaf}) = FilesOf(tree) \cup {one.index}
  BY <1>2, <1>3, <1>4 DEF FilesOf
<1> QED  BY <1>1, <1>5

LEMMA TreeHas ==
  ASSUME NEW list \in Seq(TorrentFile) \ {<< >>}
  PROVE  FilesOf(BuildTree(list)) = IndicesOf(list)
<1> DEFINE n == Len(list)
           f == CHOOSE f: Trees(list, n, f)
<1>1. n \in Nat /\ DOMAIN list = 1..n
  OBVIOUS
<1>2. \A k \in 1..n: list[k].index # NoIndex
  <2>1. \A k \in 1..n: list[k].index \in IndicesOf(list)
    BY <1>1 DEF IndicesOf
  <2> QED  BY <2>1, IndicesAreNumbers
<1>3. Trees(list, n, f)
  <2>1. \E g: Trees(list, n, g)
    BY <1>1, TreesExist
  <2> QED  BY <2>1
<1>4. BuildTree(list) = f[n]
  BY DEF BuildTree, Trees
<1> HIDE DEF n, f
<1> DEFINE Upto(k) == {list[i].index : i \in 1..k}
           Right(k) == /\ FilesOf(f[k]) = Upto(k)
                       /\ \A m \in f[k]: m.dir => m.index = NoIndex
           Bad == {k \in 0..n: ~Right(k)}
<1> HIDE DEF Right
<1>5. \A k \in 0..n: f[k] = IF k = 0 THEN {} ELSE AddFile(f[k - 1], list[k])
  BY <1>3 DEF Trees
<1>6. Bad = {}
  <2> SUFFICES ASSUME Bad # {} PROVE FALSE
    OBVIOUS
  <2>1. PICK k \in Bad: \A m \in Bad: k <= m
    <3>1. Bad \subseteq Nat
      BY <1>1
    <3> HIDE DEF Bad
    <3> QED  BY <3>1, LeastMember
  <2>2. CASE k = 0
    <3>1. f[k] = {} /\ Upto(k) = {}
      BY <1>1, <1>5, <2>2
    <3>2. Right(k)
      BY <2>2, <3>1 DEF FilesOf, Right
    <3> QED  BY <2>1, <3>2
  <2>3. CASE k # 0
    <3>1. k \in 1..n /\ k - 1 \in 0..n /\ k - 1 \notin Bad
      BY <1>1, <2>1, <2>3
    <3>2. Right(k - 1)
      BY <3>1
    <3>3. f[k] = AddFile(f[k - 1], list[k])
      BY <1>5, <3>1, <2>3
    <3>4. FilesOf(f[k]) = FilesOf(f[k - 1]) \cup {list[k].index}
      BY <1>2, <3>1, <3>2, <3>3, AddFileKeeps DEF Right
    <3>5. Upto(k) = Upto(k - 1) \cup {list[k].index}
      <4>1. \A i: i \in 1..k <=> i \in 1..(k - 1) \/ i = k
        BY <3>1
      <4> QED  BY <4>1
    <3>6. \A m \in f[k]: m.dir => m.index = NoIndex
      BY <3>2, <3>3 DEF AddFile, Leaf, Directory, Right
    <3>7. Right(k)
      BY <3>2, <3>4, <3>5, <3>6 DEF Right
    <3> QED  BY <2>1, <3>7
  <2> QED  BY <2>2, <2>3
<1>7. FilesOf(BuildTree(list)) = Upto(n)
  <2>1. n \in 0..n
    BY <1>1
  <2>2. Right(n)
    BY <1>6, <2>1
  <2> QED  BY <1>4, <2>2 DEF Right
<1> QED  BY <1>1, <1>7 DEF IndicesOf

(* No file of a torrent is missing from the tree, and no other is in it,   *)
(* when two files have one path, when a file has the path of a directory,  *)
(* and beyond the depth limit.                                             *)
THEOREM TreesHaveFiles ==
  DetailsSpec => [](\A g \in Gid: FilesOf(BuildTree(files[g])) = IndicesOf(files[g]))
<1>1. DetailsFit => \A g \in Gid: FilesOf(BuildTree(files[g])) = IndicesOf(files[g])
  BY LayoutFits, TreeHas DEF DetailsFit, DownloadsFit
<1> QED  BY <1>1, DetailsAlwaysFit, PTL

=============================================================================
