--------------------------- MODULE TaskSyncProofs ---------------------------
(***************************************************************************)
(* Proofs about TaskSync for every finite set of gids, whatever the bounds *)
(* on what the user, aria2 and the senders do.  TableConsistent is         *)
(* inductive; NoPhantomCard needs to know what is on its way about a gid   *)
(* (Grounded).                                                             *)
(***************************************************************************)
EXTENDS TaskSync, FiniteSetTheorems, SequenceTheorems, TLAPS

(* A finite set of messages, one for each gid, can be put in an order, and  *)
(* any order is a sequence of them.                                        *)
LEMMA FiniteRange ==
  ASSUME NEW A, IsFiniteSet(A), NEW f, DOMAIN f = A
  PROVE  IsFiniteSet({f[x]: x \in A})
<1> DEFINE T == {f[x]: x \in A}
<1> DEFINE h == [x \in A |-> f[x]]
<1>1. h \in Surjection(A, T)
  BY DEF Surjection
<1> QED
  BY <1>1, FS_Surjection

LEMMA OrderTyped ==
  ASSUME NEW S, NEW M, M \subseteq S, IsFiniteSet(M), NEW q \in Orders(M)
  PROVE  q \in Seq(S)
<1>1. Cardinality(M) \in Nat
  BY FS_CardinalityType
<1>2. q \in [1..Cardinality(M) -> M]
  BY Zenon DEF Orders, SetToSeqs
<1>3. q \in [1..Cardinality(M) -> S]
  BY <1>2
<1> QED
  BY <1>1, <1>3

(* Events and commands. *)
LEMMA EventKinds ==
  ASSUME NEW g \in Gid
  PROVE  /\ \A b \in BOOLEAN: Added(g, b) \in Event
         /\ aria2[g] \in Live \cup Terminal => Progress(g) \in Event
         /\ Removed(g) \in Event /\ Applied(g) \in Event
         /\ EngineReady \in Event /\ \A b \in BOOLEAN: SyncComplete(b) \in Event
BY DEF Event, Added, Progress, Removed, Applied, EngineReady, SyncComplete

LEMMA EventFields ==
  ASSUME NEW m \in Event
  PROVE  /\ m.type \in {"Added", "Progress", "Removed", "TaskAdvancedApplied"} => m.gid \in Gid
         /\ m.type = "Progress" => m.status \in Live \cup Terminal
BY DEF Event

LEMMA CommandFields ==
  ASSUME NEW c \in Command
  PROVE  /\ c.type \notin {"PurgeResults", "PauseAll", "ResumeAll"} => c.gid \in Gid
         /\ c.type = "PurgeResults" => c.gids \subseteq Gid
         /\ c.type = "ReaddTask" => c.paused \in BOOLEAN
BY DEF Command

LEMMA RestFields ==
  ASSUME NEW r \in Rest
  PROVE  r.type \notin {"idle", "tell_all"} => r.gid \in Gid
BY DEF Rest

(* The state by the tuples in which the actions leave it alone. *)
AriaTyped ==
  /\ alive \in BOOLEAN /\ aria2 \in [Gid -> Live \cup Terminal \cup {"none"}]
  /\ session \in [Gid -> {"none", "queued", "paused"}]
HeldTyped == held \in [Sender -> Seq(Event)]
NotifiedTyped == notified \subseteq Gid
ScanTyped ==
  /\ seen \subseteq Gid /\ stopped_seen \subseteq Gid /\ terminal \subseteq Gid
  /\ orphan_grace \subseteq Gid
ResumingTyped == resuming \in [Gid -> {"no", "unpause", "tell"}]
BootTyped == boot \in [{"boot", "oldboot"} -> {"none", "options", "sync"}]
EventsTyped == events \in Seq(Event)
CmdsTyped == cmds \in Seq(Command)
HandlingTyped == handling \in Rest
TasksTyped == tasks \in [Gid -> Shown \cup {"none"}]
CountTyped == active_count \in Nat
SetsTyped ==
  /\ link \subseteq Gid /\ pending_removals \subseteq Gid /\ removed_gids \subseteq Gid
  /\ paused_gids \subseteq Gid /\ synced_gids \subseteq Gid /\ dirty \subseteq Gid
SyncTyped == sync_done \in BOOLEAN
RowsTyped == db \in [Gid -> Shown \cup {"none"}] /\ dblink \subseteq Gid
BoundsTyped == used \subseteq Gid /\ ops \in Nat /\ changes \in Nat /\ boots \in Nat

Typed ==
  /\ AriaTyped /\ HeldTyped /\ NotifiedTyped /\ ScanTyped /\ ResumingTyped /\ BootTyped
  /\ EventsTyped /\ CmdsTyped /\ HandlingTyped /\ TasksTyped /\ CountTyped
  /\ SetsTyped /\ SyncTyped /\ RowsTyped /\ BoundsTyped

LEMMA TypedIsTypeOK == Typed <=> TypeOK
BY Zenon DEF Typed, TypeOK, AriaTyped, HeldTyped, NotifiedTyped, ScanTyped, ResumingTyped,
       BootTyped, EventsTyped, CmdsTyped, HandlingTyped, TasksTyped, CountTyped,
       SetsTyped, SyncTyped, RowsTyped, BoundsTyped

LEMMA UnchangedTyped ==
  ASSUME Typed
  PROVE  /\ UNCHANGED aria => AriaTyped'
         /\ UNCHANGED held => HeldTyped'
         /\ UNCHANGED notified => NotifiedTyped'
         /\ UNCHANGED scan => ScanTyped'
         /\ UNCHANGED resuming => ResumingTyped'
         /\ UNCHANGED polling => ScanTyped' /\ ResumingTyped'
         /\ UNCHANGED boot => BootTyped'
         /\ UNCHANGED senders => /\ HeldTyped' /\ NotifiedTyped' /\ ScanTyped'
                                 /\ ResumingTyped' /\ BootTyped'
         /\ UNCHANGED events => EventsTyped'
         /\ UNCHANGED cmds => CmdsTyped'
         /\ UNCHANGED handling => HandlingTyped'
         /\ UNCHANGED channel => EventsTyped' /\ CmdsTyped' /\ HandlingTyped'
         /\ UNCHANGED tasks => TasksTyped'
         /\ UNCHANGED active_count => CountTyped'
         /\ UNCHANGED <<link, pending_removals, removed_gids, paused_gids, synced_gids,
                        dirty>> => SetsTyped'
         /\ UNCHANGED sync_done => SyncTyped'
         /\ UNCHANGED table => TasksTyped' /\ CountTyped' /\ SetsTyped' /\ SyncTyped'
         /\ UNCHANGED rows => RowsTyped'
         /\ UNCHANGED bounds => BoundsTyped'
BY DEF Typed, aria, scan, polling, senders, channel, table, rows, bounds,
       AriaTyped, HeldTyped, NotifiedTyped, ScanTyped, ResumingTyped, BootTyped,
       EventsTyped, CmdsTyped, HandlingTyped, TasksTyped, CountTyped, SetsTyped, SyncTyped,
       RowsTyped, BoundsTyped

(* What the helpers of the actions leave is of its kind. *)
LEMMA HoldTyped ==
  ASSUME HeldTyped, NEW e \in Sender, NEW what \in Seq(Event), Hold(e, what)
  PROVE  HeldTyped'
BY DEF Hold, HeldTyped

LEMMA ShortSeqs ==
  ASSUME NEW S
  PROVE  /\ <<>> \in Seq(S)
         /\ \A x \in S: <<x>> \in Seq(S)
         /\ \A q \in Seq(S), x \in S: Append(q, x) \in Seq(S)
         /\ \A q, r \in Seq(S): q \o r \in Seq(S)
OBVIOUS

LEMMA TakeTyped ==
  ASSUME CmdsTyped, NEW type, Take(type)
  PROVE  Head(cmds) \in Command /\ Head(cmds).type = type /\ CmdsTyped'
BY DEF Take, CmdsTyped

LEMMA ReceiveTyped ==
  ASSUME EventsTyped, NEW type, Receive(type)
  PROVE  Head(events) \in Event /\ Head(events).type = type /\ EventsTyped'
BY DEF Receive, EventsTyped

LEMMA ThenTyped ==
  ASSUME NEW g \in Gid,
         NEW step \in {"tell", "tell_added", "tell_file", "forget", "pause", "announce", "add"},
         Then(step, g)
  PROVE  HandlingTyped'
BY DEF Then, HandlingTyped, Rest

LEMMA IdleTyped == handling' = Idle => HandlingTyped'
BY DEF HandlingTyped, Idle, Rest

LEMMA SavedTyped ==
  ASSUME NEW status PROVE Saved(status) \in [Gid -> {"none", "queued", "paused"}]
BY DEF Saved

LEMMA LoadTyped ==
  ASSUME NEW file, NEW status \in Load(file)
  PROVE  status \in [Gid -> Live \cup Terminal \cup {"none"}]
<1>1. status \in [Gid -> {"none", "paused", "waiting", "active"}]
  BY Zenon DEF Load
<1> QED
  BY <1>1 DEF Live

LEMMA MoveTyped ==
  ASSUME AriaTyped, NotifiedTyped, NEW g \in Gid, NEW from, NEW to \in Live \cup Terminal,
         Move(g, from, to)
  PROVE  aria2' \in [Gid -> Live \cup Terminal \cup {"none"}] /\ NotifiedTyped'
BY DEF Move, AriaTyped, NotifiedTyped

LEMMA ForgottenTyped ==
  ASSUME AriaTyped, NEW gids
  PROVE  Forgotten(gids) \in [Gid -> Live \cup Terminal \cup {"none"}]
BY DEF Forgotten, AriaTyped

LEMMA ReaddTyped ==
  ASSUME AriaTyped, NEW g \in Gid, NEW step \in {"tell_added", "pause", "announce"},
         Readd(g, step)
  PROVE  aria2' \in [Gid -> Live \cup Terminal \cup {"none"}] /\ HandlingTyped'
BY ThenTyped, IdleTyped DEF Readd, AriaTyped, Live

(* A list of messages about some gids, and what the senders put in hand. *)
LEMMA ListTyped ==
  ASSUME NEW S, NEW A \in SUBSET Gid, NEW f, DOMAIN f = A, \A g \in A: f[g] \in S
  PROVE  Orders({f[g]: g \in A}) \subseteq Seq(S)
<1>1. IsFiniteSet(A)
  BY BoundAssumption, FS_Subset
<1>2. IsFiniteSet({f[g]: g \in A})
  BY <1>1, FiniteRange
<1>3. {f[g]: g \in A} \subseteq S
  OBVIOUS
<1> QED
  BY <1>2, <1>3, OrderTyped, Zenon

LEMMA ProgressListTyped ==
  ASSUME AriaTyped, NEW A \in SUBSET Listed
  PROVE  Orders({Progress(g): g \in A}) \subseteq Seq(Event)
<1> DEFINE f == [g \in A |-> Progress(g)]
<1>1. A \in SUBSET Gid /\ \A g \in A: f[g] \in Event
  BY EventKinds DEF AriaTyped, Listed
<1>2. {Progress(g): g \in A} = {f[g]: g \in A}
  OBVIOUS
<1> HIDE DEF f
<1>3. DOMAIN f = A
  BY DEF f
<1> QED
  BY <1>1, <1>2, <1>3, ListTyped

LEMMA RemovedListTyped ==
  ASSUME NEW A \in SUBSET Gid
  PROVE  Orders({Removed(g): g \in A}) \subseteq Seq(Event)
<1> DEFINE f == [g \in A |-> Removed(g)]
<1>1. \A g \in A: f[g] \in Event
  BY EventKinds
<1>2. {Removed(g): g \in A} = {f[g]: g \in A}
  OBVIOUS
<1> HIDE DEF f
<1>3. DOMAIN f = A
  BY DEF f
<1> QED
  BY <1>1, <1>2, <1>3, ListTyped

(* What a listing of all tasks announces and reports. *)
LEMMA ScanListTyped ==
  ASSUME AriaTyped, NEW A \in SUBSET Gid, NEW B \in SUBSET Listed
  PROVE  Orders({Added(g, TRUE): g \in A} \cup {Progress(g): g \in B}) \subseteq Seq(Event)
<1> DEFINE f == [g \in A |-> Added(g, TRUE)]
           h == [g \in B |-> Progress(g)]
           M == {f[g]: g \in A} \cup {h[g]: g \in B}
<1>1. B \in SUBSET Gid
  BY DEF Listed
<1>2. (\A g \in A: f[g] \in Event) /\ (\A g \in B: h[g] \in Event)
  BY EventKinds DEF AriaTyped, Listed
<1>3. {Added(g, TRUE): g \in A} \cup {Progress(g): g \in B} = M
  OBVIOUS
<1>4. DOMAIN f = A /\ DOMAIN h = B
  OBVIOUS
<1> HIDE DEF f, h
<1>5. IsFiniteSet(A) /\ IsFiniteSet(B)
  BY <1>1, BoundAssumption, FS_Subset
<1>6. IsFiniteSet(M)
  <2>1. IsFiniteSet({f[g]: g \in A})
    BY <1>4, <1>5, FiniteRange
  <2>2. IsFiniteSet({h[g]: g \in B})
    BY <1>4, <1>5, FiniteRange
  <2> QED
    BY <2>1, <2>2, FS_Union, Zenon
<1>7. M \subseteq Event
  BY <1>2
<1> HIDE DEF M
<1> QED
  BY <1>3, <1>6, <1>7, OrderTyped

LEMMA CommandListTyped ==
  ASSUME NEW A \in SUBSET Gid,
         NEW type \in {"Add", "AddFile", "Pause", "Resume", "Remove", "Redownload",
                       "ChangeTaskAdvanced"}
  PROVE  Orders({[type |-> type, gid |-> g]: g \in A}) \subseteq Seq(Command)
<1> DEFINE f == [g \in A |-> [type |-> type, gid |-> g]]
<1>1. \A g \in A: f[g] \in Command
  BY DEF Command
<1>2. {[type |-> type, gid |-> g]: g \in A} = {f[g]: g \in A}
  OBVIOUS
<1> HIDE DEF f
<1>3. DOMAIN f = A
  BY DEF f
<1> QED
  BY <1>1, <1>2, <1>3, ListTyped

LEMMA ReaddListTyped ==
  ASSUME NEW A \in SUBSET Gid
  PROVE  Orders({ReaddCmd(g): g \in A}) \subseteq Seq(Command)
<1> DEFINE f == [g \in A |-> ReaddCmd(g)]
<1>1. \A g \in A: f[g] \in Command
  BY DEF Command, ReaddCmd
<1>2. {ReaddCmd(g): g \in A} = {f[g]: g \in A}
  OBVIOUS
<1> HIDE DEF f
<1>3. DOMAIN f = A
  BY DEF f
<1> QED
  BY <1>1, <1>2, <1>3, ListTyped

(* aria2 and the supervisor that starts it. *)
LEMMA AriaStepTyped == Typed /\ (\E g \in Gid: AriaStep(g)) => Typed'
<1> SUFFICES ASSUME Typed, NEW g \in Gid, AriaStep(g) PROVE Typed'
  BY Zenon
<1>1. aria2' \in [Gid -> Live \cup Terminal \cup {"none"}]
  BY DEF Typed, AriaTyped, AriaStep, Live, Terminal
<1>2. AriaTyped'
  BY <1>1 DEF Typed, AriaTyped, AriaStep
<1>3. NotifiedTyped' /\ BoundsTyped'
  BY DEF Typed, NotifiedTyped, BoundsTyped, AriaStep
<1> QED
  BY <1>2, <1>3, UnchangedTyped, Zenon DEF Typed, AriaStep

LEMMA EngineTyped == Typed /\ (AutoSave \/ Crash \/ Respawn) => Typed'
<1> SUFFICES ASSUME Typed PROVE AutoSave \/ Crash \/ Respawn => Typed'
  OBVIOUS
<1>1. ASSUME AutoSave PROVE Typed'
  <2>1. AriaTyped'
    BY <1>1, SavedTyped DEF Typed, AriaTyped, AutoSave
  <2> QED
    BY <1>1, <2>1, UnchangedTyped, Zenon DEF Typed, AutoSave
<1>2. ASSUME Crash PROVE Typed'
  <2>1. AriaTyped' /\ ResumingTyped'
    BY <1>2 DEF Typed, AriaTyped, ResumingTyped, Crash
  <2> QED
    BY <1>2, <2>1, UnchangedTyped, Zenon DEF Typed, Crash, bounds
<1>3. ASSUME Respawn PROVE Typed'
  <2>1. AriaTyped'
    BY <1>3, SavedTyped, LoadTyped, Zenon DEF AriaTyped, Respawn
  <2>2. HeldTyped' /\ ScanTyped' /\ NotifiedTyped'
    BY <1>3, ShortSeqs DEF Typed, HeldTyped, ScanTyped, NotifiedTyped, Respawn
  <2>3. BootTyped'
    BY <1>3 DEF Typed, BootTyped, Respawn
  <2>4. BoundsTyped'
    BY <1>3 DEF Typed, BoundsTyped, Respawn
  <2> QED
    BY <1>3, <2>1, <2>2, <2>3, <2>4, UnchangedTyped, Zenon DEF Typed, Respawn
<1> QED
  BY <1>1, <1>2, <1>3

(* The tasks that question aria2. *)
LEMMA LoopsTyped ==
  Typed /\ (FastTick \/ Scan \/ \E g \in Gid: FollowNotification(g)) => Typed'
<1> SUFFICES ASSUME Typed
             PROVE  FastTick \/ Scan \/ (\E g \in Gid: FollowNotification(g)) => Typed'
  OBVIOUS
<1>1. ASSUME FastTick PROVE Typed'
  <2>1. PICK q \in Orders({Progress(g): g \in Running}): Hold("poll", q)
    BY <1>1, Zenon DEF FastTick
  <2>2. q \in Seq(Event)
    <3>1. Running \in SUBSET Listed
      BY DEF Running, Listed
    <3> QED
      BY <3>1, ProgressListTyped, Zenon DEF Typed
  <2>3. HeldTyped'
    BY <2>1, <2>2, HoldTyped, Zenon DEF Typed, Sender
  <2>4. ScanTyped'
    BY <1>1 DEF Typed, ScanTyped, FastTick
  <2> QED
    BY <1>1, <2>3, <2>4, UnchangedTyped, Zenon DEF Typed, FastTick
<1>2. ASSUME Scan PROVE Typed'
  <2>1. PICK missed \in SUBSET Running: SlowScan(missed)
    BY <1>2, Zenon DEF Scan
  <2> DEFINE current == Listed \ missed
             ended == {g \in current: aria2[g] \in Terminal}
             orphans == seen \ (current \cup terminal)
             again == orphans \cap orphan_grace
             told == {g \in current: \/ aria2[g] \in {"waiting", "paused"}
                                     \/ aria2[g] \in Terminal /\ g \notin stopped_seen}
  <2>2. PICK listed \in Orders(ScanEvents(current)), gone \in Orders({Removed(g): g \in again}):
          Hold("poll", listed \o gone)
    BY <2>1, Zenon DEF SlowScan
  <2>3. listed \in Seq(Event)
    <3>1. current \ seen \in SUBSET Gid /\ told \in SUBSET Listed
      BY DEF Listed
    <3>2. ScanEvents(current) = {Added(g, TRUE): g \in current \ seen} \cup {Progress(g): g \in told}
      BY DEF ScanEvents
    <3> HIDE DEF current, told
    <3> QED
      BY <2>2, <3>1, <3>2, ScanListTyped DEF Typed
  <2>4. gone \in Seq(Event)
    <3>1. again \in SUBSET Gid
      BY DEF Typed, ScanTyped
    <3> HIDE DEF again
    <3> QED
      BY <2>2, <3>1, RemovedListTyped
  <2>5. HeldTyped'
    BY <2>2, <2>3, <2>4, ShortSeqs, HoldTyped, Zenon DEF Typed, Sender
  <2>6. ScanTyped'
    BY <2>1 DEF Typed, ScanTyped, SlowScan, Listed
  <2> HIDE DEF current, ended, orphans, again, told
  <2> QED
    BY <2>1, <2>5, <2>6, UnchangedTyped, Zenon DEF Typed, SlowScan
<1>3. ASSUME NEW g \in Gid, FollowNotification(g) PROVE Typed'
  <2>1. (IF aria2[g] = "none" THEN <<>> ELSE <<Progress(g)>>) \in Seq(Event)
    BY ShortSeqs, EventKinds DEF Typed, AriaTyped
  <2>2. HeldTyped'
    BY <1>3, <2>1, HoldTyped, Zenon DEF Typed, FollowNotification, Sender
  <2>3. NotifiedTyped'
    BY <1>3 DEF Typed, NotifiedTyped, FollowNotification
  <2> QED
    BY <1>3, <2>2, <2>3, UnchangedTyped, Zenon DEF Typed, FollowNotification
<1> QED
  BY <1>1, <1>2, <1>3, Zenon

LEMMA BootStepTyped == Typed /\ Boot => Typed'
<1> SUFFICES ASSUME Typed, Boot PROVE Typed'
  OBVIOUS
<1>1. ASSUME NEW e \in {"boot", "oldboot"}, BootReady(e) PROVE Typed'
  <2>1. EventsTyped'
    BY <1>1, EventKinds, ShortSeqs DEF Typed, EventsTyped, BootReady, EngineReady, Event
  <2>2. BootTyped'
    BY <1>1 DEF Typed, BootTyped, BootReady
  <2> QED
    BY <1>1, <2>1, <2>2, UnchangedTyped, Zenon DEF Typed, BootReady
<1>2. ASSUME NEW e \in {"boot", "oldboot"}, SyncFails(e) PROVE Typed'
  <2>1. <<SyncComplete(FALSE)>> \in Seq(Event)
    BY ShortSeqs DEF SyncComplete, Event
  <2>2. HeldTyped'
    BY <1>2, <2>1, HoldTyped, Zenon DEF Typed, SyncFails, Sender
  <2>3. BootTyped'
    BY <1>2 DEF Typed, BootTyped, SyncFails
  <2> QED
    BY <1>2, <2>2, <2>3, UnchangedTyped, Zenon DEF Typed, SyncFails
<1>3. ASSUME NEW listed \in SUBSET Listed, NEW full \in BOOLEAN, SyncExisting(listed, full)
      PROVE  Typed'
  <2>1. PICK q \in Orders({Added(g, TRUE): g \in listed} \cup {Progress(g): g \in listed}):
          Hold("boot", Append(q, SyncComplete(full)))
    BY <1>3, Zenon DEF SyncExisting
  <2>2. q \in Seq(Event)
    <3>1. listed \in SUBSET Gid
      BY DEF Listed
    <3> QED
      BY <2>1, <3>1, ScanListTyped DEF Typed
  <2>3. SyncComplete(full) \in Event
    BY DEF SyncComplete, Event
  <2>4. HeldTyped'
    BY <2>1, <2>2, <2>3, ShortSeqs, HoldTyped, Zenon DEF Typed, Sender
  <2>5. BootTyped'
    BY <1>3 DEF Typed, BootTyped, SyncExisting
  <2> QED
    BY <1>3, <2>4, <2>5, UnchangedTyped, Zenon DEF Typed, SyncExisting
<1>4. \A missed \in SUBSET Running: Listed \ missed \in SUBSET Listed
  OBVIOUS
<1> QED
  BY <1>1, <1>2, <1>3, <1>4, Zenon DEF Boot, BootSync

LEMMA SendTyped == Typed /\ (\E e \in Sender: Send(e)) => Typed'
<1> SUFFICES ASSUME Typed, NEW e \in Sender, Send(e) PROVE Typed'
  BY Zenon
<1>1. EventsTyped' /\ HeldTyped'
  BY ShortSeqs DEF Typed, EventsTyped, HeldTyped, Send
<1> QED
  BY <1>1, UnchangedTyped, Zenon DEF Typed, Send

LEMMA ResumingStepTyped == Typed /\ Resuming => Typed'
<1> SUFFICES ASSUME Typed, NEW g \in Gid, Unpause(g) \/ TellResumed(g) PROVE Typed'
  BY Zenon DEF Resuming
<1>1. ASSUME Unpause(g) PROVE Typed'
  <2>1. AriaTyped' /\ NotifiedTyped'
    BY <1>1, MoveTyped DEF Typed, AriaTyped, Unpause, Live
  <2>2. ResumingTyped'
    BY <1>1 DEF Typed, ResumingTyped, Unpause
  <2> QED
    BY <1>1, <2>1, <2>2, UnchangedTyped, Zenon DEF Typed, Unpause
<1>2. ASSUME TellResumed(g) PROVE Typed'
  <2>1. (IF aria2[g] = "none" THEN <<>> ELSE <<Progress(g)>>) \in Seq(Event)
    BY ShortSeqs, EventKinds DEF Typed, AriaTyped
  <2>2. HeldTyped'
    BY <1>2, <2>1, HoldTyped, Zenon DEF Typed, TellResumed, Sender
  <2>3. ResumingTyped'
    BY <1>2 DEF Typed, ResumingTyped, TellResumed
  <2> QED
    BY <1>2, <2>2, <2>3, UnchangedTyped, Zenon DEF Typed, TellResumed
<1> QED
  BY <1>1, <1>2

(* The supervisor's command handler. *)
LEMMA HandlerTyped == Typed /\ Handler => Typed'
<1> SUFFICES ASSUME Typed, Handler PROVE Typed'
  OBVIOUS
<1> USE DEF Typed
<1>t. \A type: Take(type) => Head(cmds) \in Command /\ Head(cmds).type = type /\ CmdsTyped'
  BY TakeTyped, Zenon
<1>h. \A what \in Seq(Event): Hold("handler", what) => HeldTyped'
  BY HoldTyped, Zenon DEF Sender
<1>1. ASSUME AddDownload PROVE Typed'
  <2>1. Head(cmds).gid \in Gid /\ CmdsTyped'
    BY <1>1, <1>t, CommandFields DEF AddDownload
  <2>2. <<Added(Head(cmds).gid, FALSE)>> \in Seq(Event)
    BY <2>1, EventKinds, ShortSeqs
  <2>3. AriaTyped'
    BY <1>1, <2>1 DEF AddDownload, AriaTyped, Live
  <2>4. HeldTyped'
    <3>1. CASE alive
      BY <1>1, <2>2, <3>1, <1>h, Zenon DEF AddDownload
    <3>2. CASE ~alive
      BY <1>1, <3>2, UnchangedTyped, Zenon DEF AddDownload
    <3> QED
      BY <3>1, <3>2
  <2> QED
    BY <1>1, <2>1, <2>3, <2>4, UnchangedTyped, Zenon DEF AddDownload
<1>2. ASSUME AddFile PROVE Typed'
  <2>1. Head(cmds).gid \in Gid /\ CmdsTyped'
    BY <1>2, <1>t, CommandFields DEF AddFile
  <2>2. AriaTyped'
    BY <1>2, <2>1 DEF AddFile, AriaTyped, Live
  <2>3. HandlingTyped'
    BY <1>2, <2>1, ThenTyped, UnchangedTyped DEF AddFile
  <2> QED
    BY <1>2, <2>1, <2>2, <2>3, UnchangedTyped, Zenon DEF AddFile
<1>3. ASSUME NEW type \in {"Pause", "Resume"}, NEW from, NEW to \in {"paused", "waiting"},
             PauseOrResume(type, from, to)
      PROVE  Typed'
  <2>1. Head(cmds).gid \in Gid /\ CmdsTyped'
    BY <1>3, <1>t, CommandFields DEF PauseOrResume
  <2>2. to \in Live \cup Terminal
    BY DEF Live
  <2>3. AriaTyped' /\ NotifiedTyped'
    BY <1>3, <2>1, <2>2, MoveTyped, Zenon DEF PauseOrResume, AriaTyped
  <2>4. HandlingTyped'
    BY <1>3, <2>1, ThenTyped DEF PauseOrResume
  <2> QED
    BY <1>3, <2>1, <2>3, <2>4, UnchangedTyped, Zenon DEF PauseOrResume
<1>4. ASSUME Tell PROVE Typed'
  <2>1. handling.gid \in Gid
    BY <1>4, RestFields DEF Tell, HandlingTyped
  <2> DEFINE g == handling.gid
             progress == IF aria2[g] # "none" THEN <<Progress(g)>> ELSE <<>>
             announced == \/ handling.type = "tell_added" /\ aria2[g] # "none"
                          \/ handling.type = "tell_file"
             first == IF announced THEN <<Added(g, FALSE)>> ELSE <<>>
  <2>2. progress \in Seq(Event)
    BY <2>1, EventKinds, ShortSeqs DEF AriaTyped
  <2>3. first \in Seq(Event)
    BY <2>1, EventKinds, ShortSeqs
  <2>4. Hold("handler", first \o progress)
    BY <1>4 DEF Tell
  <2> HIDE DEF first, progress
  <2>5. HeldTyped'
    BY <2>2, <2>3, <2>4, <1>h, ShortSeqs, Zenon
  <2> QED
    BY <1>4, <2>5, IdleTyped, UnchangedTyped, Zenon DEF Tell
<1>5. ASSUME ForceRemove PROVE Typed'
  <2>1. Head(cmds).gid \in Gid /\ CmdsTyped'
    BY <1>5, <1>t, CommandFields DEF ForceRemove
  <2>2. "removed" \in Live \cup Terminal
    BY DEF Terminal
  <2>3. AriaTyped' /\ NotifiedTyped'
    BY <1>5, <2>1, <2>2, MoveTyped, Zenon DEF ForceRemove, AriaTyped
  <2>4. HandlingTyped'
    BY <1>5, <2>1, ThenTyped DEF ForceRemove
  <2> QED
    BY <1>5, <2>1, <2>3, <2>4, UnchangedTyped, Zenon DEF ForceRemove
<1>6. ASSUME ForgetRemoved PROVE Typed'
  <2>1. handling.gid \in Gid
    BY <1>6, RestFields DEF ForgetRemoved, HandlingTyped
  <2>2. <<Removed(handling.gid)>> \in Seq(Event)
    BY <2>1, EventKinds, ShortSeqs
  <2>3. AriaTyped'
    BY <1>6, SavedTyped, ForgottenTyped DEF ForgetRemoved, AriaTyped
  <2>4. HeldTyped'
    BY <1>6, <2>2, <1>h, Zenon DEF ForgetRemoved
  <2> QED
    BY <1>6, <2>3, <2>4, IdleTyped, UnchangedTyped, Zenon DEF ForgetRemoved
<1>7. ASSUME PurgeResults PROVE Typed'
  <2>1. AriaTyped' /\ CmdsTyped'
    BY <1>7, <1>t, ForgottenTyped, Zenon DEF PurgeResults, AriaTyped
  <2> QED
    BY <1>7, <2>1, UnchangedTyped, Zenon DEF PurgeResults
<1>8. ASSUME ReaddTask PROVE Typed'
  <2>1. Head(cmds).gid \in Gid /\ CmdsTyped'
    BY <1>8, <1>t, CommandFields DEF ReaddTask
  <2>2. AriaTyped' /\ HandlingTyped'
    BY <1>8, <2>1, ReaddTyped DEF ReaddTask, AriaTyped
  <2> QED
    BY <1>8, <2>1, <2>2, UnchangedTyped, Zenon DEF ReaddTask
<1>9. ASSUME PauseReadded PROVE Typed'
  <2>1. handling.gid \in Gid
    BY <1>9, RestFields DEF PauseReadded, HandlingTyped
  <2>2. "paused" \in Live \cup Terminal
    BY DEF Live
  <2>3. AriaTyped' /\ NotifiedTyped'
    BY <1>9, <2>1, <2>2, MoveTyped, Zenon DEF PauseReadded, AriaTyped
  <2>4. HandlingTyped'
    BY <1>9, <2>1, ThenTyped DEF PauseReadded
  <2> QED
    BY <1>9, <2>3, <2>4, UnchangedTyped, Zenon DEF PauseReadded
<1>10. ASSUME AnnounceReadded PROVE Typed'
  <2>1. handling.gid \in Gid
    BY <1>10, RestFields DEF AnnounceReadded, HandlingTyped
  <2>2. <<Added(handling.gid, TRUE)>> \in Seq(Event)
    BY <2>1, EventKinds, ShortSeqs
  <2>3. HandlingTyped'
    BY <1>10, <2>1, ThenTyped DEF AnnounceReadded
  <2>4. HeldTyped'
    BY <1>10, <2>2, <1>h, Zenon DEF AnnounceReadded
  <2> QED
    BY <1>10, <2>3, <2>4, UnchangedTyped, Zenon DEF AnnounceReadded
<1>11. ASSUME Redownload PROVE Typed'
  <2>1. Head(cmds).gid \in Gid /\ CmdsTyped'
    BY <1>11, <1>t, CommandFields DEF Redownload
  <2>2. AriaTyped' /\ HandlingTyped'
    BY <1>11, <2>1, ForgottenTyped, ThenTyped DEF Redownload, AriaTyped
  <2> QED
    BY <1>11, <2>1, <2>2, UnchangedTyped, Zenon DEF Redownload
<1>12. ASSUME AddAgain PROVE Typed'
  <2>1. handling.gid \in Gid
    BY <1>12, RestFields DEF AddAgain, HandlingTyped
  <2>2. AriaTyped' /\ HandlingTyped'
    BY <1>12, <2>1, ReaddTyped DEF AddAgain, AriaTyped
  <2> QED
    BY <1>12, <2>2, UnchangedTyped, Zenon DEF AddAgain
<1>13. ASSUME ChangeTaskAdvanced PROVE Typed'
  <2>1. Head(cmds).gid \in Gid /\ CmdsTyped'
    BY <1>13, <1>t, CommandFields DEF ChangeTaskAdvanced
  <2>2. <<Applied(Head(cmds).gid)>> \in Seq(Event)
    BY <2>1, EventKinds, ShortSeqs
  <2>3. AriaTyped'
    BY <1>13, SavedTyped DEF ChangeTaskAdvanced, AriaTyped
  <2>4. HeldTyped'
    <3>1. CASE Hold("handler", <<Applied(Head(cmds).gid)>>)
      BY <2>2, <3>1, <1>h, Zenon
    <3>2. CASE UNCHANGED held
      BY <3>2, UnchangedTyped, Zenon
    <3> QED
      BY <1>13, <3>1, <3>2 DEF ChangeTaskAdvanced
  <2> QED
    BY <1>13, <2>1, <2>3, <2>4, UnchangedTyped, Zenon DEF ChangeTaskAdvanced
<1>14. ASSUME PauseAll PROVE Typed'
  <2>1. AriaTyped' /\ NotifiedTyped'
    BY <1>14 DEF PauseAll, AriaTyped, NotifiedTyped, Live
  <2>2. HandlingTyped'
    BY <1>14 DEF PauseAll, HandlingTyped, Rest
  <2> QED
    BY <1>14, <2>1, <2>2, <1>t, UnchangedTyped, Zenon DEF PauseAll
<1>15. ASSUME ResumeAll PROVE Typed'
  <2>1. ResumingTyped'
    BY <1>15 DEF ResumeAll, ResumingTyped
  <2> QED
    BY <1>15, <2>1, <1>t, UnchangedTyped, Zenon DEF ResumeAll
<1>16. ASSUME NEW missed \in SUBSET Running, TellAll(missed) PROVE Typed'
  <2>1. PICK q \in Orders({Progress(g): g \in Listed \ missed}): Hold("handler", q)
    BY <1>16, Zenon DEF TellAll
  <2>2. q \in Seq(Event)
    <3>1. Listed \ missed \in SUBSET Listed
      OBVIOUS
    <3> QED
      BY <3>1, <2>1, ProgressListTyped, Zenon
  <2>3. HeldTyped'
    BY <2>1, <2>2, <1>h, Zenon
  <2> QED
    BY <1>16, <2>3, IdleTyped, UnchangedTyped, Zenon DEF TellAll
<1>17. Pause \/ Resume => Typed'
  BY <1>3 DEF Pause, Resume
<1> QED
  BY <1>1, <1>2, <1>4, <1>5, <1>6, <1>7, <1>8, <1>9, <1>10, <1>11, <1>12, <1>13, <1>14,
     <1>15, <1>16, <1>17, Zenon DEF Handler

(* The UI. *)
LEMMA CountTypedAfter ==
  ASSUME CountTyped, NEW before, NEW after, CountActive(before, after)
  PROVE  CountTyped'
<1> USE DEF CountTyped
<1>1. CASE before # "active" /\ after = "active"
  BY <1>1 DEF CountActive
<1>2. CASE before = "active" /\ after # "active"
  BY <1>2 DEF CountActive
<1>3. CASE (before = "active") = (after = "active")
  BY <1>3 DEF CountActive
<1> QED
  BY <1>1, <1>2, <1>3

LEMMA UpsertTyped ==
  ASSUME RowsTyped, NEW g \in Gid, NEW status \in Shown \cup {"none"}, NEW linked,
         Upsert(g, status, linked)
  PROVE  RowsTyped'
BY DEF Upsert, RowsTyped

LEMMA DeleteRowsTyped == RowsTyped /\ (\E gids: DeleteRows(gids)) => RowsTyped'
BY DEF DeleteRows, RowsTyped

LEMMA ExitTyped ==
  ASSUME SetsTyped, RowsTyped, NEW gids \in SUBSET Gid, BeginTaskExit(gids)
  PROVE  pending_removals' \subseteq Gid /\ removed_gids' \subseteq Gid
BY DEF BeginTaskExit, Leaving, SetsTyped

LEMMA SendEachTyped ==
  ASSUME CmdsTyped, NEW A \in SUBSET Gid,
         NEW type \in {"Add", "AddFile", "Pause", "Resume", "Remove", "Redownload",
                       "ChangeTaskAdvanced"},
         SendEach(type, A)
  PROVE  CmdsTyped'
<1>1. PICK q \in Orders({[type |-> type, gid |-> g]: g \in A}): cmds' = cmds \o q
  BY Zenon DEF SendEach
<1>2. q \in Seq(Command)
  BY <1>1, CommandListTyped
<1> QED
  BY <1>1, <1>2, ShortSeqs DEF CmdsTyped

LEMMA UITyped == Typed /\ UI => Typed'
<1> SUFFICES ASSUME Typed, UI PROVE Typed'
  OBVIOUS
<1> USE DEF Typed
<1>t. \A type: Receive(type) => Head(events) \in Event /\ Head(events).type = type /\ EventsTyped'
  BY ReceiveTyped, Zenon
<1>1. ASSUME HandleAdded PROVE Typed'
  <2>1. Head(events).gid \in Gid /\ EventsTyped'
    BY <1>1, <1>t, EventFields DEF HandleAdded
  <2>2. TasksTyped' /\ SetsTyped'
    BY <1>1, <2>1 DEF HandleAdded, TasksTyped, SetsTyped, Shown
  <2>3. RowsTyped'
    BY <1>1, <2>1, UpsertTyped DEF HandleAdded, RowsTyped, Shown
  <2> QED
    BY <1>1, <2>1, <2>2, <2>3, UnchangedTyped, Zenon DEF HandleAdded
<1>2. ASSUME HandleProgress PROVE Typed'
  <2> DEFINE g == Head(events).gid
             status == Head(events).status
             shown == IF g \in paused_gids THEN "paused" ELSE FromEngine(status)
             new == tasks[g] = "none" /\ g \notin removed_gids /\ status \notin Terminal
  <2>1. g \in Gid /\ status \in Live \cup Terminal /\ EventsTyped'
    BY <1>2, <1>t, EventFields DEF HandleProgress
  <2>2. shown \in Shown /\ FromEngine(status) \in Shown
    BY <2>1 DEF FromEngine, Live, Terminal, Shown
  <2>3. TasksTyped' /\ SetsTyped'
    BY <1>2, <2>1, <2>2 DEF HandleProgress, TasksTyped, SetsTyped
  <2>4. RowsTyped'
    <3>1. CASE new
      BY <1>2, <2>1, <2>2, <3>1, UpsertTyped DEF HandleProgress
    <3>2. CASE ~new
      BY <1>2, <3>2, UnchangedTyped, Zenon DEF HandleProgress
    <3> QED
      BY <3>1, <3>2
  <2>5. CountTyped'
    <3>1. CASE new \/ tasks[g] # "none"
      BY <1>2, <3>1, CountTypedAfter DEF HandleProgress
    <3>2. CASE ~(new \/ tasks[g] # "none")
      BY <1>2, <3>2, UnchangedTyped, Zenon DEF HandleProgress
    <3> QED
      BY <3>1, <3>2
  <2> QED
    BY <1>2, <2>1, <2>3, <2>4, <2>5, UnchangedTyped, Zenon DEF HandleProgress
<1>3. ASSUME HandleRemoved PROVE Typed'
  <2>1. Head(events).gid \in Gid /\ EventsTyped'
    BY <1>3, <1>t, EventFields DEF HandleRemoved
  <2>2. SetsTyped'
    BY <1>3, <2>1, ExitTyped DEF HandleRemoved, ExitAndDelete, SetsTyped
  <2>3. RowsTyped'
    BY <1>3, DeleteRowsTyped, Zenon DEF HandleRemoved, ExitAndDelete
  <2> QED
    BY <1>3, <2>1, <2>2, <2>3, UnchangedTyped, Zenon DEF HandleRemoved
<1>4. ASSUME HandleAdvancedApplied PROVE Typed'
  <2>1. Head(events).gid \in Gid /\ EventsTyped'
    BY <1>4, <1>t, EventFields DEF HandleAdvancedApplied
  <2>2. RowsTyped'
    <3>1. CASE tasks[Head(events).gid] # "none"
      BY <1>4, <2>1, <3>1, UpsertTyped DEF HandleAdvancedApplied, TasksTyped
    <3>2. CASE tasks[Head(events).gid] = "none"
      BY <1>4, <3>2, UnchangedTyped, Zenon DEF HandleAdvancedApplied
    <3> QED
      BY <3>1, <3>2
  <2> QED
    BY <1>4, <2>1, <2>2, UnchangedTyped, Zenon DEF HandleAdvancedApplied
<1>5. ASSUME HandleEngineReady PROVE Typed'
  <2>1. SetsTyped' /\ SyncTyped'
    BY <1>5 DEF HandleEngineReady, SetsTyped, SyncTyped
  <2> QED
    BY <1>5, <1>t, <2>1, UnchangedTyped, Zenon DEF HandleEngineReady
<1>6. ASSUME HandleSyncComplete PROVE Typed'
  <2>1. CASE sync_done
    BY <1>6, <1>t, <2>1, UnchangedTyped, Zenon DEF HandleSyncComplete
  <2>2. CASE ~sync_done
    <3>1. Reconcile
      BY <1>6, <2>2, Zenon DEF HandleSyncComplete
    <3>2. SetsTyped' /\ SyncTyped'
      <4>1. Unsynced \ link \in SUBSET Gid
        BY DEF Unsynced
      <4>2. pending_removals' \subseteq Gid /\ removed_gids' \subseteq Gid
        BY <3>1, <4>1, ExitTyped, Zenon DEF Reconcile, ExitAndDelete
      <4> QED
        BY <1>6, <3>1, <4>2
           DEF HandleSyncComplete, Reconcile, ExitAndDelete, SetsTyped, SyncTyped, Unsynced
    <3>3. RowsTyped'
      BY <3>1, DeleteRowsTyped, Zenon DEF Reconcile, ExitAndDelete
    <3>4. CmdsTyped'
      <4>1. PICK q \in Orders({ReaddCmd(g): g \in Unsynced \cap link}): cmds' = cmds \o q
        BY <3>1, Zenon DEF Reconcile
      <4>2. Unsynced \cap link \in SUBSET Gid
        BY DEF Unsynced
      <4>3. q \in Seq(Command)
        BY <4>1, <4>2, ReaddListTyped
      <4> QED
        BY <4>1, <4>3, ShortSeqs DEF CmdsTyped
    <3> QED
      BY <1>6, <1>t, <3>2, <3>3, <3>4, UnchangedTyped, Zenon DEF HandleSyncComplete
  <2> QED
    BY <2>1, <2>2
<1>7. ASSUME FlushDirty PROVE Typed'
  <2>1. SetsTyped' /\ RowsTyped'
    BY <1>7 DEF FlushDirty, Flush, SetsTyped, RowsTyped, TasksTyped
  <2> QED
    BY <1>7, <2>1, UnchangedTyped, Zenon DEF FlushDirty
<1>8. ASSUME NEW g \in Gid, FinalizeTaskRemoval(g) PROVE Typed'
  <2>1. SetsTyped' /\ TasksTyped'
    BY <1>8 DEF FinalizeTaskRemoval, SetsTyped, TasksTyped
  <2>2. CountTyped'
    BY <1>8, CountTypedAfter, Zenon DEF FinalizeTaskRemoval
  <2> QED
    BY <1>8, <2>1, <2>2, UnchangedTyped, Zenon DEF FinalizeTaskRemoval
<1>9. ASSUME NEW g \in Gid, GraceEnds(g) PROVE Typed'
  <2>1. SetsTyped'
    BY <1>9 DEF GraceEnds, SetsTyped
  <2> QED
    BY <1>9, <2>1, UnchangedTyped, Zenon DEF GraceEnds
<1> QED
  BY <1>1, <1>2, <1>3, <1>4, <1>5, <1>6, <1>7, <1>8, <1>9, Zenon DEF UI, Receiving

(* The user. *)
LEMMA UserTyped == Typed /\ User => Typed'
<1> SUFFICES ASSUME Typed, User PROVE Typed'
  OBVIOUS
<1> USE DEF Typed
<1>o. Operate /\ UNCHANGED <<changes, boots>> /\ (UNCHANGED used \/ used' \subseteq Gid)
        => BoundsTyped'
  BY DEF Operate, BoundsTyped
<1>s. \A A \in SUBSET Gid:
        \A type \in {"Add", "AddFile", "Pause", "Resume", "Remove", "Redownload",
                     "ChangeTaskAdvanced"}:
          SendEach(type, A) => CmdsTyped'
  BY SendEachTyped, Zenon
<1>u. Unfinished \in SUBSET Gid /\ \A g \in Gid: {g} \in SUBSET Gid
  BY DEF Unfinished
<1>1. ASSUME NEW g \in Gid, NEW type \in {"Add", "AddFile"}, AddTask(g, type) PROVE Typed'
  <2>1. CmdsTyped'
    BY <1>1, <1>s, <1>u, Zenon DEF AddTask
  <2>2. BoundsTyped'
    BY <1>1, <1>o DEF AddTask, BoundsTyped
  <2> QED
    BY <1>1, <2>1, <2>2, UnchangedTyped, Zenon DEF AddTask
<1>2. ASSUME NEW A \in SUBSET Gid, PauseTasks(A) PROVE Typed'
  <2>1. CmdsTyped'
    BY <1>2, <1>s, Zenon DEF PauseTasks
  <2>2. SetsTyped'
    BY <1>2 DEF PauseTasks, SetsTyped
  <2> QED
    BY <1>2, <1>o, <2>1, <2>2, UnchangedTyped, Zenon DEF PauseTasks
<1>3. ASSUME NEW A \in SUBSET Gid, NEW kept \in SUBSET Gid, ResumeTasks(A, kept) PROVE Typed'
  <2>1. CmdsTyped'
    BY <1>3, <1>s, Zenon DEF ResumeTasks
  <2>2. SetsTyped'
    BY <1>3 DEF ResumeTasks, SetsTyped
  <2> QED
    BY <1>3, <1>o, <2>1, <2>2, UnchangedTyped, Zenon DEF ResumeTasks
<1>4. ASSUME NEW g \in Gid, RedownloadTask(g) PROVE Typed'
  <2>1. CmdsTyped'
    BY <1>4, <1>s, <1>u, Zenon DEF RedownloadTask
  <2>2. SetsTyped'
    BY <1>4 DEF RedownloadTask, SetsTyped
  <2> QED
    BY <1>4, <1>o, <2>1, <2>2, UnchangedTyped, Zenon DEF RedownloadTask
<1>5. ASSUME NEW g \in Gid, RemoveTask(g) PROVE Typed'
  <2>1. CmdsTyped'
    BY <1>5, <1>s, <1>u, Zenon DEF RemoveTask
  <2>2. SetsTyped'
    BY <1>5 DEF RemoveTask, SetsTyped
  <2> QED
    BY <1>5, <1>o, <2>1, <2>2, UnchangedTyped, Zenon DEF RemoveTask
<1>6. ASSUME DeleteAll PROVE Typed'
  <2>1. CmdsTyped'
    BY <1>6, <1>s, <1>u, Zenon DEF DeleteAll
  <2>2. SetsTyped'
    BY <1>6, <1>u, ExitTyped DEF DeleteAll, ExitAndDelete, SetsTyped
  <2>3. RowsTyped'
    BY <1>6, DeleteRowsTyped, Zenon DEF DeleteAll, ExitAndDelete
  <2> QED
    BY <1>6, <1>o, <2>1, <2>2, <2>3, UnchangedTyped, Zenon DEF DeleteAll
<1>7. ASSUME NEW ended, ClearCompleted(ended) PROVE Typed'
  <2> DEFINE gids == {g \in Gid: tasks[g] \in ended}
  <2>1. CmdsTyped'
    <3>1. [type |-> "PurgeResults", gids |-> gids] \in Command
      BY DEF Command
    <3>2. cmds' = Append(cmds, [type |-> "PurgeResults", gids |-> gids])
      BY <1>7 DEF ClearCompleted
    <3> HIDE DEF gids
    <3> QED
      BY <3>1, <3>2, ShortSeqs DEF CmdsTyped
  <2>2. SetsTyped'
    <3>1. gids \in SUBSET Gid /\ BeginTaskExit(gids)
      BY <1>7, Zenon DEF ClearCompleted
    <3> HIDE DEF gids
    <3>2. pending_removals' \subseteq Gid /\ removed_gids' \subseteq Gid
      BY <3>1, ExitTyped
    <3> QED
      BY <1>7, <3>2 DEF ClearCompleted, SetsTyped
  <2>3. RowsTyped'
    BY <1>7, DeleteRowsTyped, Zenon DEF ClearCompleted
  <2> QED
    BY <1>7, <1>o, <2>1, <2>2, <2>3, UnchangedTyped, Zenon DEF ClearCompleted
<1>8. ASSUME NEW g \in Gid, SaveAdvanced(g) PROVE Typed'
  <2>1. CmdsTyped'
    BY <1>8, <1>s, <1>u, Zenon DEF SaveAdvanced
  <2> QED
    BY <1>8, <1>o, <2>1, UnchangedTyped, Zenon DEF SaveAdvanced
<1>9. ASSUME NEW type \in {"PauseAll", "ResumeAll"}, Extension(type) PROVE Typed'
  <2>1. CmdsTyped'
    BY <1>9, ShortSeqs DEF Extension, CmdsTyped, Command
  <2> QED
    BY <1>9, <1>o, <2>1, UnchangedTyped, Zenon DEF Extension
<1>k. {} \in SUBSET Gid /\ \A g \in Gid: paused_gids \ {g} \in SUBSET Gid
  BY DEF SetsTyped
<1> QED
  BY <1>1, <1>2, <1>3, <1>4, <1>5, <1>6, <1>7, <1>8, <1>9, <1>k, <1>u, ZenonT(60) DEF User

LEMMA TypeStep == TypeOK /\ [Next]_vars => TypeOK'
<1>1. ASSUME Typed, UNCHANGED vars PROVE Typed'
  BY <1>1, UnchangedTyped, Zenon DEF vars, Typed, channel, table
<1>2. Typed /\ [Next]_vars => Typed'
  BY <1>1, AriaStepTyped, EngineTyped, LoopsTyped, BootStepTyped, SendTyped,
     ResumingStepTyped, HandlerTyped, UITyped, UserTyped, Zenon DEF Next
<1>3. Typed' <=> TypeOK'
  BY Zenon DEF Typed, TypeOK, AriaTyped, HeldTyped, NotifiedTyped, ScanTyped, ResumingTyped,
     BootTyped, EventsTyped, CmdsTyped, HandlingTyped, TasksTyped, CountTyped,
     SetsTyped, SyncTyped, RowsTyped, BoundsTyped
<1> QED
  BY <1>2, <1>3, TypedIsTypeOK, Zenon

LEMMA InitTyped == Init => TypeOK
<1> SUFFICES ASSUME Init PROVE TypeOK
  OBVIOUS
<1>1. PICK file \in [Gid -> {"none", "queued", "paused"}]: aria2 \in Load(file)
  BY Zenon DEF Init
<1>2. AriaTyped
  BY <1>1, LoadTyped, SavedTyped DEF Init, AriaTyped
<1>3. HeldTyped /\ EventsTyped /\ CmdsTyped
  BY ShortSeqs DEF Init, HeldTyped, EventsTyped, CmdsTyped
<1>4. TasksTyped /\ RowsTyped
  BY DEF Init, TasksTyped, RowsTyped
<1>5. CountTyped
  <2>1. IsFiniteSet({g \in Gid: db[g] = "active"})
    BY BoundAssumption, FS_Subset
  <2> QED
    BY <2>1, FS_CardinalityType DEF Init, CountTyped
<1>6. HandlingTyped /\ ResumingTyped /\ BootTyped /\ SyncTyped
  <2>1. BootTyped
    <3>1. boot = [boot |-> "options", oldboot |-> "none"]
      BY Zenon DEF Init
    <3>2. DOMAIN boot = {"boot", "oldboot"} /\ boot["boot"] = "options" /\ boot["oldboot"] = "none"
      BY <3>1
    <3>3. boot = [e \in {"boot", "oldboot"} |-> boot[e]]
      BY <3>1
    <3> QED
      BY <3>2, <3>3 DEF BootTyped
  <2> QED
    BY <2>1 DEF Init, HandlingTyped, ResumingTyped, SyncTyped, Idle, Rest
<1>7. NotifiedTyped /\ ScanTyped /\ SetsTyped /\ BoundsTyped
  BY DEF Init, NotifiedTyped, ScanTyped, SetsTyped, BoundsTyped
<1> QED
  BY <1>2, <1>3, <1>4, <1>5, <1>6, <1>7, TypedIsTypeOK DEF Typed

-----------------------------------------------------------------------------
(* The table, its counter and its rows: few actions touch them. *)
content == <<tasks, pending_removals, removed_gids, dirty, active_count, db>>

LEMMA ContentActions ==
  [Next]_vars =>
    \/ UNCHANGED content
    \/ HandleAdded \/ HandleProgress \/ HandleRemoved \/ HandleAdvancedApplied
    \/ (HandleSyncComplete /\ ~sync_done) \/ FlushDirty \/ DeleteAll
    \/ \E g \in Gid: FinalizeTaskRemoval(g) \/ GraceEnds(g)
    \/ ClearCompleted({"complete", "removed"}) \/ ClearCompleted({"error"})
<1>1. UNCHANGED <<table, rows>> => UNCHANGED content
  BY DEF content, table, rows
<1>2. UNCHANGED vars => UNCHANGED content
  BY DEF content, table, rows, vars
<1>3. Handler => UNCHANGED content
  BY <1>1 DEF Handler, AddDownload, Pause, Resume, PauseOrResume, Tell, ForceRemove,
        ForgetRemoved, PurgeResults, ReaddTask, PauseReadded, AnnounceReadded, Redownload,
        AddAgain, ChangeTaskAdvanced, AddFile, PauseAll, ResumeAll, TellAll
<1>4. Boot \/ Scan \/ FastTick \/ Resuming \/ (\E e \in Sender: Send(e)) => UNCHANGED content
  BY <1>1, Zenon DEF Boot, BootSync, BootReady, SyncFails, SyncExisting, Scan, SlowScan, FastTick,
        Resuming, Unpause, TellResumed, Send
<1>5. AutoSave \/ Crash \/ Respawn \/ (\E g \in Gid: AriaStep(g) \/ FollowNotification(g))
        => UNCHANGED content
  BY <1>1 DEF AutoSave, Crash, Respawn, AriaStep, FollowNotification
<1>6. ASSUME NEW g \in Gid
      PROVE  /\ \A type: AddTask(g, type) => UNCHANGED content
             /\ RedownloadTask(g) \/ RemoveTask(g) \/ SaveAdvanced(g) => UNCHANGED content
  BY DEF AddTask, RedownloadTask, RemoveTask, SaveAdvanced, content, table, rows
<1>7. /\ \A type: Extension(type) => UNCHANGED content
      /\ \A A: PauseTasks(A) => UNCHANGED content
      /\ \A A, kept: ResumeTasks(A, kept) => UNCHANGED content
      /\ HandleEngineReady => UNCHANGED content
      /\ HandleSyncComplete /\ sync_done => UNCHANGED content
  BY DEF Extension, PauseTasks, ResumeTasks, HandleEngineReady, HandleSyncComplete, content,
         table, rows
<1> QED
  BY <1>2, <1>3, <1>4, <1>5, <1>6, <1>7, ZenonT(60) DEF Next, UI, Receiving, User

(* active_count follows the one task whose status a handler sets. *)
LEMMA OneTaskCounted ==
  ASSUME TasksTyped, ActiveCountExact, NEW g \in Gid, NEW status,
         tasks' = [tasks EXCEPT ![g] = status], CountActive(tasks[g], status)
  PROVE  ActiveCountExact'
<1> DEFINE A == {h \in Gid: tasks[h] = "active"}
           B == {h \in Gid: tasks'[h] = "active"}
<1>1. IsFiniteSet(A) /\ active_count = Cardinality(A) /\ Cardinality(A) \in Nat
  BY BoundAssumption, FS_Subset, FS_CardinalityType DEF ActiveCountExact
<1>2. \A h \in Gid: tasks'[h] = IF h = g THEN status ELSE tasks[h]
  BY DEF TasksTyped
<1>3. CASE tasks[g] # "active" /\ status = "active"
  <2>1. B = A \cup {g} /\ g \notin A
    BY <1>2, <1>3
  <2>2. active_count' = active_count + 1
    BY <1>3 DEF CountActive
  <2> HIDE DEF A, B
  <2>3. Cardinality(B) = Cardinality(A) + 1
    BY <1>1, <2>1, FS_AddElement
  <2> QED
    BY <1>1, <2>2, <2>3 DEF ActiveCountExact, B
<1>4. CASE tasks[g] = "active" /\ status # "active"
  <2>1. B = A \ {g} /\ g \in A
    BY <1>2, <1>4
  <2>2. active_count' = IF active_count = 0 THEN 0 ELSE active_count - 1
    BY <1>4 DEF CountActive
  <2> HIDE DEF A, B
  <2>3. Cardinality(B) = Cardinality(A) - 1 /\ Cardinality(B) \in Nat
    BY <1>1, <2>1, FS_RemoveElement, FS_CardinalityType
  <2> QED
    BY <1>1, <2>2, <2>3 DEF ActiveCountExact, B
<1>5. CASE (tasks[g] = "active") = (status = "active")
  <2>1. B = A
    BY <1>2, <1>5
  <2>2. active_count' = active_count
    BY <1>5 DEF CountActive
  <2> QED
    BY <1>1, <2>1, <2>2 DEF ActiveCountExact
<1> QED
  BY <1>3, <1>4, <1>5

LEMMA CountStep == TypeOK /\ ActiveCountExact /\ [Next]_vars => ActiveCountExact'
<1> SUFFICES ASSUME Typed, ActiveCountExact, [Next]_vars PROVE ActiveCountExact'
  BY TypedIsTypeOK, Zenon
<1>0. TasksTyped /\ \A type: Receive(type) => Head(events) \in Event /\ Head(events).type = type
  BY ReceiveTyped, Zenon DEF Typed
<1>1. UNCHANGED <<tasks, active_count>> => ActiveCountExact'
  BY DEF ActiveCountExact
<1>2. CASE HandleAdded
  <2>1. Head(events).gid \in Gid
    BY <1>2, <1>0, EventFields DEF HandleAdded
  <2>2. CASE UNCHANGED tasks
    BY <1>1, <1>2, <2>2 DEF HandleAdded
  <2>3. CASE tasks[Head(events).gid] = "none" /\ tasks' = [tasks EXCEPT ![Head(events).gid] = "waiting"]
    <3>1. active_count' = active_count
      BY <1>2 DEF HandleAdded
    <3>2. CountActive(tasks[Head(events).gid], "waiting")
      BY <2>3, <3>1 DEF CountActive
    <3> QED
      BY <2>1, <2>3, <3>2, <1>0, OneTaskCounted
  <2> QED
    BY <1>2, <2>2, <2>3, Zenon DEF HandleAdded
<1>3. CASE HandleProgress
  <2>1. Head(events).gid \in Gid
    BY <1>3, <1>0, EventFields DEF HandleProgress
  <2>2. CASE UNCHANGED <<tasks, active_count>>
    BY <1>1, <2>2
  <2>3. CASE \E shown: /\ tasks' = [tasks EXCEPT ![Head(events).gid] = shown]
                       /\ CountActive(tasks[Head(events).gid], shown)
    BY <2>1, <2>3, <1>0, OneTaskCounted
  <2> QED
    BY <1>3, <2>2, <2>3, Zenon DEF HandleProgress
<1>4. ASSUME NEW g \in Gid, FinalizeTaskRemoval(g) \/ GraceEnds(g) PROVE ActiveCountExact'
  BY <1>1, <1>4, <1>0, OneTaskCounted, Zenon DEF FinalizeTaskRemoval, GraceEnds
<1>5. UNCHANGED content => ActiveCountExact'
  BY <1>1 DEF content
<1>6. HandleRemoved \/ HandleAdvancedApplied \/ HandleSyncComplete \/ FlushDirty \/ DeleteAll
        => UNCHANGED <<tasks, active_count>>
  BY DEF HandleRemoved, HandleAdvancedApplied, HandleSyncComplete, FlushDirty, DeleteAll, table
<1>7. \A ended: ClearCompleted(ended) => UNCHANGED <<tasks, active_count>>
  BY DEF ClearCompleted
<1> QED
  BY <1>1, <1>2, <1>3, <1>4, <1>5, <1>6, <1>7, ContentActions, Zenon

(* The rows of the tasks on screen.  Only a task that leaves loses its row, *)
(* and a task is shown before it is dirty, or with a row of its status.    *)
RowsInv == ShownTaskHasRow /\ CleanTaskIsSaved

LEMMA ExitKeepsRows ==
  ASSUME RowsInv, NEW gids, ExitAndDelete(gids), UNCHANGED tasks
  PROVE  RowsInv'
BY DEF ExitAndDelete, BeginTaskExit, DeleteRows, Leaving, RowsInv, ShownTaskHasRow,
       CleanTaskIsSaved

LEMMA RowsStep == TypeOK /\ RowsInv /\ [Next]_vars => RowsInv'
<1> SUFFICES ASSUME Typed, RowsInv, [Next]_vars PROVE RowsInv'
  BY TypedIsTypeOK, Zenon
<1> USE DEF RowsInv, ShownTaskHasRow, CleanTaskIsSaved
<1>0. /\ TasksTyped /\ RowsTyped
      /\ \A type: Receive(type) => Head(events) \in Event /\ Head(events).type = type
  BY ReceiveTyped, Zenon DEF Typed
<1>1. CASE UNCHANGED content
  BY <1>1 DEF content
<1>2. CASE HandleAdded
  <2>1. Head(events).gid \in Gid
    BY <1>2, <1>0, EventFields DEF HandleAdded
  <2> QED
    BY <1>2, <1>0, <2>1 DEF HandleAdded, TasksTyped, RowsTyped, Upsert
<1>3. CASE HandleProgress
  <2> DEFINE g == Head(events).gid
             status == Head(events).status
             shown == IF g \in paused_gids THEN "paused" ELSE FromEngine(status)
             new == tasks[g] = "none" /\ g \notin removed_gids /\ status \notin Terminal
  <2>1. g \in Gid /\ status \in Live \cup Terminal
    BY <1>3, <1>0, EventFields DEF HandleProgress
  <2>2. FromEngine(status) # "none"
    BY <2>1 DEF FromEngine, Live, Terminal
  <2>3. CASE new
    BY <1>3, <1>0, <2>1, <2>2, <2>3 DEF HandleProgress, TasksTyped, RowsTyped, Upsert
  <2>4. CASE ~new /\ tasks[g] # "none"
    BY <1>3, <1>0, <2>1, <2>4 DEF HandleProgress, TasksTyped, rows
  <2>5. CASE ~new /\ tasks[g] = "none"
    BY <1>3, <2>5 DEF HandleProgress, rows
  <2> QED
    BY <2>3, <2>4, <2>5
<1>4. CASE HandleRemoved \/ DeleteAll \/ (HandleSyncComplete /\ ~sync_done)
  <2>1. \E gids: ExitAndDelete(gids) /\ UNCHANGED tasks
    BY <1>4, Zenon DEF HandleRemoved, DeleteAll, HandleSyncComplete, Reconcile
  <2> QED
    BY <2>1, ExitKeepsRows, Zenon
<1>5. CASE HandleAdvancedApplied
  <2>1. Head(events).gid \in Gid
    BY <1>5, <1>0, EventFields DEF HandleAdvancedApplied
  <2> QED
    BY <1>5, <1>0, <2>1 DEF HandleAdvancedApplied, RowsTyped, Upsert, table, rows
<1>6. CASE FlushDirty
  BY <1>6, <1>0 DEF FlushDirty, Flush, TasksTyped
<1>7. ASSUME NEW g \in Gid, FinalizeTaskRemoval(g) \/ GraceEnds(g) PROVE RowsInv'
  BY <1>7, <1>0 DEF FinalizeTaskRemoval, GraceEnds, TasksTyped, rows
<1>8. ASSUME NEW ended, "none" \notin ended, ClearCompleted(ended) PROVE RowsInv'
  BY <1>8 DEF ClearCompleted, BeginTaskExit, DeleteRows, Leaving
<1>9. "none" \notin {"complete", "removed"} /\ "none" \notin {"error"}
  OBVIOUS
<1> QED
  BY <1>1, <1>2, <1>3, <1>4, <1>5, <1>6, <1>7, <1>8, <1>9, ContentActions, Zenon

LEMMA InitRows == Init => ActiveCountExact /\ RowsInv
BY DEF Init, ActiveCountExact, RowsInv, ShownTaskHasRow, CleanTaskIsSaved

(* Whatever answers reach the UI, and in whatever order, its counter is the *)
(* number of active tasks, every task on screen that is not leaving has a  *)
(* row, and what no flush will write is on disk as it is on screen          *)
(* (handle_event, begin_task_exit, flush_dirty).                            *)
THEOREM TableAgrees == Spec => []TableConsistent
<1>1. Init => TableConsistent
  BY InitTyped, InitRows, Zenon DEF TableConsistent, RowsInv
<1>2. TableConsistent /\ [Next]_vars => TableConsistent'
  BY TypeStep, CountStep, RowsStep, Zenon DEF TableConsistent, RowsInv
<1> QED
  BY <1>1, <1>2, PTL DEF Spec

-----------------------------------------------------------------------------
(* What is on its way about a gid, until the engine first restarts: the    *)
(* gids that a list of events tells of, the ones a list of commands makes  *)
(* aria2 forget, and the ones the table, or aria2 as well, still knows.    *)
TellsOf(q) ==
  {g \in Gid: \E i \in 1..Len(q): q[i].type \in {"Added", "Progress"} /\ q[i].gid = g}
Forgets(c) ==
  {g \in Gid: \/ c.type \in {"Remove", "Redownload"} /\ c.gid = g
              \/ c.type = "PurgeResults" /\ g \in c.gids}
ForgetsOf(q) == UNION {Forgets(q[i]): i \in 1..Len(q)}
Remembered == {g \in Gid: tasks[g] # "none"} \cup removed_gids
Known == Listed \cup Remembered

EventsGrounded == TellsOf(events) \subseteq Known
HeldGrounded == \A e \in Sender: TellsOf(held[e]) \subseteq Known
CmdsGrounded == ForgetsOf(cmds) \subseteq Remembered
HandlingGrounded ==
  /\ handling.type = "forget" => handling.gid \in Remembered
  /\ handling.type \in {"pause", "announce", "tell_file"} => handling.gid \in Known

Grounded ==
  alive /\ boots = 0 => EventsGrounded /\ HeldGrounded /\ CmdsGrounded /\ HandlingGrounded

(* A card that leaves is remembered until it has left. *)
LeavingRemembered == pending_removals \subseteq removed_gids

(* Lists of messages. *)
LEMMA TellsOfOne ==
  /\ TellsOf(<<>>) = {}
  /\ \A m: TellsOf(<<m>>) = {g \in Gid: m.type \in {"Added", "Progress"} /\ m.gid = g}
BY DEF TellsOf

LEMMA TellsOfConcat ==
  ASSUME NEW q \in Seq(Event), NEW r \in Seq(Event)
  PROVE  TellsOf(q \o r) = TellsOf(q) \cup TellsOf(r)
<1>1. /\ Len(q \o r) = Len(q) + Len(r) /\ Len(q) \in Nat /\ Len(r) \in Nat
      /\ \A i \in 1..Len(q): (q \o r)[i] = q[i]
      /\ \A i \in 1..Len(r): (q \o r)[Len(q) + i] = r[i]
  OBVIOUS
<1>2. \A i \in 1..Len(q \o r): i \in 1..Len(q) \/ i - Len(q) \in 1..Len(r)
  BY <1>1
<1>3. \A i \in 1..Len(q \o r): i = Len(q) + (i - Len(q))
  BY <1>1
<1>4. TellsOf(q \o r) \subseteq TellsOf(q) \cup TellsOf(r)
  <2> SUFFICES ASSUME NEW g \in Gid, NEW i \in 1..Len(q \o r),
                      (q \o r)[i].type \in {"Added", "Progress"}, (q \o r)[i].gid = g
               PROVE  g \in TellsOf(q) \cup TellsOf(r)
    BY DEF TellsOf
  <2>1. CASE i \in 1..Len(q)
    BY <1>1, <2>1 DEF TellsOf
  <2>2. CASE i - Len(q) \in 1..Len(r)
    <3>1. (q \o r)[i] = r[i - Len(q)]
      BY <1>1, <1>3, <2>2
    <3> QED
      BY <2>2, <3>1 DEF TellsOf
  <2> QED
    BY <1>2, <2>1, <2>2
<1>5. \A i \in 1..Len(q): i \in 1..Len(q \o r)
  BY <1>1
<1>6. \A i \in 1..Len(r): Len(q) + i \in 1..Len(q \o r)
  BY <1>1
<1>7. TellsOf(q) \subseteq TellsOf(q \o r)
  BY <1>1, <1>5 DEF TellsOf
<1>8. TellsOf(r) \subseteq TellsOf(q \o r)
  BY <1>1, <1>6 DEF TellsOf
<1> QED
  BY <1>4, <1>7, <1>8

LEMMA TellsOfAppend ==
  ASSUME NEW q \in Seq(Event), NEW m \in Event
  PROVE  TellsOf(Append(q, m)) = TellsOf(q) \cup TellsOf(<<m>>)
<1>1. Len(Append(q, m)) = Len(q) + 1 /\ Len(q) \in Nat /\ Append(q, m)[Len(q) + 1] = m
      /\ \A i \in 1..Len(q): Append(q, m)[i] = q[i]
  OBVIOUS
<1>2. 1..Len(Append(q, m)) = 1..Len(q) \cup {Len(q) + 1}
  BY <1>1
<1>3. TellsOf(<<m>>) = {g \in Gid: m.type \in {"Added", "Progress"} /\ m.gid = g}
  BY TellsOfOne
<1> QED
  BY <1>1, <1>2, <1>3, Zenon DEF TellsOf

LEMMA TellsOfTail ==
  ASSUME NEW q \in Seq(Event), q # <<>>
  PROVE  TellsOf(Tail(q)) \subseteq TellsOf(q)
<1> SUFFICES ASSUME NEW g \in Gid, NEW i \in 1..Len(Tail(q)),
                    Tail(q)[i].type \in {"Added", "Progress"}, Tail(q)[i].gid = g
             PROVE  g \in TellsOf(q)
  BY DEF TellsOf
<1>1. i + 1 \in 1..Len(q) /\ Tail(q)[i] = q[i + 1]
  OBVIOUS
<1> QED
  BY <1>1 DEF TellsOf

LEMMA TellsOfOrder ==
  ASSUME NEW M, NEW q \in Orders(M), IsFiniteSet(M), NEW A \in SUBSET Gid,
         \A m \in M: m.type \in {"Added", "Progress"} => m.gid \in A
  PROVE  TellsOf(q) \subseteq A
<1>1. Cardinality(M) \in Nat /\ q \in [1..Cardinality(M) -> M]
  BY FS_CardinalityType, Zenon DEF Orders, SetToSeqs
<1> QED
  BY <1>1 DEF TellsOf

LEMMA ForgetsOfList ==
  ASSUME NEW q \in Seq(Command), NEW r \in Seq(Command), NEW c \in Command
  PROVE  /\ ForgetsOf(q \o r) = ForgetsOf(q) \cup ForgetsOf(r)
         /\ ForgetsOf(Append(q, c)) = ForgetsOf(q) \cup Forgets(c)
         /\ q # <<>> => ForgetsOf(q) = Forgets(Head(q)) \cup ForgetsOf(Tail(q))
<1>1. ForgetsOf(q \o r) = ForgetsOf(q) \cup ForgetsOf(r)
  <2>1. /\ Len(q \o r) = Len(q) + Len(r) /\ Len(q) \in Nat /\ Len(r) \in Nat
        /\ \A i \in 1..Len(q): (q \o r)[i] = q[i]
        /\ \A i \in 1..Len(r): (q \o r)[Len(q) + i] = r[i]
    OBVIOUS
  <2>2. \A i \in 1..Len(q \o r): i \in 1..Len(q) \/ (i - Len(q) \in 1..Len(r) /\ i = Len(q) + (i - Len(q)))
    BY <2>1
  <2>3. ForgetsOf(q \o r) \subseteq ForgetsOf(q) \cup ForgetsOf(r)
    <3> SUFFICES ASSUME NEW i \in 1..Len(q \o r)
                 PROVE  Forgets((q \o r)[i]) \subseteq ForgetsOf(q) \cup ForgetsOf(r)
      BY DEF ForgetsOf
    <3>1. CASE i \in 1..Len(q)
      BY <2>1, <3>1 DEF ForgetsOf
    <3>2. CASE i - Len(q) \in 1..Len(r) /\ i = Len(q) + (i - Len(q))
      <4>1. (q \o r)[i] = r[i - Len(q)]
        BY <2>1, <3>2
      <4> QED
        BY <3>2, <4>1 DEF ForgetsOf
    <3> QED
      BY <2>2, <3>1, <3>2
  <2>4. ForgetsOf(q) \subseteq ForgetsOf(q \o r)
    <3>1. \A i \in 1..Len(q): i \in 1..Len(q \o r)
      BY <2>1
    <3> QED
      BY <2>1, <3>1 DEF ForgetsOf
  <2>5. ForgetsOf(r) \subseteq ForgetsOf(q \o r)
    <3>1. \A i \in 1..Len(r): Len(q) + i \in 1..Len(q \o r)
      BY <2>1
    <3> QED
      BY <2>1, <3>1 DEF ForgetsOf
  <2> QED
    BY <2>3, <2>4, <2>5
<1>2. ForgetsOf(Append(q, c)) = ForgetsOf(q) \cup Forgets(c)
  <2>1. Len(Append(q, c)) = Len(q) + 1 /\ Len(q) \in Nat /\ Append(q, c)[Len(q) + 1] = c
        /\ \A i \in 1..Len(q): Append(q, c)[i] = q[i]
    OBVIOUS
  <2>2. 1..Len(Append(q, c)) = 1..Len(q) \cup {Len(q) + 1}
    BY <2>1
  <2> QED
    BY <2>1, <2>2, Zenon DEF ForgetsOf
<1>3. ASSUME q # <<>> PROVE ForgetsOf(q) = Forgets(Head(q)) \cup ForgetsOf(Tail(q))
  <2>1. /\ Len(Tail(q)) = Len(q) - 1 /\ Len(q) \in Nat /\ Len(q) >= 1 /\ Head(q) = q[1]
        /\ \A i \in 1..Len(Tail(q)): Tail(q)[i] = q[i + 1]
    BY <1>3
  <2>2. \A i \in 1..Len(q): i = 1 \/ (i - 1 \in 1..Len(Tail(q)) /\ i = (i - 1) + 1)
    BY <2>1
  <2>3. ForgetsOf(q) \subseteq Forgets(Head(q)) \cup ForgetsOf(Tail(q))
    <3> SUFFICES ASSUME NEW i \in 1..Len(q)
                 PROVE  Forgets(q[i]) \subseteq Forgets(Head(q)) \cup ForgetsOf(Tail(q))
      BY DEF ForgetsOf
    <3>1. CASE i = 1
      BY <2>1, <3>1
    <3>2. CASE i - 1 \in 1..Len(Tail(q)) /\ i = (i - 1) + 1
      <4>1. q[i] = Tail(q)[i - 1]
        BY <2>1, <3>2
      <4> QED
        BY <3>2, <4>1 DEF ForgetsOf
    <3> QED
      BY <2>2, <3>1, <3>2
  <2>4. ForgetsOf(Tail(q)) \subseteq ForgetsOf(q)
    <3>1. \A i \in 1..Len(Tail(q)): i + 1 \in 1..Len(q)
      BY <2>1
    <3> QED
      BY <2>1, <3>1 DEF ForgetsOf
  <2>5. Forgets(Head(q)) \subseteq ForgetsOf(q)
    <3>1. 1 \in 1..Len(q)
      BY <2>1
    <3> QED
      BY <2>1, <3>1 DEF ForgetsOf
  <2> QED
    BY <2>3, <2>4, <2>5
<1> QED
  BY <1>1, <1>2, <1>3

LEMMA ForgetsOfOrder ==
  ASSUME NEW M, NEW q \in Orders(M), IsFiniteSet(M), NEW A \in SUBSET Gid,
         \A c \in M: Forgets(c) \subseteq A
  PROVE  ForgetsOf(q) \subseteq A
<1>1. Cardinality(M) \in Nat /\ q \in [1..Cardinality(M) -> M]
  BY FS_CardinalityType, Zenon DEF Orders, SetToSeqs
<1> QED
  BY <1>1 DEF ForgetsOf

(* The table forgets a gid only when its grace period ends. *)
LEMMA RememberedKept ==
  ASSUME Typed, LeavingRemembered, [Next]_vars
  PROVE  /\ LeavingRemembered'
         /\ Remembered \subseteq Remembered' \/ \E g \in Gid: GraceEnds(g)
<1> USE DEF LeavingRemembered, Remembered
<1>0. /\ TasksTyped /\ RowsTyped /\ removed_gids \subseteq Gid
      /\ \A type: Receive(type) => Head(events) \in Event /\ Head(events).type = type
  BY ReceiveTyped, Zenon DEF Typed, SetsTyped
<1>1. CASE UNCHANGED content
  BY <1>1 DEF content
<1>2. CASE HandleAdded
  <2>1. Head(events).gid \in Gid
    BY <1>2, <1>0, EventFields DEF HandleAdded
  <2> QED
    BY <1>2, <1>0, <2>1 DEF HandleAdded, TasksTyped
<1>3. CASE HandleProgress
  <2> DEFINE g == Head(events).gid
             shown == IF g \in paused_gids THEN "paused" ELSE FromEngine(Head(events).status)
  <2>1. g \in Gid /\ Head(events).status \in Live \cup Terminal
    BY <1>3, <1>0, EventFields DEF HandleProgress
  <2>2. shown # "none"
    BY <2>1 DEF FromEngine, Live, Terminal
  <2>3. tasks' = tasks \/ tasks' = [tasks EXCEPT ![g] = shown]
    BY <1>3, Zenon DEF HandleProgress
  <2>4. UNCHANGED <<pending_removals, removed_gids>>
    BY <1>3 DEF HandleProgress
  <2> QED
    BY <1>0, <2>1, <2>2, <2>3, <2>4 DEF TasksTyped
<1>4. ASSUME NEW gids, BeginTaskExit(gids), UNCHANGED tasks
      PROVE  LeavingRemembered' /\ Remembered \subseteq Remembered'
  BY <1>4 DEF BeginTaskExit
<1>5. ASSUME HandleRemoved \/ DeleteAll \/ (HandleSyncComplete /\ ~sync_done)
             \/ (\E ended: ClearCompleted(ended))
      PROVE  LeavingRemembered' /\ Remembered \subseteq Remembered'
  <2>1. \E gids: BeginTaskExit(gids) /\ UNCHANGED tasks
    BY <1>5, Zenon DEF HandleRemoved, DeleteAll, HandleSyncComplete, Reconcile, ClearCompleted,
       ExitAndDelete
  <2> QED
    BY <2>1, <1>4, Zenon
<1>6. CASE HandleAdvancedApplied \/ FlushDirty
  BY <1>6 DEF HandleAdvancedApplied, FlushDirty, table
<1>7. ASSUME NEW g \in Gid, FinalizeTaskRemoval(g)
      PROVE  LeavingRemembered' /\ Remembered \subseteq Remembered'
  BY <1>7, <1>0 DEF FinalizeTaskRemoval, TasksTyped
<1>8. ASSUME NEW g \in Gid, GraceEnds(g) PROVE LeavingRemembered'
  BY <1>8 DEF GraceEnds
<1> QED
  BY <1>1, <1>2, <1>3, <1>5, <1>6, <1>7, <1>8, ContentActions, Zenon

(* aria2 forgets a gid only when it is told to, before it first restarts. *)
LEMMA ListedKept ==
  ASSUME Typed, Grounded, [Next]_vars, alive', boots' = 0
  PROVE  alive /\ boots = 0 /\ Listed \subseteq Listed' \cup Remembered
<1>0. boots \in Nat /\ aria2 \in [Gid -> Live \cup Terminal \cup {"none"}]
  BY DEF Typed, BoundsTyped, AriaTyped
<1>1. ~Crash /\ ~Respawn
  BY <1>0 DEF Crash, Respawn
<1>2. UNCHANGED <<aria, bounds>> => alive /\ boots = 0 /\ Listed \subseteq Listed'
  BY DEF aria, bounds, Listed
<1>3. ASSUME NEW g \in Gid, AriaStep(g)
      PROVE  alive /\ boots = 0 /\ Listed \subseteq Listed'
  BY <1>3, <1>0 DEF AriaStep, Listed
<1>4. CASE AutoSave
  BY <1>4 DEF AutoSave, bounds, Listed
<1>5. ASSUME User PROVE alive /\ boots = 0 /\ Listed \subseteq Listed'
  <2>1. UNCHANGED <<aria, boots>>
    BY <1>5, Zenon DEF User, AddTask, RedownloadTask, RemoveTask, SaveAdvanced, PauseTasks, ResumeTasks,
       DeleteAll, ClearCompleted, Extension
  <2> QED
    BY <2>1 DEF aria, Listed
<1>6. UI \/ Boot \/ Scan \/ FastTick \/ (\E e \in Sender: Send(e))
        \/ (\E g \in Gid: FollowNotification(g)) => UNCHANGED <<aria, bounds>>
  BY Zenon DEF UI, Receiving, HandleAdded, HandleProgress, HandleRemoved, HandleAdvancedApplied,
     HandleEngineReady, HandleSyncComplete, FlushDirty, FinalizeTaskRemoval, GraceEnds,
     Boot, BootSync, BootReady, SyncFails, SyncExisting, Scan, SlowScan, FastTick, Send,
     FollowNotification
<1>7. ASSUME NEW g, NEW from, NEW to, to # "none",
             Move(g, from, to)
      PROVE  Listed \subseteq Listed'
  BY <1>7, <1>0 DEF Move, Listed
<1>8. CASE Resuming
  <2>1. PICK g \in Gid: Unpause(g) \/ TellResumed(g)
    BY <1>8, Zenon DEF Resuming
  <2>2. CASE Unpause(g)
    BY <2>2, <1>7 DEF Unpause, bounds
  <2>3. CASE TellResumed(g)
    BY <2>3, <1>2, Zenon DEF TellResumed
  <2> QED
    BY <2>1, <2>2, <2>3
<1>9. CASE Handler
  <2>1. alive /\ boots = 0
    <3>1. Handler => UNCHANGED <<alive, boots>>
      BY DEF Handler, AddDownload, Pause, Resume, PauseOrResume, Tell, ForceRemove,
         ForgetRemoved, PurgeResults, ReaddTask, PauseReadded, AnnounceReadded, Redownload,
         AddAgain, ChangeTaskAdvanced, AddFile, PauseAll, ResumeAll, TellAll, aria, bounds
    <3> QED
      BY <1>9, <3>1
  <2>2. CmdsGrounded /\ HandlingGrounded
    BY <2>1 DEF Grounded
  <2>3. ASSUME NEW type, Take(type) PROVE Forgets(Head(cmds)) \subseteq Remembered
    <3>1. cmds \in Seq(Command) /\ cmds # <<>>
      BY <2>3 DEF Take, Typed, CmdsTyped
    <3>2. Head(cmds) \in Command
      BY <3>1
    <3>3. ForgetsOf(cmds) = Forgets(Head(cmds)) \cup ForgetsOf(Tail(cmds))
      BY <3>1, <3>2, ForgetsOfList
    <3> QED
      BY <2>2, <3>3 DEF CmdsGrounded
  <2>4. ASSUME NEW gids, aria2' = Forgotten(gids)
        PROVE  Listed \subseteq Listed' \cup (gids \cap Gid)
    BY <2>4, <1>0 DEF Forgotten, Listed
  <2>5. ASSUME PurgeResults PROVE Listed \subseteq Listed' \cup Remembered
    <3>1. Head(cmds).gids \cap Gid \subseteq Forgets(Head(cmds))
      BY <2>5 DEF PurgeResults, Take, Forgets
    <3>2. aria2' = Forgotten(Head(cmds).gids) /\ Take("PurgeResults")
      BY <2>5 DEF PurgeResults
    <3>3. Listed \subseteq Listed' \cup (Head(cmds).gids \cap Gid)
      BY <3>2, <2>4
    <3> QED
      BY <3>1, <3>2, <3>3, <2>3
  <2>6. ASSUME Redownload PROVE Listed \subseteq Listed' \cup Remembered
    <3>1. {Head(cmds).gid} \cap Gid \subseteq Forgets(Head(cmds))
      BY <2>6 DEF Redownload, Take, Forgets
    <3>2. aria2' = Forgotten({Head(cmds).gid}) /\ Take("Redownload")
      BY <2>6 DEF Redownload
    <3>3. Listed \subseteq Listed' \cup ({Head(cmds).gid} \cap Gid)
      BY <3>2, <2>4
    <3> QED
      BY <3>1, <3>2, <3>3, <2>3
  <2>7. ASSUME ForgetRemoved PROVE Listed \subseteq Listed' \cup Remembered
    <3>1. handling.gid \in Remembered
      BY <2>2, <2>7 DEF ForgetRemoved, HandlingGrounded
    <3>2. Listed \subseteq Listed' \cup ({handling.gid} \cap Gid)
      BY <2>4, <2>7 DEF ForgetRemoved
    <3> QED
      BY <3>1, <3>2
  <2>8. ASSUME AddDownload \/ AddFile PROVE Listed \subseteq Listed'
    BY <2>8, <1>0 DEF AddDownload, AddFile, Listed
  <2>9. ASSUME ReaddTask \/ AddAgain PROVE Listed \subseteq Listed'
    BY <2>9, <1>0 DEF ReaddTask, AddAgain, Readd, Listed
  <2>10. ASSUME Pause \/ Resume \/ ForceRemove \/ PauseReadded PROVE Listed \subseteq Listed'
    BY <2>10, <1>7 DEF Pause, Resume, PauseOrResume, ForceRemove, PauseReadded
  <2>11. ASSUME PauseAll PROVE Listed \subseteq Listed'
    BY <2>11, <1>0 DEF PauseAll, Listed
  <2>12. ASSUME Tell \/ AnnounceReadded \/ ChangeTaskAdvanced \/ ResumeAll
                \/ (\E missed \in SUBSET Running: TellAll(missed))
         PROVE  Listed \subseteq Listed'
    BY <2>12 DEF Tell, AnnounceReadded, ChangeTaskAdvanced, ResumeAll, TellAll, aria, Listed
  <2> QED
    BY <1>9, <2>1, <2>5, <2>6, <2>7, <2>8, <2>9, <2>10, <2>11, <2>12 DEF Handler
<1>10. CASE UNCHANGED vars
  BY <1>10, <1>2 DEF vars
<1> QED
  BY <1>1, <1>2, <1>3, <1>4, <1>5, <1>6, <1>8, <1>9, <1>10 DEF Next

(* A step that lets nothing be forgotten keeps what is on its way grounded. *)
Carried ==
  /\ EventsGrounded /\ HeldGrounded /\ CmdsGrounded /\ HandlingGrounded
  /\ Known \subseteq Known' /\ Remembered \subseteq Remembered'
ChannelGrounded == EventsGrounded /\ HeldGrounded /\ CmdsGrounded /\ HandlingGrounded

LEMMA CarriedParts ==
  ASSUME Typed, Carried
  PROVE  /\ UNCHANGED events => EventsGrounded'
         /\ UNCHANGED held => HeldGrounded'
         /\ UNCHANGED cmds => CmdsGrounded'
         /\ UNCHANGED handling \/ handling' = Idle => HandlingGrounded'
         /\ \A e \in Sender, what \in Seq(Event):
              Hold(e, what) /\ TellsOf(what) \subseteq Known' => HeldGrounded'
         /\ \A type: Receive(type) => EventsGrounded'
         /\ \A type: Take(type) => /\ Head(cmds) \in Command /\ Head(cmds).type = type
                                   /\ Forgets(Head(cmds)) \subseteq Remembered'
                                   /\ CmdsGrounded'
<1>1. /\ UNCHANGED events => EventsGrounded'
      /\ UNCHANGED held => HeldGrounded'
      /\ UNCHANGED cmds => CmdsGrounded'
      /\ UNCHANGED handling \/ handling' = Idle => HandlingGrounded'
  BY DEF Carried, EventsGrounded, HeldGrounded, CmdsGrounded, HandlingGrounded, Idle
<1>2. ASSUME NEW e \in Sender, NEW what \in Seq(Event), Hold(e, what),
             TellsOf(what) \subseteq Known'
      PROVE  HeldGrounded'
  BY <1>2 DEF Carried, HeldGrounded, Hold, Typed, HeldTyped
<1>3. ASSUME NEW type, Receive(type) PROVE EventsGrounded'
  <2>1. events \in Seq(Event) /\ events # <<>> /\ events' = Tail(events)
    BY <1>3 DEF Receive, Typed, EventsTyped
  <2>2. TellsOf(Tail(events)) \subseteq TellsOf(events)
    BY <2>1, TellsOfTail
  <2> QED
    BY <2>1, <2>2 DEF EventsGrounded, Carried
<1>4. ASSUME NEW type, Take(type)
      PROVE  /\ Head(cmds) \in Command /\ Head(cmds).type = type
             /\ Forgets(Head(cmds)) \subseteq Remembered'
             /\ CmdsGrounded'
  <2>1. cmds \in Seq(Command) /\ cmds # <<>> /\ cmds' = Tail(cmds)
    BY <1>4 DEF Take, Typed, CmdsTyped
  <2>2. Head(cmds) \in Command /\ Head(cmds).type = type
    BY <1>4, <2>1 DEF Take
  <2>3. ForgetsOf(cmds) = Forgets(Head(cmds)) \cup ForgetsOf(Tail(cmds))
    BY <2>1, <2>2, ForgetsOfList
  <2> QED
    BY <2>1, <2>2, <2>3 DEF CmdsGrounded, Carried
<1> QED
  BY <1>1, <1>2, <1>3, <1>4

(* Lists of progress, announcements and removals tell of tasks aria2 has. *)
LEMMA ListsGrounded ==
  ASSUME Typed, NEW A \in SUBSET Gid, NEW B \in SUBSET Listed
  PROVE  /\ \A q \in Orders({Progress(g): g \in B}): q \in Seq(Event) /\ TellsOf(q) \subseteq B
         /\ \A q \in Orders({Added(g, TRUE): g \in A} \cup {Progress(g): g \in B}):
              q \in Seq(Event) /\ TellsOf(q) \subseteq A \cup B
         /\ \A q \in Orders({Removed(g): g \in A}): q \in Seq(Event) /\ TellsOf(q) = {}
<1> DEFINE added == [g \in A |-> Added(g, TRUE)]
           progress == [g \in B |-> Progress(g)]
           removed == [g \in A |-> Removed(g)]
<1>1. B \in SUBSET Gid /\ A \cup B \in SUBSET Gid /\ {} \in SUBSET Gid
  BY DEF Listed
<1>2. IsFiniteSet(A) /\ IsFiniteSet(B)
  BY <1>1, BoundAssumption, FS_Subset
<1>3. IsFiniteSet({added[g]: g \in A}) /\ {added[g]: g \in A} = {Added(g, TRUE): g \in A}
  <2>1. DOMAIN added = A /\ {added[g]: g \in A} = {Added(g, TRUE): g \in A}
    OBVIOUS
  <2> HIDE DEF added, progress, removed
  <2>2. IsFiniteSet({added[g]: g \in A})
    BY <1>2, <2>1, FiniteRange
  <2> QED
    BY <2>1, <2>2, Zenon
<1>4. IsFiniteSet({progress[g]: g \in B}) /\ {progress[g]: g \in B} = {Progress(g): g \in B}
  <2>1. DOMAIN progress = B /\ {progress[g]: g \in B} = {Progress(g): g \in B}
    OBVIOUS
  <2> HIDE DEF added, progress, removed
  <2>2. IsFiniteSet({progress[g]: g \in B})
    BY <1>2, <2>1, FiniteRange
  <2> QED
    BY <2>1, <2>2, Zenon
<1>5. IsFiniteSet({removed[g]: g \in A}) /\ {removed[g]: g \in A} = {Removed(g): g \in A}
  <2>1. DOMAIN removed = A /\ {removed[g]: g \in A} = {Removed(g): g \in A}
    OBVIOUS
  <2> HIDE DEF added, progress, removed
  <2>2. IsFiniteSet({removed[g]: g \in A})
    BY <1>2, <2>1, FiniteRange
  <2> QED
    BY <2>1, <2>2, Zenon
<1> HIDE DEF added, progress, removed
<1>6. /\ \A m \in {Progress(g): g \in B}: m.gid \in B
      /\ \A m \in {Added(g, TRUE): g \in A} \cup {Progress(g): g \in B}: m.gid \in A \cup B
      /\ \A m \in {Removed(g): g \in A}: m.type \notin {"Added", "Progress"}
  BY DEF Progress, Added, Removed
<1>7. \A q \in Orders({Progress(g): g \in B}): TellsOf(q) \subseteq B
  BY <1>1, <1>4, <1>6, TellsOfOrder, Zenon
<1>8. \A q \in Orders({Added(g, TRUE): g \in A} \cup {Progress(g): g \in B}):
        TellsOf(q) \subseteq A \cup B
  <2>1. IsFiniteSet({Added(g, TRUE): g \in A} \cup {Progress(g): g \in B})
    BY <1>3, <1>4, FS_Union, Zenon
  <2> QED
    BY <1>1, <1>6, <2>1, TellsOfOrder, Zenon
<1>9. \A q \in Orders({Removed(g): g \in A}): TellsOf(q) = {}
  <2>1. \A q \in Orders({Removed(g): g \in A}): TellsOf(q) \subseteq {}
    BY <1>1, <1>5, <1>6, TellsOfOrder, Zenon
  <2> QED
    BY <2>1
<1> QED
  BY <1>7, <1>8, <1>9, ProgressListTyped, ScanListTyped, RemovedListTyped DEF Typed

(* The answer to a tellStatus. *)
LEMMA AnswerGrounded ==
  ASSUME AriaTyped, NEW g \in Gid
  PROVE  /\ (IF aria2[g] = "none" THEN <<>> ELSE <<Progress(g)>>) \in Seq(Event)
         /\ TellsOf(IF aria2[g] = "none" THEN <<>> ELSE <<Progress(g)>>) \subseteq Listed
<1>1. CASE aria2[g] = "none"
  BY <1>1, ShortSeqs, TellsOfOne
<1>2. CASE aria2[g] # "none"
  <2>1. Progress(g) \in Event /\ Progress(g).gid = g /\ g \in Listed
    BY <1>2, EventKinds DEF AriaTyped, Listed, Progress
  <2>2. TellsOf(<<Progress(g)>>) \subseteq Listed
    BY <2>1, TellsOfOne
  <2> QED
    BY <1>2, <2>1, <2>2, ShortSeqs
<1> QED
  BY <1>1, <1>2

LEMMA OneMessage ==
  ASSUME NEW g \in Gid
  PROVE  /\ \A b \in BOOLEAN: TellsOf(<<Added(g, b)>>) = {g}
         /\ g \in Listed /\ Typed => TellsOf(<<Progress(g)>>) = {g}
         /\ TellsOf(<<Removed(g)>>) = {} /\ TellsOf(<<Applied(g)>>) = {}
BY DEF TellsOf, Added, Progress, Removed, Applied

LEMMA LoopsGrounded ==
  ASSUME Typed, Typed', Carried,
         \/ FastTick \/ Scan \/ Boot \/ Resuming \/ (\E e \in Sender: Send(e))
         \/ \E g \in Gid: FollowNotification(g)
  PROVE  ChannelGrounded'
<1> USE DEF ChannelGrounded
<1>k. Listed \subseteq Known' /\ Known \subseteq Known'
  BY DEF Carried, Known
<1>1. ASSUME FastTick PROVE ChannelGrounded'
  <2>1. PICK q \in Orders({Progress(g): g \in Running}): Hold("poll", q)
    BY <1>1, Zenon DEF FastTick
  <2>2. Running \in SUBSET Listed /\ {} \in SUBSET Gid
    BY DEF Running, Listed
  <2>3. q \in Seq(Event) /\ TellsOf(q) \subseteq Running
    BY <2>1, <2>2, ListsGrounded, Zenon
  <2>4. TellsOf(q) \subseteq Known'
    BY <2>2, <2>3, <1>k
  <2> QED
    BY <1>1, <2>1, <2>3, <2>4, CarriedParts, Zenon DEF FastTick, channel, Sender
<1>2. ASSUME Scan PROVE ChannelGrounded'
  <2>1. PICK missed \in SUBSET Running: SlowScan(missed)
    BY <1>2, Zenon DEF Scan
  <2> DEFINE current == Listed \ missed
             again == (seen \ (current \cup terminal)) \cap orphan_grace
             told == {g \in current: \/ aria2[g] \in {"waiting", "paused"}
                                     \/ aria2[g] \in Terminal /\ g \notin stopped_seen}
  <2>2. PICK listed \in Orders(ScanEvents(current)), gone \in Orders({Removed(g): g \in again}):
          Hold("poll", listed \o gone)
    BY <2>1, Zenon DEF SlowScan
  <2>3. ScanEvents(current) = {Added(g, TRUE): g \in current \ seen} \cup {Progress(g): g \in told}
    BY DEF ScanEvents
  <2>4. /\ current \ seen \in SUBSET Gid /\ current \ seen \subseteq Listed
        /\ told \in SUBSET Listed /\ again \in SUBSET Gid /\ {} \in SUBSET Listed
    BY DEF Listed, Typed, ScanTyped
  <2> HIDE DEF current, again, told
  <2>5. listed \in Seq(Event) /\ TellsOf(listed) \subseteq (current \ seen) \cup told
    BY <2>2, <2>3, <2>4, ListsGrounded
  <2>6. gone \in Seq(Event) /\ TellsOf(gone) = {}
    BY <2>2, <2>4, ListsGrounded
  <2>7. TellsOf(listed \o gone) = TellsOf(listed) \cup TellsOf(gone)
    BY <2>5, <2>6, TellsOfConcat
  <2>8. listed \o gone \in Seq(Event) /\ TellsOf(listed \o gone) \subseteq Known'
    BY <2>4, <2>5, <2>6, <2>7, <1>k, ShortSeqs
  <2> QED
    BY <2>1, <2>2, <2>8, CarriedParts, Zenon DEF SlowScan, channel, Sender
<1>3. ASSUME NEW g \in Gid, FollowNotification(g) PROVE ChannelGrounded'
  <2> DEFINE what == IF aria2[g] = "none" THEN <<>> ELSE <<Progress(g)>>
  <2>1. what \in Seq(Event) /\ TellsOf(what) \subseteq Known'
    BY <1>k, AnswerGrounded DEF Typed
  <2>2. Hold("notify", what)
    BY <1>3, Zenon DEF FollowNotification
  <2> HIDE DEF what
  <2> QED
    BY <1>3, <2>1, <2>2, CarriedParts, Zenon DEF FollowNotification, channel, Sender
<1>4. ASSUME Resuming PROVE ChannelGrounded'
  <2>1. PICK g \in Gid: Unpause(g) \/ TellResumed(g)
    BY <1>4, Zenon DEF Resuming
  <2>2. CASE Unpause(g)
    BY <2>2, CarriedParts DEF Unpause, channel
  <2>3. CASE TellResumed(g)
    <3> DEFINE what == IF aria2[g] = "none" THEN <<>> ELSE <<Progress(g)>>
    <3>1. what \in Seq(Event) /\ TellsOf(what) \subseteq Known'
      BY <1>k, AnswerGrounded DEF Typed
    <3>2. Hold("resume", what)
      BY <2>3, Zenon DEF TellResumed
    <3> HIDE DEF what
    <3> QED
      BY <2>3, <3>1, <3>2, CarriedParts, Zenon DEF TellResumed, channel, Sender
  <2> QED
    BY <2>1, <2>2, <2>3
<1>5. ASSUME NEW e \in Sender, Send(e) PROVE ChannelGrounded'
  <2>1. events \in Seq(Event) /\ held[e] \in Seq(Event) /\ held \in [Sender -> Seq(Event)]
    BY DEF Typed, EventsTyped, HeldTyped
  <2>2. TellsOf(events \o held[e]) = TellsOf(events) \cup TellsOf(held[e]) /\ TellsOf(<<>>) = {}
    BY <2>1, TellsOfConcat, TellsOfOne
  <2>3. EventsGrounded'
    BY <1>5, <2>2, <1>k DEF Send, EventsGrounded, HeldGrounded, Carried
  <2>4. HeldGrounded'
    BY <1>5, <2>1, <2>2, <1>k DEF Send, HeldGrounded, Carried
  <2> QED
    BY <1>5, <2>3, <2>4, CarriedParts, Zenon DEF Send
<1>6. ASSUME Boot PROVE ChannelGrounded'
  <2>1. ASSUME NEW e, BootReady(e) PROVE ChannelGrounded'
    <3>1. events \in Seq(Event) /\ EngineReady \in Event
      BY DEF Typed, EventsTyped, EngineReady, Event
    <3>2. /\ TellsOf(Append(events, EngineReady)) = TellsOf(events) \cup TellsOf(<<EngineReady>>)
          /\ TellsOf(<<EngineReady>>) = {}
      BY <3>1, TellsOfAppend, TellsOfOne DEF EngineReady
    <3>3. EventsGrounded'
      BY <2>1, <3>2, <1>k DEF BootReady, EventsGrounded, Carried
    <3> QED
      BY <2>1, <3>3, CarriedParts, Zenon DEF BootReady
  <2>2. ASSUME NEW e \in Sender, SyncFails(e) PROVE ChannelGrounded'
    <3>1. <<SyncComplete(FALSE)>> \in Seq(Event) /\ TellsOf(<<SyncComplete(FALSE)>>) = {}
      BY DEF SyncComplete, Event, TellsOf
    <3> QED
      BY <2>2, <3>1, CarriedParts DEF SyncFails, channel
  <2>3. ASSUME NEW listed \in SUBSET Listed, NEW full \in BOOLEAN, SyncExisting(listed, full)
        PROVE  ChannelGrounded'
    <3>1. PICK q \in Orders({Added(g, TRUE): g \in listed} \cup {Progress(g): g \in listed}):
            Hold("boot", Append(q, SyncComplete(full)))
      BY <2>3, Zenon DEF SyncExisting
    <3>2. listed \in SUBSET Gid
      BY DEF Listed
    <3>3. q \in Seq(Event) /\ TellsOf(q) \subseteq listed \cup listed
      BY <3>1, <3>2, ListsGrounded, Zenon
    <3>4. SyncComplete(full) \in Event /\ TellsOf(<<SyncComplete(full)>>) = {}
      BY DEF SyncComplete, Event, TellsOf
    <3>5. TellsOf(Append(q, SyncComplete(full))) = TellsOf(q) \cup TellsOf(<<SyncComplete(full)>>)
      BY <3>3, <3>4, TellsOfAppend
    <3>6. Append(q, SyncComplete(full)) \in Seq(Event)
      BY <3>3, <3>4, ShortSeqs
    <3>7. TellsOf(Append(q, SyncComplete(full))) \subseteq Known'
      BY <3>3, <3>4, <3>5, <1>k
    <3> QED
      BY <2>3, <3>1, <3>6, <3>7, CarriedParts, Zenon DEF SyncExisting, channel, Sender
  <2>4. /\ \A missed \in SUBSET Running: Listed \ missed \in SUBSET Listed
        /\ {"boot", "oldboot"} \subseteq Sender
    BY DEF Sender
  <2> QED
    BY <1>6, <2>1, <2>2, <2>3, <2>4 DEF Boot, BootSync
<1> QED
  BY <1>1, <1>2, <1>3, <1>4, <1>5, <1>6, Zenon

LEMMA HandlerGrounded ==
  ASSUME Typed, Typed', Carried, Handler
  PROVE  ChannelGrounded'
<1> USE DEF ChannelGrounded
<1>k. Listed \subseteq Known' /\ Known \subseteq Known' /\ Listed' \subseteq Known'
      /\ Remembered' \subseteq Known'
  BY DEF Carried, Known
<1>a. aria2 \in [Gid -> Live \cup Terminal \cup {"none"}]
  BY DEF Typed, AriaTyped
<1>g. handling.type \notin {"idle", "tell_all"} => handling.gid \in Gid
  BY RestFields DEF Typed, HandlingTyped
<1>t. \A type: Take(type) => /\ Head(cmds) \in Command /\ Head(cmds).type = type
                             /\ Forgets(Head(cmds)) \subseteq Remembered'
                             /\ CmdsGrounded'
  BY CarriedParts, Zenon
<1>h. \A what \in Seq(Event):
        Hold("handler", what) /\ TellsOf(what) \subseteq Known' => HeldGrounded'
  BY CarriedParts, Zenon DEF Sender
<1>s. \A step, g: Then(step, g) /\ step \in {"tell", "tell_added", "add"} => HandlingGrounded'
  BY DEF Then, HandlingGrounded
<1>l. \A step, g: Then(step, g) /\ step # "forget" /\ g \in Listed' => HandlingGrounded'
  BY <1>k DEF Then, HandlingGrounded
<1>1. ASSUME AddDownload PROVE ChannelGrounded'
  <2>1. Head(cmds).gid \in Gid /\ CmdsGrounded'
    BY <1>1, <1>t, CommandFields DEF AddDownload
  <2>2. HeldGrounded'
    <3>1. CASE alive
      <4>1. Head(cmds).gid \in Listed' /\ Hold("handler", <<Added(Head(cmds).gid, FALSE)>>)
        BY <1>1, <1>a, <2>1, <3>1 DEF AddDownload, Listed
      <4>2. /\ <<Added(Head(cmds).gid, FALSE)>> \in Seq(Event)
            /\ TellsOf(<<Added(Head(cmds).gid, FALSE)>>) = {Head(cmds).gid}
        BY <2>1, EventKinds, ShortSeqs, OneMessage
      <4> QED
        BY <1>h, <1>k, <4>1, <4>2
    <3>2. CASE ~alive
      BY <1>1, <3>2, CarriedParts, Zenon DEF AddDownload
    <3> QED
      BY <3>1, <3>2
  <2> QED
    BY <1>1, <2>1, <2>2, CarriedParts, Zenon DEF AddDownload
<1>2. ASSUME AddFile PROVE ChannelGrounded'
  <2>1. Head(cmds).gid \in Gid /\ CmdsGrounded'
    BY <1>2, <1>t, CommandFields DEF AddFile
  <2>2. HandlingGrounded'
    <3>1. CASE alive
      BY <1>2, <1>a, <1>l, <2>1, <3>1 DEF AddFile, Listed
    <3>2. CASE ~alive
      BY <1>2, <3>2, CarriedParts, Zenon DEF AddFile
    <3> QED
      BY <3>1, <3>2
  <2> QED
    BY <1>2, <2>1, <2>2, CarriedParts, Zenon DEF AddFile, senders
<1>3. ASSUME NEW type, NEW from, NEW to, PauseOrResume(type, from, to)
      PROVE  ChannelGrounded'
  BY <1>3, <1>t, <1>s, CarriedParts DEF PauseOrResume
<1>4. ASSUME Tell PROVE ChannelGrounded'
  <2> DEFINE g == handling.gid
             progress == IF aria2[g] = "none" THEN <<>> ELSE <<Progress(g)>>
             announced == \/ handling.type = "tell_added" /\ aria2[g] # "none"
                          \/ handling.type = "tell_file"
             first == IF announced THEN <<Added(g, FALSE)>> ELSE <<>>
  <2>1. g \in Gid
    BY <1>4, <1>g DEF Tell
  <2>2. progress \in Seq(Event) /\ TellsOf(progress) \subseteq Known'
    BY <2>1, <1>k, AnswerGrounded DEF Typed
  <2>3. first \in Seq(Event) /\ TellsOf(first) \subseteq Known'
    <3>1. CASE announced
      <4>1. g \in Known'
        BY <3>1, <2>1, <1>k DEF Listed, HandlingGrounded, Carried
      <4>2. <<Added(g, FALSE)>> \in Seq(Event) /\ TellsOf(<<Added(g, FALSE)>>) = {g}
        BY <2>1, EventKinds, ShortSeqs, OneMessage
      <4> HIDE DEF g
      <4> QED
        BY <3>1, <4>1, <4>2
    <3>2. CASE ~announced
      BY <3>2, ShortSeqs, TellsOfOne
    <3> QED
      BY <3>1, <3>2
  <2>4. Hold("handler", first \o progress)
    BY <1>4 DEF Tell
  <2> HIDE DEF first, progress, announced
  <2>5. first \o progress \in Seq(Event)
        /\ TellsOf(first \o progress) = TellsOf(first) \cup TellsOf(progress)
    BY <2>2, <2>3, TellsOfConcat, ShortSeqs
  <2>6. HeldGrounded'
    BY <2>2, <2>3, <2>4, <2>5, <1>h
  <2> QED
    BY <1>4, <2>6, CarriedParts, Zenon DEF Tell
<1>5. ASSUME ForceRemove PROVE ChannelGrounded'
  <2>1. Head(cmds).gid \in Gid /\ CmdsGrounded' /\ Head(cmds).gid \in Remembered'
    BY <1>5, <1>t, CommandFields DEF ForceRemove, Forgets
  <2>2. HandlingGrounded'
    BY <1>5, <2>1 DEF ForceRemove, Then, HandlingGrounded
  <2> QED
    BY <1>5, <2>1, <2>2, CarriedParts, Zenon DEF ForceRemove
<1>6. ASSUME ForgetRemoved PROVE ChannelGrounded'
  <2>1. <<Removed(handling.gid)>> \in Seq(Event) /\ TellsOf(<<Removed(handling.gid)>>) = {}
    BY <1>6, <1>g, EventKinds, ShortSeqs, OneMessage DEF ForgetRemoved
  <2>2. HeldGrounded'
    BY <1>6, <2>1, <1>h DEF ForgetRemoved
  <2> QED
    BY <1>6, <2>2, CarriedParts, Zenon DEF ForgetRemoved
<1>7. ASSUME PurgeResults PROVE ChannelGrounded'
  BY <1>7, <1>t, CarriedParts, Zenon DEF PurgeResults, senders
<1>8. ASSUME NEW g \in Gid, NEW step \in {"tell_added", "pause", "announce"}, Readd(g, step)
      PROVE  HandlingGrounded'
  <2>1. CASE handling' = Idle
    BY <2>1, CarriedParts, Zenon
  <2>2. CASE aria2' = [aria2 EXCEPT ![g] = "waiting"] /\ Then(step, g)
    BY <2>2, <1>a, <1>l DEF Listed
  <2> QED
    BY <1>8, <2>1, <2>2 DEF Readd
<1>9. ASSUME ReaddTask PROVE ChannelGrounded'
  <2>1. Head(cmds).gid \in Gid /\ CmdsGrounded'
    BY <1>9, <1>t, CommandFields DEF ReaddTask
  <2>2. HandlingGrounded'
    BY <1>9, <2>1, <1>8 DEF ReaddTask
  <2> QED
    BY <1>9, <2>1, <2>2, CarriedParts, Zenon DEF ReaddTask, senders
<1>10. ASSUME PauseReadded PROVE ChannelGrounded'
  <2>1. HandlingGrounded'
    BY <1>10, <1>k DEF PauseReadded, Then, HandlingGrounded, Carried
  <2> QED
    BY <1>10, <2>1, CarriedParts, Zenon DEF PauseReadded
<1>11. ASSUME AnnounceReadded PROVE ChannelGrounded'
  <2>1. handling.gid \in Gid /\ handling.gid \in Known'
    BY <1>11, <1>g, <1>k DEF AnnounceReadded, HandlingGrounded, Carried
  <2>2. /\ <<Added(handling.gid, TRUE)>> \in Seq(Event)
        /\ TellsOf(<<Added(handling.gid, TRUE)>>) = {handling.gid}
    BY <2>1, EventKinds, ShortSeqs, OneMessage
  <2>3. HeldGrounded'
    BY <1>11, <2>1, <2>2, <1>h DEF AnnounceReadded
  <2>4. HandlingGrounded'
    BY <1>11, <1>s DEF AnnounceReadded
  <2> QED
    BY <1>11, <2>3, <2>4, CarriedParts, Zenon DEF AnnounceReadded
<1>12. ASSUME Redownload PROVE ChannelGrounded'
  BY <1>12, <1>t, <1>s, CarriedParts DEF Redownload, senders
<1>13. ASSUME AddAgain PROVE ChannelGrounded'
  <2>1. HandlingGrounded'
    BY <1>13, <1>g, <1>8 DEF AddAgain
  <2> QED
    BY <1>13, <2>1, CarriedParts, Zenon DEF AddAgain, senders
<1>14. ASSUME ChangeTaskAdvanced PROVE ChannelGrounded'
  <2>1. Head(cmds).gid \in Gid /\ CmdsGrounded'
    BY <1>14, <1>t, CommandFields DEF ChangeTaskAdvanced
  <2>2. /\ <<Applied(Head(cmds).gid)>> \in Seq(Event)
        /\ TellsOf(<<Applied(Head(cmds).gid)>>) = {}
    BY <2>1, EventKinds, ShortSeqs, OneMessage
  <2>3. HeldGrounded'
    <3>1. CASE Hold("handler", <<Applied(Head(cmds).gid)>>)
      BY <2>2, <3>1, <1>h
    <3>2. CASE UNCHANGED held
      BY <3>2, CarriedParts, Zenon
    <3> QED
      BY <1>14, <3>1, <3>2 DEF ChangeTaskAdvanced
  <2> QED
    BY <1>14, <2>1, <2>3, CarriedParts, Zenon DEF ChangeTaskAdvanced
<1>15. ASSUME PauseAll PROVE ChannelGrounded'
  <2>1. HandlingGrounded'
    BY <1>15 DEF PauseAll, HandlingGrounded
  <2> QED
    BY <1>15, <2>1, <1>t, CarriedParts, Zenon DEF PauseAll
<1>16. ASSUME ResumeAll PROVE ChannelGrounded'
  BY <1>16, <1>t, CarriedParts, Zenon DEF ResumeAll
<1>17. ASSUME NEW missed \in SUBSET Running, TellAll(missed) PROVE ChannelGrounded'
  <2>1. PICK q \in Orders({Progress(g): g \in Listed \ missed}): Hold("handler", q)
    BY <1>17, Zenon DEF TellAll
  <2>2. Listed \ missed \in SUBSET Listed /\ {} \in SUBSET Gid
    OBVIOUS
  <2>3. q \in Seq(Event) /\ TellsOf(q) \subseteq Listed \ missed
    BY <2>1, <2>2, ListsGrounded, Zenon
  <2>4. HeldGrounded'
    BY <2>1, <2>3, <1>h, <1>k
  <2> QED
    BY <1>17, <2>4, CarriedParts, Zenon DEF TellAll
<1> QED
  BY <1>1, <1>2, <1>3, <1>4, <1>5, <1>6, <1>7, <1>9, <1>10, <1>11, <1>12, <1>13, <1>14,
     <1>15, <1>16, <1>17, Zenon DEF Handler, Pause, Resume

(* The commands of the user make aria2 forget only what the table knows. *)
LEMMA SendEachGrounded ==
  ASSUME Typed, Carried, NEW A \in SUBSET Gid,
         NEW type \in {"Add", "AddFile", "Pause", "Resume", "Remove", "Redownload",
                       "ChangeTaskAdvanced"},
         type \in {"Remove", "Redownload"} => A \subseteq Remembered,
         SendEach(type, A)
  PROVE  CmdsGrounded'
<1> DEFINE f == [g \in A |-> [type |-> type, gid |-> g]]
           M == {[type |-> type, gid |-> g]: g \in A}
           gids == A \cap Remembered
<1>1. PICK q \in Orders(M): cmds' = cmds \o q
  BY Zenon DEF SendEach
<1>2. q \in Seq(Command)
  BY <1>1, CommandListTyped
<1>3. IsFiniteSet(M)
  <2>1. IsFiniteSet(A)
    BY BoundAssumption, FS_Subset
  <2>2. DOMAIN f = A /\ {f[g]: g \in A} = M
    OBVIOUS
  <2> HIDE DEF f, M
  <2>3. IsFiniteSet({f[g]: g \in A})
    BY <2>1, <2>2, FiniteRange
  <2> QED
    BY <2>2, <2>3, Zenon
<1>4. gids \in SUBSET Gid /\ \A c \in M: Forgets(c) \subseteq gids
  BY DEF Forgets
<1> HIDE DEF M, gids
<1>5. ForgetsOf(q) \subseteq gids
  BY <1>1, <1>3, <1>4, ForgetsOfOrder, Zenon
<1>6. cmds \in Seq(Command) /\ [type |-> "PauseAll"] \in Command
  BY DEF Typed, CmdsTyped, Command
<1>7. ForgetsOf(cmds \o q) = ForgetsOf(cmds) \cup ForgetsOf(q)
  BY <1>2, <1>6, ForgetsOfList, Zenon
<1> QED
  BY <1>1, <1>5, <1>7 DEF CmdsGrounded, Carried, gids

LEMMA UserGrounded ==
  ASSUME Typed, Carried, User
  PROVE  ChannelGrounded'
<1> USE DEF ChannelGrounded
<1>s. \A A \in SUBSET Gid:
        \A type \in {"Add", "AddFile", "Pause", "Resume", "ChangeTaskAdvanced"}:
          SendEach(type, A) => CmdsGrounded'
  BY SendEachGrounded
<1>r. \A A \in SUBSET Gid: \A type \in {"Remove", "Redownload"}:
        A \subseteq Remembered /\ SendEach(type, A) => CmdsGrounded'
  BY SendEachGrounded
<1>u. Unfinished \in SUBSET Gid /\ Unfinished \subseteq Remembered
      /\ \A g \in Gid: /\ {g} \in SUBSET Gid
                       /\ tasks[g] # "none" => {g} \subseteq Remembered
  BY DEF Unfinished, Remembered
<1>c. UNCHANGED <<senders, events, handling>> /\ CmdsGrounded' => ChannelGrounded'
  BY CarriedParts, Zenon DEF senders
<1>p. \A c \in Command: cmds' = Append(cmds, c) /\ Forgets(c) \subseteq Remembered => CmdsGrounded'
  <2> SUFFICES ASSUME NEW c \in Command, cmds' = Append(cmds, c), Forgets(c) \subseteq Remembered
               PROVE  CmdsGrounded'
    BY Zenon
  <2>1. cmds \in Seq(Command)
    BY DEF Typed, CmdsTyped
  <2>2. ForgetsOf(Append(cmds, c)) = ForgetsOf(cmds) \cup Forgets(c)
    BY <2>1, ForgetsOfList, Zenon
  <2> QED
    BY <2>2 DEF CmdsGrounded, Carried
<1>1. ASSUME NEW g \in Gid,
             \/ \E type \in {"Add", "AddFile"}: AddTask(g, type)
             \/ RedownloadTask(g) \/ RemoveTask(g) \/ SaveAdvanced(g)
      PROVE  ChannelGrounded'
  <2>1. CASE \E type \in {"Add", "AddFile"}: AddTask(g, type)
    BY <2>1, <1>s, <1>u, <1>c DEF AddTask
  <2>2. CASE RedownloadTask(g)
    BY <2>2, <1>r, <1>u, <1>c DEF RedownloadTask, Terminal
  <2>3. CASE RemoveTask(g)
    BY <2>3, <1>r, <1>u, <1>c DEF RemoveTask
  <2>4. CASE SaveAdvanced(g)
    BY <2>4, <1>s, <1>u, <1>c DEF SaveAdvanced
  <2> QED
    BY <1>1, <2>1, <2>2, <2>3, <2>4
<1>2. ASSUME NEW A \in SUBSET Gid, PauseTasks(A) \/ \E kept: ResumeTasks(A, kept)
      PROVE  ChannelGrounded'
  BY <1>2, <1>s, <1>c DEF PauseTasks, ResumeTasks
<1>3. ASSUME DeleteAll PROVE ChannelGrounded'
  BY <1>3, <1>r, <1>u, <1>c DEF DeleteAll
<1>4. ASSUME NEW ended, "none" \notin ended, ClearCompleted(ended) PROVE ChannelGrounded'
  <2> DEFINE gids == {g \in Gid: tasks[g] \in ended}
             c == [type |-> "PurgeResults", gids |-> gids]
  <2>1. c \in Command /\ Forgets(c) \subseteq Remembered
    BY <1>4 DEF Command, Forgets, Remembered
  <2>2. cmds' = Append(cmds, c) /\ UNCHANGED <<senders, events, handling>>
    BY <1>4 DEF ClearCompleted
  <2> HIDE DEF c
  <2> QED
    BY <2>1, <2>2, <1>p, <1>c
<1>5. ASSUME NEW type \in {"PauseAll", "ResumeAll"}, Extension(type) PROVE ChannelGrounded'
  <2>1. [type |-> type] \in Command /\ Forgets([type |-> type]) \subseteq Remembered
    BY DEF Command, Forgets
  <2> QED
    BY <1>5, <2>1, <1>p, <1>c DEF Extension
<1>6. "none" \notin {"complete", "removed"} /\ "none" \notin {"error"}
  OBVIOUS
<1> QED
  BY <1>1, <1>2, <1>3, <1>4, <1>5, <1>6, <1>u, ZenonT(60) DEF User

LEMMA UIGrounded ==
  ASSUME Typed, Carried, Receiving \/ FlushDirty \/ \E g \in Gid: FinalizeTaskRemoval(g)
  PROVE  ChannelGrounded'
<1> USE DEF ChannelGrounded
<1>r. \A type: Receive(type) => EventsGrounded'
  BY CarriedParts, Zenon
<1>1. CASE HandleAdded \/ HandleProgress \/ HandleRemoved \/ HandleAdvancedApplied
           \/ HandleEngineReady
  BY <1>1, <1>r, CarriedParts DEF HandleAdded, HandleProgress, HandleRemoved,
     HandleAdvancedApplied, HandleEngineReady, senders
<1>2. CASE HandleSyncComplete
  <2>1. CASE sync_done
    BY <1>2, <2>1, <1>r, CarriedParts DEF HandleSyncComplete, senders
  <2>2. CASE ~sync_done
    <3> DEFINE A == Unsynced \cap link
               f == [g \in A |-> ReaddCmd(g)]
               M == {ReaddCmd(g): g \in A}
    <3>1. PICK q \in Orders(M): cmds' = cmds \o q
      BY <1>2, <2>2, Zenon DEF HandleSyncComplete, Reconcile
    <3>2. A \in SUBSET Gid
      BY DEF Unsynced
    <3>3. IsFiniteSet(M)
      <4>1. IsFiniteSet(A)
        BY <3>2, BoundAssumption, FS_Subset
      <4>2. DOMAIN f = A /\ {f[g]: g \in A} = M
        OBVIOUS
      <4> HIDE DEF f, M, A
      <4>3. IsFiniteSet({f[g]: g \in A})
        BY <4>1, <4>2, FiniteRange
      <4> QED
        BY <4>2, <4>3, Zenon
    <3>4. {} \in SUBSET Gid /\ \A c \in M: Forgets(c) \subseteq {}
      BY DEF Forgets, ReaddCmd
    <3>5. q \in Seq(Command)
      BY <3>1, <3>2, ReaddListTyped
    <3> HIDE DEF M, A
    <3>6. ForgetsOf(q) \subseteq {}
      BY <3>1, <3>3, <3>4, ForgetsOfOrder, Zenon
    <3>7. cmds \in Seq(Command) /\ [type |-> "PauseAll"] \in Command
      BY DEF Typed, CmdsTyped, Command
    <3>8. ForgetsOf(cmds \o q) = ForgetsOf(cmds) \cup ForgetsOf(q)
      BY <3>5, <3>7, ForgetsOfList, Zenon
    <3>9. CmdsGrounded'
      BY <3>1, <3>6, <3>8 DEF CmdsGrounded, Carried
    <3> QED
      BY <1>2, <3>9, <1>r, CarriedParts DEF HandleSyncComplete, senders
  <2> QED
    BY <2>1, <2>2
<1>3. CASE FlushDirty \/ \E g \in Gid: FinalizeTaskRemoval(g)
  BY <1>3, CarriedParts DEF FlushDirty, FinalizeTaskRemoval, senders, channel
<1> QED
  BY <1>1, <1>2, <1>3 DEF Receiving

(* When the grace period of a gid ends, nothing about it is on its way. *)
LEMMA GraceGrounded ==
  ASSUME Typed, ChannelGrounded, NEW g \in Gid, GraceEnds(g)
  PROVE  ChannelGrounded'
<1>1. /\ UNCHANGED <<aria, held, events, cmds, handling, tasks>>
      /\ removed_gids' = removed_gids \ {g} /\ ~OnItsWay(g)
  BY DEF GraceEnds, senders, channel
<1>2. Remembered \ {g} \subseteq Remembered' /\ Known \ {g} \subseteq Known'
  BY <1>1 DEF Remembered, Known, Listed, aria
<1>3. /\ \A i \in 1..Len(events): ~Concerns(g, events[i])
      /\ \A i \in 1..Len(cmds): ~Concerns(g, cmds[i])
      /\ \A e \in Sender: \A i \in 1..Len(held[e]): ~Concerns(g, held[e][i])
      /\ ~Concerns(g, handling)
  <2>1. \A q \in {events, cmds, <<handling>>} \cup {held[e]: e \in Sender}:
          \A i \in 1..Len(q): ~Concerns(g, q[i])
    BY <1>1, Zenon DEF OnItsWay
  <2>2. 1 \in 1..Len(<<handling>>) /\ <<handling>>[1] = handling
    OBVIOUS
  <2> HIDE DEF Concerns
  <2> QED
    BY <2>1, <2>2
<1>4. /\ \A m \in Event: m.type \in {"Added", "Progress"} /\ m.gid = g => Concerns(g, m)
      /\ \A c \in Command: g \in Forgets(c) => Concerns(g, c)
      /\ \A r \in Rest: r.type \notin {"idle", "tell_all"} /\ r.gid = g => Concerns(g, r)
  BY DEF Event, Command, Rest, Forgets, Concerns
<1>5. events \in Seq(Event) /\ cmds \in Seq(Command) /\ handling \in Rest
      /\ held \in [Sender -> Seq(Event)]
  BY DEF Typed, EventsTyped, CmdsTyped, HandlingTyped, HeldTyped
<1> HIDE DEF Concerns
<1>6. g \notin TellsOf(events) /\ \A e \in Sender: g \notin TellsOf(held[e])
  BY <1>3, <1>4, <1>5 DEF TellsOf
<1>7. g \notin ForgetsOf(cmds)
  BY <1>3, <1>4, <1>5 DEF ForgetsOf
<1>8. handling.type \notin {"idle", "tell_all"} => handling.gid # g
  BY <1>3, <1>4, <1>5
<1> QED
  BY <1>1, <1>2, <1>6, <1>7, <1>8
     DEF ChannelGrounded, EventsGrounded, HeldGrounded, CmdsGrounded, HandlingGrounded

LEMMA GroundedStep ==
  TypeOK /\ LeavingRemembered /\ Grounded /\ [Next]_vars => LeavingRemembered' /\ Grounded'
<1> SUFFICES ASSUME Typed, Typed', LeavingRemembered, Grounded, [Next]_vars
             PROVE  LeavingRemembered' /\ Grounded'
  <2>1. TypeOK /\ [Next]_vars => Typed /\ Typed'
    BY TypeStep, TypedIsTypeOK, Zenon
       DEF Typed, TypeOK, AriaTyped, HeldTyped, NotifiedTyped, ScanTyped, ResumingTyped,
           BootTyped, EventsTyped, CmdsTyped, HandlingTyped, TasksTyped, CountTyped,
           SetsTyped, SyncTyped, RowsTyped, BoundsTyped
  <2> QED
    BY <2>1, Zenon
<1>1. LeavingRemembered'
  BY RememberedKept, Zenon
<1>2. ASSUME alive', boots' = 0 PROVE ChannelGrounded'
  <2>1. alive /\ boots = 0 /\ Listed \subseteq Listed' \cup Remembered
    BY <1>2, ListedKept, Zenon
  <2>2. ChannelGrounded
    BY <2>1, Zenon DEF Grounded, ChannelGrounded
  <2>3. ASSUME NEW g \in Gid, GraceEnds(g) PROVE ChannelGrounded'
    BY <2>2, <2>3, GraceGrounded, Zenon
  <2>4. CASE Remembered \subseteq Remembered'
    <3>1. Carried
      BY <2>1, <2>2, <2>4 DEF Carried, ChannelGrounded, Known
    <3>2. CASE UNCHANGED <<held, channel>>
      BY <3>1, <3>2, CarriedParts, Zenon DEF ChannelGrounded, channel
    <3>3. CASE UNCHANGED vars \/ AutoSave \/ Crash \/ Respawn \/ \E g \in Gid: AriaStep(g)
      <4>1. ~Respawn
        BY <1>2 DEF Respawn, Typed, BoundsTyped
      <4>2. UNCHANGED vars \/ AutoSave \/ Crash \/ (\E g \in Gid: AriaStep(g))
              => UNCHANGED <<held, channel>>
        BY DEF vars, AutoSave, Crash, AriaStep, senders
      <4> QED
        BY <3>2, <3>3, <4>1, <4>2
    <3> QED
      BY <2>3, <3>1, <3>3, LoopsGrounded, HandlerGrounded, UIGrounded, UserGrounded,
         ZenonT(30) DEF Next, UI
  <2> QED
    BY <2>3, <2>4, RememberedKept, Zenon
<1> QED
  BY <1>1, <1>2, Zenon DEF Grounded, ChannelGrounded

LEMMA InitGrounded == Init => LeavingRemembered /\ Grounded
<1> SUFFICES ASSUME Init PROVE LeavingRemembered /\ Grounded
  OBVIOUS
<1>1. TellsOf(<<>>) = {} /\ ForgetsOf(<<>>) = {}
  BY DEF TellsOf, ForgetsOf
<1>2. /\ pending_removals = {} /\ events = <<>> /\ cmds = <<>> /\ handling = Idle
      /\ \A e \in Sender: held[e] = <<>>
  BY DEF Init
<1> QED
  BY <1>1, <1>2 DEF LeavingRemembered, Grounded, EventsGrounded, HeldGrounded, CmdsGrounded,
     HandlingGrounded, Idle

(* Until the engine first restarts no card appears for a download that      *)
(* aria2 does not have: what removed it is remembered for as long as an     *)
(* answer about it may come (gid_recently_removed, HandleAdded and          *)
(* HandleProgress).                                                         *)
THEOREM NoPhantoms == Spec => NoPhantomCard
<1> DEFINE Inv == TypeOK /\ LeavingRemembered /\ Grounded
<1>1. Init => Inv
  BY InitTyped, InitGrounded
<1>2. Inv /\ [Next]_vars => Inv'
  BY TypeStep, GroundedStep, Zenon
<1>3. Inv /\ [Next]_vars
        => \A g \in Gid: tasks[g] = "none" /\ aria2[g] = "none" /\ alive /\ boots = 0
                           => tasks'[g] = "none"
  <2> SUFFICES ASSUME Typed, Grounded, [Next]_vars, NEW g \in Gid, tasks[g] = "none",
                      aria2[g] = "none", alive, boots = 0
               PROVE  tasks'[g] = "none"
    BY TypedIsTypeOK, Zenon
  <2>1. g \in TellsOf(events) => g \in removed_gids
    BY DEF Grounded, EventsGrounded, Known, Listed, Remembered
  <2>2. ASSUME HandleAdded \/ HandleProgress
        PROVE  \/ UNCHANGED tasks
               \/ /\ Head(events).gid \in TellsOf(events)
                  /\ \E s: tasks' = [tasks EXCEPT ![Head(events).gid] = s]
    <3>1. events \in Seq(Event) /\ events # <<>> /\ Head(events).type \in {"Added", "Progress"}
      BY <2>2 DEF HandleAdded, HandleProgress, Receive, Typed, EventsTyped
    <3>2. Head(events) = events[1] /\ 1 \in 1..Len(events) /\ Head(events) \in Event
      BY <3>1
    <3>3. Head(events).gid \in TellsOf(events)
      BY <3>1, <3>2, EventFields DEF TellsOf
    <3> QED
      BY <2>2, <3>3, Zenon DEF HandleAdded, HandleProgress
  <2>3. CASE HandleAdded \/ HandleProgress
    <3>1. CASE Head(events).gid = g
      BY <2>1, <2>2, <2>3, <3>1 DEF HandleAdded, HandleProgress
    <3>2. CASE Head(events).gid # g
      BY <2>2, <2>3, <3>2 DEF Typed, TasksTyped
    <3> QED
      BY <3>1, <3>2
  <2>4. UNCHANGED content \/ HandleRemoved \/ HandleAdvancedApplied \/ HandleSyncComplete
          \/ FlushDirty \/ DeleteAll \/ (\E h \in Gid: GraceEnds(h))
          \/ (\E ended: ClearCompleted(ended)) => UNCHANGED tasks
    BY DEF content, HandleRemoved, HandleAdvancedApplied, HandleSyncComplete, FlushDirty,
           DeleteAll, GraceEnds, ClearCompleted, table
  <2>5. ASSUME NEW h \in Gid, FinalizeTaskRemoval(h) PROVE tasks'[g] = "none"
    BY <2>5 DEF FinalizeTaskRemoval, Typed, TasksTyped
  <2> QED
    BY <2>3, <2>4, <2>5, ContentActions
<1> HIDE DEF Inv
<1> QED
  BY <1>1, <1>2, <1>3, PTL DEF Spec, NoPhantomCard

=============================================================================
