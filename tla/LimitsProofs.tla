---------------------------- MODULE LimitsProofs ----------------------------
(***************************************************************************)
(* Proofs about Limits for any week, any settings and values of them, any  *)
(* window of the schedule, and any number of inputs, failures and commands *)
(* on their way.                                                           *)
(***************************************************************************)
EXTENDS Limits, SequenceTheorems, TLAPS

(* What is in the queue: options to be sent, and the schedules to be       *)
(* loaded again.  ReloadLast: there is a reload behind all options.        *)
IsOptions(c) == c.kind = "ApplyAria2Options"
IsReload(c)  == c.kind = "ReloadSchedules"

HasOptions(q) == \E i \in DOMAIN q: IsOptions(q[i])
HasReload(q)  == \E i \in DOMAIN q: IsReload(q[i])
ReloadLast(q) ==
  \A i \in DOMAIN q: IsOptions(q[i]) => \E j \in DOMAIN q: i < j /\ IsReload(q[j])
LastAt(q, i)  == IsOptions(q[i]) /\ \A j \in DOMAIN q: i < j => ~IsOptions(q[j])
LastOptions(q) == {s \in {q[i].settings: i \in DOMAIN q}:
                     \E i \in DOMAIN q: LastAt(q, i) /\ q[i].settings = s}

(* Since the last apply nothing else was applied, unless it is pending or  *)
(* on its way behind the reload.                                           *)
SentInv ==
  Outdated /\ pending = {} /\ ReloadLast(cmds) =>
    applied = disk /\ \A s \in LastOptions(cmds): s = disk

(* The scheduler runs for what it was started for, and is never inside the *)
(* window of a schedule that is off.                                       *)
SchedulerInv ==
  scheduler.at = "run" =>
    /\ ~Outdated => asked = scheduler.settings
    /\ ~scheduler.settings.scheduled => ~scheduler.inside

(* The limits aria2 has are those of one side of the window. *)
LimitAt(s, inside, k) == IF s.scheduled /\ ~inside THEN 0 ELSE s[k]
HasLimits(s, inside) == \A k \in Limit: aria2[k] = LimitAt(s, inside, k)

Scheduled == Limit \cup {"scheduled", "start", "end", "days"}
Alike(a, b) == \A f \in Scheduled: a[f] = b[f]

(* Once aria2 was told, and nothing is on its way to it, it has the limits *)
(* of where they come from: of this minute as long as a scheduler is       *)
(* waited for, and afterwards of the side the scheduler knows or of the    *)
(* one it will find.  Whatever the scheduler was started for, a limit is   *)
(* none, or that of one of the two settings.                               *)
Told == engine = "up" /\ boot # "options" /\ pending = {} /\ ~HasOptions(cmds) /\ ~crossed

ToldInv ==
  Told =>
    /\ aria2.proxy = source.proxy
    /\ Outdated => source = disk
    /\ Outdated \/ scheduler.at = "new" => HasLimits(source, ActiveAt(source, now))
    /\ scheduler.at = "run" /\ ~Outdated /\ Alike(source, scheduler.settings) =>
         HasLimits(source, scheduler.inside) \/ HasLimits(source, Side)
    /\ scheduler.at = "run" /\ ~Outdated =>
         \A k \in Limit: aria2[k] \in {0, source[k], scheduler.settings[k]}

LEMMA LimitIs == \A s, inside, k: LimitAt(s, inside, k) \in {0, s[k]}
BY DEF LimitAt

(* An engine that is up was installed, with a scheduler. *)
UpInv == engine = "up" => scheduler.at # "none"

IInv == SentInv /\ SchedulerInv /\ ToldInv /\ UpInv

-----------------------------------------------------------------------------
(* Types.  A setting gives each field one of its values. *)
Setting == {s \in [Field -> UNION {Values[f]: f \in Field}]: \A f \in Field: s[f] \in Values[f]}
Kind == {"ApplyAria2Options", "ReloadSchedules", "RestartEngine", "CheckMissingFiles",
         "PurgeResults"}
Command == [kind: Kind, settings: Setting, time: Nat]
Running == [at: {"none", "new", "run"}, settings: Setting, inside: BOOLEAN]

UITyped == {settings, applied, disk} \subseteq Setting /\ pending \subseteq Limit
CmdsTyped == cmds \in Seq(Command)
ClockTyped == now \in 0..Days * Minutes - 1
EngineTyped ==
  /\ engine \in {"starting", "up", "crashed"} /\ boot \in {"none", "options", "sync", "done"}
  /\ DOMAIN aria2 = DOMAIN Default /\ source \in Setting
SchedulerTyped == scheduler \in Running
SearchTyped ==
  /\ check \in {"none", "list", "stat", "nothing"} /\ in_flight = (check # "none")
  /\ download \in {"none", "complete", "active"}

Typed ==
  UITyped /\ CmdsTyped /\ ClockTyped /\ EngineTyped /\ SchedulerTyped /\ SearchTyped

LEMMA TypedIsTypeOK == Typed => TypeOK
<1> SUFFICES ASSUME Typed PROVE TypeOK
  OBVIOUS
<1>1. \A s \in {settings, applied, disk, source, scheduler.settings}: s \in Setting
  BY DEF Typed, UITyped, EngineTyped, SchedulerTyped, Running
<1>2. \A s \in Setting: DOMAIN s = Field /\ \A f \in Field: s[f] \in Values[f]
  BY DEF Setting
<1>3. scheduler.at \in {"none", "new", "run"}
  BY DEF Typed, SchedulerTyped, Running
<1> QED
  BY <1>1, <1>2, <1>3 DEF Typed, UITyped, ClockTyped, EngineTyped, SearchTyped, TypeOK

LEMMA UnchangedTyped ==
  ASSUME Typed
  PROVE  /\ UNCHANGED ui => UITyped'
         /\ UNCHANGED cmds => CmdsTyped'
         /\ UNCHANGED now => ClockTyped'
         /\ UNCHANGED <<engine, boot, aria2, source>> => EngineTyped'
         /\ UNCHANGED process => EngineTyped'
         /\ UNCHANGED scheduler => SchedulerTyped'
         /\ UNCHANGED <<check, in_flight, download>> => SearchTyped'
         /\ UNCHANGED search => SearchTyped'
BY DEF Typed, UITyped, CmdsTyped, ClockTyped, EngineTyped, SchedulerTyped, SearchTyped, ui,
       process, search

LEMMA StartTyped == Start \in Setting
BY ConstAssumption DEF Setting, Field

LEMMA SetTyped ==
  ASSUME NEW s \in Setting, NEW f, NEW v \in Values[f]
  PROVE  Set(s, f, v) \in Setting
BY DEF Set, Setting

LEMMA Clock == Days * Minutes \in Nat \ {0}
BY ConstAssumption

-----------------------------------------------------------------------------
(* The queue. *)
LEMMA AppendIs ==
  ASSUME NEW S, NEW q \in Seq(S), NEW c \in S
  PROVE  /\ q \o <<c>> = Append(q, c) /\ Append(q, c) \in Seq(S)
         /\ DOMAIN q = 1..Len(q) /\ DOMAIN Append(q, c) = 1..(Len(q) + 1) /\ Len(q) \in Nat
         /\ \A i \in DOMAIN q: Append(q, c)[i] = q[i]
         /\ Append(q, c)[Len(q) + 1] = c
OBVIOUS

LEMMA AppendPlain ==
  ASSUME NEW q \in Seq(Command), NEW c \in Command, ~IsOptions(c), ~IsReload(c)
  PROVE  /\ HasOptions(Append(q, c)) <=> HasOptions(q)
         /\ HasReload(Append(q, c)) <=> HasReload(q)
         /\ ReloadLast(Append(q, c)) <=> ReloadLast(q)
         /\ LastOptions(Append(q, c)) = LastOptions(q)
<1> DEFINE r == Append(q, c)
           n == Len(q) + 1
<1>1. /\ DOMAIN q = 1..Len(q) /\ DOMAIN r = 1..n /\ Len(q) \in Nat
      /\ \A i \in DOMAIN q: r[i] = q[i]
      /\ r[n] = c
  BY AppendIs
<1> HIDE DEF r
<1>2. DOMAIN r = DOMAIN q \cup {n} /\ n \notin DOMAIN q
  BY <1>1
<1>3. HasOptions(r) <=> HasOptions(q)
  BY <1>1, <1>2, Zenon DEF HasOptions
<1>4. HasReload(r) <=> HasReload(q)
  BY <1>1, <1>2, Zenon DEF HasReload
<1>5. ReloadLast(r) <=> ReloadLast(q)
  BY <1>1, <1>2 DEF ReloadLast
<1>6. \A i \in DOMAIN r: LastAt(r, i) <=> i \in DOMAIN q /\ LastAt(q, i)
  BY <1>1, <1>2 DEF LastAt
<1>7. LastOptions(r) = LastOptions(q)
  BY <1>1, <1>2, <1>6 DEF LastOptions
<1> QED
  BY <1>3, <1>4, <1>5, <1>7 DEF r

LEMMA AppendOptions ==
  ASSUME NEW q \in Seq(Command), NEW c \in Command, IsOptions(c)
  PROVE  /\ HasOptions(Append(q, c)) /\ ~ReloadLast(Append(q, c))
         /\ LastOptions(Append(q, c)) = {c.settings}
<1> DEFINE r == Append(q, c)
           n == Len(q) + 1
<1>1. DOMAIN r = 1..n /\ r[n] = c /\ n \in DOMAIN r
  BY AppendIs
<1>2. \A i \in DOMAIN r: i # n => i < n
  BY <1>1, AppendIs
<1>3. ~ \E i \in DOMAIN r: n < i
  BY <1>1, AppendIs
<1> HIDE DEF r, n
<1>4. HasOptions(r) /\ ~ReloadLast(r)
  BY <1>1, <1>3 DEF HasOptions, ReloadLast
<1>5. \A i \in DOMAIN r: LastAt(r, i) <=> i = n
  BY <1>1, <1>2, <1>3 DEF LastAt
<1>6. LastOptions(r) = {c.settings}
  BY <1>1, <1>5 DEF LastOptions
<1> QED
  BY <1>4, <1>6 DEF r

LEMMA AppendReload ==
  ASSUME NEW q \in Seq(Command), NEW c \in Command, IsReload(c)
  PROVE  /\ HasReload(Append(q, c))
         /\ HasOptions(Append(q, c)) <=> HasOptions(q)
         /\ LastOptions(Append(q, c)) = LastOptions(q)
<1> DEFINE r == Append(q, c)
           n == Len(q) + 1
<1>1. /\ DOMAIN q = 1..Len(q) /\ DOMAIN r = 1..n /\ Len(q) \in Nat
      /\ \A i \in DOMAIN q: r[i] = q[i]
      /\ r[n] = c
  BY AppendIs
<1>0. ~IsOptions(c)
  BY DEF IsOptions, IsReload
<1> HIDE DEF r
<1>2. DOMAIN r = DOMAIN q \cup {n} /\ n \notin DOMAIN q
  BY <1>1
<1>3. HasOptions(r) <=> HasOptions(q)
  BY <1>0, <1>1, <1>2, Zenon DEF HasOptions
<1>4. HasReload(r)
  BY <1>1, <1>2, Zenon DEF HasReload
<1>5. \A i \in DOMAIN r: LastAt(r, i) <=> i \in DOMAIN q /\ LastAt(q, i)
  BY <1>0, <1>1, <1>2 DEF LastAt
<1>6. LastOptions(r) = LastOptions(q)
  BY <1>1, <1>2, <1>5 DEF LastOptions
<1> QED
  BY <1>3, <1>4, <1>6 DEF r

LEMMA Received ==
  ASSUME NEW q \in Seq(Command), q # <<>>
  PROVE  /\ Tail(q) \in Seq(Command) /\ Head(q) \in Command
         /\ HasOptions(q) <=> HasOptions(Tail(q)) \/ IsOptions(Head(q))
         /\ HasReload(q) <=> HasReload(Tail(q)) \/ IsReload(Head(q))
         /\ ReloadLast(Tail(q)) /\ HasReload(Tail(q)) => ReloadLast(q)
         /\ LastOptions(Tail(q)) \subseteq LastOptions(q)
         /\ ~HasOptions(Tail(q)) /\ IsOptions(Head(q)) => Head(q).settings \in LastOptions(q)
<1> DEFINE r == Tail(q)
<1>1. /\ r \in Seq(Command) /\ Head(q) \in Command
      /\ Len(q) \in Nat \ {0} /\ DOMAIN q = 1..Len(q) /\ DOMAIN r = 1..(Len(q) - 1)
      /\ Head(q) = q[1]
      /\ \A i \in 1..(Len(q) - 1): r[i] = q[i + 1]
  OBVIOUS
<1> HIDE DEF r
<1>2. /\ 1 \in DOMAIN q
      /\ \A i \in DOMAIN r: i + 1 \in DOMAIN q /\ r[i] = q[i + 1] /\ 1 < i + 1
      /\ \A i \in DOMAIN q: i # 1 => i - 1 \in DOMAIN r /\ q[i] = r[i - 1] /\ i = (i - 1) + 1
      /\ \A i, j \in DOMAIN r: i < j <=> i + 1 < j + 1
      /\ \A i \in DOMAIN q: i # 1 => 1 < i
  BY <1>1
<1>3. HasOptions(q) <=> HasOptions(r) \/ IsOptions(Head(q))
  BY <1>1, <1>2 DEF HasOptions
<1>4. HasReload(q) <=> HasReload(r) \/ IsReload(Head(q))
  BY <1>1, <1>2 DEF HasReload
<1>5. ReloadLast(r) /\ HasReload(r) => ReloadLast(q)
  <2> SUFFICES ASSUME ReloadLast(r), HasReload(r), NEW i \in DOMAIN q, IsOptions(q[i])
               PROVE  \E j \in DOMAIN q: i < j /\ IsReload(q[j])
    BY DEF ReloadLast
  <2>1. CASE i = 1
    BY <2>1, <1>2 DEF HasReload
  <2>2. CASE i # 1
    <3>1. PICK j \in DOMAIN r: i - 1 < j /\ IsReload(r[j])
      BY <2>2, <1>2 DEF ReloadLast
    <3>2. j + 1 \in DOMAIN q /\ i < j + 1 /\ IsReload(q[j + 1])
      BY <2>2, <3>1, <1>1, <1>2
    <3> QED
      BY <3>2
  <2> QED
    BY <2>1, <2>2
<1>6. \A i \in DOMAIN r: LastAt(r, i) => LastAt(q, i + 1)
  BY <1>1, <1>2 DEF LastAt
<1>7. LastOptions(r) \subseteq LastOptions(q)
  BY <1>2, <1>6 DEF LastOptions
<1>8. ~HasOptions(r) /\ IsOptions(Head(q)) => LastAt(q, 1)
  BY <1>1, <1>2 DEF HasOptions, LastAt
<1>9. ~HasOptions(r) /\ IsOptions(Head(q)) => Head(q).settings \in LastOptions(q)
  BY <1>1, <1>2, <1>8 DEF LastOptions
<1> QED
  BY <1>1, <1>3, <1>4, <1>5, <1>7, <1>9 DEF r

LEMMA OutdatedIs == Outdated <=> HasReload(cmds)
BY DEF Outdated, HasReload, IsReload
LEMMA CommandsAre ==
  ASSUME Typed
  PROVE  /\ \A s \in Setting: /\ Options(s) \in Command /\ IsOptions(Options(s))
                              /\ Options(s).settings = s
         /\ \A k \in {"RestartEngine", "CheckMissingFiles", "PurgeResults"}:
              Plain(k) \in Command /\ ~IsOptions(Plain(k)) /\ ~IsReload(Plain(k))
         /\ Plain("ReloadSchedules") \in Command /\ IsReload(Plain("ReloadSchedules"))
<1>1. now \in Nat
  BY Clock DEF Typed, ClockTyped
<1>2. \A s \in Setting: /\ Options(s) \in Command /\ IsOptions(Options(s))
                         /\ Options(s).settings = s
  BY <1>1 DEF Options, Command, Kind, IsOptions
<1>3. \A k \in Kind: Plain(k) \in Command /\ Plain(k).kind = k
  BY StartTyped DEF Plain, Command
<1> QED
  BY <1>2, <1>3 DEF Kind, IsOptions, IsReload

-----------------------------------------------------------------------------
(* The options. *)
LEMMA EffectiveIs ==
  ASSUME NEW s, NEW t
  PROVE  /\ DOMAIN EffectiveOptions(s, t) \subseteq DOMAIN Default
         /\ {"download", "upload", "proxy"} \subseteq DOMAIN EffectiveOptions(s, t)
         /\ \A k \in Limit: EffectiveOptions(s, t)[k] = LimitAt(s, ActiveAt(s, t), k)
         /\ EffectiveOptions(s, t)["proxy"] = s.proxy
<1>1. /\ DOMAIN TaskOptions(s) \subseteq DOMAIN Default
      /\ {"download", "upload", "proxy"} \subseteq DOMAIN TaskOptions(s)
      /\ \A k \in {"download", "upload", "proxy"}: TaskOptions(s)[k] = s[k]
  BY DEF TaskOptions, Default
<1>2. DOMAIN NoLimits = {"download", "upload"} /\ \A k \in Limit: NoLimits[k] = 0
  BY DEF NoLimits, Limit
<1>3. /\ DOMAIN Over(NoLimits, TaskOptions(s)) = {"download", "upload"} \cup DOMAIN TaskOptions(s)
      /\ \A k \in Limit: Over(NoLimits, TaskOptions(s))[k] = 0
      /\ Over(NoLimits, TaskOptions(s))["proxy"] = s["proxy"]
  BY <1>1, <1>2 DEF Over, Limit
<1>4. CASE s.scheduled /\ ~ActiveAt(s, t)
  <2>1. EffectiveOptions(s, t) = Over(NoLimits, TaskOptions(s))
    BY <1>4 DEF EffectiveOptions
  <2>2. \A k \in Limit: LimitAt(s, ActiveAt(s, t), k) = 0
    BY <1>4 DEF LimitAt
  <2> QED
    BY <1>1, <1>3, <2>1, <2>2 DEF Default
<1>5. CASE ~(s.scheduled /\ ~ActiveAt(s, t))
  <2>1. EffectiveOptions(s, t) = TaskOptions(s)
    BY <1>5 DEF EffectiveOptions
  <2>2. \A k \in Limit: LimitAt(s, ActiveAt(s, t), k) = s[k]
    BY <1>5 DEF LimitAt
  <2> QED
    BY <1>1, <2>1, <2>2 DEF Limit
<1> QED
  BY <1>4, <1>5

LEMMA ChangeDoes ==
  ASSUME Typed, NEW o, DOMAIN o \subseteq DOMAIN Default, Change(o)
  PROVE  /\ engine = "up" /\ DOMAIN aria2' = DOMAIN Default
         /\ \A k \in DOMAIN o: aria2'[k] = o[k]
         /\ \A k \in DOMAIN Default \ DOMAIN o: aria2'[k] = aria2[k]
BY DEF Change, Over, Typed, EngineTyped

(* The minute decides by the fields of the schedule. *)
LEMMA AlikeActive ==
  ASSUME NEW a, NEW b, Alike(a, b), NEW t, NEW inside
  PROVE  /\ ActiveAt(a, t) = ActiveAt(b, t)
         /\ \A k \in Limit: LimitAt(a, inside, k) = LimitAt(b, inside, k)
<1>1. /\ a.scheduled = b.scheduled /\ a.start = b.start /\ a.end = b.end /\ a.days = b.days
      /\ \A k \in Limit: a[k] = b[k]
  BY DEF Alike, Scheduled
<1> QED
  BY <1>1 DEF ActiveAt, LimitAt

LEMMA OptionsApplied ==
  ASSUME Typed, NEW s \in Setting, NEW t, ApplyGlobalOptions(s, t), UNCHANGED <<engine, now>>
  PROVE  /\ DOMAIN aria2' = DOMAIN Default /\ source' \in Setting
         /\ engine' = "up" /\ ~crossed' =>
              /\ source' = s /\ aria2'.proxy = s.proxy
              /\ HasLimits(s, ActiveAt(s, now))'
<1>1. CASE /\ Change(EffectiveOptions(s, t))
           /\ source' = s
           /\ crossed' = (EffectiveOptions(s, t) # EffectiveOptions(s, now))
  <2>1. DOMAIN aria2' = DOMAIN Default
    BY <1>1, ChangeDoes, EffectiveIs
  <2>2. /\ \A k \in Limit: aria2'[k] = EffectiveOptions(s, t)[k]
        /\ aria2'.proxy = EffectiveOptions(s, t)["proxy"]
    BY <1>1, ChangeDoes, EffectiveIs DEF Limit
  <2>3. ~crossed' => EffectiveOptions(s, t) = EffectiveOptions(s, now)
    BY <1>1
  <2>4. ~crossed' => /\ \A k \in Limit: aria2'[k] = LimitAt(s, ActiveAt(s, now), k)
                     /\ aria2'.proxy = s.proxy
    BY <2>2, <2>3, EffectiveIs
  <2>5. ~crossed' => HasLimits(s, ActiveAt(s, now))'
    BY <2>4 DEF HasLimits
  <2> QED
    BY <1>1, <2>1, <2>4, <2>5
<1>2. CASE ChangeFails
  BY <1>2 DEF ChangeFails, Typed, EngineTyped
<1> QED
  BY <1>1, <1>2 DEF ApplyGlobalOptions

-----------------------------------------------------------------------------
(* The user, and the messages of the engine. *)
LEMMA QueueGrows ==
  ASSUME IInv, UNCHANGED <<engine, scheduler>>, HasReload(cmds) => HasReload(cmds'),
         asked' = asked \/ HasReload(cmds')
  PROVE  SchedulerInv' /\ UpInv'
BY OutdatedIs DEF IInv, SchedulerInv, UpInv, HasReload, Outdated, IsReload

LEMMA EditKeeps ==
  ASSUME Typed, IInv, NEW f \in Field, NEW v \in Values[f], Edit(f, v)
  PROVE  Typed' /\ IInv'
<1>1. UITyped'
  BY SetTyped DEF Edit, Typed, UITyped
<1>2. Typed'
  BY <1>1, UnchangedTyped DEF Edit, Typed
<1>3. UNCHANGED <<applied, disk, pending, cmds, now, process, scheduler, asked>>
  BY DEF Edit
<1> QED
  BY <1>2, <1>3 DEF IInv, SentInv, SchedulerInv, ToldInv, UpInv, Told, Outdated, HasLimits, Side, process

LEMMA ApplyKeeps ==
  ASSUME Typed, IInv, NEW restart \in BOOLEAN, Apply(restart)
  PROVE  Typed' /\ IInv'
<1> DEFINE q == Append(Append(cmds, Options(settings)), Plain("ReloadSchedules"))
<1>1. /\ disk' = settings /\ applied' = settings /\ asked' = settings
      /\ UNCHANGED <<settings, pending, now, process, scheduler, search>>
      /\ cmds' = cmds \o (<<Options(settings)>> \o <<Plain("ReloadSchedules")>>
                          \o (IF restart THEN <<Plain("RestartEngine")>> ELSE <<>>))
  BY DEF Apply, Applied, Send
<1>2. /\ settings \in Setting /\ cmds \in Seq(Command)
      /\ Options(settings) \in Command /\ IsOptions(Options(settings))
      /\ Options(settings).settings = settings
      /\ Plain("ReloadSchedules") \in Command /\ IsReload(Plain("ReloadSchedules"))
      /\ Plain("RestartEngine") \in Command
      /\ ~IsOptions(Plain("RestartEngine")) /\ ~IsReload(Plain("RestartEngine"))
  BY CommandsAre DEF Typed, UITyped, CmdsTyped
<1>3. q \in Seq(Command) /\ cmds' = IF restart THEN Append(q, Plain("RestartEngine")) ELSE q
  <2>1. ASSUME NEW a \in Command, NEW b \in Command, NEW c \in Command
        PROVE  /\ cmds \o (<<a>> \o <<b>> \o <<c>>) = Append(Append(Append(cmds, a), b), c)
               /\ cmds \o (<<a>> \o <<b>> \o <<>>) = Append(Append(cmds, a), b)
    <3>1. \A r \in Seq(Command): <<a>> \o <<b>> \o r \in Seq(Command)
      OBVIOUS
    <3>2. cmds \o (<<a>> \o <<b>>) = Append(Append(cmds, a), b)
      BY <1>2
    <3>3. <<a>> \o <<b>> \o <<>> = <<a>> \o <<b>>
      OBVIOUS
    <3>4. cmds \o (<<a>> \o <<b>> \o <<c>>) = (cmds \o (<<a>> \o <<b>>)) \o <<c>>
      BY <1>2
    <3>5. Append(Append(cmds, a), b) \in Seq(Command)
      BY <1>2
    <3> QED
      BY <3>2, <3>3, <3>4, <3>5, AppendIs
  <2> QED
    BY <1>1, <1>2, <2>1
<1>4. HasOptions(q) /\ HasReload(q) /\ LastOptions(q) = {settings}
  <2>1. Append(cmds, Options(settings)) \in Seq(Command)
    BY <1>2
  <2>2. /\ HasOptions(Append(cmds, Options(settings)))
        /\ LastOptions(Append(cmds, Options(settings))) = {settings}
    BY <1>2, AppendOptions
  <2> QED
    BY <1>2, <2>1, <2>2, AppendReload
<1> HIDE DEF q
<1>5. HasOptions(cmds') /\ HasReload(cmds') /\ LastOptions(cmds') = {settings}
  BY <1>2, <1>3, <1>4, AppendPlain
<1>6. Typed'
  <2>1. UITyped' /\ CmdsTyped'
    BY <1>1, <1>2, <1>3, AppendIs DEF Typed, UITyped, CmdsTyped
  <2> QED
    BY <1>1, <2>1, UnchangedTyped DEF Typed
<1>7. SentInv'
  BY <1>1, <1>5 DEF SentInv
<1>8. ToldInv'
  BY <1>5 DEF ToldInv, Told
<1> QED
  BY <1>1, <1>5, <1>6, <1>7, <1>8, QueueGrows DEF IInv, process

LEMMA DiscardKeeps == Typed /\ IInv /\ Discard => Typed' /\ IInv'
<1> SUFFICES ASSUME Typed, IInv, Discard PROVE Typed' /\ IInv'
  OBVIOUS
<1>1. /\ disk' = applied /\ settings' = applied
      /\ UNCHANGED <<applied, pending, cmds, now, process, scheduler, asked, search>>
  BY DEF Discard
<1>2. UITyped'
  BY <1>1 DEF Typed, UITyped
<1>3. Typed'
  BY <1>1, <1>2, UnchangedTyped DEF Typed
<1>4. SentInv'
  BY <1>1 DEF IInv, SentInv, Outdated
<1>5. ToldInv'
  <2>1. Told /\ Outdated => source = disk /\ applied = disk
    BY DEF IInv, ToldInv, SentInv, Told, HasOptions, ReloadLast
  <2> QED
    BY <1>1, <2>1 DEF IInv, ToldInv, Told, Outdated, HasLimits, Side, process
<1> QED
  BY <1>1, <1>3, <1>4, <1>5, QueueGrows DEF IInv, process

LEMMA PopoverKeeps ==
  ASSUME Typed, IInv, NEW k \in Limit, NEW v \in Values[k], ChangeInPopover(k, v)
  PROVE  Typed' /\ IInv'
<1>1. /\ settings' = Set(settings, k, v) /\ applied' = settings' /\ pending' = pending \cup {k}
      /\ UNCHANGED <<disk, cmds, now, process, scheduler, asked, search>>
  BY DEF ChangeInPopover
<1>2. UITyped'
  BY <1>1, SetTyped DEF Typed, UITyped
<1>3. Typed'
  BY <1>1, <1>2, UnchangedTyped DEF Typed
<1>4. SentInv' /\ ToldInv'
  BY <1>1 DEF SentInv, ToldInv, Told
<1> QED
  BY <1>1, <1>3, <1>4, QueueGrows DEF IInv, process

(* Options at the end of the queue. *)
LEMMA SendingOptions ==
  ASSUME Typed, IInv, NEW c \in Command, IsOptions(c), cmds' = Append(cmds, c),
         UNCHANGED <<now, process, scheduler, asked, search>>
  PROVE  CmdsTyped' /\ IInv'
<1>1. cmds \in Seq(Command) /\ ~IsReload(c)
  BY DEF Typed, CmdsTyped, IsOptions, IsReload
<1>2. CmdsTyped'
  BY <1>1 DEF CmdsTyped
<1>3. HasOptions(cmds') /\ ~ReloadLast(cmds')
  BY <1>1, AppendOptions
<1>4. HasReload(cmds) => HasReload(cmds')
  BY <1>1, AppendIs DEF HasReload
<1> QED
  BY <1>2, <1>3, <1>4, QueueGrows DEF IInv, SentInv, ToldInv, Told, process

LEMMA DebouncedKeeps == Typed /\ IInv /\ Debounced => Typed' /\ IInv'
<1> SUFFICES ASSUME Typed, IInv, Debounced PROVE Typed' /\ IInv'
  OBVIOUS
<1>1. /\ pending' \subseteq pending
      /\ cmds' = cmds \o <<Options(settings)>>
      /\ UNCHANGED <<settings, applied, disk, now, process, scheduler, asked, search>>
  BY DEF Debounced, Send
<1>2. /\ cmds \in Seq(Command) /\ Options(settings) \in Command /\ IsOptions(Options(settings))
  BY CommandsAre DEF Typed, UITyped, CmdsTyped
<1>3. cmds' = Append(cmds, Options(settings))
  BY <1>1, <1>2, AppendIs
<1>4. UITyped'
  BY <1>1 DEF Typed, UITyped
<1> QED
  BY <1>1, <1>2, <1>3, <1>4, SendingOptions, UnchangedTyped DEF Typed

LEMMA TrackersKeep == Typed /\ IInv /\ TrackersSynced => Typed' /\ IInv'
<1> SUFFICES ASSUME Typed, IInv, TrackersSynced PROVE Typed' /\ IInv'
  OBVIOUS
<1>1. PICK t \in Values.trackers:
        settings' = Set(settings, "trackers", t) /\ applied' = Set(applied, "trackers", t)
  BY DEF TrackersSynced
<1> DEFINE c == [Options(settings) EXCEPT !.settings = settings']
<1>2. /\ disk' = applied' /\ cmds' = Append(cmds, c)
      /\ UNCHANGED <<pending, now, process, scheduler, asked, search>>
  BY DEF TrackersSynced
<1>3. UITyped'
  BY <1>1, <1>2, SetTyped DEF Typed, UITyped
<1>4. c \in Command /\ IsOptions(c)
  <2>1. Options(settings) \in Command /\ IsOptions(Options(settings)) /\ settings' \in Setting
    BY <1>3, CommandsAre DEF Typed, UITyped
  <2> QED
    BY <2>1 DEF Command, IsOptions
<1> HIDE DEF c
<1> QED
  BY <1>2, <1>3, <1>4, SendingOptions, UnchangedTyped DEF Typed

(* A command that is about neither options nor the schedules, or none. *)
LEMMA SendingPlain ==
  ASSUME Typed, IInv, NEW k \in {"RestartEngine", "CheckMissingFiles", "PurgeResults"},
         cmds' = cmds \/ cmds' = cmds \o <<Plain(k)>>,
         UNCHANGED <<ui, now, engine, aria2, boot, source, crossed, scheduler, asked>>
  PROVE  CmdsTyped' /\ IInv'
<1>1. cmds \in Seq(Command) /\ Plain(k) \in Command /\ ~IsOptions(Plain(k)) /\ ~IsReload(Plain(k))
  BY CommandsAre DEF Typed, CmdsTyped
<1>2. cmds' = cmds \/ cmds' = Append(cmds, Plain(k))
  BY <1>1, AppendIs
<1>3. CmdsTyped'
  BY <1>1, <1>2 DEF CmdsTyped
<1>4. /\ HasOptions(cmds') <=> HasOptions(cmds)
      /\ HasReload(cmds') <=> HasReload(cmds)
      /\ ReloadLast(cmds') <=> ReloadLast(cmds)
      /\ LastOptions(cmds') = LastOptions(cmds)
  BY <1>1, <1>2, AppendPlain
<1>5. Outdated' <=> Outdated
  BY <1>4 DEF Outdated, HasReload, IsReload
<1>6. SentInv' /\ SchedulerInv' /\ UpInv'
  BY <1>4, <1>5 DEF IInv, SentInv, SchedulerInv, UpInv, ui
<1>7. ToldInv'
  <2>1. Told' <=> Told
    BY <1>4 DEF Told, ui
  <2> QED
    BY <1>5, <2>1 DEF IInv, ToldInv, HasLimits, Side, ui
<1> QED
  BY <1>3, <1>6, <1>7 DEF IInv

LEMMA MessagesKeep == Typed /\ IInv /\ (SyncComplete \/ FilesMissing) => Typed' /\ IInv'
<1> SUFFICES ASSUME Typed, IInv, SyncComplete \/ FilesMissing PROVE Typed' /\ IInv'
  OBVIOUS
<1>1. /\ UNCHANGED <<ui, now, process, scheduler, asked, check, in_flight, download>>
      /\ \E k \in {"CheckMissingFiles", "PurgeResults"}:
           cmds' = cmds \o <<>> \/ cmds' = cmds \o <<Plain(k)>>
  BY DEF SyncComplete, FilesMissing, Send
<1>2. cmds \o <<>> = cmds
  BY DEF Typed, CmdsTyped
<1>3. CmdsTyped' /\ IInv'
  BY <1>1, <1>2, SendingPlain DEF process
<1> QED
  BY <1>1, <1>3, UnchangedTyped DEF Typed

-----------------------------------------------------------------------------
(* The engine. *)
LEMMA ReceiveKeepsSent ==
  ASSUME Typed, IInv, cmds # <<>>, cmds' = Tail(cmds), UNCHANGED <<applied, disk, pending>>
  PROVE  CmdsTyped' /\ SentInv'
<1>1. cmds \in Seq(Command)
  BY DEF Typed, CmdsTyped
<1>2. /\ Tail(cmds) \in Seq(Command)
      /\ HasReload(Tail(cmds)) => HasReload(cmds)
      /\ ReloadLast(Tail(cmds)) /\ HasReload(Tail(cmds)) => ReloadLast(cmds)
      /\ LastOptions(Tail(cmds)) \subseteq LastOptions(cmds)
  BY <1>1, Received
<1>3. Outdated' <=> HasReload(cmds')
  BY DEF Outdated, HasReload, IsReload
<1> QED
  BY <1>2, <1>3, OutdatedIs DEF CmdsTyped, IInv, SentInv

(* Nothing changes for the options but that a command is gone that was     *)
(* about neither.                                                          *)
LEMMA ReceivePlain ==
  ASSUME Typed, IInv, cmds # <<>>, cmds' = Tail(cmds),
         ~IsOptions(Head(cmds)), ~IsReload(Head(cmds)),
         UNCHANGED <<ui, now, aria2, boot, source, crossed, scheduler, asked>>,
         engine' = engine \/ engine' # "up"
  PROVE  CmdsTyped' /\ IInv'
<1>1. CmdsTyped' /\ SentInv'
  BY ReceiveKeepsSent DEF ui
<1>2. (HasOptions(cmds') <=> HasOptions(cmds)) /\ (HasReload(cmds') <=> HasReload(cmds))
  BY Received DEF Typed, CmdsTyped
<1>3. Outdated' <=> Outdated
  BY <1>2 DEF Outdated, HasReload, IsReload
<1>4. SchedulerInv' /\ UpInv'
  BY <1>3 DEF IInv, SchedulerInv, UpInv
<1>5. ToldInv'
  <2>1. Told' => Told
    BY <1>2 DEF Told, ui
  <2> QED
    BY <1>3, <2>1 DEF IInv, ToldInv, HasLimits, Side, ui
<1> QED
  BY <1>1, <1>4, <1>5 DEF IInv

LEMMA HandleOptionsKeeps == Typed /\ IInv /\ HandleOptions => Typed' /\ IInv'
<1> SUFFICES ASSUME Typed, IInv, HandleOptions PROVE Typed' /\ IInv'
  OBVIOUS
<1>0. PICK s: s = Head(cmds).settings
  OBVIOUS
<1>1. /\ cmds # <<>> /\ cmds' = Tail(cmds) /\ IsOptions(Head(cmds)) /\ ~IsReload(Head(cmds))
      /\ ApplyGlobalOptions(s, Head(cmds).time)
      /\ UNCHANGED <<ui, now, engine, boot, scheduler, asked, search, inputs>>
  BY <1>0 DEF HandleOptions, Receive, IsOptions, IsReload
<1>2. cmds \in Seq(Command) /\ Head(cmds) \in Command /\ s \in Setting
  <2>1. cmds \in Seq(Command)
    BY DEF Typed, CmdsTyped
  <2>2. Head(cmds) \in Command
    BY <1>1, <2>1, Received
  <2> QED
    BY <1>0, <2>1, <2>2 DEF Command
<1>3. /\ HasReload(cmds') <=> HasReload(cmds)
      /\ ReloadLast(Tail(cmds)) /\ HasReload(Tail(cmds)) => ReloadLast(cmds)
      /\ ~HasOptions(cmds') => s \in LastOptions(cmds)
  BY <1>0, <1>1, <1>2, Received
<1>4. CmdsTyped' /\ SentInv'
  BY <1>1, ReceiveKeepsSent DEF ui
<1>5. /\ DOMAIN aria2' = DOMAIN Default /\ source' \in Setting
      /\ engine' = "up" /\ ~crossed' =>
           /\ source' = s /\ aria2'.proxy = s.proxy
           /\ HasLimits(s, ActiveAt(s, now))'
  BY <1>1, <1>2, OptionsApplied
<1>6. Typed'
  <2>1. EngineTyped'
    BY <1>1, <1>5 DEF Typed, EngineTyped
  <2> QED
    BY <1>1, <1>4, <2>1, UnchangedTyped DEF Typed
<1>7. Outdated' <=> Outdated
  BY <1>3 DEF Outdated, HasReload, IsReload
<1>8. SchedulerInv' /\ UpInv'
  BY <1>1, <1>7 DEF IInv, SchedulerInv, UpInv
<1>9. ToldInv'
  <2> SUFFICES ASSUME Told' PROVE (/\ aria2.proxy = source.proxy
                                   /\ Outdated => source = disk
                                   /\ HasLimits(source, ActiveAt(source, now))
                                   /\ Alike(source, scheduler.settings) =>
                                        HasLimits(source, Side))'
    BY LimitIs DEF ToldInv, HasLimits
  <2>1. source' = s /\ aria2'.proxy = s.proxy /\ HasLimits(s, ActiveAt(s, now))'
    BY <1>5 DEF Told
  <2>2. HasLimits(source, ActiveAt(source, now))'
    BY <2>1 DEF HasLimits
  <2>3. Outdated' => s = disk
    <3>1. ~HasOptions(cmds') /\ pending = {}
      BY <1>1 DEF Told, ui
    <3>2. ReloadLast(Tail(cmds))
      BY <1>1, <3>1 DEF HasOptions, ReloadLast
    <3> QED
      BY <1>1, <1>3, <1>7, <3>1, <3>2, OutdatedIs DEF IInv, SentInv
  <2>4. Alike(source', scheduler'.settings) => ActiveAt(source', now') = Side'
    BY AlikeActive DEF Side
  <2>5. Alike(source, scheduler.settings)' => HasLimits(source, Side)'
    BY <2>2, <2>4 DEF Alike, HasLimits
  <2> QED
    BY <1>1, <2>1, <2>2, <2>3, <2>5 DEF ui
<1> QED
  BY <1>4, <1>6, <1>8, <1>9 DEF IInv

LEMMA ReloadKeeps == Typed /\ IInv /\ ReloadSchedules => Typed' /\ IInv'
<1> SUFFICES ASSUME Typed, IInv, ReloadSchedules PROVE Typed' /\ IInv'
  OBVIOUS
<1>1. /\ cmds # <<>> /\ cmds' = Tail(cmds) /\ IsReload(Head(cmds)) /\ ~IsOptions(Head(cmds))
      /\ scheduler' = [Idle EXCEPT !.at = "new"] /\ UNCHANGED <<in_flight, check>>
      /\ UNCHANGED <<ui, now, process, asked, found, synced, row, download, file, bounds>>
  BY DEF ReloadSchedules, Receive, AbortScheduler, StartScheduler, IsReload, IsOptions
<1>2. scheduler' \in Running /\ scheduler'.at = "new"
  BY <1>1, StartTyped DEF Idle, Running
<1>3. CmdsTyped' /\ SentInv'
  BY <1>1, ReceiveKeepsSent DEF ui
<1>4. Typed'
  BY <1>1, <1>2, <1>3, UnchangedTyped DEF Typed, SchedulerTyped
<1>5. ToldInv'
  <2>1. Outdated /\ (HasOptions(cmds') <=> HasOptions(cmds))
    BY <1>1, Received, OutdatedIs DEF Typed, CmdsTyped
  <2>2. Told' => Told
    BY <1>1, <2>1 DEF Told, ui, process
  <2> QED
    BY <1>1, <1>2, <2>1, <2>2 DEF IInv, ToldInv, HasLimits, ui, process
<1> QED
  BY <1>2, <1>3, <1>4, <1>5 DEF IInv, SchedulerInv, UpInv

LEMMA RestartKeeps == Typed /\ IInv /\ RestartEngine => Typed' /\ IInv'
<1> SUFFICES ASSUME Typed, IInv, RestartEngine PROVE Typed' /\ IInv'
  OBVIOUS
<1>1. /\ cmds # <<>> /\ cmds' = Tail(cmds) /\ ~IsReload(Head(cmds)) /\ ~IsOptions(Head(cmds))
      /\ engine' = "starting"
      /\ UNCHANGED <<ui, now, aria2, boot, source, crossed, scheduler, asked, search>>
  BY DEF RestartEngine, Receive, IsReload, IsOptions
<1>2. CmdsTyped' /\ IInv'
  BY <1>1, ReceivePlain
<1>3. EngineTyped'
  BY <1>1 DEF Typed, EngineTyped
<1> QED
  BY <1>1, <1>2, <1>3, UnchangedTyped DEF Typed

LEMMA CommandsKeep == Typed /\ IInv /\ (CheckMissingFiles \/ PurgeResults) => Typed' /\ IInv'
<1> SUFFICES ASSUME Typed, IInv, CheckMissingFiles \/ PurgeResults PROVE Typed' /\ IInv'
  OBVIOUS
<1>1. /\ cmds # <<>> /\ cmds' = Tail(cmds) /\ ~IsReload(Head(cmds)) /\ ~IsOptions(Head(cmds))
      /\ UNCHANGED <<ui, now, process, scheduler, asked>>
  BY DEF CheckMissingFiles, PurgeResults, Receive, IsReload, IsOptions
<1>2. CmdsTyped' /\ IInv'
  BY <1>1, ReceivePlain DEF process
<1>3. SearchTyped'
  BY DEF CheckMissingFiles, PurgeResults, TriggerCheck, Typed, SearchTyped
<1> QED
  BY <1>1, <1>2, <1>3, UnchangedTyped DEF Typed

LEMMA InstallKeeps == Typed /\ IInv /\ Install => Typed' /\ IInv'
<1> SUFFICES ASSUME Typed, IInv, Install PROVE Typed' /\ IInv'
  OBVIOUS
<1>1. /\ engine' = "up" /\ aria2' = Default /\ boot' = "options"
      /\ scheduler' = [Idle EXCEPT !.at = "new"] /\ UNCHANGED <<in_flight, check>>
      /\ UNCHANGED <<ui, cmds, now, source, crossed, asked, found, synced, row, download, file>>
  BY DEF Install, AbortScheduler, StartScheduler
<1>2. scheduler' \in Running /\ scheduler'.at = "new"
  BY <1>1, StartTyped DEF Idle, Running
<1>3. EngineTyped'
  BY <1>1 DEF Typed, EngineTyped
<1>4. Typed'
  BY <1>1, <1>2, <1>3, UnchangedTyped DEF Typed, SchedulerTyped
<1>5. SentInv'
  BY <1>1 DEF IInv, SentInv, Outdated, ui
<1> QED
  BY <1>1, <1>2, <1>4, <1>5 DEF IInv, SchedulerInv, UpInv, ToldInv, Told

LEMMA BootKeeps == Typed /\ IInv /\ BootOptions => Typed' /\ IInv'
<1> SUFFICES ASSUME Typed, IInv, BootOptions PROVE Typed' /\ IInv'
  OBVIOUS
<1>0. PICK s: s = disk
  OBVIOUS
<1>1. /\ boot' = "sync" /\ ApplyGlobalOptions(s, now)
      /\ UNCHANGED <<ui, cmds, now, engine, scheduler, asked, search, inputs>>
  BY <1>0 DEF BootOptions
<1>2. s \in Setting
  BY <1>0 DEF Typed, UITyped
<1>3. /\ DOMAIN aria2' = DOMAIN Default /\ source' \in Setting
      /\ engine' = "up" /\ ~crossed' =>
           /\ source' = s /\ aria2'.proxy = s.proxy
           /\ HasLimits(s, ActiveAt(s, now))'
  BY <1>1, <1>2, OptionsApplied
<1>4. EngineTyped'
  BY <1>1, <1>3 DEF Typed, EngineTyped
<1>5. Typed'
  BY <1>1, <1>4, UnchangedTyped DEF Typed
<1>6. SentInv' /\ SchedulerInv' /\ UpInv'
  BY <1>1 DEF IInv, SentInv, SchedulerInv, UpInv, Outdated, ui
<1>7. ToldInv'
  <2> SUFFICES ASSUME Told' PROVE (/\ aria2.proxy = source.proxy
                                   /\ Outdated => source = disk
                                   /\ HasLimits(source, ActiveAt(source, now))
                                   /\ Alike(source, scheduler.settings) =>
                                        HasLimits(source, Side))'
    BY LimitIs DEF ToldInv, HasLimits
  <2>1. source' = disk' /\ aria2'.proxy = source'.proxy /\ source' = s
        /\ HasLimits(s, ActiveAt(s, now))'
    BY <1>0, <1>1, <1>3 DEF Told, ui
  <2>2. HasLimits(source, ActiveAt(source, now))'
    BY <2>1 DEF HasLimits
  <2>3. Alike(source', scheduler'.settings) => ActiveAt(source', now') = Side'
    BY AlikeActive DEF Side
  <2>4. Alike(source, scheduler.settings)' => HasLimits(source, Side)'
    BY <2>2, <2>3 DEF Alike, HasLimits
  <2> QED
    BY <2>1, <2>2, <2>4
<1> QED
  BY <1>5, <1>6, <1>7 DEF IInv

LEMMA BootSyncKeeps == Typed /\ IInv /\ BootSync => Typed' /\ IInv'
<1> SUFFICES ASSUME Typed, IInv, BootSync PROVE Typed' /\ IInv'
  OBVIOUS
<1>1. /\ boot = "sync" /\ boot' = "done"
      /\ UNCHANGED <<ui, cmds, now, engine, aria2, source, crossed, scheduler, asked, in_flight,
                     check, download>>
  BY DEF BootSync
<1>2. EngineTyped'
  BY <1>1 DEF Typed, EngineTyped
<1>3. Typed'
  BY <1>1, <1>2, UnchangedTyped DEF Typed
<1>4. SentInv' /\ SchedulerInv' /\ UpInv'
  BY <1>1 DEF IInv, SentInv, SchedulerInv, UpInv, Outdated, ui
<1>5. ToldInv'
  <2>1. Told' => Told
    BY <1>1 DEF Told, ui
  <2> QED
    BY <1>1, <2>1 DEF IInv, ToldInv, Outdated, HasLimits, Side, ui
<1> QED
  BY <1>3, <1>4, <1>5 DEF IInv

-----------------------------------------------------------------------------
(* The scheduler. *)
LEMMA StartsKeeps == Typed /\ IInv /\ SchedulerStarts => Typed' /\ IInv'
<1> SUFFICES ASSUME Typed, IInv, SchedulerStarts PROVE Typed' /\ IInv'
  OBVIOUS
<1>1. /\ scheduler.at = "new" /\ asked' = disk
      /\ scheduler' = [at |-> "run", settings |-> disk, inside |-> ActiveAt(disk, now)]
      /\ UNCHANGED <<ui, cmds, now, process, search>>
  BY DEF SchedulerStarts
<1>2. /\ scheduler'.at = "run" /\ scheduler'.settings = disk
      /\ scheduler'.inside = ActiveAt(disk, now)
  BY <1>1
<1>3. ActiveAt(disk, now) \in BOOLEAN /\ (~disk.scheduled => ~ActiveAt(disk, now))
  BY DEF ActiveAt
<1>4. scheduler' \in Running
  BY <1>1, <1>3 DEF Running, Typed, UITyped
<1>5. Typed'
  BY <1>1, <1>4, UnchangedTyped DEF Typed, SchedulerTyped
<1>6. SentInv'
  BY <1>1 DEF IInv, SentInv, Outdated, ui
<1>7. SchedulerInv' /\ UpInv'
  BY <1>1, <1>2, <1>3 DEF SchedulerInv, UpInv
<1>8. ToldInv'
  <2> SUFFICES ASSUME Told'
               PROVE  /\ (aria2.proxy = source.proxy)'
                      /\ (Outdated => source = disk)'
                      /\ HasLimits(source, ActiveAt(source, now))'
                      /\ Alike(source, scheduler.settings)' => HasLimits(source, scheduler.inside)'
    BY LimitIs DEF ToldInv, HasLimits
  <2>1. Told
    BY <1>1 DEF Told, ui, process
  <2>2. HasLimits(source, ActiveAt(source, now))'
    BY <1>1, <2>1 DEF IInv, ToldInv, HasLimits, process
  <2>3. Alike(source', scheduler'.settings) => ActiveAt(source', now') = ActiveAt(disk, now')
    BY <1>2, AlikeActive
  <2>4. Alike(source, scheduler.settings)' => HasLimits(source, scheduler.inside)'
    BY <1>1, <1>2, <2>2, <2>3 DEF Alike, HasLimits
  <2> QED
    BY <1>1, <2>1, <2>2, <2>4 DEF IInv, ToldInv, Outdated, ui, process
<1> QED
  BY <1>5, <1>6, <1>7, <1>8 DEF IInv

LEMMA TransitionKeeps == Typed /\ IInv /\ SchedulerTick => Typed' /\ IInv'
<1> SUFFICES ASSUME Typed, IInv, SchedulerTick PROVE Typed' /\ IInv'
  OBVIOUS
<1>1. /\ scheduler.at = "run" /\ scheduler.inside # Side
      /\ scheduler' = [scheduler EXCEPT !.inside = Side]
      /\ UNCHANGED <<ui, cmds, now, engine, boot, asked, search, inputs>>
      /\ \/ /\ Change(SpeedLimits(scheduler.settings, Side))
            /\ crossed' = (crossed \/ Outdated)
            /\ UNCHANGED source
         \/ ChangeFails
  BY DEF SchedulerTick, Transition
<1>2. scheduler \in Running /\ Side \in BOOLEAN /\ (~scheduler.settings.scheduled => ~Side)
  BY DEF Typed, SchedulerTyped, Side, ActiveAt
<1>3. /\ scheduler' \in Running /\ scheduler'.at = "run" /\ scheduler'.inside = Side
      /\ scheduler'.settings = scheduler.settings
  BY <1>1, <1>2 DEF Running
<1>4. Side' = Side
  BY <1>1, <1>3 DEF Side
<1>5. /\ DOMAIN SpeedLimits(scheduler.settings, Side) = {"download", "upload"}
      /\ \A k \in Limit: SpeedLimits(scheduler.settings, Side)[k]
                          = IF Side THEN scheduler.settings[k] ELSE 0
  BY DEF SpeedLimits, NoLimits, Limit
<1>6. Change(SpeedLimits(scheduler.settings, Side)) =>
        /\ DOMAIN aria2' = DOMAIN Default /\ aria2'.proxy = aria2.proxy
        /\ \A k \in Limit: aria2'[k] = IF Side THEN scheduler.settings[k] ELSE 0
  BY <1>5, ChangeDoes DEF Default, Limit
<1>7. source' = source /\ DOMAIN aria2' = DOMAIN Default
  BY <1>1, <1>6 DEF ChangeFails, Typed, EngineTyped
<1>8. Typed'
  <2>1. EngineTyped'
    BY <1>1, <1>7 DEF Typed, EngineTyped
  <2> QED
    BY <1>1, <1>3, <2>1, UnchangedTyped DEF Typed, SchedulerTyped
<1>9. Outdated' <=> Outdated
  BY <1>1 DEF Outdated
<1>10. SentInv'
  BY <1>1, <1>9 DEF IInv, SentInv, ui
<1>11. SchedulerInv' /\ UpInv'
  BY <1>1, <1>2, <1>3, <1>9 DEF IInv, SchedulerInv, UpInv
<1>12. ToldInv'
  <2> SUFFICES ASSUME Told' PROVE ToldInv'
    BY DEF ToldInv
  <2>1. /\ Told /\ ~Outdated
        /\ aria2'.proxy = aria2.proxy
        /\ \A k \in Limit: aria2'[k] = IF Side THEN scheduler.settings[k] ELSE 0
    BY <1>1, <1>6 DEF Told, ChangeFails, ui
  <2>2. scheduler.settings.scheduled
    BY <1>1, <1>2 DEF IInv, SchedulerInv, Running
  <2>3. Alike(source, scheduler.settings) =>
          \A k \in Limit: aria2'[k] = LimitAt(source, Side, k)
    <3>1. Alike(source, scheduler.settings) =>
            source.scheduled /\ \A k \in Limit: source[k] = scheduler.settings[k]
      BY <2>2 DEF Alike, Scheduled
    <3> QED
      BY <2>1, <3>1 DEF LimitAt
  <2>4. Alike(source, scheduler.settings)' => HasLimits(source, scheduler.inside)'
    BY <1>3, <1>7, <2>3 DEF Alike, HasLimits
  <2>5. \A k \in Limit: aria2'[k] \in {0, source'[k], scheduler'.settings[k]}
    BY <1>3, <2>1
  <2> QED
    BY <1>3, <1>7, <1>9, <2>1, <2>4, <2>5 DEF IInv, ToldInv
<1> QED
  BY <1>8, <1>10, <1>11, <1>12 DEF IInv

-----------------------------------------------------------------------------
(* The environment. *)
LEMMA TickKeeps == Typed /\ IInv /\ Tick => Typed' /\ IInv'
<1> SUFFICES ASSUME Typed, IInv, Tick PROVE Typed' /\ IInv'
  OBVIOUS
<1>1. /\ scheduler.at # "new" /\ scheduler.inside = Side
      /\ now' = (now + 1) % (Days * Minutes)
      /\ crossed' = \/ crossed
                    \/ /\ EffectiveOptions(disk, now) # EffectiveOptions(disk, now')
                       /\ Outdated
      /\ UNCHANGED <<ui, cmds, engine, aria2, boot, source, scheduler, asked, search>>
  BY DEF Tick
<1>2. ClockTyped'
  <2>1. now + 1 \in Int
    BY Clock DEF Typed, ClockTyped
  <2>2. \A n \in Int, d \in Nat \ {0}: n % d \in 0..d - 1
    OBVIOUS
  <2> QED
    BY <1>1, <2>1, <2>2, Clock DEF ClockTyped
<1>3. Typed'
  BY <1>1, <1>2, UnchangedTyped DEF Typed
<1>4. Outdated' <=> Outdated
  BY <1>1 DEF Outdated
<1>5. SentInv' /\ SchedulerInv' /\ UpInv'
  BY <1>1, <1>4 DEF IInv, SentInv, SchedulerInv, UpInv, ui
<1>6. ToldInv'
  <2> SUFFICES ASSUME Told' PROVE ToldInv'
    BY DEF ToldInv
  <2>1. Told
    BY <1>1 DEF Told, ui
  <2>2. Outdated => HasLimits(source, ActiveAt(source, now))'
    <3> SUFFICES ASSUME Outdated PROVE HasLimits(source, ActiveAt(source, now))'
      OBVIOUS
    <3>1. /\ source = disk /\ EffectiveOptions(disk, now) = EffectiveOptions(disk, now')
          /\ \A k \in Limit: aria2[k] = LimitAt(disk, ActiveAt(disk, now), k)
      BY <1>1, <2>1 DEF IInv, ToldInv, HasLimits, Told
    <3>2. \A k \in Limit: LimitAt(disk, ActiveAt(disk, now), k)
                          = LimitAt(disk, ActiveAt(disk, now'), k)
      BY <3>1, EffectiveIs
    <3>3. \A k \in Limit: aria2[k] = LimitAt(disk, ActiveAt(disk, now'), k)
      BY <3>1, <3>2
    <3> QED
      BY <1>1, <3>1, <3>3 DEF HasLimits
  <2>3. scheduler.at = "run" /\ ~Outdated /\ Alike(source, scheduler.settings) =>
          HasLimits(source, scheduler.inside)
    BY <1>1, <2>1 DEF IInv, ToldInv
  <2> QED
    BY <1>1, <1>4, <2>1, <2>2, <2>3 DEF IInv, ToldInv, HasLimits, Alike, ui
<1> QED
  BY <1>3, <1>5, <1>6 DEF IInv

(* The engine ends, or only the search for missing files goes on. *)
LEMMA RestKeeps ==
  ASSUME Typed, IInv,
         UNCHANGED <<ui, cmds, now, aria2, boot, source, crossed, scheduler, asked>>,
         engine' = engine \/ engine' = "crashed", SearchTyped'
  PROVE  Typed' /\ IInv'
<1>1. Outdated' <=> Outdated
  BY DEF Outdated
<1>2. Told' => Told
  BY DEF Told, ui
<1>3. EngineTyped'
  BY DEF Typed, EngineTyped
<1>4. Typed'
  BY <1>3, UnchangedTyped DEF Typed
<1>5. SentInv' /\ SchedulerInv' /\ UpInv'
  BY <1>1 DEF IInv, SentInv, SchedulerInv, UpInv, ui
<1>6. ToldInv'
  BY <1>1, <1>2 DEF IInv, ToldInv, HasLimits, Side, ui
<1> QED
  BY <1>4, <1>5, <1>6 DEF IInv

LEMMA OthersKeep ==
  Typed /\ IInv /\ (Crash \/ Lose \/ Redownload \/ Finish \/ SchedulerChecks \/ Checking)
    => Typed' /\ IInv'
<1> SUFFICES ASSUME Typed, IInv,
                    Crash \/ Lose \/ Redownload \/ Finish \/ SchedulerChecks \/ Checking
             PROVE  Typed' /\ IInv'
  OBVIOUS
<1>1. SearchTyped
  BY DEF Typed
<1>2. CASE Crash
  BY <1>1, <1>2, RestKeeps, UnchangedTyped DEF Crash
<1>3. CASE Lose \/ Redownload \/ Finish
  <2>1. SearchTyped'
    BY <1>1, <1>3 DEF Lose, Redownload, Finish, SearchTyped
  <2> QED
    BY <1>3, <2>1, RestKeeps DEF Lose, Redownload, Finish, process
<1>4. CASE SchedulerChecks
  <2>1. SearchTyped'
    BY <1>1, <1>4 DEF SchedulerChecks, TriggerCheck, SearchTyped
  <2> QED
    BY <1>4, <2>1, RestKeeps DEF SchedulerChecks, process
<1>5. CASE Checking
  <2>1. SearchTyped'
    BY <1>1, <1>5 DEF Checking, CheckLists, CheckStats, CheckTimesOut, TimesOut, SearchTyped
  <2> QED
    BY <1>5, <2>1, RestKeeps DEF Checking, CheckLists, CheckStats, CheckTimesOut, TimesOut,
       process
<1> QED
  BY <1>2, <1>3, <1>4, <1>5

-----------------------------------------------------------------------------
LEMMA Initially == Init => Typed /\ IInv
<1> SUFFICES ASSUME Init PROVE Typed /\ IInv
  OBVIOUS
<1>1. UITyped /\ CmdsTyped
  BY StartTyped DEF Init, UITyped, CmdsTyped
<1>2. ClockTyped
  BY Clock DEF Init, ClockTyped
<1>3. EngineTyped /\ SearchTyped
  BY StartTyped DEF Init, EngineTyped, SearchTyped
<1>4. SchedulerTyped /\ scheduler.at = "none"
  BY StartTyped DEF Init, SchedulerTyped, Idle, Running
<1>5. SentInv /\ SchedulerInv /\ ToldInv /\ UpInv
  <2>1. ~Outdated /\ engine = "starting"
    BY DEF Init, Outdated
  <2> QED
    BY <1>4, <2>1 DEF SentInv, SchedulerInv, ToldInv, Told, UpInv
<1> QED
  BY <1>1, <1>2, <1>3, <1>4, <1>5 DEF Typed, IInv

LEMMA Keeps == Typed /\ IInv /\ [Next]_vars => Typed' /\ IInv'
<1> SUFFICES ASSUME Typed, IInv, [Next]_vars PROVE Typed' /\ IInv'
  OBVIOUS
<1>1. CASE User
  BY <1>1, EditKeeps, ApplyKeeps, DiscardKeeps, PopoverKeeps, TrackersKeep, Zenon DEF User
<1>2. CASE Ui
  BY <1>2, DebouncedKeeps, MessagesKeep, Zenon DEF Ui
<1>3. CASE Engine
  BY <1>3, HandleOptionsKeeps, ReloadKeeps, RestartKeeps, CommandsKeep, InstallKeeps, BootKeeps,
     BootSyncKeeps, Zenon DEF Engine
<1>4. CASE SchedulerStarts \/ SchedulerTick
  BY <1>4, StartsKeeps, TransitionKeeps
<1>5. CASE SchedulerChecks \/ Checking \/ Environment
  BY <1>5, TickKeeps, OthersKeep, Zenon DEF Environment
<1>6. CASE UNCHANGED vars
  <2>1. SearchTyped'
    BY <1>6 DEF vars, search, Typed, SearchTyped
  <2> QED
    BY <1>6, <2>1, RestKeeps DEF vars, process
<1> QED
  BY <1>1, <1>2, <1>3, <1>4, <1>5, <1>6, Zenon DEF Next

THEOREM Inductive == Spec => [](Typed /\ IInv)
BY Initially, Keeps, PTL DEF Spec

(* However applies, the clock, the scheduler, reloads and restarts of aria2 *)
(* met: the proxy aria2 was given is that of the saved settings, and so are *)
(* its limits, of this minute, unless limits or schedules of the popover    *)
(* were saved without a reload; then they are none, the saved ones or those *)
(* of the settings the scheduler runs for (effective_task_options,          *)
(* run_scheduler).                                                          *)
THEOREM OptionsFollowed == Spec => []LimitsConsistent
<1>1. Typed /\ IInv => LimitsConsistent
  <2> SUFFICES ASSUME Typed, IInv PROVE LimitsConsistent
    OBVIOUS
  <2>1. OptionsFollow
    <3> SUFFICES ASSUME Settled, source = disk, ~crossed
                 PROVE  /\ aria2.proxy = disk.proxy
                        /\ Followed => \A k \in Limit: aria2[k] = EffectiveOptions(disk, now)[k]
                        /\ \A k \in Limit: aria2[k] \in {0, disk[k], scheduler.settings[k]}
      BY DEF OptionsFollow
    <3>1. Told /\ ~Outdated /\ scheduler.at = "run" /\ scheduler.inside = Side
      BY DEF Settled, Told, HasOptions, Outdated
    <3>2. /\ aria2.proxy = source.proxy
          /\ \A k \in Limit: aria2[k] \in {0, source[k], scheduler.settings[k]}
      BY <3>1 DEF IInv, ToldInv
    <3>3. Followed => \A k \in Limit: aria2[k] = EffectiveOptions(disk, now)[k]
      <4> SUFFICES ASSUME Followed PROVE \A k \in Limit: aria2[k] = EffectiveOptions(disk, now)[k]
        OBVIOUS
      <4>1. asked = scheduler.settings
        BY <3>1 DEF IInv, SchedulerInv
      <4>2. Alike(source, scheduler.settings)
        BY <4>1 DEF Followed, Alike, Scheduled
      <4>3. ActiveAt(source, now) = Side
        BY <4>2, AlikeActive DEF Side
      <4>4. HasLimits(source, ActiveAt(source, now))
        BY <3>1, <4>2, <4>3 DEF IInv, ToldInv
      <4> QED
        BY <4>4, EffectiveIs DEF HasLimits, Limit
    <3> QED
      BY <3>2, <3>3
  <2> QED
    BY <2>1, TypedIsTypeOK DEF LimitsConsistent
<1> QED
  BY <1>1, Inductive, PTL
=============================================================================
