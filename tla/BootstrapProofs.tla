-------------------------- MODULE BootstrapProofs --------------------------
(***************************************************************************)
(* Proofs about Bootstrap for any sequence of files with different names.  *)
(***************************************************************************)
EXTENDS Bootstrap, TLAPS

IsWriting(w) == writer[w].at \in {"open", "first", "second", "remove", "rename"}

(* Two that write one file know it, and the file is excepted. *)
SharedInv ==
  /\ \A w \in Writer: IsWriting(w) /\ Writes(Other(w), Name(w)) => writer[w].shared
  /\ \A w \in Writer: IsWriting(w) /\ writer[w].shared => Name(w) \in mixed

(* A writer that is alone has its own blocks in the temporary file. *)
OwnTmp(w) ==
  /\ writer[w].at = "first"  => writer[w].open = "tmp" /\ tmp[Name(w)] = Hole
  /\ writer[w].at = "second" => writer[w].open = "tmp" /\ tmp[Name(w)] = <<writer[w].data, "none">>
  /\ writer[w].at \in {"remove", "rename"} => tmp[Name(w)] = Copy(writer[w].data)
AloneInv == \A w \in Writer: IsWriting(w) /\ ~writer[w].shared => OwnTmp(w)

(* Only sync_once downloads, and a download writes what it downloaded. *)
FetchInv ==
  /\ writer["supervisor"].job # "fetch"
  /\ writer["sync"].job = "fetch" /\ IsWriting("sync") => writer["sync"].data = "remote"
  /\ IsWriting("sync") /\ writer["sync"].shared => Name("sync") \in disturbed

(* What the synchronisation has stored so far stays, and the supervisor    *)
(* does not write it.                                                      *)
Stored ==
  IF answer = "synced" THEN File
  ELSE IF writer["sync"].job = "fetch" /\ ~had_error
       THEN {f \in File : \E i \in DOMAIN Cached:
               f = Cached[i] /\ (i < writer["sync"].n \/ writer["sync"].at = "done")}
       ELSE {}
StoredInv ==
  \A f \in (Stored \cap wanted) \ disturbed:
    target[f] = Copy("remote") /\ ~Writes("supervisor", f)

IInv == SharedInv /\ AloneInv /\ CacheWhole /\ FetchInv /\ StoredInv

-----------------------------------------------------------------------------
(* The writers. *)

Steps == {"none", "look", "stat", "ok", "failed", "get", "done"}

LEMMA Files ==
  /\ Len(Cached) \in Nat \ {0}
  /\ DOMAIN Cached = 1..Len(Cached)
  /\ 1 \in DOMAIN Cached
  /\ \A i \in DOMAIN Cached: Cached[i] \in File
  /\ \A i \in DOMAIN Cached: i < Len(Cached) => i + 1 \in DOMAIN Cached
BY ConstAssumption DEF File

LEMMA Others ==
  /\ Other("supervisor") = "sync" /\ Other("sync") = "supervisor"
  /\ \A w \in Writer: Other(w) \in Writer /\ Other(w) # w /\ Other(Other(w)) = w
  /\ \A w, o \in Writer: o = w \/ o = Other(w)
<1>1. Other("supervisor") = "sync" /\ Other("sync") = "supervisor"
  BY DEF Other, Writer
<1> QED
  BY <1>1 DEF Writer

LEMMA RestingTyped ==
  /\ Resting \in AnyWriter /\ Resting.at = "none" /\ Resting.open = "none" /\ ~Resting.shared
  /\ Resting.job = "none"
BY Files DEF Resting, AnyWriter

LEMMA StartTyped ==
  ASSUME NEW job \in {"ensure", "fetch"}, NEW step \in Steps
  PROVE  LET r == [Resting EXCEPT !.job = job, !.at = step]
         IN r \in AnyWriter /\ r.job = job /\ r.at = step /\ r.open = "none" /\ r.n = 1
BY Files DEF Resting, AnyWriter, Steps

(* The state by the tuples in which the actions leave it alone. *)
DiskTyped == target \in [File -> Contents] /\ tmp \in [File -> Contents]
WriterTyped ==
  /\ writer \in [Writer -> AnyWriter]
  /\ \A w \in Writer: (writer[w].open = "none") = (writer[w].at \notin {"first", "second"})
SyncTyped == wanted \subseteq File /\ had_error \in BOOLEAN
EngineTyped == engine \in {"down", "starting", "up"}
UiTyped == syncing \in BOOLEAN /\ asked \in BOOLEAN /\ answer \in {"none", "synced", "failed"}
HistoryTyped == refused \in BOOLEAN /\ mixed \subseteq File /\ disturbed \subseteq File
OneSync ==
  /\ asked \/ answer # "none" \/ writer["sync"] # Resting => syncing
  /\ ~(asked /\ answer # "none")
  /\ writer["sync"] # Resting => ~asked /\ answer = "none"

Typed ==
  DiskTyped /\ WriterTyped /\ SyncTyped /\ EngineTyped /\ UiTyped /\ HistoryTyped /\ OneSync

LEMMA TypedIsTypeOK == Typed <=> TypeOK
BY Zenon DEF Typed, TypeOK, DiskTyped, WriterTyped, SyncTyped, EngineTyped, UiTyped,
       HistoryTyped, OneSync

LEMMA UnchangedTyped ==
  ASSUME Typed
  PROVE  /\ UNCHANGED disk => DiskTyped'
         /\ UNCHANGED writer => WriterTyped'
         /\ UNCHANGED sync => SyncTyped'
         /\ UNCHANGED engine => EngineTyped'
         /\ UNCHANGED ui => UiTyped'
         /\ UNCHANGED history => HistoryTyped'
         /\ UNCHANGED <<ui, writer>> => OneSync'
BY DEF Typed, DiskTyped, WriterTyped, SyncTyped, EngineTyped, UiTyped, HistoryTyped, OneSync,
       disk, sync, ui, history

LEMMA WriterIs ==
  ASSUME WriterTyped, NEW w \in Writer
  PROVE  /\ writer[w] \in AnyWriter
         /\ writer[w].n \in DOMAIN Cached /\ Name(w) \in File
         /\ writer[w].shared \in BOOLEAN /\ writer[w].data \in {"bundled", "remote"}
         /\ writer[w].open \in {"none", "tmp", "target", "gone"}
         /\ (writer[w].open = "none") = (writer[w].at \notin {"first", "second"})
<1>1. writer[w] \in AnyWriter
  BY DEF WriterTyped
<1> QED
  BY <1>1, Files DEF AnyWriter, Name, WriterTyped

(* Most steps change one writer. *)
LEMMA WriterPut ==
  ASSUME WriterTyped, NEW w \in Writer, NEW r \in AnyWriter,
         (r.open = "none") = (r.at \notin {"first", "second"}),
         writer' = [writer EXCEPT ![w] = r]
  PROVE  WriterTyped' /\ writer'[w] = r /\ writer'[Other(w)] = writer[Other(w)]
<1>1. writer'[w] = r /\ \A o \in Writer: o # w => writer'[o] = writer[o]
  BY DEF WriterTyped
<1>2. writer' \in [Writer -> AnyWriter]
  BY DEF WriterTyped
<1> QED
  BY <1>1, <1>2, Others DEF WriterTyped

LEMMA FollowingDoes ==
  ASSUME WriterTyped, NEW w \in Writer, NEW first \in Steps, NEW last \in Steps
  PROVE  LET r == Following(w, first, last)
         IN /\ r \in AnyWriter /\ r.open = "none" /\ ~r.shared /\ r.at \in {first, last}
            /\ r.job = writer[w].job
            /\ writer[w].n < Len(Cached) => r.at = first /\ r.n = writer[w].n + 1
            /\ ~(writer[w].n < Len(Cached)) => r.at = last /\ r.n = 1
<1> DEFINE r == Following(w, first, last)
           more == writer[w].n < Len(Cached)
<1>1. writer[w] \in AnyWriter /\ writer[w].n \in DOMAIN Cached
  BY WriterIs
<1>2. /\ r.job = writer[w].job /\ r.open = "none" /\ r.shared = FALSE /\ r.data = "bundled"
      /\ r.at = IF more THEN first ELSE last
      /\ r.n = IF more THEN writer[w].n + 1 ELSE 1
  BY <1>1 DEF Following, AnyWriter
<1>3. (IF more THEN writer[w].n + 1 ELSE 1) \in DOMAIN Cached
  BY <1>1, Files
<1>4. r \in AnyWriter
  BY <1>1, <1>3 DEF Following, AnyWriter, Steps
<1> QED
  BY <1>2, <1>4

LEMMA UnlinkedDoes ==
  ASSUME WriterTyped, NEW f
  PROVE  LET u == Unlinked(writer, f)
         IN /\ u \in [Writer -> AnyWriter]
            /\ \A o \in Writer:
                 /\ u[o].job = writer[o].job /\ u[o].at = writer[o].at /\ u[o].n = writer[o].n
                 /\ u[o].data = writer[o].data /\ u[o].shared = writer[o].shared
                 /\ (u[o].open = "none") = (writer[o].open = "none")
                 /\ writer[o].open # "target" => u[o] = writer[o]
<1> DEFINE u == Unlinked(writer, f)
<1>1. ASSUME NEW o \in Writer
      PROVE  u[o] \in {writer[o], [writer[o] EXCEPT !.open = "gone"]}
             /\ (writer[o].open # "target" => u[o] = writer[o])
  BY <1>1 DEF Unlinked
<1>2. ASSUME NEW o \in Writer
      PROVE  /\ u[o] \in AnyWriter
             /\ u[o].job = writer[o].job /\ u[o].at = writer[o].at /\ u[o].n = writer[o].n
             /\ u[o].data = writer[o].data /\ u[o].shared = writer[o].shared
             /\ (u[o].open = "none") = (writer[o].open = "none")
  <2>1. writer[o] \in AnyWriter
    BY WriterIs
  <2>2. CASE writer[o].open = "target"
    <3> DEFINE g == [writer[o] EXCEPT !.open = "gone"]
    <3>1. /\ g \in AnyWriter /\ g.job = writer[o].job /\ g.at = writer[o].at /\ g.n = writer[o].n
          /\ g.data = writer[o].data /\ g.shared = writer[o].shared /\ g.open = "gone"
      BY <2>1 DEF AnyWriter
    <3> HIDE DEF g
    <3>2. u[o] \in {writer[o], g}
      BY <1>1 DEF g
    <3> HIDE DEF u
    <3> QED
      BY <2>1, <2>2, <3>1, <3>2
  <2> QED
    BY <1>1, <2>1, <2>2
<1>3. u = [o \in Writer |-> u[o]]
  BY DEF Unlinked
<1> HIDE DEF u
<1>4. u \in [Writer -> AnyWriter]
  BY <1>2, <1>3
<1>5. \A o \in Writer:
        /\ u[o].job = writer[o].job /\ u[o].at = writer[o].at /\ u[o].n = writer[o].n
        /\ u[o].data = writer[o].data /\ u[o].shared = writer[o].shared
        /\ (u[o].open = "none") = (writer[o].open = "none")
        /\ writer[o].open # "target" => u[o] = writer[o]
  BY <1>1, <1>2
<1> QED
  BY <1>4, <1>5 DEF u

LEMMA RenamedDoes ==
  ASSUME WriterTyped, NEW f
  PROVE  LET u == Renamed(writer, f)
         IN /\ u \in [Writer -> AnyWriter]
            /\ \A o \in Writer:
                 /\ u[o].job = writer[o].job /\ u[o].at = writer[o].at /\ u[o].n = writer[o].n
                 /\ u[o].data = writer[o].data /\ u[o].shared = writer[o].shared
                 /\ (u[o].open = "none") = (writer[o].open = "none")
                 /\ writer[o].open = "none" \/ Cached[writer[o].n] # f => u[o] = writer[o]
<1> DEFINE u == Renamed(writer, f)
           moved(o) == CASE writer[o].open = "tmp" -> "target"
                         [] writer[o].open = "target" -> "gone"
                         [] OTHER -> writer[o].open
           g(o) == [writer[o] EXCEPT !.open = moved(o)]
<1>1. \A o \in Writer: u[o] = IF Cached[writer[o].n] = f THEN g(o) ELSE writer[o]
  BY DEF Renamed
<1>2. ASSUME NEW o \in Writer
      PROVE  /\ u[o] \in AnyWriter
             /\ u[o].job = writer[o].job /\ u[o].at = writer[o].at /\ u[o].n = writer[o].n
             /\ u[o].data = writer[o].data /\ u[o].shared = writer[o].shared
             /\ (u[o].open = "none") = (writer[o].open = "none")
             /\ writer[o].open = "none" \/ Cached[writer[o].n] # f => u[o] = writer[o]
  <2>1. writer[o] \in AnyWriter /\ writer[o].open \in {"none", "tmp", "target", "gone"}
    BY WriterIs
  <2>2. /\ moved(o) \in {"none", "target", "gone"}
        /\ (moved(o) = "none") = (writer[o].open = "none")
    BY <2>1
  <2>3. /\ g(o) \in AnyWriter /\ g(o).job = writer[o].job /\ g(o).at = writer[o].at
        /\ g(o).n = writer[o].n /\ g(o).data = writer[o].data /\ g(o).shared = writer[o].shared
        /\ g(o).open = moved(o)
    <3> HIDE DEF moved
    <3> QED
      BY <2>1, <2>2 DEF AnyWriter
  <2>4. writer[o].open = "none" => g(o) = writer[o]
    <3>1. writer[o].open = "none" => moved(o) = writer[o].open
      BY <2>1
    <3> HIDE DEF moved
    <3> QED
      BY <2>1, <3>1 DEF AnyWriter
  <2> HIDE DEF g, moved, u
  <2> QED
    BY <1>1, <2>1, <2>2, <2>3, <2>4
<1>3. u = [o \in Writer |-> u[o]]
  BY DEF Renamed
<1> HIDE DEF u
<1> QED
  BY <1>2, <1>3 DEF u

Overlapped(w) == IF Writes(Other(w), Name(w)) THEN {Name(w)} ELSE {}

LEMMA BeginDoes ==
  ASSUME WriterTyped, NEW w \in Writer, NEW data \in {"bundled", "remote"}, Begin(w, data),
         ~IsWriting(w)
  PROVE  /\ WriterTyped'
         /\ writer'[w].at = "open" /\ writer'[w].data = data
         /\ writer'[w].job = writer[w].job /\ writer'[w].n = writer[w].n
         /\ writer'[w].shared = Writes(Other(w), Name(w))
         /\ writer'[Other(w)].job = writer[Other(w)].job
         /\ writer'[Other(w)].at = writer[Other(w)].at
         /\ writer'[Other(w)].n = writer[Other(w)].n
         /\ writer'[Other(w)].data = writer[Other(w)].data
         /\ writer'[Other(w)].open = writer[Other(w)].open
         /\ writer'[Other(w)].shared = (writer[Other(w)].shared \/ Writes(Other(w), Name(w)))
         /\ ~Writes(Other(w), Name(w)) => writer'[Other(w)] = writer[Other(w)]
         /\ mixed' = mixed \cup Overlapped(w) /\ Disturb(Overlapped(w))
<1> DEFINE o == Other(w)
           s == Writes(o, Name(w))
           a == [writer[w] EXCEPT !.at = "open", !.data = data, !.shared = s]
           b == [writer[o] EXCEPT !.shared = @ \/ s]
<1>1. o \in Writer /\ o # w /\ s \in BOOLEAN
  BY Others DEF Writes
<1>2. /\ writer[w] \in AnyWriter /\ writer[o] \in AnyWriter
      /\ (writer[w].open = "none") = (writer[w].at \notin {"first", "second"})
      /\ (writer[o].open = "none") = (writer[o].at \notin {"first", "second"})
      /\ writer[o].shared \in BOOLEAN
  BY <1>1, WriterIs
<1>3. writer' = [writer EXCEPT ![w] = a, ![o] = b]
  <2>1. writer' = [writer EXCEPT ![w] = a, ![o].shared = @ \/ s]
    BY Zenon DEF Begin
  <2> HIDE DEF s, o
  <2> QED
    BY <2>1, <1>1 DEF WriterTyped
<1>4. /\ a \in AnyWriter /\ a.at = "open" /\ a.data = data /\ a.shared = s
      /\ a.job = writer[w].job /\ a.n = writer[w].n /\ a.open = writer[w].open
  <2> HIDE DEF s, o
  <2> QED
    BY <1>1, <1>2 DEF AnyWriter
<1>5. /\ b \in AnyWriter /\ b.shared = (writer[o].shared \/ s)
      /\ b.job = writer[o].job /\ b.n = writer[o].n /\ b.open = writer[o].open
      /\ b.at = writer[o].at /\ b.data = writer[o].data
      /\ ~s => b = writer[o]
  <2>1. (writer[o].shared \/ s) \in BOOLEAN /\ (~s => (writer[o].shared \/ s) = writer[o].shared)
    BY <1>1, <1>2, Zenon
  <2> DEFINE d == writer[o].shared \/ s
             c == [writer[o] EXCEPT !.shared = d]
  <2>2. b = c
    OBVIOUS
  <2>3. d \in BOOLEAN /\ (~s => d = writer[o].shared)
    BY <2>1
  <2> HIDE DEF s, o, b, d
  <2>4. /\ c \in AnyWriter /\ c.shared = d
        /\ c.job = writer[o].job /\ c.n = writer[o].n /\ c.open = writer[o].open
        /\ c.at = writer[o].at /\ c.data = writer[o].data
        /\ d = writer[o].shared => c = writer[o]
    BY <1>2, <2>3 DEF AnyWriter
  <2> QED
    BY <2>2, <2>3, <2>4 DEF d
<1>6. mixed' = mixed \cup Overlapped(w) /\ Disturb(Overlapped(w))
  BY Zenon DEF Begin, Overlap, Overlapped
<1> HIDE DEF a, b, s
<1>7. writer'[w] = a /\ writer'[o] = b /\ writer' \in [Writer -> AnyWriter]
  BY <1>1, <1>3, <1>4, <1>5 DEF WriterTyped
<1>8. writer[w].open = "none"
  BY <1>2 DEF IsWriting
<1>9. WriterTyped'
  <2>1. \A x \in Writer: x = w \/ x = o
    BY Others
  <2>2. a.open = "none" /\ a.at \notin {"first", "second"}
    BY <1>4, <1>8
  <2>3. (b.open = "none") = (b.at \notin {"first", "second"})
    BY <1>2, <1>5
  <2>4. \A x \in Writer: (writer'[x].open = "none") = (writer'[x].at \notin {"first", "second"})
    BY <2>1, <2>2, <2>3, <1>7
  <2> QED
    BY <2>4, <1>7, Zenon DEF WriterTyped
<1> QED
  BY <1>4, <1>5, <1>6, <1>7, <1>9 DEF s

LEMMA NameIs ==
  /\ \A w \in Writer: \A f: Writes(w, f) <=> IsWriting(w) /\ Name(w) = f
  /\ \A w \in Writer: Overlapped(w) \subseteq {Name(w)}
BY Zenon DEF Writes, IsWriting, Overlapped

LEMMA DisturbTyped ==
  ASSUME HistoryTyped, NEW files \in SUBSET File, Disturb(files)
  PROVE  disturbed' \subseteq File
BY DEF HistoryTyped, Disturb

(* A file that ends, well or not, is the writer's own affair. *)
LEMMA FileFailsDoes ==
  ASSUME WriterTyped, had_error \in BOOLEAN, NEW w \in Writer, FileFails(w)
  PROVE  /\ WriterTyped' /\ had_error' \in BOOLEAN
         /\ writer'[Other(w)] = writer[Other(w)]
         /\ writer'[w].at \in {"failed", "get", "done"} /\ ~writer'[w].shared
         /\ writer'[w].job = writer[w].job /\ writer[w].job \in {"ensure", "fetch"}
         /\ writer[w].job = "fetch" => had_error'
         /\ writer[w].job # "fetch" => had_error' = had_error
<1>1. CASE /\ writer[w].job = "ensure"
           /\ writer' = [writer EXCEPT ![w] = [Resting EXCEPT !.job = "ensure", !.at = "failed"]]
           /\ UNCHANGED had_error
  <2> DEFINE r == [Resting EXCEPT !.job = "ensure", !.at = "failed"]
  <2>1. r \in AnyWriter /\ r.open = "none" /\ r.at = "failed" /\ r.job = "ensure" /\ ~r.shared
    BY Files DEF Resting, AnyWriter
  <2> HIDE DEF r
  <2>2. WriterTyped' /\ writer'[w] = r /\ writer'[Other(w)] = writer[Other(w)]
    BY <1>1, <2>1, WriterPut DEF r
  <2> QED
    BY <1>1, <2>1, <2>2
<1>2. CASE writer[w].job = "fetch" /\ had_error' = TRUE /\ Advance(w, "get", "done")
  <2> DEFINE r == Following(w, "get", "done")
  <2>1. r \in AnyWriter /\ r.open = "none" /\ r.at \in {"get", "done"} /\ r.job = "fetch" /\ ~r.shared
    BY <1>2, FollowingDoes DEF Steps
  <2>2. writer' = [writer EXCEPT ![w] = r]
    BY <1>2 DEF Advance, AdvanceOf
  <2> HIDE DEF r
  <2>3. WriterTyped' /\ writer'[w] = r /\ writer'[Other(w)] = writer[Other(w)]
    BY <2>1, <2>2, WriterPut
  <2> QED
    BY <1>2, <2>1, <2>3
<1> QED
  BY <1>1, <1>2 DEF FileFails

(* The step to the next file. *)
LEMMA AdvanceDoes ==
  ASSUME WriterTyped, NEW w \in Writer, NEW first \in Steps, NEW last \in Steps,
         Advance(w, first, last)
  PROVE  /\ WriterTyped' /\ writer'[Other(w)] = writer[Other(w)]
         /\ writer'[w].at \in {first, last} /\ writer'[w].job = writer[w].job /\ ~writer'[w].shared
         /\ writer[w].n < Len(Cached) => writer'[w].at = first /\ writer'[w].n = writer[w].n + 1
         /\ ~(writer[w].n < Len(Cached)) => writer'[w].at = last /\ writer'[w].n = 1
<1> DEFINE r == Following(w, first, last)
<1>1. /\ r \in AnyWriter /\ r.open = "none" /\ r.at \in {first, last} /\ ~r.shared
      /\ r.job = writer[w].job
      /\ writer[w].n < Len(Cached) => r.at = first /\ r.n = writer[w].n + 1
      /\ ~(writer[w].n < Len(Cached)) => r.at = last /\ r.n = 1
  BY FollowingDoes
<1>2. writer' = [writer EXCEPT ![w] = r]
  BY DEF Advance, AdvanceOf
<1> HIDE DEF r
<1>3. WriterTyped' /\ writer'[w] = r /\ writer'[Other(w)] = writer[Other(w)]
  BY <1>1, <1>2, WriterPut DEF Steps
<1> QED
  BY <1>1, <1>3

(* A writer that goes on to the next step of the same file. *)
LEMMA StepTyped ==
  ASSUME WriterTyped, NEW w \in Writer,
         NEW step \in {"first", "second", "remove", "rename"},
         NEW open \in {"none", "tmp", "target", "gone"},
         (open = "none") = (step \notin {"first", "second"}),
         writer' = [writer EXCEPT ![w].at = step, ![w].open = open]
  PROVE  /\ WriterTyped' /\ writer'[Other(w)] = writer[Other(w)]
         /\ writer'[w].at = step /\ writer'[w].open = open
         /\ writer'[w].job = writer[w].job /\ writer'[w].n = writer[w].n
         /\ writer'[w].data = writer[w].data /\ writer'[w].shared = writer[w].shared
<1> DEFINE r == [writer[w] EXCEPT !.at = step, !.open = open]
<1>1. writer[w] \in AnyWriter
  BY WriterIs
<1>2. /\ r \in AnyWriter /\ r.at = step /\ r.open = open /\ r.job = writer[w].job
      /\ r.n = writer[w].n /\ r.data = writer[w].data /\ r.shared = writer[w].shared
  BY <1>1 DEF AnyWriter
<1>3. writer' = [writer EXCEPT ![w] = r]
  BY DEF WriterTyped
<1> HIDE DEF r
<1>4. WriterTyped' /\ writer'[w] = r /\ writer'[Other(w)] = writer[Other(w)]
  BY <1>2, <1>3, WriterPut
<1> QED
  BY <1>2, <1>4

-----------------------------------------------------------------------------
(* The steps by what they do to the files and to the writers. *)

(* w is between two files, or has nothing to do. *)
Rests(w) ==
  /\ writer'[w].at \in Steps /\ writer'[Other(w)] = writer[Other(w)]
  /\ target' = target /\ mixed' = mixed
  /\ \A f \in File: tmp'[f] = tmp[f] \/ ~Writes(Other(w), f)

(* w begins a file. *)
Begins(w) ==
  /\ ~IsWriting(w) /\ writer'[w].at = "open" /\ writer'[w].n = writer[w].n
  /\ writer'[w].shared = Writes(Other(w), Name(w))
  /\ writer'[Other(w)].job = writer[Other(w)].job
  /\ writer'[Other(w)].at = writer[Other(w)].at
  /\ writer'[Other(w)].n = writer[Other(w)].n
  /\ writer'[Other(w)].data = writer[Other(w)].data
  /\ writer'[Other(w)].open = writer[Other(w)].open
  /\ writer'[Other(w)].shared = (writer[Other(w)].shared \/ Writes(Other(w), Name(w)))
  /\ target' = target /\ tmp' = tmp /\ mixed' = mixed \cup Overlapped(w)

(* w opens or fills the temporary file. *)
Fills(w) ==
  /\ IsWriting(w) /\ IsWriting(w)' /\ writer'[w].n = writer[w].n /\ writer'[w].job = writer[w].job
  /\ writer'[w].data = writer[w].data /\ writer'[w].shared = writer[w].shared
  /\ writer'[Other(w)] = writer[Other(w)] /\ mixed' = mixed /\ disturbed' = disturbed
  /\ \A f \in File \ {Name(w)}: target'[f] = target[f] /\ tmp'[f] = tmp[f]
  /\ OwnTmp(w) => OwnTmp(w)' /\ target' = target

(* A file f goes, and who has it open keeps it open; w may be at it. *)
Vanishes(f) ==
  /\ target' = [target EXCEPT ![f] = Missing] /\ tmp' = tmp /\ mixed' = mixed
  /\ \A o \in Writer:
       /\ writer'[o].n = writer[o].n /\ writer'[o].data = writer[o].data
       /\ writer'[o].shared = writer[o].shared
       /\ IsWriting(o) <=> IsWriting(o)'
       /\ OwnTmp(o) => OwnTmp(o)'

(* w moves the temporary file into place. *)
Moves(w) ==
  /\ writer[w].at = "rename" /\ writer'[w].at \in Steps
  /\ target' = [target EXCEPT ![Name(w)] = tmp[Name(w)]]
  /\ tmp' = [tmp EXCEPT ![Name(w)] = Missing]
  /\ mixed' = IF writer[w].shared THEN mixed ELSE mixed \ {Name(w)}
  /\ writer'[Other(w)].job = writer[Other(w)].job
  /\ writer'[Other(w)].at = writer[Other(w)].at
  /\ writer'[Other(w)].n = writer[Other(w)].n
  /\ writer'[Other(w)].data = writer[Other(w)].data
  /\ writer'[Other(w)].shared = writer[Other(w)].shared
  /\ Name(Other(w)) # Name(w) => writer'[Other(w)] = writer[Other(w)]

(* Nothing of the cache. *)
Idles == UNCHANGED <<disk, writer, mixed>>

LEMMA RestingStays ==
  ASSUME Typed, NEW w \in Writer, writer[w].at # "none", UNCHANGED ui,
         writer[Other(w)] = Resting => writer'[Other(w)] = Resting
  PROVE  OneSync'
<1>1. writer[w] # Resting
  BY RestingTyped
<1>2. writer["sync"] = Resting => writer'["sync"] = Resting
  BY <1>1, Others DEF Writer
<1> QED
  BY <1>2 DEF Typed, OneSync, ui

LEMMA BlockPut ==
  ASSUME NEW c \in Contents, NEW k \in {1, 2}, NEW d \in {"bundled", "remote"}
  PROVE  [c EXCEPT ![k] = d] \in Contents
<1>1. CASE c = <<>>
  <2>1. [c EXCEPT ![k] = d] = <<>>
    BY <1>1
  <2> QED
    BY <2>1 DEF Contents, Missing
<1>2. CASE c \in {"none", "bundled", "remote"} \X {"none", "bundled", "remote"}
  BY <1>2 DEF Contents
<1> QED
  BY <1>1, <1>2 DEF Contents, Missing

LEMMA PutDoes ==
  ASSUME DiskTyped, WriterTyped, NEW w \in Writer, NEW k \in {1, 2}, Put(w, k)
  PROVE  /\ DiskTyped'
         /\ \A f \in File \ {Name(w)}: target'[f] = target[f] /\ tmp'[f] = tmp[f]
         /\ writer[w].open = "tmp" =>
              target' = target /\ tmp'[Name(w)] = [tmp[Name(w)] EXCEPT ![k] = writer[w].data]
<1> DEFINE f == Name(w)
           d == writer[w].data
<1>1. f \in File /\ d \in {"bundled", "remote"}
  BY WriterIs
<1>2. /\ tmp' = tmp \/ tmp' = [tmp EXCEPT ![f] = [tmp[f] EXCEPT ![k] = d]]
      /\ target' = target \/ target' = [target EXCEPT ![f] = [target[f] EXCEPT ![k] = d]]
  BY <1>1 DEF Put, DiskTyped
<1>3. [tmp[f] EXCEPT ![k] = d] \in Contents /\ [target[f] EXCEPT ![k] = d] \in Contents
  BY <1>1, BlockPut DEF DiskTyped
<1>4. writer[w].open = "tmp" =>
        target' = target /\ tmp' = [tmp EXCEPT ![f] = [tmp[f] EXCEPT ![k] = d]]
  BY <1>1 DEF Put, DiskTyped
<1> HIDE DEF f, d
<1> QED
  BY <1>1, <1>2, <1>3, <1>4 DEF DiskTyped, f, d

LEMMA OpenDoes ==
  ASSUME Typed, NEW w \in Writer, Open(w)
  PROVE  Typed' /\ Fills(w)
<1>1. /\ WriterTyped' /\ writer'[Other(w)] = writer[Other(w)]
      /\ writer'[w].at = "first" /\ writer'[w].open = "tmp"
      /\ writer'[w].job = writer[w].job /\ writer'[w].n = writer[w].n
      /\ writer'[w].data = writer[w].data /\ writer'[w].shared = writer[w].shared
  BY StepTyped DEF Typed, Open
<1>2. Name(w) \in File /\ Name(w)' = Name(w)
  BY <1>1, WriterIs DEF Typed, Name
<1>3. tmp' = [tmp EXCEPT ![Name(w)] = Hole] /\ target' = target /\ Hole \in Contents
  BY DEF Open, Hole, Contents
<1>4. DiskTyped'
  BY <1>2, <1>3 DEF Typed, DiskTyped
<1>5. Fills(w)
  <2>1. tmp'[Name(w)] = Hole
    BY <1>2, <1>3 DEF Typed, DiskTyped
  <2>2. OwnTmp(w)'
    BY <1>1, <1>2, <2>1 DEF OwnTmp
  <2>3. mixed' = mixed /\ disturbed' = disturbed /\ IsWriting(w) /\ IsWriting(w)'
    BY <1>1 DEF Open, history, IsWriting
  <2>4. \A f \in File \ {Name(w)}: target'[f] = target[f] /\ tmp'[f] = tmp[f]
    BY <1>2, <1>3 DEF Typed, DiskTyped
  <2> QED
    BY <1>1, <1>3, <2>2, <2>3, <2>4 DEF Fills
<1>6. OneSync'
  BY <1>1, RestingStays DEF Open
<1> QED
  BY <1>1, <1>4, <1>5, <1>6, UnchangedTyped, Zenon DEF Typed, Open

LEMMA WriteFirstDoes ==
  ASSUME Typed, NEW w \in Writer, WriteFirst(w)
  PROVE  Typed' /\ Fills(w)
<1>1. writer[w].open \in {"tmp", "target", "gone"}
  BY WriterIs DEF Typed, WriteFirst
<1>2. /\ WriterTyped' /\ writer'[Other(w)] = writer[Other(w)]
      /\ writer'[w].at = "second" /\ writer'[w].open = writer[w].open
      /\ writer'[w].job = writer[w].job /\ writer'[w].n = writer[w].n
      /\ writer'[w].data = writer[w].data /\ writer'[w].shared = writer[w].shared
  <2>1. writer' = [writer EXCEPT ![w].at = "second", ![w].open = writer[w].open]
    <3>1. writer' = [writer EXCEPT ![w].at = "second"] /\ writer[w] \in AnyWriter
      BY WriterIs DEF Typed, WriteFirst, Goes
    <3>2. [writer[w] EXCEPT !.at = "second"] = [writer[w] EXCEPT !.at = "second", !.open = writer[w].open]
      BY <3>1 DEF AnyWriter
    <3> QED
      BY <3>1, <3>2 DEF Typed, WriterTyped
  <2> QED
    BY <1>1, <2>1, StepTyped DEF Typed
<1>3. Name(w) \in File /\ Name(w)' = Name(w)
  BY <1>2, WriterIs DEF Typed, Name
<1>4. /\ DiskTyped'
      /\ \A f \in File \ {Name(w)}: target'[f] = target[f] /\ tmp'[f] = tmp[f]
      /\ writer[w].open = "tmp" =>
           target' = target /\ tmp'[Name(w)] = [tmp[Name(w)] EXCEPT ![1] = writer[w].data]
  BY PutDoes DEF Typed, WriteFirst
<1>5. Fills(w)
  <2>1. ASSUME OwnTmp(w)
        PROVE  OwnTmp(w)' /\ target' = target
    <3>1. writer[w].open = "tmp" /\ tmp[Name(w)] = Hole
      BY <2>1 DEF OwnTmp, WriteFirst
    <3>2. tmp'[Name(w)] = <<writer[w].data, "none">>
      BY <1>4, <3>1 DEF Hole
    <3> QED
      BY <1>2, <1>3, <1>4, <3>1, <3>2 DEF OwnTmp
  <2>2. mixed' = mixed /\ disturbed' = disturbed /\ IsWriting(w) /\ IsWriting(w)'
    BY <1>2 DEF WriteFirst, history, IsWriting
  <2> QED
    BY <1>2, <1>4, <2>1, <2>2, Zenon DEF Fills
<1>6. OneSync'
  BY <1>2, RestingStays DEF WriteFirst
<1> QED
  BY <1>2, <1>4, <1>5, <1>6, UnchangedTyped, Zenon DEF Typed, WriteFirst

LEMMA WriteSecondDoes ==
  ASSUME Typed, NEW w \in Writer, WriteSecond(w)
  PROVE  Typed' /\ Fills(w)
<1>1. /\ WriterTyped' /\ writer'[Other(w)] = writer[Other(w)]
      /\ writer'[w].at = "remove" /\ writer'[w].open = "none"
      /\ writer'[w].job = writer[w].job /\ writer'[w].n = writer[w].n
      /\ writer'[w].data = writer[w].data /\ writer'[w].shared = writer[w].shared
  BY StepTyped DEF Typed, WriteSecond
<1>2. Name(w) \in File /\ Name(w)' = Name(w)
  BY <1>1, WriterIs DEF Typed, Name
<1>3. /\ DiskTyped'
      /\ \A f \in File \ {Name(w)}: target'[f] = target[f] /\ tmp'[f] = tmp[f]
      /\ writer[w].open = "tmp" =>
           target' = target /\ tmp'[Name(w)] = [tmp[Name(w)] EXCEPT ![2] = writer[w].data]
  BY PutDoes DEF Typed, WriteSecond
<1>4. Fills(w)
  <2>1. ASSUME OwnTmp(w)
        PROVE  OwnTmp(w)' /\ target' = target
    <3>1. writer[w].open = "tmp" /\ tmp[Name(w)] = <<writer[w].data, "none">>
      BY <2>1 DEF OwnTmp, WriteSecond
    <3>2. tmp'[Name(w)] = Copy(writer[w].data)
      BY <1>3, <3>1 DEF Copy
    <3> QED
      BY <1>1, <1>2, <1>3, <3>1, <3>2 DEF OwnTmp
  <2>2. mixed' = mixed /\ disturbed' = disturbed /\ IsWriting(w) /\ IsWriting(w)'
    BY <1>1 DEF WriteSecond, history, IsWriting
  <2> QED
    BY <1>1, <1>3, <2>1, <2>2, Zenon DEF Fills
<1>5. OneSync'
  BY <1>1, RestingStays DEF WriteSecond
<1> QED
  BY <1>1, <1>3, <1>4, <1>5, UnchangedTyped, Zenon DEF Typed, WriteSecond

LEMMA RemoveDoes ==
  ASSUME Typed, NEW w \in Writer, Remove(w)
  PROVE  /\ Typed' /\ Vanishes(Name(w))
         /\ \A o \in Writer: writer'[o].job = writer[o].job
         /\ writer'[w].at = "rename" /\ writer'[Other(w)].at = writer[Other(w)].at
<1> DEFINE u == Unlinked(writer, Name(w))
           r == [u[w] EXCEPT !.at = "rename"]
<1>1. /\ u \in [Writer -> AnyWriter]
      /\ \A o \in Writer:
           /\ u[o].job = writer[o].job /\ u[o].at = writer[o].at /\ u[o].n = writer[o].n
           /\ u[o].data = writer[o].data /\ u[o].shared = writer[o].shared
           /\ (u[o].open = "none") = (writer[o].open = "none")
           /\ writer[o].open # "target" => u[o] = writer[o]
  BY UnlinkedDoes, Zenon DEF Typed
<1>2. writer' = [u EXCEPT ![w] = r] /\ writer[w].at = "remove" /\ writer[w].open = "none"
  BY <1>1, WriterIs DEF Remove, Typed
<1>3. u[w] = writer[w] /\ writer[w] \in AnyWriter
  BY <1>1, <1>2, WriterIs DEF Typed
<1>4. /\ r \in AnyWriter /\ r.at = "rename" /\ r.open = "none" /\ r.job = writer[w].job
      /\ r.n = writer[w].n /\ r.data = writer[w].data /\ r.shared = writer[w].shared
  <2> HIDE DEF u
  <2> QED
    BY <1>2, <1>3 DEF AnyWriter
<1> HIDE DEF u, r
<1>5. /\ writer' \in [Writer -> AnyWriter] /\ writer'[w] = r
      /\ \A o \in Writer: o # w => writer'[o] = u[o]
  BY <1>1, <1>2, <1>4
<1>6. WriterTyped'
  <2>1. ASSUME NEW o \in Writer
        PROVE  (writer'[o].open = "none") = (writer'[o].at \notin {"first", "second"})
    <3>1. CASE o = w
      BY <1>4, <1>5, <3>1
    <3>2. CASE o # w
      BY <1>1, <1>5, <3>2, WriterIs DEF Typed
    <3> QED
      BY <3>1, <3>2
  <2> QED
    BY <1>5, <2>1 DEF WriterTyped
<1>7. Name(w) \in File /\ target' = [target EXCEPT ![Name(w)] = Missing] /\ tmp' = tmp
      /\ mixed' = mixed
  BY WriterIs DEF Typed, Remove, history
<1>8. DiskTyped'
  BY <1>7 DEF Typed, DiskTyped, Contents
<1>9. ASSUME NEW o \in Writer
      PROVE  /\ writer'[o].n = writer[o].n /\ writer'[o].data = writer[o].data
             /\ writer'[o].job = writer[o].job
             /\ writer'[o].shared = writer[o].shared
             /\ IsWriting(o) <=> IsWriting(o)'
             /\ OwnTmp(o) => OwnTmp(o)'
  <2>1. CASE o = w
    <3>1. /\ writer'[o].n = writer[o].n /\ writer'[o].data = writer[o].data
          /\ writer'[o].job = writer[o].job /\ writer'[o].at = "rename"
          /\ writer'[o].shared = writer[o].shared /\ writer[o].at = "remove"
      BY <1>2, <1>4, <1>5, <2>1
    <3>2. IsWriting(o) /\ IsWriting(o)'
      BY <3>1 DEF IsWriting
    <3>3. OwnTmp(o) => OwnTmp(o)'
      BY <3>1, <1>7 DEF OwnTmp, Name
    <3> QED
      BY <3>1, <3>2, <3>3
  <2>2. CASE o # w
    <3>1. /\ writer'[o].n = writer[o].n /\ writer'[o].data = writer[o].data
          /\ writer'[o].job = writer[o].job /\ writer'[o].at = writer[o].at
          /\ writer'[o].shared = writer[o].shared
          /\ writer[o].open = "tmp" => writer'[o].open = "tmp"
      BY <1>1, <1>5, <2>2
    <3>2. IsWriting(o) <=> IsWriting(o)'
      BY <3>1 DEF IsWriting
    <3>3. OwnTmp(o) => OwnTmp(o)'
      BY <3>1, <1>7 DEF OwnTmp, Name
    <3> QED
      BY <3>1, <3>2, <3>3
  <2> QED
    BY <2>1, <2>2
<1>10. Vanishes(Name(w))
  BY <1>7, <1>9, Zenon DEF Vanishes
<1>11. writer[Other(w)] = Resting => writer'[Other(w)] = Resting
  BY <1>1, <1>5, Others, RestingTyped
<1>12. OneSync'
  BY <1>2, <1>11, RestingStays DEF Remove
<1>13. writer'[w].at = "rename" /\ writer'[Other(w)].at = writer[Other(w)].at
  BY <1>1, <1>4, <1>5, Others
<1> QED
  BY <1>6, <1>8, <1>9, <1>10, <1>12, <1>13, UnchangedTyped, Zenon DEF Typed, Remove

LEMMA RenameDoes ==
  ASSUME Typed, NEW w \in Writer, Rename(w)
  PROVE  /\ Typed' /\ Moves(w)
         /\ had_error' = had_error
         /\ writer[w].job = "fetch" =>
              /\ writer[w].n < Len(Cached) => writer'[w].at = "get" /\ writer'[w].n = writer[w].n + 1
              /\ ~(writer[w].n < Len(Cached)) => writer'[w].at = "done"
         /\ writer'[w].job = writer[w].job
<1> DEFINE u == Renamed(writer, Name(w))
           first == IF writer[w].job = "fetch" THEN "get" ELSE "look"
           last == IF writer[w].job = "fetch" THEN "done" ELSE "stat"
           r == Following(w, first, last)
<1>1. /\ u \in [Writer -> AnyWriter]
      /\ \A o \in Writer:
           /\ u[o].job = writer[o].job /\ u[o].at = writer[o].at /\ u[o].n = writer[o].n
           /\ u[o].data = writer[o].data /\ u[o].shared = writer[o].shared
           /\ (u[o].open = "none") = (writer[o].open = "none")
           /\ writer[o].open = "none" \/ Cached[writer[o].n] # Name(w) => u[o] = writer[o]
  BY RenamedDoes, Zenon DEF Typed
<1>2. writer' = [u EXCEPT ![w] = r] /\ had_error' = had_error
  <2>1. \/ writer[w].job = "ensure" /\ writer' = [u EXCEPT ![w] = Following(w, "look", "stat")]
        \/ writer[w].job = "fetch" /\ writer' = [u EXCEPT ![w] = Following(w, "get", "done")]
    BY Zenon DEF Rename, MoveInPlace, FileDone, FileDoneWith, AdvanceOf
  <2>2. had_error' = had_error
    BY Zenon DEF Rename, MoveInPlace, FileDone, FileDoneWith
  <2> QED
    BY <2>1, <2>2
<1>3. /\ r \in AnyWriter /\ r.open = "none" /\ r.at \in {first, last} /\ r.job = writer[w].job
      /\ writer[w].n < Len(Cached) => r.at = first /\ r.n = writer[w].n + 1
      /\ ~(writer[w].n < Len(Cached)) => r.at = last
  BY FollowingDoes DEF Typed, Steps
<1> HIDE DEF u, r
<1>4. /\ writer' \in [Writer -> AnyWriter] /\ writer'[w] = r
      /\ \A o \in Writer: o # w => writer'[o] = u[o]
  BY <1>1, <1>2, <1>3
<1>5. WriterTyped'
  <2>1. ASSUME NEW o \in Writer
        PROVE  (writer'[o].open = "none") = (writer'[o].at \notin {"first", "second"})
    <3>1. CASE o = w
      BY <1>3, <1>4, <3>1
    <3>2. CASE o # w
      BY <1>1, <1>4, <3>2, WriterIs DEF Typed
    <3> QED
      BY <3>1, <3>2
  <2> QED
    BY <1>4, <2>1 DEF WriterTyped
<1>6. /\ Name(w) \in File /\ target' = [target EXCEPT ![Name(w)] = tmp[Name(w)]]
      /\ tmp' = [tmp EXCEPT ![Name(w)] = Missing]
      /\ mixed' = IF writer[w].shared THEN mixed ELSE mixed \ {Name(w)}
  BY WriterIs DEF Typed, Rename, MoveInPlace
<1>7. DiskTyped'
  BY <1>6 DEF Typed, DiskTyped, Contents
<1>8. mixed' \subseteq File
  BY <1>6 DEF Typed, HistoryTyped
<1>9. Moves(w)
  <2>1. writer'[w].at \in Steps /\ writer[w].at = "rename"
    BY <1>3, <1>4 DEF Steps, Rename
  <2>2. /\ writer'[Other(w)].job = writer[Other(w)].job
        /\ writer'[Other(w)].at = writer[Other(w)].at
        /\ writer'[Other(w)].n = writer[Other(w)].n
        /\ writer'[Other(w)].data = writer[Other(w)].data
        /\ writer'[Other(w)].shared = writer[Other(w)].shared
    BY <1>1, <1>4, Others
  <2>3. Name(Other(w)) # Name(w) => writer'[Other(w)] = writer[Other(w)]
    BY <1>1, <1>4, Others DEF Name
  <2> QED
    BY <1>6, <2>1, <2>2, <2>3, Zenon DEF Moves
<1>10. writer[Other(w)] = Resting => writer'[Other(w)] = Resting
  BY <1>1, <1>4, Others, RestingTyped
<1>11. OneSync'
  BY <1>10, RestingStays DEF Rename, MoveInPlace
<1>12. SyncTyped' /\ HistoryTyped'
  BY <1>2, <1>8 DEF Typed, SyncTyped, HistoryTyped, Rename, MoveInPlace
<1>13. EngineTyped' /\ UiTyped'
  BY UnchangedTyped, Zenon DEF Rename, MoveInPlace
<1>14. Typed'
  BY <1>5, <1>7, <1>11, <1>12, <1>13, Zenon DEF Typed
<1> QED
  BY <1>2, <1>3, <1>4, <1>9, <1>14

LEMMA RenameFailsDoes ==
  ASSUME Typed, NEW w \in Writer, RenameFails(w)
  PROVE  /\ Typed' /\ Rests(w) /\ ~writer'[w].shared
         /\ writer'[w].job = writer[w].job
         /\ writer[w].job = "fetch" => had_error'
         /\ writer[w].job # "fetch" => had_error' = had_error
<1>1. /\ WriterTyped' /\ had_error' \in BOOLEAN
      /\ writer'[Other(w)] = writer[Other(w)]
      /\ writer'[w].at \in {"failed", "get", "done"} /\ ~writer'[w].shared
      /\ writer'[w].job = writer[w].job
      /\ writer[w].job = "fetch" => had_error'
      /\ writer[w].job # "fetch" => had_error' = had_error
  BY FileFailsDoes DEF Typed, SyncTyped, RenameFails
<1>2. Rests(w)
  BY <1>1 DEF Rests, RenameFails, disk, history, Steps
<1>3. OneSync'
  BY <1>1, RestingStays DEF RenameFails
<1>4. SyncTyped'
  BY <1>1 DEF Typed, SyncTyped, RenameFails
<1> QED
  BY <1>1, <1>2, <1>3, <1>4, UnchangedTyped, Zenon DEF Typed, RenameFails

LEMMA WriteFailsDoes ==
  ASSUME Typed, NEW w \in Writer, WriteFails(w)
  PROVE  /\ Typed' /\ Rests(w) /\ ~writer'[w].shared
         /\ writer'[w].job = writer[w].job
         /\ writer[w].job = "fetch" => had_error'
         /\ writer[w].job # "fetch" => had_error' = had_error
<1>1. /\ WriterTyped' /\ had_error' \in BOOLEAN
      /\ writer'[Other(w)] = writer[Other(w)]
      /\ writer'[w].at \in {"failed", "get", "done"} /\ ~writer'[w].shared
      /\ writer'[w].job = writer[w].job
      /\ writer[w].job = "fetch" => had_error'
      /\ writer[w].job # "fetch" => had_error' = had_error
  BY FileFailsDoes DEF Typed, SyncTyped, WriteFails
<1>2. tmp' = tmp \/ (~Writes(Other(w), Name(w)) /\ tmp' = [tmp EXCEPT ![Name(w)] = Missing])
  BY Zenon DEF WriteFails
<1>3. DiskTyped'
  BY <1>2 DEF Typed, DiskTyped, WriteFails, Contents
<1>4. \A f \in File: tmp'[f] = tmp[f] \/ ~Writes(Other(w), f)
  <2>1. CASE tmp' = tmp
    BY <2>1
  <2>2. CASE ~Writes(Other(w), Name(w)) /\ tmp' = [tmp EXCEPT ![Name(w)] = Missing]
    <3>1. \A f \in File: f = Name(w) \/ tmp'[f] = tmp[f]
      BY <2>2 DEF Typed, DiskTyped
    <3> QED
      BY <2>2, <3>1
  <2> QED
    BY <1>2, <2>1, <2>2
<1>5. Rests(w)
  BY <1>1, <1>4 DEF Rests, WriteFails, history, Steps
<1>6. OneSync'
  BY <1>1, RestingStays DEF WriteFails
<1>7. SyncTyped'
  BY <1>1 DEF Typed, SyncTyped, WriteFails
<1> QED
  BY <1>1, <1>3, <1>5, <1>6, <1>7, UnchangedTyped, Zenon DEF Typed, WriteFails

LEMMA BeginsTyped ==
  ASSUME Typed, NEW w \in Writer, NEW data \in {"bundled", "remote"}, Begin(w, data),
         writer[w].at \in {"look", "get"}, UNCHANGED <<disk, sync, engine, ui, refused>>
  PROVE  /\ Typed' /\ Begins(w)
         /\ writer'[w].data = data /\ writer'[w].job = writer[w].job
         /\ Disturb(Overlapped(w))
<1>1. ~IsWriting(w)
  BY DEF IsWriting
<1>2. /\ WriterTyped'
      /\ writer'[w].at = "open" /\ writer'[w].data = data
      /\ writer'[w].job = writer[w].job /\ writer'[w].n = writer[w].n
      /\ writer'[w].shared = Writes(Other(w), Name(w))
      /\ writer'[Other(w)].job = writer[Other(w)].job
      /\ writer'[Other(w)].at = writer[Other(w)].at
      /\ writer'[Other(w)].n = writer[Other(w)].n
      /\ writer'[Other(w)].data = writer[Other(w)].data
      /\ writer'[Other(w)].open = writer[Other(w)].open
      /\ writer'[Other(w)].shared = (writer[Other(w)].shared \/ Writes(Other(w), Name(w)))
      /\ ~Writes(Other(w), Name(w)) => writer'[Other(w)] = writer[Other(w)]
      /\ mixed' = mixed \cup Overlapped(w) /\ Disturb(Overlapped(w))
  BY <1>1, BeginDoes DEF Typed
<1>3. Begins(w)
  BY <1>1, <1>2 DEF Begins, disk
<1>4. Overlapped(w) \subseteq File
  BY WriterIs, NameIs DEF Typed
<1>5. HistoryTyped'
  BY <1>2, <1>4, DisturbTyped DEF Typed, HistoryTyped
<1>6. writer[Other(w)] = Resting => writer'[Other(w)] = Resting
  BY <1>2, RestingTyped DEF Writes
<1>7. OneSync'
  BY <1>6, RestingStays
<1>8. Typed'
  BY <1>2, <1>5, <1>7, UnchangedTyped, Zenon DEF Typed
<1> QED
  BY <1>2, <1>3, <1>8

LEMMA LookDoes ==
  ASSUME Typed, NEW w \in Writer, Look(w)
  PROVE  /\ Typed' /\ had_error' = had_error /\ answer' = answer /\ wanted' = wanted
         /\ target' = target /\ writer'[w].job = "ensure" /\ writer[w].job = "ensure"
         /\ \/ Rests(w) /\ ~writer'[w].shared /\ disturbed' = disturbed
            \/ Begins(w) /\ target[Name(w)] = Missing /\ Disturb(Overlapped(w))
<1>1. /\ had_error' = had_error /\ answer' = answer /\ wanted' = wanted /\ target' = target
      /\ writer[w].job = "ensure" /\ writer[w].at = "look"
  BY DEF Look, At, sync, ui, disk
<1>2. CASE /\ target[Name(w)] # Missing /\ Advance(w, "look", "stat")
           /\ UNCHANGED <<mixed, disturbed>>
  <2>1. /\ WriterTyped' /\ writer'[Other(w)] = writer[Other(w)]
        /\ writer'[w].at \in {"look", "stat"} /\ writer'[w].job = "ensure" /\ ~writer'[w].shared
    BY <1>1, <1>2, AdvanceDoes DEF Steps, Typed
  <2>2. Rests(w)
    BY <1>2, <2>1 DEF Look, Rests, Steps, disk
  <2>3. OneSync'
    BY <1>1, <2>1, RestingStays DEF Look
  <2>4. HistoryTyped'
    BY <1>2, UnchangedTyped DEF Look, history
  <2>5. Typed'
    BY <2>1, <2>3, <2>4, UnchangedTyped, Zenon DEF Typed, Look
  <2> QED
    BY <1>1, <1>2, <2>1, <2>2, <2>5
<1>3. CASE target[Name(w)] = Missing /\ Begin(w, "bundled")
  <2>1. UNCHANGED <<disk, sync, engine, ui, refused>>
    BY Zenon DEF Look
  <2> QED
    BY <1>1, <1>3, <2>1, BeginsTyped
<1> QED
  BY <1>2, <1>3 DEF Look

LEMMA StatDoes ==
  ASSUME Typed, NEW w \in Writer, Stat(w)
  PROVE  /\ Typed' /\ had_error' = had_error /\ answer' = answer /\ wanted' = wanted
         /\ disturbed' = disturbed
         /\ writer'[w].job = "ensure" /\ writer[w].job = "ensure" /\ Rests(w) /\ ~writer'[w].shared
<1>1. /\ had_error' = had_error /\ answer' = answer /\ wanted' = wanted
      /\ disturbed' = disturbed
      /\ writer[w].job = "ensure" /\ writer[w].at = "stat"
  BY DEF Stat, At, sync, ui, history
<1>2. /\ WriterTyped' /\ writer'[Other(w)] = writer[Other(w)]
      /\ writer'[w].at \in Steps /\ writer'[w].job = "ensure" /\ ~writer'[w].shared
  <2>1. CASE writer' = [writer EXCEPT ![w] = [Resting EXCEPT !.job = "ensure", !.at = "failed"]]
    <3> DEFINE r == [Resting EXCEPT !.job = "ensure", !.at = "failed"]
    <3>1. r \in AnyWriter /\ r.open = "none" /\ r.at = "failed" /\ r.job = "ensure" /\ ~r.shared
      BY Files DEF Resting, AnyWriter
    <3> HIDE DEF r
    <3>2. WriterTyped' /\ writer'[w] = r /\ writer'[Other(w)] = writer[Other(w)]
      BY <2>1, <3>1, WriterPut DEF r, Typed
    <3> QED
      BY <3>1, <3>2 DEF Steps
  <2>2. CASE Advance(w, "stat", "ok")
    BY <1>1, <2>2, AdvanceDoes DEF Steps, Typed
  <2> QED
    BY <2>1, <2>2 DEF Stat
<1>3. Rests(w)
  BY <1>2 DEF Stat, Rests, disk, history
<1>4. OneSync'
  BY <1>1, <1>2, RestingStays DEF Stat
<1> QED
  BY <1>1, <1>2, <1>3, <1>4, UnchangedTyped, Zenon DEF Typed, Stat

(* A task that begins or ends. *)
LEMMA TaskDoes ==
  ASSUME Typed, NEW w \in Writer, NEW job \in {"none", "ensure", "fetch"}, NEW step \in Steps,
         writer' = [writer EXCEPT ![w] = [Resting EXCEPT !.job = job, !.at = step]],
         UNCHANGED disk, UNCHANGED mixed
  PROVE  /\ WriterTyped' /\ Rests(w) /\ ~writer'[w].shared
         /\ writer'[w].job = job /\ writer'[w].at = step /\ writer'[w].n = 1
         /\ writer'[Other(w)] = writer[Other(w)]
<1> DEFINE r == [Resting EXCEPT !.job = job, !.at = step]
<1>1. /\ r \in AnyWriter /\ r.open = "none" /\ r.at = step /\ r.job = job /\ r.n = 1 /\ ~r.shared
      /\ r.at \notin {"first", "second"}
  BY Files DEF Resting, AnyWriter, Steps
<1> HIDE DEF r
<1>2. WriterTyped' /\ writer'[w] = r /\ writer'[Other(w)] = writer[Other(w)]
  BY <1>1, WriterPut DEF r, Typed
<1>3. Rests(w)
  BY <1>1, <1>2 DEF Rests, disk
<1> QED
  BY <1>1, <1>2, <1>3

LEMMA TaskEnds ==
  ASSUME Typed, NEW w \in Writer, writer' = [writer EXCEPT ![w] = Resting],
         UNCHANGED disk, UNCHANGED mixed
  PROVE  /\ WriterTyped' /\ Rests(w) /\ ~writer'[w].shared
         /\ writer'[w] = Resting /\ writer'[w].job = "none"
         /\ writer'[Other(w)] = writer[Other(w)]
<1>1. WriterTyped' /\ writer'[w] = Resting /\ writer'[Other(w)] = writer[Other(w)]
  BY RestingTyped, WriterPut DEF Typed
<1> QED
  BY <1>1, RestingTyped DEF Rests, disk, Steps

LEMMA StartDoes ==
  ASSUME Typed, Start \/ AddEd2k
  PROVE  /\ Typed' /\ Rests("supervisor") /\ ~writer'["supervisor"].shared
         /\ writer'["supervisor"].job = "ensure"
<1>1. /\ WriterTyped' /\ Rests("supervisor") /\ ~writer'["supervisor"].shared
      /\ writer'["supervisor"].job = "ensure"
      /\ writer'["sync"] = writer["sync"]
  BY TaskDoes, Others DEF Start, AddEd2k, StartsEnsure, Steps, Writer, history
<1>2. OneSync'
  BY <1>1 DEF Typed, OneSync, Start, AddEd2k, ui
<1>3. EngineTyped'
  BY DEF Typed, EngineTyped, Start, AddEd2k
<1> QED
  BY <1>1, <1>2, <1>3, UnchangedTyped, Zenon DEF Typed, Start, AddEd2k

LEMMA InjectDoes ==
  ASSUME Typed, Inject
  PROVE  /\ Typed' /\ Rests("supervisor") /\ ~writer'["supervisor"].shared
         /\ writer'["supervisor"].job = "none"
<1>1. /\ WriterTyped' /\ Rests("supervisor") /\ ~writer'["supervisor"].shared
      /\ writer'["supervisor"].job = "none"
      /\ writer'["sync"] = writer["sync"]
  BY TaskEnds, Others DEF Inject, Writer, history
<1>2. OneSync'
  BY <1>1 DEF Typed, OneSync, Inject, ui
<1>3. EngineTyped'
  BY DEF EngineTyped, Inject
<1> QED
  BY <1>1, <1>2, <1>3, UnchangedTyped, Zenon DEF Typed, Inject

LEMMA DegradeDoes == ASSUME Typed, Degrade PROVE Typed' /\ Idles
<1>1. EngineTyped' /\ OneSync' /\ Idles
  BY DEF EngineTyped, Degrade, Typed, OneSync, Idles, ui, history
<1> QED
  BY <1>1, UnchangedTyped, Zenon DEF Typed, Degrade

(* The command comes to a supervisor that has an engine, or has none. *)
LEMMA HandleSyncDoes ==
  ASSUME Typed, HandleSync
  PROVE  /\ Typed' /\ answer = "none" /\ writer["sync"] = Resting
         /\ \/ Idles
            \/ Rests("sync") /\ ~writer'["sync"].shared /\ writer'["sync"].job = "ensure"
<1>1. asked /\ asked' = FALSE /\ answer' = answer /\ syncing' = syncing /\ answer = "none"
      /\ writer["sync"] = Resting /\ syncing
  BY DEF HandleSync, Typed, OneSync
<1>2. \/ Idles /\ WriterTyped'
      \/ /\ WriterTyped' /\ Rests("sync") /\ ~writer'["sync"].shared
         /\ writer'["sync"].job = "ensure"
  <2>1. CASE engine = "up"
    BY <2>1, TaskDoes, Others DEF HandleSync, StartsEnsure, Steps, Writer
  <2>2. CASE engine # "up"
    BY <2>2, UnchangedTyped DEF HandleSync, Idles
  <2> QED
    BY <2>1, <2>2
<1>3. OneSync' /\ UiTyped'
  BY <1>1 DEF OneSync, Typed, UiTyped
<1>4. HistoryTyped'
  <2>1. refused' \in BOOLEAN /\ mixed' = mixed /\ disturbed' = disturbed
    BY Zenon DEF HandleSync, Typed, HistoryTyped
  <2> QED
    BY <2>1 DEF Typed, HistoryTyped
<1>5. Typed'
  BY <1>2, <1>3, <1>4, UnchangedTyped, Zenon DEF Typed, HandleSync
<1> QED
  BY <1>1, <1>2, <1>5

(* sync_once ends. *)
LEMMA AnswerDoes ==
  ASSUME Typed, writer["sync"] # Resting, NEW a \in {"synced", "failed"}, Answer(a),
         UNCHANGED <<disk, engine, syncing, asked, history>>
  PROVE  /\ WriterTyped' /\ DiskTyped' /\ EngineTyped' /\ UiTyped' /\ HistoryTyped' /\ OneSync'
         /\ Rests("sync") /\ ~writer'["sync"].shared /\ writer'["sync"].job = "none" /\ answer' = a
<1>1. /\ WriterTyped' /\ Rests("sync") /\ ~writer'["sync"].shared /\ writer'["sync"] = Resting
      /\ writer'["sync"].job = "none" /\ answer' = a
  BY TaskEnds DEF Answer, Writer, history
<1>2. OneSync' /\ UiTyped'
  BY <1>1 DEF OneSync, UiTyped, Typed
<1> QED
  BY <1>1, <1>2, UnchangedTyped

LEMMA CacheUnusableDoes ==
  ASSUME Typed, CacheUnusable
  PROVE  /\ Typed' /\ Rests("sync") /\ ~writer'["sync"].shared /\ writer'["sync"].job = "none"
         /\ answer' = "failed"
<1>1. writer["sync"] # Resting /\ Answer("failed")
  BY RestingTyped DEF CacheUnusable, At
<1>2. UNCHANGED <<disk, engine, syncing, asked, history>> /\ SyncTyped'
  BY UnchangedTyped DEF CacheUnusable
<1> QED
  BY <1>1, <1>2, AnswerDoes, Zenon DEF Typed

LEMMA ReportDoes ==
  ASSUME Typed, Report
  PROVE  /\ Typed' /\ Rests("sync") /\ ~writer'["sync"].shared /\ writer'["sync"].job = "none"
         /\ answer' = IF had_error THEN "failed" ELSE "synced"
<1> DEFINE a == IF had_error THEN "failed" ELSE "synced"
<1>1. writer["sync"] # Resting /\ Answer(a)
  BY RestingTyped DEF Report, At
<1>2. UNCHANGED <<disk, engine, syncing, asked, history>> /\ SyncTyped'
  BY UnchangedTyped DEF Report
<1>3. a \in {"failed", "synced"}
  OBVIOUS
<1> HIDE DEF a
<1>4. /\ WriterTyped' /\ DiskTyped' /\ EngineTyped' /\ UiTyped' /\ HistoryTyped' /\ OneSync'
      /\ Rests("sync") /\ ~writer'["sync"].shared /\ writer'["sync"].job = "none" /\ answer' = a
  BY <1>1, <1>2, <1>3, AnswerDoes
<1> QED
  BY <1>2, <1>4 DEF a, Typed

LEMMA LoadDoes ==
  ASSUME Typed, Load
  PROVE  /\ Typed' /\ Rests("sync") /\ ~writer'["sync"].shared
         /\ \/ answer' = "failed" /\ writer'["sync"].job = "none"
            \/ /\ answer' = "none" /\ writer'["sync"].job = "fetch" /\ writer'["sync"].at = "get"
               /\ writer'["sync"].n = 1
<1>1. writer["sync"] # Resting /\ writer["sync"].at = "ok" /\ SyncTyped'
      /\ UNCHANGED <<disk, engine, syncing, asked, history>>
  BY RestingTyped DEF Load, At, SyncTyped
<1>2. CASE Answer("failed")
  BY <1>1, <1>2, AnswerDoes, Zenon DEF Typed
<1>3. CASE /\ writer' = [writer EXCEPT !["sync"] = [Resting EXCEPT !.job = "fetch", !.at = "get"]]
           /\ UNCHANGED answer
  <2>1. /\ WriterTyped' /\ Rests("sync") /\ ~writer'["sync"].shared
        /\ writer'["sync"].job = "fetch" /\ writer'["sync"].at = "get" /\ writer'["sync"].n = 1
        /\ writer'["supervisor"] = writer["supervisor"]
    BY <1>1, <1>3, TaskDoes, Others DEF Steps, Writer, history
  <2>2. OneSync' /\ UNCHANGED ui /\ answer' = "none"
    BY <1>1, <1>3 DEF OneSync, Typed, ui
  <2>3. Typed'
    BY <1>1, <2>1, <2>2, UnchangedTyped, Zenon DEF Typed
  <2> QED
    BY <2>1, <2>2, <2>3
<1> QED
  BY <1>2, <1>3 DEF Load

LEMMA DownloadDoes ==
  ASSUME Typed, Download
  PROVE  /\ Typed' /\ writer["sync"].job = "fetch" /\ writer["sync"].at = "get"
         /\ answer' = answer /\ wanted' = wanted /\ target' = target /\ writer'["sync"].job = "fetch"
         /\ \/ /\ Rests("sync") /\ ~writer'["sync"].shared /\ disturbed' = disturbed
               /\ had_error'
            \/ /\ Rests("sync") /\ ~writer'["sync"].shared /\ disturbed' = disturbed
               /\ had_error' = had_error /\ Name("sync") \notin wanted
               /\ writer["sync"].n < Len(Cached) =>
                    writer'["sync"].at = "get" /\ writer'["sync"].n = writer["sync"].n + 1
               /\ ~(writer["sync"].n < Len(Cached)) => writer'["sync"].at = "done"
            \/ /\ Begins("sync") /\ writer'["sync"].data = "remote" /\ Disturb(Overlapped("sync"))
               /\ had_error' = had_error
<1>1. /\ writer["sync"].job = "fetch" /\ writer["sync"].at = "get"
      /\ answer' = answer /\ wanted' = wanted /\ target' = target
      /\ "sync" \in Writer
  BY DEF Download, At, ui, disk, Writer
<1>2. CASE Advance("sync", "get", "done") /\ UNCHANGED <<had_error, mixed, disturbed>>
           /\ Name("sync") \notin wanted
  <2>1. /\ WriterTyped' /\ writer'["supervisor"] = writer["supervisor"]
        /\ writer'["sync"].at \in {"get", "done"} /\ writer'["sync"].job = "fetch"
        /\ ~writer'["sync"].shared
        /\ writer["sync"].n < Len(Cached) =>
             writer'["sync"].at = "get" /\ writer'["sync"].n = writer["sync"].n + 1
        /\ ~(writer["sync"].n < Len(Cached)) => writer'["sync"].at = "done"
    BY <1>1, <1>2, AdvanceDoes, Others DEF Steps, Typed
  <2>2. Rests("sync")
    BY <1>2, <2>1, Others DEF Download, Rests, Steps, disk
  <2>3. OneSync'
    BY <1>1, <2>1, RestingStays, Others DEF Download
  <2>4. HistoryTyped' /\ SyncTyped'
    BY <1>2, UnchangedTyped DEF Download, history, sync
  <2>5. Typed'
    BY <2>1, <2>3, <2>4, UnchangedTyped, Zenon DEF Typed, Download
  <2> QED
    BY <1>1, <1>2, <2>1, <2>2, <2>5
<1>3. CASE FileFails("sync") /\ UNCHANGED <<mixed, disturbed>>
  <2>1. /\ WriterTyped' /\ had_error' \in BOOLEAN
        /\ writer'["supervisor"] = writer["supervisor"]
        /\ writer'["sync"].at \in {"failed", "get", "done"} /\ ~writer'["sync"].shared
        /\ writer'["sync"].job = "fetch" /\ had_error'
    BY <1>1, <1>3, FileFailsDoes, Others DEF Typed, SyncTyped
  <2>2. Rests("sync")
    BY <1>3, <2>1, Others DEF Download, Rests, Steps, disk
  <2>3. OneSync'
    BY <1>1, <2>1, RestingStays, Others DEF Download
  <2>4. HistoryTyped' /\ SyncTyped'
    BY <1>3, <2>1, UnchangedTyped DEF Download, history, Typed, SyncTyped
  <2>5. Typed'
    BY <2>1, <2>3, <2>4, UnchangedTyped, Zenon DEF Typed, Download
  <2> QED
    BY <1>1, <1>3, <2>1, <2>2, <2>5
<1>4. CASE Begin("sync", "remote") /\ UNCHANGED had_error
  <2>1. UNCHANGED <<disk, sync, engine, ui, refused>>
    BY <1>4 DEF Download, sync
  <2> QED
    BY <1>1, <1>4, <2>1, BeginsTyped
<1> QED
  BY <1>2, <1>3, <1>4 DEF Download

LEMMA SyncNowDoes ==
  ASSUME Typed, SyncNow
  PROVE  /\ Typed' /\ Idles /\ ~syncing /\ writer["sync"] = Resting /\ answer = "none"
<1>1. ~syncing /\ syncing' = TRUE /\ asked' = TRUE /\ answer' = answer
      /\ UNCHANGED <<disk, writer, sync, engine, history>>
  BY DEF SyncNow
<1>2. writer["sync"] = Resting /\ answer = "none"
  BY <1>1 DEF Typed, OneSync
<1>3. OneSync' /\ UiTyped' /\ Idles
  BY <1>1, <1>2 DEF OneSync, UiTyped, Typed, Idles, history
<1> QED
  BY <1>1, <1>2, <1>3, UnchangedTyped, Zenon DEF Typed

LEMMA AnsweredDoes ==
  ASSUME Typed, Answered
  PROVE  /\ Typed' /\ Idles /\ answer' = "none" /\ wanted' = {} /\ writer["sync"] = Resting
<1>1. answer # "none" /\ answer' = "none" /\ syncing' = FALSE /\ asked' = asked
      /\ wanted' = {} /\ had_error' = FALSE /\ disturbed' = {}
      /\ UNCHANGED <<disk, writer, engine, refused, mixed>>
  BY DEF Answered
<1>2. writer["sync"] = Resting /\ ~asked
  BY <1>1 DEF Typed, OneSync
<1>3. OneSync' /\ UiTyped' /\ Idles
  BY <1>1, <1>2 DEF OneSync, UiTyped, Typed, Idles
<1>4. SyncTyped' /\ HistoryTyped'
  BY <1>1 DEF Typed, SyncTyped, HistoryTyped
<1> QED
  BY <1>1, <1>2, <1>3, <1>4, UnchangedTyped, Zenon DEF Typed

LEMMA DeleteDoes ==
  ASSUME Typed, NEW f \in File, Delete(f)
  PROVE  /\ Typed' /\ Vanishes(f)
         /\ \A o \in Writer: writer'[o].job = writer[o].job /\ writer'[o].at = writer[o].at
<1>1. /\ writer' \in [Writer -> AnyWriter]
      /\ \A o \in Writer:
           /\ writer'[o].job = writer[o].job /\ writer'[o].at = writer[o].at
           /\ writer'[o].n = writer[o].n
           /\ writer'[o].data = writer[o].data /\ writer'[o].shared = writer[o].shared
           /\ (writer'[o].open = "none") = (writer[o].open = "none")
           /\ writer[o].open # "target" => writer'[o] = writer[o]
  <2>1. writer' = Unlinked(writer, f)
    BY DEF Delete
  <2> QED
    BY <2>1, UnlinkedDoes, Zenon DEF Typed
<1>2. WriterTyped'
  BY <1>1, WriterIs DEF WriterTyped, Typed
<1>3. target' = [target EXCEPT ![f] = Missing] /\ tmp' = tmp /\ mixed' = mixed
      /\ Disturb({f})
  BY DEF Delete
<1>4. DiskTyped'
  BY <1>3 DEF Typed, DiskTyped, Contents
<1>5. HistoryTyped'
  BY <1>3, DisturbTyped DEF Typed, HistoryTyped, Delete
<1>6. ASSUME NEW o \in Writer
      PROVE  /\ IsWriting(o) <=> IsWriting(o)'
             /\ OwnTmp(o) => OwnTmp(o)'
  BY <1>1, <1>3 DEF IsWriting, OwnTmp, Name
<1>7. Vanishes(f)
  BY <1>1, <1>3, <1>6, Zenon DEF Vanishes
<1>8. writer["sync"] = Resting => writer'["sync"] = Resting
  BY <1>1, RestingTyped DEF Writer
<1>9. OneSync'
  BY <1>8 DEF Typed, OneSync, Delete, ui
<1> QED
  BY <1>1, <1>2, <1>4, <1>5, <1>7, <1>9, UnchangedTyped, Zenon DEF Typed, Delete

LEMMA KillDoes ==
  ASSUME Typed, Kill
  PROVE  Typed' /\ \A w \in Writer: writer'[w] = Resting
<1>1. /\ writer' = [w \in Writer |-> Resting] /\ tmp' = [f \in File |-> Missing]
      /\ target' = target /\ mixed' = mixed /\ wanted' = {} /\ had_error' = FALSE
      /\ engine' = "down" /\ syncing' = FALSE /\ asked' = FALSE /\ answer' = "none"
      /\ refused' = FALSE /\ disturbed' = {}
  BY Zenon DEF Kill
<1>2. \A w \in Writer: writer'[w] = Resting
  BY <1>1
<1>3. WriterTyped'
  BY <1>1, RestingTyped DEF WriterTyped
<1>4. DiskTyped' /\ SyncTyped' /\ HistoryTyped'
  BY <1>1 DEF DiskTyped, SyncTyped, HistoryTyped, Typed, Contents, Missing
<1>5. OneSync' /\ UiTyped' /\ EngineTyped'
  BY <1>1, <1>2 DEF OneSync, UiTyped, EngineTyped, Writer
<1> QED
  BY <1>2, <1>3, <1>4, <1>5, Zenon DEF Typed

-----------------------------------------------------------------------------
(* What is on the disk, and what is on its way there. *)

Core == SharedInv /\ AloneInv /\ CacheWhole

LEMMA RestsCore ==
  ASSUME Typed, Core, NEW w \in Writer, Rests(w)
  PROVE  Core'
<1>1. \A v \in Writer: IsWriting(v)' => v # w /\ v = Other(w) /\ w = Other(v)
  BY Others DEF IsWriting, Rests, Steps
<1>2. ASSUME NEW v \in Writer, IsWriting(v)'
      PROVE  /\ IsWriting(v) /\ writer'[v] = writer[v] /\ Name(v)' = Name(v)
             /\ ~Writes(Other(v), Name(v))' /\ tmp'[Name(v)] = tmp[Name(v)]
  <2>1. v = Other(w) /\ w = Other(v) /\ writer'[v] = writer[v]
    BY <1>1, <1>2 DEF Rests
  <2>2. IsWriting(v) /\ Name(v)' = Name(v) /\ Name(v) \in File /\ Writes(v, Name(v))
    BY <1>2, <2>1, WriterIs DEF IsWriting, Name, Writes, Typed
  <2>3. \A f: ~Writes(w, f)'
    BY DEF Rests, Writes, Steps
  <2>4. tmp'[Name(v)] = tmp[Name(v)]
    BY <2>1, <2>2 DEF Rests
  <2>5. ~Writes(Other(v), Name(v))'
    BY <2>1, <2>3
  <2> QED
    BY <2>1, <2>2, <2>4, <2>5
<1>3. SharedInv'
  BY <1>2 DEF Core, SharedInv, Rests
<1>4. AloneInv'
  BY <1>2 DEF Core, AloneInv, OwnTmp
<1>5. CacheWhole'
  BY DEF Core, CacheWhole, Rests
<1> QED
  BY <1>3, <1>4, <1>5 DEF Core

LEMMA BeginsCore ==
  ASSUME Typed, Core, NEW w \in Writer, Begins(w)
  PROVE  Core'
<1> DEFINE o == Other(w)
<1>1. o \in Writer /\ o # w /\ Other(o) = w /\ \A v \in Writer: v = w \/ v = o
  BY Others
<1>2. /\ Name(w)' = Name(w) /\ Name(o)' = Name(o)
      /\ IsWriting(o)' <=> IsWriting(o)
      /\ Writes(o, Name(w))' <=> Writes(o, Name(w))
      /\ Writes(w, Name(o))' => Name(w) = Name(o)
  BY DEF Begins, Name, IsWriting, Writes
<1>3. SharedInv'
  <2>1. IsWriting(w)' /\ Writes(o, Name(w))' => writer'[w].shared
    BY <1>2 DEF Begins
  <2>2. IsWriting(o)' /\ Writes(w, Name(o))' => writer'[o].shared
    BY <1>2, <1>1, NameIs DEF Begins
  <2>3. IsWriting(w)' /\ writer'[w].shared => Name(w)' \in mixed'
    BY <1>2 DEF Begins, Overlapped
  <2>4. ASSUME IsWriting(o)', writer'[o].shared
        PROVE  Name(o)' \in mixed'
    <3>1. CASE writer[o].shared
      BY <2>4, <3>1, <1>1, <1>2 DEF Begins, Core, SharedInv
    <3>2. CASE Writes(o, Name(w))
      BY <3>2, <1>1, <1>2, NameIs DEF Begins, Overlapped
    <3> QED
      BY <2>4, <3>1, <3>2 DEF Begins
  <2>5. ASSUME NEW v \in Writer
        PROVE  /\ IsWriting(v)' /\ Writes(Other(v), Name(v))' => writer'[v].shared
               /\ IsWriting(v)' /\ writer'[v].shared => Name(v)' \in mixed'
    <3>1. CASE v = w
      BY <3>1, <2>1, <2>3
    <3>2. CASE v = o
      <4> HIDE DEF o
      <4> QED
        BY <3>2, <1>1, <2>2, <2>4
    <3> QED
      BY <1>1, <3>1, <3>2
  <2> QED
    BY <2>5 DEF SharedInv
<1>4. AloneInv'
  <2>1. OwnTmp(w)'
    BY DEF Begins, OwnTmp
  <2>2. IsWriting(o)' /\ ~writer'[o].shared => OwnTmp(o)'
    <3>1. IsWriting(o)' /\ ~writer'[o].shared => IsWriting(o) /\ ~writer[o].shared
      BY <1>2 DEF Begins
    <3>2. OwnTmp(o) => OwnTmp(o)'
      BY <1>2 DEF Begins, OwnTmp
    <3> QED
      BY <3>1, <3>2, <1>1 DEF Core, AloneInv
  <2> QED
    BY <1>1, <2>1, <2>2 DEF AloneInv
<1>5. CacheWhole'
  BY DEF Begins, Core, CacheWhole
<1> QED
  BY <1>3, <1>4, <1>5 DEF Core

(* Two unshared writers are at different files. *)
LEMMA Apart ==
  ASSUME Core, NEW w \in Writer, IsWriting(w), IsWriting(Other(w)),
         Name(w) = Name(Other(w))
  PROVE  writer[w].shared /\ writer[Other(w)].shared
BY Others, NameIs DEF Core, SharedInv

LEMMA FillsCore ==
  ASSUME Typed, Core, NEW w \in Writer, Fills(w)
  PROVE  Core'
<1> DEFINE o == Other(w)
<1>1. o \in Writer /\ o # w /\ Other(o) = w /\ \A v \in Writer: v = w \/ v = o
  BY Others
<1>2. ASSUME NEW v \in Writer
      PROVE  /\ Name(v)' = Name(v)
             /\ IsWriting(v)' <=> IsWriting(v)
             /\ writer'[v].shared = writer[v].shared
  BY <1>1 DEF Fills, Name, IsWriting
<1>3. \A v \in Writer: \A f: Writes(v, f)' <=> Writes(v, f)
  <2>1. \A v \in Writer: \A f: Writes(v, f)' <=> IsWriting(v)' /\ Name(v)' = f
    BY DEF Writes, IsWriting, Name
  <2> QED
    BY <2>1, <1>2, NameIs
<1>4. SharedInv'
  <2>1. \A v \in Writer: Writes(Other(v), Name(v))' <=> Writes(Other(v), Name(v))
    BY <1>2, <1>3, Others
  <2> QED
    BY <2>1, <1>2 DEF Core, SharedInv, Fills
<1>5. AloneInv'
  <2>1. IsWriting(w)' /\ ~writer'[w].shared => OwnTmp(w)'
    BY <1>2 DEF Core, AloneInv, Fills
  <2>2. ASSUME IsWriting(o)', ~writer'[o].shared
        PROVE  OwnTmp(o)'
    <3>1. IsWriting(o) /\ ~writer[o].shared /\ OwnTmp(o)
      BY <1>1, <1>2, <2>2 DEF Core, AloneInv
    <3>2. Name(o) # Name(w) /\ Name(o) \in File
      BY <1>1, <3>1, Apart, WriterIs DEF Fills, Typed
    <3>3. tmp'[Name(o)] = tmp[Name(o)] /\ writer'[o] = writer[o]
      BY <3>2 DEF Fills
    <3> QED
      BY <1>1, <1>2, <3>1, <3>3 DEF OwnTmp
  <2> QED
    BY <1>1, <2>1, <2>2 DEF AloneInv
<1>6. CacheWhole'
  <2>1. Name(w) \notin mixed => target' = target
    BY DEF Core, SharedInv, AloneInv, Fills
  <2> QED
    BY <2>1 DEF Core, CacheWhole, Fills
<1> QED
  BY <1>4, <1>5, <1>6 DEF Core

LEMMA VanishesCore ==
  ASSUME Typed, Core, NEW f \in File, Vanishes(f)
  PROVE  Core'
<1>1. ASSUME NEW v \in Writer
      PROVE  /\ Name(v)' = Name(v)
             /\ IsWriting(v)' <=> IsWriting(v)
             /\ writer'[v].shared = writer[v].shared
  BY DEF Vanishes, Name
<1>2. \A v \in Writer: \A g: Writes(v, g)' <=> Writes(v, g)
  <2>1. \A v \in Writer: \A g: Writes(v, g)' <=> IsWriting(v)' /\ Name(v)' = g
    BY DEF Writes, IsWriting, Name
  <2> QED
    BY <2>1, <1>1, NameIs
<1>3. SharedInv'
  <2>1. \A v \in Writer: Writes(Other(v), Name(v))' <=> Writes(Other(v), Name(v))
    BY <1>1, <1>2, Others
  <2> QED
    BY <2>1, <1>1 DEF Core, SharedInv, Vanishes
<1>4. AloneInv'
  BY <1>1 DEF Core, AloneInv, Vanishes
<1>5. CacheWhole'
  BY DEF Core, CacheWhole, Vanishes, Typed, DiskTyped
<1> QED
  BY <1>3, <1>4, <1>5 DEF Core

LEMMA MovesCore ==
  ASSUME Typed, Core, NEW w \in Writer, Moves(w)
  PROVE  Core'
<1> DEFINE o == Other(w)
<1>1. o \in Writer /\ o # w /\ Other(o) = w /\ \A v \in Writer: v = w \/ v = o
  BY Others
<1>2. /\ Name(o)' = Name(o)
      /\ IsWriting(o)' <=> IsWriting(o)
      /\ writer'[o].shared = writer[o].shared
  BY DEF Moves, Name, IsWriting
<1>3. ~IsWriting(w)' /\ IsWriting(w)
  BY DEF Moves, IsWriting, Steps
<1>4. \A f: ~Writes(w, f)'
  BY <1>3 DEF Writes, IsWriting
<1>5. IsWriting(o) /\ (~writer[w].shared \/ ~writer[o].shared) => Name(o) # Name(w)
  BY <1>1, <1>3, Apart
<1>6. Name(w) \in File /\ Name(o) \in File
  BY <1>1, WriterIs DEF Typed
<1>7. SharedInv'
  <2>1. IsWriting(o)' /\ writer'[o].shared => Name(o)' \in mixed'
    BY <1>1, <1>2, <1>5 DEF Moves, Core, SharedInv
  <2> QED
    BY <1>1, <1>3, <1>4, <2>1 DEF SharedInv
<1>8. AloneInv'
  <2>1. ASSUME IsWriting(o)', ~writer'[o].shared
        PROVE  OwnTmp(o)'
    <3>1. IsWriting(o) /\ ~writer[o].shared /\ OwnTmp(o) /\ Name(o) # Name(w)
      BY <1>1, <1>2, <1>5, <2>1 DEF Core, AloneInv
    <3>2. writer'[o] = writer[o] /\ tmp'[Name(o)] = tmp[Name(o)]
      BY <1>6, <3>1 DEF Moves, Typed, DiskTyped
    <3> QED
      BY <1>2, <3>1, <3>2 DEF OwnTmp
  <2> QED
    BY <1>1, <1>3, <2>1 DEF AloneInv
<1>9. CacheWhole'
  <2>1. ASSUME NEW f \in File, f \notin mixed'
        PROVE  target'[f] \in {Missing, Copy("bundled"), Copy("remote")}
    <3>1. CASE f = Name(w)
      <4>1. ~writer[w].shared
        BY <1>3, <2>1, <3>1 DEF Core, SharedInv, Moves
      <4>2. tmp[Name(w)] = Copy(writer[w].data)
        BY <1>3, <4>1 DEF Core, AloneInv, OwnTmp, Moves
      <4>3. writer[w].data \in {"bundled", "remote"}
        BY WriterIs DEF Typed
      <4>4. target'[f] = tmp[Name(w)]
        BY <1>6, <3>1 DEF Moves, Typed, DiskTyped
      <4> QED
        BY <4>2, <4>3, <4>4
    <3>2. CASE f # Name(w)
      <4>1. target'[f] = target[f] /\ f \notin mixed
        BY <2>1, <3>2 DEF Moves, Typed, DiskTyped
      <4> QED
        BY <4>1 DEF Core, CacheWhole
    <3> QED
      BY <3>1, <3>2
  <2> QED
    BY <2>1 DEF CacheWhole
<1> QED
  BY <1>7, <1>8, <1>9 DEF Core

LEMMA IdlesCore == ASSUME Core, Idles PROVE Core'
BY DEF Core, SharedInv, AloneInv, CacheWhole, Idles, IsWriting, Writes, Name, OwnTmp, disk

LEMMA KillCore == ASSUME Typed, Core, Kill PROVE Core'
<1>1. \A w \in Writer: ~IsWriting(w)'
  BY KillDoes, RestingTyped DEF IsWriting
<1>2. CacheWhole'
  BY DEF Kill, Core, CacheWhole
<1> QED
  BY <1>1, <1>2 DEF Core, SharedInv, AloneInv

-----------------------------------------------------------------------------
(* What is downloaded. *)

LEMMA Syncs ==
  ASSUME Typed
  PROVE  /\ IsWriting("sync") => syncing
         /\ writer["sync"].job # "none" => syncing /\ answer = "none"
BY RestingTyped DEF Typed, OneSync, IsWriting

LEMMA RestsFetch ==
  ASSUME FetchInv, NEW w \in Writer, Rests(w), disturbed' = disturbed,
         w = "supervisor" => writer'[w].job # "fetch"
  PROVE  FetchInv'
<1>1. CASE w = "supervisor"
  BY <1>1, Others DEF Rests, FetchInv, IsWriting, Name
<1>2. CASE w = "sync"
  BY <1>2, Others DEF Rests, FetchInv, IsWriting, Steps
<1> QED
  BY <1>1, <1>2 DEF Writer

LEMMA BeginsFetch ==
  ASSUME Typed, FetchInv, NEW w \in Writer, Begins(w), Disturb(Overlapped(w)),
         writer[w].at \in {"look", "get"}, writer'[w].job = writer[w].job,
         w = "sync" /\ writer[w].job = "fetch" => writer'[w].data = "remote"
  PROVE  FetchInv'
<1>1. IsWriting(w)' /\ Name(w)' = Name(w) /\ Name(Other(w))' = Name(Other(w))
      /\ (IsWriting(Other(w))' <=> IsWriting(Other(w)))
  BY DEF IsWriting, Begins, Name
<1>2. CASE w = "sync"
  <2>1. writer["sync"].at # "none" => syncing
    BY RestingTyped DEF Typed, OneSync
  <2>2. writer'["sync"].shared => Name("sync") \in Overlapped("sync")
    BY <1>2 DEF Begins, Overlapped
  <2>3. writer'["sync"].shared => writer["supervisor"].at # "none" /\ Writes("supervisor", Name("sync"))
    BY <1>2, Others DEF Begins, Writes
  <2>4. syncing => disturbed' = disturbed \cup Overlapped("sync")
    BY <1>2 DEF Disturb
  <2>5. writer'["supervisor"].job # "fetch"
    BY <1>2, Others DEF Begins, FetchInv
  <2> QED
    BY <1>1, <1>2, <2>1, <2>2, <2>4, <2>5 DEF FetchInv
<1>3. CASE w = "supervisor"
  <2>1. IsWriting("sync") => disturbed' = disturbed \cup Overlapped(w)
    BY Syncs DEF Disturb
  <2>2. ASSUME IsWriting("sync")', writer'["sync"].shared
        PROVE  Name("sync")' \in disturbed'
    <3>1. IsWriting("sync") /\ Name("sync")' = Name("sync")
      BY <1>1, <1>3, <2>2, Others
    <3>2. writer["sync"].shared \/ Writes("sync", Name(w))
      BY <1>3, <2>2, Others DEF Begins
    <3>3. Writes("sync", Name(w)) => Name("sync") \in Overlapped(w)
      BY <1>3, Others, NameIs DEF Overlapped, Writer
    <3> QED
      BY <2>1, <3>1, <3>2, <3>3 DEF FetchInv
  <2>3. writer'["sync"].job = writer["sync"].job /\ writer'["sync"].data = writer["sync"].data
    BY <1>3, Others DEF Begins
  <2> QED
    BY <1>1, <1>3, <2>2, <2>3, Others DEF FetchInv
<1> QED
  BY <1>2, <1>3 DEF Writer

LEMMA FillsFetch ==
  ASSUME FetchInv, NEW w \in Writer, Fills(w)
  PROVE  FetchInv'
<1>1. \A v \in Writer:
        /\ writer'[v].job = writer[v].job /\ writer'[v].n = writer[v].n
        /\ writer'[v].data = writer[v].data /\ writer'[v].shared = writer[v].shared
        /\ IsWriting(v)' => IsWriting(v)
  BY Others DEF Fills, IsWriting
<1> QED
  BY <1>1 DEF FetchInv, Fills, Name, Writer

LEMMA VanishesFetch ==
  ASSUME Typed, FetchInv, NEW f \in File, Vanishes(f),
         \A o \in Writer: writer'[o].job = writer[o].job,
         disturbed' = disturbed \/ Disturb({f})
  PROVE  FetchInv'
<1>1. IsWriting("sync") => disturbed \subseteq disturbed'
  BY Syncs DEF Disturb
<1> QED
  BY <1>1 DEF FetchInv, Vanishes, Name, Writer

LEMMA MovesFetch ==
  ASSUME FetchInv, NEW w \in Writer, Moves(w), disturbed' = disturbed,
         writer'[w].job = writer[w].job
  PROVE  FetchInv'
<1>1. \A v \in Writer:
        /\ writer'[v].job = writer[v].job
        /\ IsWriting(v)' => /\ IsWriting(v)
                            /\ writer'[v].n = writer[v].n
                            /\ writer'[v].data = writer[v].data
                            /\ writer'[v].shared = writer[v].shared
  BY Others DEF Moves, IsWriting, Steps
<1> QED
  BY <1>1 DEF FetchInv, Name, Writer

LEMMA IdlesFetch ==
  ASSUME FetchInv, Idles, disturbed' = disturbed \/ writer["sync"] = Resting
  PROVE  FetchInv'
<1>1. writer["sync"] = Resting => ~IsWriting("sync")
  BY RestingTyped DEF IsWriting
<1> QED
  BY <1>1 DEF FetchInv, Idles, IsWriting, Name

-----------------------------------------------------------------------------
(* What is stored. *)

Safe(f) == f \in wanted /\ f \notin disturbed /\ target[f] = Copy("remote") /\ ~Writes("supervisor", f)

LEMMA NoneStored ==
  ASSUME Typed
  PROVE  writer["sync"].job # "fetch" /\ answer # "synced" => Stored = {}
BY DEF Stored

(* A step after which nothing more is stored or wanted than before, and by *)
(* which what is stored is left alone.                                     *)
LEMMA StoredKept ==
  ASSUME StoredInv, Stored' \subseteq Stored, wanted' = wanted,
         Stored # {} => disturbed \subseteq disturbed',
         \A f \in Stored: Safe(f) /\ f \notin disturbed' =>
           target'[f] = target[f] /\ ~Writes("supervisor", f)'
  PROVE  StoredInv'
BY DEF StoredInv, Safe

(* Two files that differ in their place differ. *)
LEMMA NotYet ==
  ASSUME Typed, writer["sync"].at # "done", answer # "synced"
  PROVE  Name("sync") \notin Stored
<1>1. writer["sync"].n \in DOMAIN Cached /\ DOMAIN Cached \subseteq Nat
  BY WriterIs, Files DEF Typed, Writer
<1>2. ASSUME NEW i \in DOMAIN Cached, Name("sync") = Cached[i]
      PROVE  i = writer["sync"].n
  BY <1>1, <1>2, ConstAssumption DEF Name
<1>3. \A i \in DOMAIN Cached: i < writer["sync"].n => i # writer["sync"].n
  BY <1>1
<1> QED
  BY <1>2, <1>3 DEF Stored

(* The supervisor works, and sync_once has stored what it had. *)
LEMMA SupervisorStored ==
  ASSUME Typed, StoredInv, answer' = answer, wanted' = wanted, had_error' = had_error,
         writer'["sync"].job = writer["sync"].job, writer'["sync"].at = writer["sync"].at,
         writer'["sync"].n = writer["sync"].n,
         Stored # {} => disturbed \subseteq disturbed',
         \A f \in Stored: Safe(f) /\ f \notin disturbed' =>
           target'[f] = target[f] /\ ~Writes("supervisor", f)'
  PROVE  StoredInv'
<1>1. Stored' = Stored
  BY DEF Stored
<1> QED
  BY <1>1, StoredKept

(* It has downloaded nothing, or noted an error. *)
LEMMA EmptyStored ==
  ASSUME writer'["sync"].job # "fetch" \/ had_error', answer' # "synced"
  PROVE  StoredInv'
BY DEF StoredInv, Stored

(* The file it is at is the next that is stored. *)
LEMMA NextStored ==
  ASSUME Typed, NEW r \in AnyWriter, writer'["sync"] = r,
         writer["sync"].job = "fetch", r.job = "fetch", had_error' = had_error, answer' = answer,
         writer["sync"].at # "done",
         writer["sync"].n < Len(Cached) => r.at # "done" /\ r.n = writer["sync"].n + 1,
         ~(writer["sync"].n < Len(Cached)) => r.at = "done"
  PROVE  Stored' \subseteq Stored \cup {Name("sync")}
<1> DEFINE n == writer["sync"].n
<1>1. n \in 1..Len(Cached) /\ Len(Cached) \in Nat /\ DOMAIN Cached = 1..Len(Cached)
  BY WriterIs, Files DEF Typed, Writer
<1>2. answer = "none" /\ answer' = "none"
  BY Syncs
<1>3. \A i \in 1..Len(Cached): i < r.n \/ r.at = "done" => i < n \/ i = n
  <2> HIDE DEF n
  <2>1. n < Len(Cached) => r.at # "done" /\ r.n = n + 1
    BY DEF n
  <2>2. CASE n < Len(Cached)
    BY <1>1, <2>1, <2>2
  <2>3. CASE ~(n < Len(Cached))
    BY <1>1, <2>3
  <2> QED
    BY <2>2, <2>3
<1>4. Name("sync") = Cached[n]
  BY DEF Name
<1> HIDE DEF n
<1>5. ASSUME NEW f \in Stored'
      PROVE  f \in Stored \/ f = Name("sync")
  <2>1. PICK i \in DOMAIN Cached: f = Cached[i] /\ (i < r.n \/ r.at = "done")
    BY <1>2, <1>5 DEF Stored
  <2>2. ~had_error /\ f \in File
    BY <1>2, <1>5 DEF Stored
  <2>3. i < n \/ i = n
    BY <1>1, <1>3, <2>1
  <2> QED
    BY <1>2, <1>4, <2>1, <2>2, <2>3 DEF Stored, n
<1> QED
  BY <1>5

(* The write that is finished stores what was downloaded, unless the       *)
(* supervisor was at the same file.                                        *)
LEMMA RenameStored ==
  ASSUME Typed, IInv, Rename("sync")
  PROVE  StoredInv'
<1>1. /\ Typed' /\ Moves("sync") /\ had_error' = had_error
      /\ writer["sync"].job = "fetch" =>
           /\ writer["sync"].n < Len(Cached) =>
                writer'["sync"].at = "get" /\ writer'["sync"].n = writer["sync"].n + 1
           /\ ~(writer["sync"].n < Len(Cached)) => writer'["sync"].at = "done"
      /\ writer'["sync"].job = writer["sync"].job
  BY RenameDoes DEF Writer
<1>2. answer' = answer /\ wanted' = wanted /\ disturbed' = disturbed
      /\ writer["sync"].at = "rename" /\ answer = "none" /\ IsWriting("sync")
  BY RestingTyped DEF Rename, MoveInPlace, ui, Typed, OneSync, IsWriting
<1>3. CASE writer["sync"].job # "fetch"
  BY <1>1, <1>2, <1>3, EmptyStored
<1>4. CASE writer["sync"].job = "fetch"
  <2>1. Stored' \subseteq Stored \cup {Name("sync")}
    <3>1. writer'["sync"] \in AnyWriter
      BY <1>1, WriterIs DEF Typed, WriterTyped, Writer
    <3> QED
      BY <1>1, <1>2, <1>4, <3>1, NextStored
  <2>2. /\ Name("sync") \in File /\ target' = [target EXCEPT ![Name("sync")] = tmp[Name("sync")]]
        /\ \A f: Writes("supervisor", f)' <=> Writes("supervisor", f)
    BY <1>1, WriterIs, Others DEF Moves, Typed, Writer, Writes, Name
  <2>3. ASSUME NEW f \in (Stored' \cap wanted) \ disturbed
        PROVE  target'[f] = Copy("remote") /\ ~Writes("supervisor", f)
    <3>1. CASE f = Name("sync")
      <4>1. ~writer["sync"].shared
        BY <1>2, <2>3, <3>1 DEF IInv, FetchInv
      <4>2. ~Writes("supervisor", f)
        BY <1>2, <3>1, <4>1, Others DEF IInv, SharedInv, Writer
      <4>3. tmp[f] = Copy(writer["sync"].data) /\ writer["sync"].data = "remote"
        BY <1>2, <1>4, <3>1, <4>1 DEF IInv, AloneInv, OwnTmp, FetchInv, Writer
      <4> QED
        BY <2>2, <3>1, <4>2, <4>3 DEF Typed, DiskTyped
    <3>2. CASE f # Name("sync")
      <4>1. target'[f] = target[f] /\ f \in (Stored \cap wanted) \ disturbed
        BY <2>1, <2>2, <2>3, <3>2 DEF Typed, DiskTyped
      <4> QED
        BY <4>1 DEF IInv, StoredInv
    <3> QED
      BY <3>1, <3>2
  <2> QED
    BY <1>2, <2>2, <2>3 DEF StoredInv
<1> QED
  BY <1>3, <1>4

LEMMA DownloadStored ==
  ASSUME Typed, IInv, Download
  PROVE  StoredInv'
<1>1. /\ Typed' /\ writer["sync"].job = "fetch" /\ writer["sync"].at = "get"
      /\ answer' = answer /\ wanted' = wanted /\ target' = target /\ writer'["sync"].job = "fetch"
      /\ \/ /\ Rests("sync") /\ ~writer'["sync"].shared /\ disturbed' = disturbed
            /\ had_error'
         \/ /\ Rests("sync") /\ ~writer'["sync"].shared /\ disturbed' = disturbed
            /\ had_error' = had_error /\ Name("sync") \notin wanted
            /\ writer["sync"].n < Len(Cached) =>
                 writer'["sync"].at = "get" /\ writer'["sync"].n = writer["sync"].n + 1
            /\ ~(writer["sync"].n < Len(Cached)) => writer'["sync"].at = "done"
         \/ /\ Begins("sync") /\ writer'["sync"].data = "remote" /\ Disturb(Overlapped("sync"))
            /\ had_error' = had_error
  BY DownloadDoes
<1>2. answer = "none" /\ syncing
  BY <1>1, Syncs
<1>3. CASE had_error'
  BY <1>1, <1>2, <1>3, EmptyStored
<1>4. CASE /\ Rests("sync") /\ had_error' = had_error /\ Name("sync") \notin wanted
           /\ disturbed' = disturbed
           /\ writer["sync"].n < Len(Cached) =>
                writer'["sync"].at = "get" /\ writer'["sync"].n = writer["sync"].n + 1
           /\ ~(writer["sync"].n < Len(Cached)) => writer'["sync"].at = "done"
  <2>1. Stored' \subseteq Stored \cup {Name("sync")}
    <3>1. writer'["sync"] \in AnyWriter
      BY <1>1, WriterIs DEF Typed, WriterTyped, Writer
    <3> QED
      BY <1>1, <1>2, <1>4, <3>1, NextStored
  <2>2. \A f: Writes("supervisor", f)' <=> Writes("supervisor", f)
    BY <1>4, Others DEF Rests, Writes, Name
  <2> QED
    BY <1>1, <1>4, <2>1, <2>2 DEF IInv, StoredInv
<1>5. CASE Begins("sync") /\ Disturb(Overlapped("sync")) /\ had_error' = had_error
  <2>1. Stored' = Stored
    BY <1>1, <1>2, <1>5 DEF Stored, Begins
  <2>2. \A f: Writes("supervisor", f)' <=> Writes("supervisor", f)
    BY <1>5, Others DEF Begins, Writes, Name
  <2>3. disturbed \subseteq disturbed'
    BY <1>2, <1>5 DEF Disturb
  <2> QED
    BY <1>1, <2>1, <2>2, <2>3 DEF IInv, StoredInv
<1> QED
  BY <1>1, <1>3, <1>4, <1>5

(* The supervisor at a file, or between two. *)
LEMMA SupervisorRestsStored ==
  ASSUME Typed, IInv, Rests("supervisor"), disturbed' = disturbed,
         answer' = answer, wanted' = wanted, had_error' = had_error
  PROVE  StoredInv'
<1>1. \A f: ~Writes("supervisor", f)'
  BY DEF Rests, Writes, Steps
<1>2. writer'["sync"] = writer["sync"] /\ target' = target
  BY Others DEF Rests
<1> QED
  BY <1>1, <1>2, SupervisorStored DEF IInv

LEMMA FillsStored ==
  ASSUME Typed, IInv, NEW w \in Writer, Fills(w), UNCHANGED ui, UNCHANGED sync,
         writer'[w].at # "done"
  PROVE  StoredInv'
<1>1. answer' = answer /\ wanted' = wanted /\ had_error' = had_error /\ disturbed' = disturbed
  BY DEF ui, sync, Fills
<1>2. \A f: Writes("supervisor", f)' => Writes("supervisor", f)
  BY Others DEF Fills, Writes, IsWriting, Name, Writer
<1>3. \A f \in File: f # Name(w) => target'[f] = target[f]
  BY DEF Fills
<1>4. Stored' = Stored
  <2>1. CASE w = "sync"
    <3>1. writer["sync"].at # "done"
      BY <2>1 DEF Fills, IsWriting
    <3> QED
      BY <1>1, <2>1, <3>1 DEF Fills, Stored
  <2>2. CASE w = "supervisor"
    BY <1>1, <2>2, Others DEF Fills, Stored
  <2> QED
    BY <2>1, <2>2 DEF Writer
<1>5. ASSUME NEW f \in Stored, Safe(f)
      PROVE  f \in File /\ f # Name(w)
  <2>1. f \in File
    BY <1>5 DEF Stored
  <2>2. CASE w = "sync"
    <3>1. writer["sync"].at # "done" /\ answer # "synced"
      BY <2>2, RestingTyped DEF Fills, IsWriting, Typed, OneSync
    <3> QED
      BY <1>5, <2>1, <2>2, <3>1, NotYet
  <2>3. CASE w = "supervisor"
    BY <1>5, <2>1, <2>3, NameIs DEF Fills, Safe, Writer
  <2> QED
    BY <2>2, <2>3 DEF Writer
<1> QED
  BY <1>1, <1>2, <1>3, <1>4, <1>5, StoredKept DEF IInv, Safe

LEMMA RemoveStored ==
  ASSUME Typed, IInv, NEW w \in Writer, Remove(w)
  PROVE  StoredInv'
<1>1. /\ Vanishes(Name(w)) /\ \A o \in Writer: writer'[o].job = writer[o].job
      /\ writer'[w].at = "rename" /\ writer'[Other(w)].at = writer[Other(w)].at
  BY RemoveDoes
<1>2. answer' = answer /\ wanted' = wanted /\ had_error' = had_error /\ disturbed' = disturbed
      /\ writer[w].at = "remove"
  BY DEF Remove, ui, sync, history
<1>3. \A f: Writes("supervisor", f)' => Writes("supervisor", f)
  BY <1>1, NameIs DEF Vanishes, Writes, IsWriting, Name, Writer
<1>4. Name(w) \in File /\ \A f \in File: f # Name(w) => target'[f] = target[f]
  BY <1>1, WriterIs DEF Vanishes, Typed, DiskTyped
<1>5. Stored' = Stored
  <2>1. /\ writer'["sync"].job = writer["sync"].job /\ writer'["sync"].n = writer["sync"].n
        /\ (writer'["sync"].at = "done") = (writer["sync"].at = "done")
    BY <1>1, <1>2, Others DEF Vanishes, Writer
  <2> QED
    BY <1>2, <2>1 DEF Stored
<1>6. ASSUME NEW f \in Stored, Safe(f)
      PROVE  f \in File /\ f # Name(w)
  <2>1. f \in File
    BY <1>6 DEF Stored
  <2>2. CASE w = "sync"
    <3>1. writer["sync"].at # "done" /\ answer # "synced"
      BY <1>2, <2>2, RestingTyped DEF Typed, OneSync
    <3> QED
      BY <1>6, <2>1, <2>2, <3>1, NotYet
  <2>3. CASE w = "supervisor"
    BY <1>2, <1>6, <2>1, <2>3, NameIs DEF IsWriting, Safe, Writer
  <2> QED
    BY <2>2, <2>3 DEF Writer
<1> QED
  BY <1>2, <1>3, <1>4, <1>5, <1>6, StoredKept DEF IInv, Safe

LEMMA SupervisorRenameStored ==
  ASSUME Typed, IInv, Rename("supervisor")
  PROVE  StoredInv'
<1>1. Moves("supervisor") /\ had_error' = had_error
  BY RenameDoes DEF Writer
<1>2. answer' = answer /\ wanted' = wanted /\ disturbed' = disturbed
  BY DEF Rename, MoveInPlace, ui
<1>3. \A f: ~Writes("supervisor", f)'
  BY <1>1 DEF Moves, Writes, Steps
<1>4. IsWriting("supervisor") /\ Name("supervisor") \in File
  BY <1>1, WriterIs DEF Moves, IsWriting, Typed, Writer
<1>5. \A f \in Stored: Safe(f) => target'[f] = target[f]
  <2>1. \A f \in File: f # Name("supervisor") => target'[f] = target[f]
    BY <1>1, <1>4 DEF Moves, Typed, DiskTyped
  <2>2. Stored \subseteq File
    BY DEF Stored
  <2> QED
    BY <1>4, <2>1, <2>2, NameIs DEF Safe, Writer
<1>6. /\ writer'["sync"].job = writer["sync"].job /\ writer'["sync"].at = writer["sync"].at
      /\ writer'["sync"].n = writer["sync"].n
  BY <1>1, Others DEF Moves
<1> QED
  BY <1>1, <1>2, <1>3, <1>5, <1>6, SupervisorStored DEF IInv

LEMMA SupervisorLookStored ==
  ASSUME Typed, IInv, Begins("supervisor"), target[Name("supervisor")] = Missing,
         Disturb(Overlapped("supervisor")), answer' = answer, wanted' = wanted,
         had_error' = had_error
  PROVE  StoredInv'
<1>1. Stored # {} => disturbed \subseteq disturbed'
  <2>1. Stored # {} => syncing
    BY Syncs DEF Stored, Typed, OneSync
  <2> QED
    BY <2>1 DEF Disturb
<1>2. \A f: Safe(f) => f # Name("supervisor")
  BY DEF Safe, Missing, Copy
<1>3. \A f: Writes("supervisor", f)' => f = Name("supervisor")
  BY DEF Begins, Writes, Name
<1>4. /\ writer'["sync"].job = writer["sync"].job /\ writer'["sync"].at = writer["sync"].at
      /\ writer'["sync"].n = writer["sync"].n /\ target' = target
  BY Others DEF Begins
<1> QED
  BY <1>1, <1>2, <1>3, <1>4, SupervisorStored DEF IInv

LEMMA DeleteStored ==
  ASSUME Typed, IInv, NEW f \in File, Delete(f)
  PROVE  StoredInv'
<1>1. /\ Vanishes(f)
      /\ \A o \in Writer: writer'[o].job = writer[o].job /\ writer'[o].at = writer[o].at
  BY DeleteDoes
<1>2. answer' = answer /\ wanted' = wanted /\ had_error' = had_error /\ Disturb({f})
  BY DEF Delete, ui, sync
<1>3. Stored # {} => disturbed' = disturbed \cup {f}
  <2>1. Stored # {} => syncing
    BY Syncs DEF Stored, Typed, OneSync
  <2> QED
    BY <1>2, <2>1 DEF Disturb
<1>4. \A g: Writes("supervisor", g)' => Writes("supervisor", g)
  BY <1>1 DEF Vanishes, Writes, Name, Writer
<1>5. \A g \in File: g # f => target'[g] = target[g]
  BY <1>1 DEF Vanishes, Typed, DiskTyped
<1>6. Stored \subseteq File
  BY DEF Stored
<1>7. /\ writer'["sync"].job = writer["sync"].job /\ writer'["sync"].at = writer["sync"].at
      /\ writer'["sync"].n = writer["sync"].n
  BY <1>1 DEF Vanishes, Writer
<1>8. \A g \in Stored: Safe(g) /\ g \notin disturbed' =>
        target'[g] = target[g] /\ ~Writes("supervisor", g)'
  BY <1>3, <1>4, <1>5, <1>6 DEF Safe
<1> QED
  BY <1>2, <1>3, <1>7, <1>8, SupervisorStored DEF IInv

LEMMA Initially == Init => Typed /\ IInv
<1> SUFFICES ASSUME Init PROVE Typed /\ IInv
  OBVIOUS
<1>1. \A w \in Writer: writer[w] = Resting /\ ~IsWriting(w)
  BY RestingTyped DEF Init, IsWriting
<1>2. DiskTyped /\ SyncTyped /\ EngineTyped /\ HistoryTyped
  BY DEF Init, DiskTyped, SyncTyped, EngineTyped, HistoryTyped, Contents, Missing
<1>3. WriterTyped
  BY RestingTyped DEF Init, WriterTyped
<1>4. OneSync /\ UiTyped
  BY <1>1 DEF Init, OneSync, UiTyped, Writer
<1>5. SharedInv /\ AloneInv /\ FetchInv
  BY <1>1, RestingTyped DEF SharedInv, AloneInv, FetchInv, Writer
<1>6. CacheWhole /\ StoredInv
  BY DEF Init, CacheWhole, StoredInv
<1> QED
  BY <1>2, <1>3, <1>4, <1>5, <1>6, Zenon DEF Typed, IInv

(* The step of one of the two tasks within a file. *)
LEMMA WritingKeeps ==
  ASSUME Typed, IInv, NEW w \in Writer, Writing(w)
  PROVE  Typed' /\ IInv'
<1>1. Core /\ FetchInv /\ StoredInv
  BY DEF IInv, Core
<1>2. SUFFICES Typed' /\ Core' /\ FetchInv' /\ StoredInv'
  BY Zenon DEF IInv, Core
<1>3. w = "sync" \/ (w = "supervisor" /\ writer[w].job # "fetch")
  BY <1>1 DEF Writer, FetchInv
<1>4. CASE Open(w) \/ WriteFirst(w) \/ WriteSecond(w)
  <2>1. Typed' /\ Fills(w)
    BY <1>4, OpenDoes, WriteFirstDoes, WriteSecondDoes
  <2>2. writer'[w].at # "done" /\ UNCHANGED ui /\ UNCHANGED sync
    BY <1>4, <2>1 DEF Fills, IsWriting, Open, WriteFirst, WriteSecond
  <2> QED
    BY <1>1, <2>1, <2>2, FillsCore, FillsFetch, FillsStored
<1>5. CASE Remove(w)
  <2>1. Typed' /\ Vanishes(Name(w)) /\ \A o \in Writer: writer'[o].job = writer[o].job
    BY <1>5, RemoveDoes
  <2>2. Name(w) \in File /\ disturbed' = disturbed
    BY <1>5, WriterIs DEF Remove, history, Typed
  <2> QED
    BY <1>1, <1>5, <2>1, <2>2, VanishesCore, VanishesFetch, RemoveStored
<1>6. CASE Rename(w)
  <2>1. Typed' /\ Moves(w) /\ writer'[w].job = writer[w].job /\ disturbed' = disturbed
    BY <1>6, RenameDoes DEF Rename, MoveInPlace
  <2>2. StoredInv'
    BY <1>6, RenameStored, SupervisorRenameStored DEF Writer
  <2> QED
    BY <1>1, <2>1, <2>2, MovesCore, MovesFetch
<1>7. CASE RenameFails(w) \/ WriteFails(w)
  <2>1. /\ Typed' /\ Rests(w) /\ ~writer'[w].shared /\ writer'[w].job = writer[w].job
        /\ writer[w].job = "fetch" => had_error'
        /\ writer[w].job # "fetch" => had_error' = had_error
    BY <1>7, RenameFailsDoes, WriteFailsDoes
  <2>2. disturbed' = disturbed /\ answer' = answer /\ wanted' = wanted
        /\ writer[w].at # "none"
    BY <1>7 DEF RenameFails, WriteFails, history, ui
  <2>3. StoredInv'
    <3>1. CASE w = "sync"
      <4>1. answer = "none"
        BY <2>2, <3>1, RestingTyped DEF Typed, OneSync
      <4> QED
        BY <2>1, <2>2, <3>1, <4>1, EmptyStored
    <3>2. CASE w = "supervisor" /\ writer[w].job # "fetch"
      BY <2>1, <2>2, <3>2, SupervisorRestsStored
    <3> QED
      BY <1>3, <3>1, <3>2
  <2> QED
    BY <1>1, <1>3, <2>1, <2>2, <2>3, RestsCore, RestsFetch
<1>8. CASE Look(w)
  <2>1. /\ Typed' /\ had_error' = had_error /\ answer' = answer /\ wanted' = wanted
        /\ writer'[w].job = "ensure" /\ writer[w].job = "ensure" /\ writer[w].at = "look"
        /\ \/ Rests(w) /\ ~writer'[w].shared /\ disturbed' = disturbed
           \/ Begins(w) /\ target[Name(w)] = Missing /\ Disturb(Overlapped(w))
    BY <1>8, LookDoes DEF Look, At
  <2>2. StoredInv'
    <3>1. CASE w = "sync"
      <4>1. answer = "none"
        BY <2>1, <3>1, Syncs
      <4> QED
        BY <2>1, <3>1, <4>1, EmptyStored
    <3>2. CASE w = "supervisor"
      BY <2>1, <3>2, SupervisorRestsStored, SupervisorLookStored
    <3> QED
      BY <3>1, <3>2 DEF Writer
  <2>3. CASE Rests(w) /\ disturbed' = disturbed
    BY <1>1, <2>1, <2>2, <2>3, RestsCore, RestsFetch
  <2>4. CASE Begins(w) /\ Disturb(Overlapped(w))
    BY <1>1, <2>1, <2>2, <2>4, BeginsCore, BeginsFetch
  <2> QED
    BY <2>1, <2>3, <2>4
<1>9. CASE Stat(w)
  <2>1. /\ Typed' /\ had_error' = had_error /\ answer' = answer /\ wanted' = wanted
        /\ disturbed' = disturbed
        /\ writer'[w].job = "ensure" /\ writer[w].job = "ensure" /\ Rests(w)
    BY <1>9, StatDoes
  <2>2. StoredInv'
    <3>1. CASE w = "sync"
      <4>1. answer = "none"
        BY <2>1, <3>1, Syncs
      <4> QED
        BY <2>1, <3>1, <4>1, EmptyStored
    <3>2. CASE w = "supervisor"
      BY <2>1, <3>2, SupervisorRestsStored
    <3> QED
      BY <3>1, <3>2 DEF Writer
  <2> QED
    BY <1>1, <2>1, <2>2, RestsCore, RestsFetch
<1> QED
  BY <1>4, <1>5, <1>6, <1>7, <1>8, <1>9 DEF Writing, WriteFile, Ensure

LEMMA SyncingKeeps ==
  ASSUME Typed, IInv, Syncing
  PROVE  Typed' /\ IInv'
<1>1. Core /\ FetchInv /\ StoredInv /\ "sync" \in Writer
  BY DEF IInv, Core, Writer
<1>2. SUFFICES Typed' /\ Core' /\ FetchInv' /\ StoredInv'
  BY Zenon DEF IInv, Core
<1>3. CASE CacheUnusable
  <2>1. /\ Typed' /\ Rests("sync") /\ writer'["sync"].job = "none" /\ answer' = "failed"
        /\ disturbed' = disturbed
    BY <1>3, CacheUnusableDoes DEF CacheUnusable, history
  <2> QED
    BY <1>1, <2>1, RestsCore, RestsFetch, EmptyStored
<1>4. CASE Load
  <2>1. /\ Typed' /\ Rests("sync") /\ disturbed' = disturbed
        /\ \/ answer' = "failed" /\ writer'["sync"].job = "none"
           \/ /\ answer' = "none" /\ writer'["sync"].job = "fetch" /\ writer'["sync"].at = "get"
              /\ writer'["sync"].n = 1
    BY <1>4, LoadDoes DEF Load, history
  <2>2. StoredInv'
    <3>1. CASE answer' = "failed" /\ writer'["sync"].job = "none"
      BY <3>1, EmptyStored
    <3>2. CASE answer' = "none" /\ writer'["sync"].at = "get" /\ writer'["sync"].n = 1
      <4>1. \A i \in DOMAIN Cached: ~(i < 1)
        BY Files
      <4>2. Stored' = {}
        BY <3>2, <4>1 DEF Stored
      <4> QED
        BY <4>2 DEF StoredInv
    <3> QED
      BY <2>1, <3>1, <3>2
  <2> QED
    BY <1>1, <2>1, <2>2, RestsCore, RestsFetch
<1>5. CASE Download
  <2>1. StoredInv'
    BY <1>5, DownloadStored
  <2>2. /\ Typed' /\ writer["sync"].job = "fetch" /\ writer["sync"].at = "get"
        /\ writer'["sync"].job = "fetch"
        /\ \/ Rests("sync") /\ disturbed' = disturbed
           \/ /\ Begins("sync") /\ writer'["sync"].data = "remote"
              /\ Disturb(Overlapped("sync"))
    BY <1>5, DownloadDoes
  <2>3. CASE Rests("sync") /\ disturbed' = disturbed
    BY <1>1, <2>1, <2>2, <2>3, RestsCore, RestsFetch
  <2>4. CASE /\ Begins("sync") /\ writer'["sync"].data = "remote"
             /\ Disturb(Overlapped("sync"))
    BY <1>1, <2>1, <2>2, <2>4, BeginsCore, BeginsFetch
  <2> QED
    BY <2>2, <2>3, <2>4
<1>6. CASE Report
  <2>1. /\ Typed' /\ Rests("sync") /\ writer'["sync"].job = "none"
        /\ answer' = IF had_error THEN "failed" ELSE "synced"
        /\ disturbed' = disturbed /\ wanted' = wanted /\ target' = target
        /\ writer["sync"].job = "fetch" /\ writer["sync"].at = "done"
    BY <1>6, ReportDoes DEF Report, history, sync, disk, At
  <2>2. StoredInv'
    <3>1. CASE had_error
      BY <2>1, <3>1, EmptyStored
    <3>2. CASE ~had_error
      <4>1. \A f \in File: \E i \in DOMAIN Cached: f = Cached[i]
        BY DEF File
      <4>2. Stored = File /\ Stored' = File
        BY <2>1, <3>2, <4>1 DEF Stored
      <4>3. \A f: Writes("supervisor", f)' <=> Writes("supervisor", f)
        BY <2>1, Others DEF Rests, Writes, Name
      <4> QED
        BY <1>1, <2>1, <4>2, <4>3 DEF StoredInv
    <3> QED
      BY <3>1, <3>2
  <2> QED
    BY <1>1, <2>1, <2>2, RestsCore, RestsFetch
<1> QED
  BY <1>3, <1>4, <1>5, <1>6 DEF Syncing

LEMMA SupervisorKeeps ==
  ASSUME Typed, IInv, Supervisor
  PROVE  Typed' /\ IInv'
<1>1. Core /\ FetchInv /\ StoredInv /\ "sync" \in Writer /\ "supervisor" \in Writer
  BY DEF IInv, Core, Writer
<1>2. SUFFICES Typed' /\ Core' /\ FetchInv' /\ StoredInv'
  BY Zenon DEF IInv, Core
<1>3. CASE Start \/ AddEd2k \/ Inject
  <2>1. Typed' /\ Rests("supervisor") /\ writer'["supervisor"].job # "fetch"
    BY <1>3, StartDoes, InjectDoes
  <2>2. /\ disturbed' = disturbed /\ answer' = answer /\ wanted' = wanted
        /\ had_error' = had_error
    BY <1>3 DEF Start, AddEd2k, Inject, history, ui, sync
  <2> QED
    BY <1>1, <2>1, <2>2, RestsCore, RestsFetch, SupervisorRestsStored
<1>4. CASE Degrade
  <2>1. Typed' /\ Idles
    BY <1>4, DegradeDoes
  <2>2. StoredInv' /\ disturbed' = disturbed
    BY <1>1, <1>4 DEF StoredInv, Stored, Degrade, Writes, Name, history, ui, sync, disk
  <2> QED
    BY <1>1, <2>1, <2>2, IdlesCore, IdlesFetch
<1>5. CASE HandleSync
  <2>1. /\ Typed' /\ answer = "none" /\ writer["sync"] = Resting
        /\ \/ Idles
           \/ Rests("sync") /\ writer'["sync"].job = "ensure"
    BY <1>5, HandleSyncDoes
  <2>2. disturbed' = disturbed /\ answer' = "none"
    BY <1>5, <2>1 DEF HandleSync
  <2>3. CASE Idles
    <3>1. writer'["sync"].job # "fetch"
      BY <2>1, <2>3, RestingTyped DEF Idles
    <3> QED
      BY <1>1, <2>1, <2>2, <2>3, <3>1, IdlesCore, IdlesFetch, EmptyStored
  <2>4. CASE Rests("sync") /\ writer'["sync"].job = "ensure"
    BY <1>1, <2>1, <2>2, <2>4, RestsCore, RestsFetch, EmptyStored
  <2> QED
    BY <2>1, <2>3, <2>4
<1> QED
  BY <1>3, <1>4, <1>5 DEF Supervisor

LEMMA OthersKeep ==
  ASSUME Typed, IInv, Answered \/ User \/ Kill
  PROVE  Typed' /\ IInv'
<1>1. Core /\ FetchInv /\ StoredInv
  BY DEF IInv, Core
<1>2. SUFFICES Typed' /\ Core' /\ FetchInv' /\ StoredInv'
  BY Zenon DEF IInv, Core
<1>3. CASE SyncNow
  <2>1. Typed' /\ Idles /\ writer["sync"] = Resting /\ answer = "none"
    BY <1>3, SyncNowDoes
  <2>2. writer'["sync"].job # "fetch" /\ answer' = "none"
    BY <1>3, <2>1, RestingTyped DEF Idles, SyncNow
  <2> QED
    BY <1>1, <2>1, <2>2, IdlesCore, IdlesFetch, EmptyStored
<1>4. CASE Answered
  <2>1. Typed' /\ Idles /\ wanted' = {} /\ writer["sync"] = Resting
    BY <1>4, AnsweredDoes
  <2>2. StoredInv'
    BY <2>1 DEF StoredInv
  <2> QED
    BY <1>1, <2>1, <2>2, IdlesCore, IdlesFetch
<1>5. ASSUME NEW f \in File, Delete(f)
      PROVE  Typed' /\ Core' /\ FetchInv' /\ StoredInv'
  <2>1. /\ Typed' /\ Vanishes(f)
        /\ \A o \in Writer: writer'[o].job = writer[o].job
        /\ Disturb({f})
    BY <1>5, DeleteDoes DEF Delete
  <2> QED
    BY <1>1, <1>5, <2>1, VanishesCore, VanishesFetch, DeleteStored
<1>6. CASE Kill
  <2>1. Typed' /\ \A w \in Writer: writer'[w] = Resting
    BY <1>6, KillDoes
  <2>2. wanted' = {}
    BY <1>6 DEF Kill
  <2>3. StoredInv' /\ FetchInv'
    BY <2>1, <2>2, RestingTyped DEF StoredInv, FetchInv, IsWriting, Writer
  <2> QED
    BY <1>1, <1>6, <2>1, <2>3, KillCore
<1> QED
  BY <1>3, <1>4, <1>5, <1>6 DEF User

LEMMA Keeps == Typed /\ IInv /\ [Next]_vars => Typed' /\ IInv'
<1> SUFFICES ASSUME Typed, IInv, [Next]_vars
             PROVE  Typed' /\ IInv'
  OBVIOUS
<1>1. CASE Next
  BY <1>1, WritingKeeps, SyncingKeeps, SupervisorKeeps, OthersKeep DEF Next
<1>2. CASE UNCHANGED vars
  <2>1. /\ UNCHANGED disk /\ UNCHANGED writer /\ UNCHANGED sync /\ UNCHANGED engine
        /\ UNCHANGED ui /\ UNCHANGED history
    BY <1>2, Zenon DEF vars
  <2>2. Typed'
    BY <2>1, UnchangedTyped, Zenon DEF Typed
  <2>3. Idles /\ disturbed' = disturbed /\ Core /\ FetchInv /\ StoredInv
    BY <2>1 DEF Idles, history, Core, IInv
  <2>4. StoredInv'
    BY <2>1, <2>3 DEF StoredInv, Stored, Writes, Name, ui, sync, disk
  <2> QED
    BY <2>2, <2>3, <2>4, IdlesCore, IdlesFetch DEF IInv, Core
<1> QED
  BY <1>1, <1>2

(* Every reachable state is of its kind, and what the two tasks write, and *)
(* have written, is as above: the inductive invariant.                     *)
THEOREM Inductive == Spec => [](Typed /\ IInv)
<1>1. Init => Typed /\ IInv
  BY Initially
<1>2. Typed /\ IInv /\ [Next]_vars => Typed' /\ IInv'
  BY Keeps
<1> QED
  BY <1>1, <1>2, PTL DEF Spec

(* A kill or a failed write at any step of write_cache_file leaves each    *)
(* file complete or missing, for any files.                                *)
THEOREM Whole == Spec => []CacheConsistent
<1>1. Typed /\ IInv => CacheConsistent
  BY TypedIsTypeOK DEF IInv, CacheConsistent
<1> QED
  BY <1>1, Inductive, PTL

(* A synchronisation that is reported to the UI is in the cache, whatever  *)
(* the supervisor, failures and edits of the URLs did meanwhile.           *)
THEOREM Told == Spec => []ToldIsCached
<1>1. Typed /\ IInv => ToldIsCached
  BY DEF Typed, IInv, StoredInv, Stored, ToldIsCached, SyncTyped
<1> QED
  BY <1>1, Inductive, PTL

=============================================================================
