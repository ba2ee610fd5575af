------------------------- MODULE EngineUpdateProofs -------------------------
(***************************************************************************)
(* Proofs about EngineUpdate, for any number of releases, downloads,       *)
(* retries, starts, checks and kills.                                      *)
(***************************************************************************)
EXTENDS EngineUpdate, WellFoundedInduction, TLAPS

(* scan_for_binary finds a release: a set of releases has a newest one.    *)
LEMMA NewerIsWellFounded ==
  IsWellFoundedOn({p \in Version \X Version: p[1] > p[2]}, Version)
<1> DEFINE R == {p \in Version \X Version: p[1] > p[2]}
<1> SUFFICES ASSUME NEW f \in [Nat -> Version], \A n \in Nat: <<f[n+1], f[n]>> \in R
             PROVE  FALSE
  BY DEF IsWellFoundedOn
<1> DEFINE g == [n \in Nat |-> MaxVersion - f[n]]
<1>1. g \in [Nat -> Nat]
  BY BoundAssumption DEF Version
<1>2. ASSUME NEW n \in Nat PROVE <<g[n+1], g[n]>> \in OpToRel(<, Nat)
  <2>1. <<f[n+1], f[n]>> \in R
    OBVIOUS
  <2>2. f[n+1] > f[n] /\ f[n] \in Version /\ f[n+1] \in Version /\ n + 1 \in Nat
    BY <2>1
  <2>3. g[n+1] < g[n] /\ g[n+1] \in Nat /\ g[n] \in Nat
    BY <2>2, BoundAssumption DEF Version
  <2> HIDE DEF g
  <2> QED
    BY <2>3 DEF OpToRel
<1> HIDE DEF g
<1>3. ~ \E h \in [Nat -> Nat]: \A n \in Nat: <<h[n+1], h[n]>> \in OpToRel(<, Nat)
  BY NatLessThanWellFounded DEF IsWellFoundedOn
<1> QED
  BY <1>1, <1>2, <1>3

LEMMA NewestIsOne ==
  ASSUME NEW S, S \subseteq Version, S # {}
  PROVE  Max(S) \in S
<1> DEFINE R == {p \in Version \X Version: p[1] > p[2]}
<1>1. PICK x \in S: \A y \in S: <<y, x>> \notin R
  <2> HIDE DEF R
  <2>1. IsWellFoundedOn(R, Version)
    BY NewerIsWellFounded DEF R
  <2> QED
    BY <2>1, WFMin
<1>2. \A y \in S: x >= y
  <2> TAKE y \in S
  <2>1. x \in Version /\ y \in Version
    OBVIOUS
  <2>2. ~(y > x)
    BY <1>1, <2>1
  <2> QED
    BY <2>1, <2>2, BoundAssumption DEF Version
<1> QED
  BY <1>2 DEF Max

LEMMA ScannedIsThere ==
  /\ Scanned \in 0..MaxVersion
  /\ Scanned # 0 => Scanned \in Version /\ bin[Scanned] # "none"
<1> DEFINE found == {v \in Version: bin[v] # "none"}
<1>1. CASE found = {}
  <2>1. Scanned = 0
    BY <1>1 DEF Scanned
  <2> QED
    BY <2>1, BoundAssumption
<1>2. CASE found # {}
  <2>1. Scanned = Max(found)
    BY <1>2 DEF Scanned
  <2>2. Max(found) \in found
    BY <1>2, NewestIsOne
  <2>3. Scanned \in Version /\ bin[Scanned] # "none"
    BY <2>1, <2>2
  <2> QED
    BY <2>3, BoundAssumption DEF Version
<1> QED
  BY <1>1, <1>2

-----------------------------------------------------------------------------
(* The state by the tuples in which the actions leave it alone. *)
FilesTyped ==
  /\ bin \in [Version -> Content] /\ part \in [Version -> Content]
  /\ installed \in Marker /\ pending \in Marker
LatestTyped == latest \in Version
EngineTyped ==
  /\ start \in {"marker", "old", "installed", "unmark", "cache", "scan",
                "lookup", "fetch", "found", "up", "down"}
  /\ promoting \in Marker /\ applied \in 0..MaxVersion
DlTyped == dl \in [Task -> Attempt]
UITyped ==
  /\ checks \subseteq [current: 0..MaxVersion, skip: BOOLEAN]
  /\ update_check_in_flight \in BOOLEAN /\ aria2_downloading \in BOOLEAN
  /\ aria2_version_known \in BOOLEAN
  /\ dialog \in 0..MaxVersion
BoundsTyped ==
  /\ starts \in 0..MaxStarts /\ checked \in 0..MaxChecks /\ kills \in 0..MaxKills
  /\ twice \subseteq Version

Typed ==
  FilesTyped /\ LatestTyped /\ EngineTyped /\ DlTyped /\ UITyped /\ BoundsTyped

LEMMA TypedIsTypeOK == Typed <=> TypeOK
BY Zenon DEF Typed, TypeOK, FilesTyped, LatestTyped, EngineTyped, DlTyped, UITyped, BoundsTyped

LEMMA UnchangedTyped ==
  ASSUME Typed
  PROVE  /\ UNCHANGED files => FilesTyped'
         /\ UNCHANGED latest => LatestTyped'
         /\ UNCHANGED engine => EngineTyped'
         /\ UNCHANGED dl => DlTyped'
         /\ UNCHANGED ui => UITyped'
         /\ UNCHANGED bounds => BoundsTyped'
BY DEF Typed, FilesTyped, LatestTyped, EngineTyped, DlTyped, UITyped, BoundsTyped,
       files, engine, ui, bounds

PCs == {"free", "queued", "checksum", "stat", "request", "body", "verify", "stage",
        "staged", "failed"}
Targets == {"none", "part", "binary", "gone"}

(* A download's record stays one whatever is written in it. *)
LEMMA AttemptEdits ==
  ASSUME NEW r \in Attempt
  PROVE  /\ \A pc \in PCs: [r EXCEPT !.pc = pc] \in Attempt
         /\ \A to \in Targets: [r EXCEPT !.to = to] \in Attempt
         /\ \A pc \in PCs, to \in Targets: [r EXCEPT !.pc = pc, !.to = to] \in Attempt
         /\ \A pc \in PCs, c \in Content: [r EXCEPT !.pc = pc, !.offset = c] \in Attempt
         /\ \A pc \in PCs, sha \in {"", "good"}: [r EXCEPT !.pc = pc, !.sha = sha] \in Attempt
         /\ \A pc \in PCs, to \in Targets:
              r.left # 0 => [r EXCEPT !.pc = pc, !.to = to, !.left = @ - 1] \in Attempt
<1>1. r.left # 0 => r.left - 1 \in 0..MaxRetries
  <2>1. r.left \in 0..MaxRetries /\ MaxRetries \in Nat
    BY BoundAssumption DEF Attempt
  <2> QED
    BY <2>1
<1> QED
  BY <1>1 DEF Attempt, PCs, Targets

LEMMA FreeTyped ==
  /\ Free \in Attempt
  /\ \A pc \in PCs, v \in Version, sha \in {"", "good"}:
       [Free EXCEPT !.pc = pc, !.v = v, !.sha = sha, !.left = MaxRetries] \in Attempt
  /\ \A pc \in PCs, v \in Version:
       [Free EXCEPT !.pc = pc, !.v = v, !.left = MaxRetries] \in Attempt
<1>1. 1 \in Version /\ 0 \in 0..MaxRetries /\ MaxRetries \in 0..MaxRetries
  BY BoundAssumption DEF Version
<1> QED
  BY <1>1 DEF Attempt, Free, PCs, Content

(* What an action of download d writes into its own record. *)
LEMMA OwnEdit ==
  ASSUME DlTyped, NEW d \in Task, NEW r \in Attempt, dl' = [dl EXCEPT ![d] = r]
  PROVE  DlTyped' /\ dl'[d] = r /\ \A e \in Task \ {d}: dl'[e] = dl[e]
BY DEF DlTyped

LEMMA HandlesKeep ==
  ASSUME DlTyped, NEW v \in Version, NEW renamed \in BOOLEAN
  PROVE  /\ Handles(v, renamed) \in [Task -> Attempt]
         /\ \A e \in Task: \E to \in Targets: Handles(v, renamed)[e] = [dl[e] EXCEPT !.to = to]
         /\ \A e \in Task: dl[e].v # v => Handles(v, renamed)[e] = dl[e]
<1>1. ASSUME NEW e \in Task
      PROVE  /\ \E to \in Targets: Handles(v, renamed)[e] = [dl[e] EXCEPT !.to = to]
             /\ dl[e].v # v => Handles(v, renamed)[e] = dl[e]
  <2>1. dl[e] \in Attempt
    BY DEF DlTyped
  <2>2. dl[e] = [dl[e] EXCEPT !.to = dl[e].to] /\ dl[e].to \in Targets
    BY <2>1 DEF Attempt, Targets
  <2>3. CASE dl[e].v # v \/ dl[e].to = "none"
    <3>1. Handles(v, renamed)[e] = dl[e]
      BY <2>3 DEF Handles
    <3> QED
      BY <2>2, <3>1
  <2>4. CASE dl[e].v = v /\ dl[e].to # "none"
    <3>1. Handles(v, renamed)[e] =
            [dl[e] EXCEPT !.to = IF @ = "part" THEN (IF renamed THEN "binary" ELSE "gone")
                                 ELSE IF renamed THEN "gone" ELSE @]
      BY <2>4 DEF Handles
    <3>2. (IF dl[e].to = "part" THEN (IF renamed THEN "binary" ELSE "gone")
           ELSE IF renamed THEN "gone" ELSE dl[e].to) \in Targets
      BY <2>2 DEF Targets
    <3> QED
      BY <2>4, <3>1, <3>2
  <2> QED
    BY <2>3, <2>4
<1>2. \A e \in Task: Handles(v, renamed)[e] \in Attempt
  <2> TAKE e \in Task
  <2>1. dl[e] \in Attempt
    BY DEF DlTyped
  <2> QED
    BY <1>1, <2>1, AttemptEdits
<1>3. Handles(v, renamed) = [e \in Task |-> Handles(v, renamed)[e]]
  BY DEF Handles
<1> QED
  BY <1>1, <1>2, <1>3

(* What download d does to its own version, as the others see it. *)
Local(d) ==
  /\ \A e \in Task \ {d}:
       /\ \E to \in Targets: dl'[e] = [dl[e] EXCEPT !.to = to]
       /\ dl[e].v # dl[d].v => dl'[e] = dl[e]
  /\ dl'[d].v = dl[d].v
  /\ dl[d].pc # "free"
  /\ \A u \in Version: u # dl[d].v => bin'[u] = bin[u] /\ part'[u] = part[u]
  /\ twice' = twice

LEMMA TransientDoes ==
  ASSUME DlTyped, NEW d \in Task, Transient(d)
  PROVE  /\ DlTyped' /\ \A e \in Task \ {d}: dl'[e] = dl[e]
         /\ dl'[d].v = dl[d].v /\ dl'[d].sha = dl[d].sha /\ dl'[d].pc \in {"failed", "stat"}
<1>1. dl[d] \in Attempt
  BY DEF DlTyped
<1>2. CASE dl[d].left = 0
  <2> DEFINE r == [dl[d] EXCEPT !.pc = "failed", !.to = "none"]
  <2>1. r \in Attempt
    BY <1>1, AttemptEdits DEF PCs, Targets
  <2>2. r.pc = "failed" /\ r.v = dl[d].v /\ r.sha = dl[d].sha
    BY <1>1 DEF Attempt
  <2>3. dl' = [dl EXCEPT ![d] = r]
    BY <1>2 DEF Transient
  <2> HIDE DEF r
  <2> QED
    BY <2>1, <2>2, <2>3, OwnEdit
<1>3. CASE dl[d].left # 0
  <2> DEFINE r == [dl[d] EXCEPT !.pc = "stat", !.to = "none", !.left = @ - 1]
  <2>1. r \in Attempt
    BY <1>1, <1>3, AttemptEdits DEF PCs, Targets
  <2>2. r.pc = "stat" /\ r.v = dl[d].v /\ r.sha = dl[d].sha
    BY <1>1 DEF Attempt
  <2>3. dl' = [dl EXCEPT ![d] = r]
    BY <1>3 DEF Transient
  <2> HIDE DEF r
  <2> QED
    BY <2>1, <2>2, <2>3, OwnEdit
<1> QED
  BY <1>2, <1>3

LEMMA GotoDoes ==
  ASSUME DlTyped, NEW d \in Task, NEW pc \in PCs, Goto(d, pc)
  PROVE  /\ DlTyped' /\ \A e \in Task \ {d}: dl'[e] = dl[e]
         /\ dl'[d] = [dl[d] EXCEPT !.pc = pc]
<1>1. dl[d] \in Attempt
  BY DEF DlTyped
<1>2. dl' = [dl EXCEPT ![d] = [dl[d] EXCEPT !.pc = pc]]
  BY DEF Goto
<1> QED
  BY <1>1, <1>2, AttemptEdits, OwnEdit

LEMMA StatDoes ==
  ASSUME Typed, NEW d \in Task, Stat(d)
  PROVE  /\ DlTyped' /\ \A e \in Task \ {d}: dl'[e] = dl[e]
         /\ dl'[d] = [dl[d] EXCEPT !.pc = "request", !.offset = part[dl[d].v]]
<1>1. dl[d] \in Attempt /\ part[dl[d].v] \in Content
  BY DEF Typed, DlTyped, FilesTyped, Attempt
<1> DEFINE r == [dl[d] EXCEPT !.pc = "request", !.offset = part[dl[d].v]]
<1>2. dl' = [dl EXCEPT ![d] = r]
  BY DEF Stat
<1>3. r \in Attempt
  BY <1>1, AttemptEdits DEF PCs
<1> HIDE DEF r
<1>4. DlTyped
  BY DEF Typed
<1>5. DlTyped' /\ dl'[d] = r /\ \A e \in Task \ {d}: dl'[e] = dl[e]
  BY <1>2, <1>3, <1>4, OwnEdit
<1> QED
  BY <1>5 DEF r

(* The files and the records after the answer to a request, after a body,  *)
(* and after the end of an attempt.                                        *)
LEMMA WholeDoes ==
  ASSUME Typed, NEW d \in Task, Whole(d)
  PROVE  /\ DlTyped'
         /\ \A e \in Task \ {d}: /\ \E to \in Targets: dl'[e] = [dl[e] EXCEPT !.to = to]
                                 /\ dl[e].v # dl[d].v => dl'[e] = dl[e]
         /\ dl'[d].v = dl[d].v /\ dl'[d].sha = dl[d].sha
         /\ dl'[d].pc = "body" /\ dl'[d].to = "part"
         /\ part' = [part EXCEPT ![dl[d].v] = "some"]
<1> DEFINE v == dl[d].v
           others == IF dl[d].offset = "none" THEN dl ELSE Handles(v, FALSE)
           r == [others[d] EXCEPT !.pc = "body", !.to = "part"]
<1>0. DlTyped /\ dl[d] \in Attempt /\ v \in Version
  BY DEF Typed, DlTyped, Attempt
<1>1. /\ others \in [Task -> Attempt]
      /\ \A e \in Task: \E to \in Targets: others[e] = [dl[e] EXCEPT !.to = to]
      /\ \A e \in Task: dl[e].v # v => others[e] = dl[e]
  <2>1. CASE dl[d].offset = "none"
    <3>1. others = dl
      BY <2>1
    <3>2. \A e \in Task: dl[e] = [dl[e] EXCEPT !.to = dl[e].to] /\ dl[e].to \in Targets
      BY <1>0 DEF DlTyped, Attempt, Targets
    <3> QED
      BY <1>0, <3>1, <3>2 DEF DlTyped
  <2>2. CASE dl[d].offset # "none"
    <3>1. others = Handles(v, FALSE)
      BY <2>2
    <3> HIDE DEF v, others
    <3>2. /\ Handles(v, FALSE) \in [Task -> Attempt]
          /\ \A e \in Task: \E to \in Targets: Handles(v, FALSE)[e] = [dl[e] EXCEPT !.to = to]
          /\ \A e \in Task: dl[e].v # v => Handles(v, FALSE)[e] = dl[e]
      BY <1>0, HandlesKeep
    <3> QED
      BY <3>1, <3>2, Zenon
  <2> QED
    BY <2>1, <2>2
<1>2. dl' = [others EXCEPT ![d] = r] /\ part' = [part EXCEPT ![v] = "some"]
  BY DEF Whole
<1>3. PICK to \in Targets: others[d] = [dl[d] EXCEPT !.to = to]
  BY <1>1
<1> HIDE DEF others
<1>4. others[d] \in Attempt
  BY <1>1
<1>5. r \in Attempt
  BY <1>4, AttemptEdits DEF PCs, Targets
<1>6. r.v = v /\ r.sha = dl[d].sha /\ r.pc = "body" /\ r.to = "part"
  BY <1>0, <1>3 DEF Attempt
<1> HIDE DEF r, v
<1>7. dl' \in [Task -> Attempt] /\ dl'[d] = r /\ \A e \in Task \ {d}: dl'[e] = others[e]
  BY <1>1, <1>2, <1>5
<1> QED
  BY <1>1, <1>2, <1>6, <1>7 DEF DlTyped, v

LEMMA PartialDoes ==
  ASSUME Typed, NEW d \in Task, Partial(d)
  PROVE  /\ DlTyped' /\ \A e \in Task \ {d}: dl'[e] = dl[e]
         /\ dl'[d].v = dl[d].v /\ dl'[d].sha = dl[d].sha /\ part' = part
         /\ dl[d].offset \in {"some", "mixed"}
         /\ \/ dl'[d].pc = "failed"
            \/ dl'[d].pc = "body" /\ dl'[d].to = "part"
<1>0. DlTyped /\ dl[d] \in Attempt
  BY DEF Typed, DlTyped
<1>1. PICK r \in Attempt:
        /\ dl' = [dl EXCEPT ![d] = r] /\ r.v = dl[d].v /\ r.sha = dl[d].sha
        /\ r.pc = "failed" \/ (r.pc = "body" /\ r.to = "part")
  <2>1. CASE part[dl[d].v] = "none"
    <3> DEFINE r == [dl[d] EXCEPT !.pc = "failed"]
    <3>0. r \in Attempt
      BY <1>0, AttemptEdits DEF PCs
    <3>1. r \in Attempt /\ r.v = dl[d].v /\ r.sha = dl[d].sha /\ r.pc = "failed"
      BY <1>0, <3>0 DEF Attempt
    <3>2. dl' = [dl EXCEPT ![d] = r]
      BY <2>1 DEF Partial
    <3> QED
      BY <3>1, <3>2
  <2>2. CASE part[dl[d].v] # "none"
    <3> DEFINE r == [dl[d] EXCEPT !.pc = "body", !.to = "part"]
    <3>0. r \in Attempt
      BY <1>0, AttemptEdits DEF PCs, Targets
    <3>1. r \in Attempt /\ r.v = dl[d].v /\ r.sha = dl[d].sha /\ r.pc = "body" /\ r.to = "part"
      BY <1>0, <3>0 DEF Attempt
    <3>2. dl' = [dl EXCEPT ![d] = r]
      BY <2>2 DEF Partial
    <3> QED
      BY <3>1, <3>2
  <2> QED
    BY <2>1, <2>2
<1>2. part' = part /\ dl[d].offset \in {"some", "mixed"}
  BY DEF Partial
<1> QED
  BY <1>0, <1>1, <1>2, OwnEdit

LEMMA ReadBodyDoes ==
  ASSUME Typed, NEW d \in Task, ReadBody(d)
  PROVE  /\ DlTyped' /\ \A e \in Task \ {d}: dl'[e] = dl[e]
         /\ dl'[d].v = dl[d].v /\ dl'[d].sha = dl[d].sha /\ dl'[d].pc = "verify"
         /\ \/ /\ dl[d].to = "part" /\ bin' = bin
               /\ \E c \in Written(d, part[dl[d].v]): part' = [part EXCEPT ![dl[d].v] = c]
            \/ /\ dl[d].to = "binary" /\ part' = part
               /\ \E c \in Written(d, bin[dl[d].v]): bin' = [bin EXCEPT ![dl[d].v] = c]
            \/ dl[d].to \notin {"part", "binary"} /\ UNCHANGED <<bin, part>>
         /\ bin' \in [Version -> Content] /\ part' \in [Version -> Content]
<1>0. DlTyped /\ dl[d] \in Attempt /\ dl[d].v \in Version
  BY DEF Typed, DlTyped, Attempt
<1> DEFINE r == [dl[d] EXCEPT !.pc = "verify", !.to = "none"]
<1>1. r \in Attempt /\ r.v = dl[d].v /\ r.sha = dl[d].sha /\ r.pc = "verify"
  <2>1. r \in Attempt
    BY <1>0, AttemptEdits DEF PCs, Targets
  <2> QED
    BY <1>0, <2>1 DEF Attempt
<1>2. dl' = [dl EXCEPT ![d] = r]
  BY DEF ReadBody
<1> HIDE DEF r
<1>3. /\ DlTyped' /\ \A e \in Task \ {d}: dl'[e] = dl[e]
      /\ dl'[d].v = dl[d].v /\ dl'[d].sha = dl[d].sha /\ dl'[d].pc = "verify"
  BY <1>0, <1>1, <1>2, OwnEdit
<1>4. \/ /\ dl[d].to = "part" /\ bin' = bin
         /\ \E c \in Written(d, part[dl[d].v]): part' = [part EXCEPT ![dl[d].v] = c]
      \/ /\ dl[d].to = "binary" /\ part' = part
         /\ \E c \in Written(d, bin[dl[d].v]): bin' = [bin EXCEPT ![dl[d].v] = c]
      \/ dl[d].to \notin {"part", "binary"} /\ UNCHANGED <<bin, part>>
  BY DEF ReadBody
<1>5. \A c: Written(d, c) \subseteq Content
  BY DEF Written, Content
<1>6. bin' \in [Version -> Content] /\ part' \in [Version -> Content]
  BY <1>4, <1>5 DEF Typed, FilesTyped
<1> QED
  BY <1>3, <1>4, <1>6

LEMMA RenameDoes ==
  ASSUME Typed, NEW d \in Task, Rename(d)
  PROVE  /\ DlTyped'
         /\ \A e \in Task \ {d}: /\ \E to \in Targets: dl'[e] = [dl[e] EXCEPT !.to = to]
                                 /\ dl[e].v # dl[d].v => dl'[e] = dl[e]
         /\ dl'[d].v = dl[d].v /\ dl'[d].sha = dl[d].sha /\ dl'[d].pc \in {"stage", "failed"}
         /\ bin' = [bin EXCEPT ![dl[d].v] = part[dl[d].v]]
         /\ part' = [part EXCEPT ![dl[d].v] = "none"]
<1> DEFINE v == dl[d].v
           others == Handles(v, TRUE)
<1>0. DlTyped /\ dl[d] \in Attempt /\ v \in Version
  BY DEF Typed, DlTyped, Attempt
<1>1. PICK pc \in {"stage", "failed"}: dl' = [others EXCEPT ![d].pc = pc]
  BY DEF Rename
<1> DEFINE r == [others[d] EXCEPT !.pc = pc]
<1>2. dl' = [others EXCEPT ![d] = r]
  BY <1>1
<1> HIDE DEF v, others
<1>3. /\ others \in [Task -> Attempt]
      /\ \A e \in Task: \E to \in Targets: others[e] = [dl[e] EXCEPT !.to = to]
      /\ \A e \in Task: dl[e].v # v => others[e] = dl[e]
  BY <1>0, HandlesKeep DEF others
<1>4. r \in Attempt
  BY <1>1, <1>3, AttemptEdits DEF PCs
<1>5. PICK to \in Targets: others[d] = [dl[d] EXCEPT !.to = to]
  BY <1>3
<1>6. r.v = dl[d].v /\ r.sha = dl[d].sha /\ r.pc = pc
  BY <1>0, <1>5 DEF Attempt
<1> HIDE DEF r
<1>7. dl' \in [Task -> Attempt] /\ dl'[d] = r /\ \A e \in Task \ {d}: dl'[e] = others[e]
  BY <1>2, <1>3, <1>4
<1>8. bin' = [bin EXCEPT ![v] = part[v]] /\ part' = [part EXCEPT ![v] = "none"]
  BY DEF Rename, v
<1> QED
  BY <1>1, <1>3, <1>6, <1>7, <1>8 DEF DlTyped, v

LEMMA RefusedDoes ==
  ASSUME Typed, NEW d \in Task, dl' = [Handles(dl[d].v, FALSE) EXCEPT ![d].pc = "failed"]
  PROVE  /\ DlTyped'
         /\ \A e \in Task \ {d}: /\ \E to \in Targets: dl'[e] = [dl[e] EXCEPT !.to = to]
                                 /\ dl[e].v # dl[d].v => dl'[e] = dl[e]
         /\ dl'[d].v = dl[d].v /\ dl'[d].sha = dl[d].sha /\ dl'[d].pc = "failed"
<1> DEFINE v == dl[d].v
           others == Handles(v, FALSE)
           r == [others[d] EXCEPT !.pc = "failed"]
<1>0. DlTyped /\ dl[d] \in Attempt /\ v \in Version
  BY DEF Typed, DlTyped, Attempt
<1>2. dl' = [others EXCEPT ![d] = r]
  OBVIOUS
<1> HIDE DEF v, others
<1>3. /\ others \in [Task -> Attempt]
      /\ \A e \in Task: \E to \in Targets: others[e] = [dl[e] EXCEPT !.to = to]
      /\ \A e \in Task: dl[e].v # v => others[e] = dl[e]
  BY <1>0, HandlesKeep DEF others
<1>4. r \in Attempt
  BY <1>3, AttemptEdits DEF PCs
<1>5. PICK t \in Targets: others[d] = [dl[d] EXCEPT !.to = t]
  BY <1>3
<1>6. r.v = dl[d].v /\ r.sha = dl[d].sha /\ r.pc = "failed"
  BY <1>0, <1>5 DEF Attempt
<1> HIDE DEF r
<1>7. dl' \in [Task -> Attempt] /\ dl'[d] = r /\ \A e \in Task \ {d}: dl'[e] = others[e]
  BY <1>2, <1>3, <1>4
<1>8. DlTyped'
  BY <1>7 DEF DlTyped
<1>9. dl'[d].v = dl[d].v /\ dl'[d].sha = dl[d].sha /\ dl'[d].pc = "failed"
  BY <1>6, <1>7
<1>10. \A e \in Task \ {d}: dl[e].v # v => dl'[e] = dl[e]
  BY <1>3, <1>7
<1>11. \A e \in Task \ {d}: \E to \in Targets: dl'[e] = [dl[e] EXCEPT !.to = to]
  BY <1>3, <1>7
<1> QED
  BY <1>8, <1>9, <1>10, <1>11, Zenon DEF v

LEMMA BeginDoes ==
  ASSUME Typed, NEW v \in Version, NEW d \in Task, Begin(v, d)
  PROVE  /\ twice' \subseteq Version /\ twice \subseteq twice'
         /\ v \notin twice' => /\ bin[v] = "none"
                               /\ \A e \in Task \ {d}: dl[e].v = v => dl[e].pc = "free"
<1>1. CASE bin[v] # "none" \/ \E e \in Task \ {d}: dl[e].v = v /\ dl[e].pc # "free"
  <2>1. twice' = twice \cup {v}
    BY <1>1 DEF Begin
  <2> QED
    BY <2>1 DEF Typed, BoundsTyped
<1>2. CASE ~(bin[v] # "none" \/ \E e \in Task \ {d}: dl[e].v = v /\ dl[e].pc # "free")
  <2>1. twice' = twice
    BY <1>2 DEF Begin
  <2> QED
    BY <1>2, <2>1 DEF Typed, BoundsTyped
<1> QED
  BY <1>1, <1>2

LEMMA SendDoes ==
  ASSUME Typed, NEW v \in Version, NEW d \in Task, SendDownload(v, d)
  PROVE  /\ DlTyped' /\ \A e \in Task \ {d}: dl'[e] = dl[e]
         /\ dl'[d].v = v /\ dl'[d].pc = "queued"
<1> DEFINE r == [Free EXCEPT !.pc = "queued", !.v = v, !.left = MaxRetries]
<1>1. r \in Attempt
  BY FreeTyped DEF PCs
<1>2. r.v = v /\ r.pc = "queued"
  BY DEF Free
<1>3. dl' = [dl EXCEPT ![d] = r]
  BY DEF SendDownload
<1>4. DlTyped
  BY DEF Typed
<1> HIDE DEF r
<1> QED
  BY <1>1, <1>2, <1>3, <1>4, OwnEdit

LEMMA FetchDoes ==
  ASSUME Typed, NEW v \in Version, NEW sha \in {"", "good"},
         dl' = [dl EXCEPT ![Fetch] =
                  [Free EXCEPT !.pc = "stat", !.v = v, !.sha = sha, !.left = MaxRetries]]
  PROVE  /\ DlTyped' /\ \A e \in Task \ {Fetch}: dl'[e] = dl[e]
         /\ dl'[Fetch].v = v /\ dl'[Fetch].pc = "stat"
<1> DEFINE r == [Free EXCEPT !.pc = "stat", !.v = v, !.sha = sha, !.left = MaxRetries]
<1>1. r \in Attempt
  BY FreeTyped DEF PCs
<1>2. r.v = v /\ r.pc = "stat"
  BY DEF Free
<1>3. dl' = [dl EXCEPT ![Fetch] = r]
  OBVIOUS
<1>4. DlTyped /\ Fetch \in Task
  BY DEF Typed, Task
<1> HIDE DEF r
<1> QED
  BY <1>1, <1>2, <1>3, <1>4, OwnEdit

LEMMA FreesTyped ==
  ASSUME Typed, NEW d \in Task, dl' = [dl EXCEPT ![d] = Free]
  PROVE  /\ DlTyped' /\ \A e \in Task \ {d}: dl'[e] = dl[e]
         /\ dl'[d].pc = "free"
<1>1. Free \in Attempt /\ DlTyped
  BY FreeTyped DEF Typed
<1>2. Free.pc = "free"
  BY DEF Free
<1> QED
  BY <1>1, <1>2, OwnEdit

LEMMA ResolveDoes ==
  ASSUME Typed, NEW d \in Task, ResolveChecksum(d)
  PROVE  /\ DlTyped' /\ \A e \in Task \ {d}: dl'[e] = dl[e]
         /\ dl'[d].v = dl[d].v /\ dl'[d].pc = "stat"
<1>0. DlTyped /\ dl[d] \in Attempt
  BY DEF Typed, DlTyped
<1>1. PICK sha \in {"", "good"}: dl' = [dl EXCEPT ![d].pc = "stat", ![d].sha = sha]
  BY DEF ResolveChecksum
<1> DEFINE r == [dl[d] EXCEPT !.pc = "stat", !.sha = sha]
<1>2. dl' = [dl EXCEPT ![d] = r]
  BY <1>1
<1>3. r \in Attempt
  BY <1>0, AttemptEdits DEF PCs
<1>4. r.v = dl[d].v /\ r.pc = "stat"
  BY <1>0 DEF Attempt
<1> HIDE DEF r
<1> QED
  BY <1>0, <1>2, <1>3, <1>4, OwnEdit

LEMMA RemovedTyped ==
  ASSUME Typed, NEW v
  PROVE  Removed(v) \subseteq [Version -> Content]
BY DEF Removed, Typed, FilesTyped, Content

LEMMA MarkersTyped ==
  ASSUME Typed
  PROVE  /\ None \in Marker
         /\ Scanned # 0 => [version |-> Scanned, sha |-> Digest(bin[Scanned])] \in Marker
         /\ \A d \in Task: [version |-> dl[d].v, sha |-> dl[d].sha] \in Marker
<1>1. None \in Marker
  BY BoundAssumption DEF None, Marker
<1>2. \A c: Digest(c) \in {"", "good", "bad"}
  BY DEF Digest
<1>3. \A d \in Task: dl[d].v \in 0..MaxVersion /\ dl[d].sha \in {"", "good", "bad"}
  <2> TAKE d \in Task
  <2>1. dl[d].v \in Version /\ dl[d].sha \in {"", "good"}
    BY DEF Typed, DlTyped, Attempt
  <2> QED
    <3>1. Version \subseteq 0..MaxVersion
      BY BoundAssumption DEF Version
    <3> QED
      BY <2>1, <3>1
<1> QED
  BY <1>1, <1>2, <1>3, ScannedIsThere DEF Marker

LEMMA DownloadTyped ==
  ASSUME Typed, NEW d \in Task, Download(d)
  PROVE  Typed'
<1>1. CASE Stat(d)
  <2>1. DlTyped'
    BY <1>1, StatDoes
  <2> QED
    BY <1>1, <2>1, UnchangedTyped, Zenon DEF Stat, Typed
<1>2. CASE Request(d)
  <2>1. DlTyped' /\ part' \in [Version -> Content]
    <3>0. DlTyped /\ part \in [Version -> Content] /\ "failed" \in PCs
      BY DEF Typed, FilesTyped, PCs
    <3>1. CASE Transient(d) /\ UNCHANGED part
      BY <3>0, <3>1, TransientDoes
    <3>2. CASE Goto(d, "failed") /\ UNCHANGED part
      BY <3>0, <3>2, GotoDoes
    <3>3. CASE Partial(d)
      BY <3>0, <3>3, PartialDoes
    <3>4. CASE Whole(d)
      <4>1. DlTyped' /\ part' = [part EXCEPT ![dl[d].v] = "some"]
        BY <3>4, WholeDoes
      <4> QED
        BY <3>0, <4>1 DEF Content
    <3> QED
      BY <1>2, <3>1, <3>2, <3>3, <3>4 DEF Request
  <2>2. FilesTyped'
    BY <1>2, <2>1 DEF Request, FilesTyped, Typed
  <2> QED
    BY <1>2, <2>1, <2>2, UnchangedTyped, Zenon DEF Request, Typed
<1>3. CASE ReadBody(d)
  <2>1. DlTyped' /\ bin' \in [Version -> Content] /\ part' \in [Version -> Content]
    BY <1>3, ReadBodyDoes
  <2>2. FilesTyped' /\ LatestTyped' /\ EngineTyped' /\ BoundsTyped'
    <3>1. FilesTyped'
      BY <1>3, <2>1 DEF ReadBody, FilesTyped, Typed
    <3> QED
      BY <1>3, <3>1, UnchangedTyped, Zenon DEF ReadBody
  <2>3. UITyped'
    BY <1>3, Zenon DEF ReadBody, Progress, UITyped, Typed
  <2> QED
    BY <2>1, <2>2, <2>3 DEF Typed
<1>4. CASE BodyBreaks(d)
  <2>1. DlTyped'
    BY <1>4, TransientDoes DEF BodyBreaks, Typed
  <2>2. UITyped'
    BY <1>4, Zenon DEF BodyBreaks, Progress, UITyped, Typed
  <2> QED
    BY <1>4, <2>1, <2>2, UnchangedTyped, Zenon DEF BodyBreaks, Typed
<1>5. CASE Verify(d)
  <2>0. dl[d].v \in Version /\ part[dl[d].v] \in Content /\ "failed" \in PCs /\ "none" \in Content
    BY DEF Typed, DlTyped, FilesTyped, Attempt, PCs, Content
  <2>1. DlTyped' /\ bin' \in [Version -> Content] /\ part' \in [Version -> Content] /\ UITyped'
    <3>1. CASE Goto(d, "failed") /\ UNCHANGED <<bin, part, aria2_downloading>>
      <4>1. DlTyped'
        BY <2>0, <3>1, GotoDoes DEF Typed
      <4>2. UITyped'
        BY <1>5, <3>1 DEF Verify, Typed, UITyped
      <4> QED
        BY <3>1, <4>1, <4>2 DEF Typed, FilesTyped
    <3>2. CASE /\ part' = [part EXCEPT ![dl[d].v] = "none"]
               /\ dl' = [Handles(dl[d].v, FALSE) EXCEPT ![d].pc = "failed"]
               /\ UNCHANGED <<bin, aria2_downloading>>
      <4>1. DlTyped'
        BY <3>2, RefusedDoes
      <4>2. UITyped'
        BY <1>5, <3>2 DEF Verify, Typed, UITyped
      <4> QED
        BY <2>0, <3>2, <4>1, <4>2 DEF Typed, FilesTyped
    <3>3. CASE Rename(d)
      <4>1. DlTyped' /\ bin' = [bin EXCEPT ![dl[d].v] = part[dl[d].v]]
            /\ part' = [part EXCEPT ![dl[d].v] = "none"]
        BY <3>3, RenameDoes
      <4>2. UITyped'
        BY <1>5, <3>3, Zenon DEF Verify, Rename, Progress, Typed, UITyped
      <4> QED
        BY <2>0, <4>1, <4>2 DEF Typed, FilesTyped
    <3> QED
      BY <1>5, <3>1, <3>2, <3>3 DEF Verify
  <2>2. FilesTyped'
    BY <1>5, <2>1 DEF Verify, FilesTyped, Typed
  <2> QED
    BY <1>5, <2>1, <2>2, UnchangedTyped, Zenon DEF Verify, Typed
<1> QED
  BY <1>1, <1>2, <1>3, <1>4, <1>5 DEF Download

LEMMA TypeStep == TypeOK /\ [Next]_vars => TypeOK'
<1> SUFFICES ASSUME Typed, [Next]_vars PROVE Typed'
  <2>1. Typed' <=> TypeOK'
    BY Zenon DEF Typed, TypeOK, FilesTyped, LatestTyped, EngineTyped, DlTyped, UITyped,
       BoundsTyped
  <2> QED
    BY <2>1, TypedIsTypeOK, Zenon
<1>0. /\ 0 \in 0..MaxVersion /\ None \in Marker /\ Version \subseteq 0..MaxVersion
      /\ Task = Slot \cup {Fetch}
  BY MarkersTyped, BoundAssumption DEF Version, Task
<1>1. ASSUME ReadMarker PROVE Typed'
  <2>1. start' \in {"old", "cache"} /\ promoting' \in {pending, promoting} /\ applied' = applied
    BY <1>1 DEF ReadMarker
  <2>2. EngineTyped'
    BY <2>1 DEF EngineTyped, FilesTyped, Typed
  <2>3. pending' \in {pending, None} /\ UNCHANGED <<part, installed>>
    BY <1>1 DEF ReadMarker
  <2>4. bin' = bin \/ bin' \in Removed(pending.version)
    BY <1>1 DEF ReadMarker
  <2>5. FilesTyped'
    BY <1>0, <2>3, <2>4, RemovedTyped DEF FilesTyped, Typed
  <2> QED
    BY <1>1, <2>2, <2>5, UnchangedTyped, Zenon DEF ReadMarker, Typed
<1>2. ASSUME DropOld PROVE Typed'
  <2>1. bin' = bin \/ bin' \in Removed(installed.version)
    BY <1>2 DEF DropOld
  <2>2. FilesTyped' /\ EngineTyped'
    BY <1>2, <2>1, RemovedTyped DEF DropOld, FilesTyped, EngineTyped, Typed
  <2> QED
    BY <1>2, <2>2, UnchangedTyped, Zenon DEF DropOld, Typed
<1>3. ASSUME WriteInstalled PROVE Typed'
  <2>1. FilesTyped' /\ EngineTyped'
    BY <1>3 DEF WriteInstalled, FilesTyped, EngineTyped, Typed
  <2> QED
    BY <1>3, <2>1, UnchangedTyped, Zenon DEF WriteInstalled, Typed
<1>4. ASSUME DropMarker PROVE Typed'
  <2>1. promoting.version \in 0..MaxVersion
    BY DEF Typed, EngineTyped, Marker
  <2>2. FilesTyped' /\ EngineTyped'
    BY <1>0, <1>4, <2>1 DEF DropMarker, FilesTyped, EngineTyped, Typed
  <2> QED
    BY <1>4, <2>2, UnchangedTyped, Zenon DEF DropMarker, Typed
<1>5. ASSUME UseCache PROVE Typed'
  <2>1. EngineTyped'
    BY <1>5 DEF UseCache, EngineTyped, Typed
  <2> QED
    BY <1>5, <2>1, UnchangedTyped, Zenon DEF UseCache, Typed
<1>6. ASSUME Scan PROVE Typed'
  <2>1. EngineTyped'
    BY <1>6 DEF Scan, EngineTyped, Typed
  <2>2. installed' \in Marker
    BY <1>6, MarkersTyped DEF Scan, FilesTyped, Typed
  <2>3. FilesTyped'
    BY <1>6, <2>2 DEF Scan, FilesTyped, Typed
  <2> QED
    BY <1>6, <2>1, <2>3, UnchangedTyped, Zenon DEF Scan, Typed
<1>7. ASSUME LookUp PROVE Typed'
  <2>1. CASE start' = "down" /\ UNCHANGED <<dl, twice>>
    <3>1. EngineTyped' /\ BoundsTyped'
      BY <1>7, <2>1 DEF LookUp, EngineTyped, BoundsTyped, Typed
    <3> QED
      BY <1>7, <2>1, <3>1, UnchangedTyped, Zenon DEF LookUp, Typed
  <2>2. CASE start' # "down" \/ ~UNCHANGED <<dl, twice>>
    <3>1. PICK sha \in {"", "good"}:
            /\ start' = "fetch" /\ Begin(latest, Fetch)
            /\ dl' = [dl EXCEPT ![Fetch] =
                 [Free EXCEPT !.pc = "stat", !.v = latest, !.sha = sha, !.left = MaxRetries]]
      BY <1>7, <2>2 DEF LookUp
    <3>2. latest \in Version /\ Fetch \in Task
      BY <1>0 DEF Typed, LatestTyped
    <3>3. DlTyped'
      BY <3>1, <3>2, FetchDoes
    <3>4. BoundsTyped'
      BY <1>7, <3>1, <3>2, BeginDoes DEF LookUp, BoundsTyped, Typed
    <3>5. EngineTyped'
      BY <1>7, <3>1 DEF LookUp, EngineTyped, Typed
    <3> QED
      BY <1>7, <3>3, <3>4, <3>5, UnchangedTyped, Zenon DEF LookUp, Typed
  <2> QED
    BY <2>1, <2>2
<1>8. ASSUME InstallFetched \/ FetchFailed PROVE Typed'
  <2>1. DlTyped'
    BY <1>0, <1>8, FreesTyped DEF InstallFetched, FetchFailed
  <2>2. EngineTyped'
    BY <1>8 DEF InstallFetched, FetchFailed, EngineTyped, Typed, engine
  <2>3. FilesTyped'
    BY <1>0, <1>8, MarkersTyped DEF InstallFetched, FetchFailed, FilesTyped, Typed, files
  <2> QED
    BY <1>8, <2>1, <2>2, <2>3, UnchangedTyped, Zenon DEF InstallFetched, FetchFailed, Typed
<1>9. ASSUME Spawn PROVE Typed'
  <2>1. EngineTyped'
    BY <1>0, <1>9 DEF Spawn, EngineTyped, Typed
  <2>2. UITyped'
    BY <1>9, Zenon DEF Spawn, UITyped, Typed
  <2> QED
    BY <1>9, <2>1, <2>2, UnchangedTyped, Zenon DEF Spawn, Typed
<1>10. ASSUME Restart PROVE Typed'
  <2>1. EngineTyped'
    BY <1>0, <1>10 DEF Restart, EngineTyped, Typed
  <2>2. BoundsTyped'
    BY <1>10, BoundAssumption DEF Restart, BoundsTyped, Typed
  <2> QED
    BY <1>10, <2>1, <2>2, UnchangedTyped, Zenon DEF Restart, Typed
<1>11. ASSUME NEW d \in Slot, Update(d) PROVE Typed'
  <2>0. d \in Task /\ DlTyped /\ {"checksum", "failed", "staged"} \subseteq PCs
    BY DEF Task, Typed, PCs
  <2>1. CASE TakeCommand(d)
    <3>1. DlTyped'
      BY <2>0, <2>1, GotoDoes DEF TakeCommand
    <3> QED
      BY <2>1, <3>1, UnchangedTyped, Zenon DEF TakeCommand, Typed
  <2>2. CASE ResolveChecksum(d)
    <3>1. DlTyped'
      BY <2>0, <2>2, ResolveDoes
    <3> QED
      BY <2>2, <3>1, UnchangedTyped, Zenon DEF ResolveChecksum, Typed
  <2>3. CASE StagePending(d)
    <3>1. DlTyped'
      BY <2>0, <2>3, GotoDoes DEF StagePending
    <3>2. FilesTyped'
      BY <2>0, <2>3, MarkersTyped DEF StagePending, FilesTyped, Typed
    <3> QED
      BY <2>3, <3>1, <3>2, UnchangedTyped, Zenon DEF StagePending, Typed
  <2>4. CASE DownloadEnded(d)
    <3>1. DlTyped'
      BY <2>0, <2>4, FreesTyped DEF DownloadEnded
    <3>2. UITyped'
      BY <2>4, Zenon DEF DownloadEnded, UITyped, Typed
    <3> QED
      BY <2>4, <3>1, <3>2, UnchangedTyped, Zenon DEF DownloadEnded, Typed
  <2> QED
    BY <1>11, <2>0, <2>1, <2>2, <2>3, <2>4, DownloadTyped DEF Update
<1>12. ASSUME CheckUpdates PROVE Typed'
  <2>1. InstalledVersion \in 0..MaxVersion
    BY ScannedIsThere DEF InstalledVersion, Typed, FilesTyped, Marker
  <2>2. (aria2_downloading \/ (pending # None /\ Verified(pending))) \in BOOLEAN
    BY Zenon
  <2> DEFINE check == [current |-> InstalledVersion,
                       skip |-> aria2_downloading \/ (pending # None /\ Verified(pending))]
  <2>3. check \in [current: 0..MaxVersion, skip: BOOLEAN]
    BY <2>1, <2>2, Zenon
  <2>4. checks' = checks \cup {check}
    BY <1>12 DEF CheckUpdates
  <2> HIDE DEF check
  <2>5. checks' \subseteq [current: 0..MaxVersion, skip: BOOLEAN]
    BY <2>3, <2>4 DEF Typed, UITyped
  <2>6. UITyped'
    BY <1>12, <2>5, Zenon DEF CheckUpdates, UITyped, Typed
  <2>7. BoundsTyped'
    BY <1>12, BoundAssumption DEF CheckUpdates, BoundsTyped, Typed
  <2> QED
    BY <1>12, <2>6, <2>7, UnchangedTyped, Zenon DEF CheckUpdates, Typed
<1>13. ASSUME CancelOffer PROVE Typed'
  <2>1. UITyped'
    BY <1>0, <1>13, Zenon DEF CancelOffer, UITyped, Typed
  <2> QED
    BY <1>13, <2>1, UnchangedTyped, Zenon DEF CancelOffer, Typed
<1>14. ASSUME NEW d \in Slot, ApplyOffer(d) PROVE Typed'
  <2>0. d \in Task /\ dialog \in Version
    BY <1>14, BoundAssumption DEF Task, ApplyOffer, Typed, UITyped, Version
  <2>1. SendDownload(dialog, d) /\ Begin(dialog, d)
    BY <1>14 DEF ApplyOffer, SendDownload
  <2>2. DlTyped' /\ twice' \subseteq Version
    BY <2>0, <2>1, SendDoes, BeginDoes
  <2>3. UITyped'
    BY <1>0, <1>14, Zenon DEF ApplyOffer, SendDownload, UITyped, Typed
  <2>4. BoundsTyped'
    BY <1>14, <2>2 DEF ApplyOffer, BoundsTyped, Typed
  <2> QED
    BY <1>14, <2>2, <2>3, <2>4, UnchangedTyped, Zenon DEF ApplyOffer, Typed
<1>15. ASSUME NEW check \in checks, NothingNew(check) \/ ShowOffer(check) PROVE Typed'
  <2>1. latest \in 0..MaxVersion
    BY <1>0 DEF Typed, LatestTyped
  <2>2. checks' \subseteq [current: 0..MaxVersion, skip: BOOLEAN]
    BY <1>15 DEF NothingNew, ShowOffer, EndCheck, Typed, UITyped
  <2>3. UITyped'
    BY <1>15, <2>1, <2>2, Zenon DEF NothingNew, ShowOffer, EndCheck, UITyped, Typed
  <2>4. BoundsTyped'
    BY <1>15 DEF NothingNew, ShowOffer, EndCheck, BoundsTyped, Typed
  <2> QED
    BY <1>15, <2>3, <2>4, UnchangedTyped, Zenon DEF NothingNew, ShowOffer, EndCheck, Typed
<1>16. ASSUME NEW check \in checks, NEW d \in Slot, SilentUpdate(check, d) PROVE Typed'
  <2>0. d \in Task /\ latest \in Version
    BY DEF Task, Typed, LatestTyped
  <2>1. SendDownload(latest, d) /\ Begin(latest, d)
    BY <1>16 DEF SilentUpdate, SendDownload
  <2>2. DlTyped' /\ twice' \subseteq Version
    BY <2>0, <2>1, SendDoes, BeginDoes
  <2>3. checks' \subseteq [current: 0..MaxVersion, skip: BOOLEAN]
    BY <1>16 DEF SilentUpdate, EndCheck, Typed, UITyped
  <2>4. UITyped'
    BY <1>16, <2>3, Zenon DEF SilentUpdate, EndCheck, SendDownload, UITyped, Typed
  <2>5. BoundsTyped'
    BY <1>16, <2>2 DEF SilentUpdate, EndCheck, BoundsTyped, Typed
  <2> QED
    BY <1>16, <2>2, <2>4, <2>5, UnchangedTyped, Zenon DEF SilentUpdate, EndCheck, Typed
<1>17. ASSUME Publish PROVE Typed'
  <2>1. latest \in Nat /\ latest >= 1 /\ latest < MaxVersion /\ MaxVersion \in Nat
    BY <1>17, BoundAssumption DEF Publish, Typed, LatestTyped, Version
  <2>2. LatestTyped'
    BY <1>17, <2>1 DEF Publish, LatestTyped, Version
  <2> QED
    BY <1>17, <2>2, UnchangedTyped, Zenon DEF Publish, Typed
<1>18. ASSUME Kill PROVE Typed'
  <2>1. DlTyped'
    BY <1>18, FreeTyped DEF Kill, DlTyped
  <2>2. EngineTyped'
    BY <1>0, <1>18 DEF Kill, EngineTyped
  <2>3. UITyped'
    <3>1. checks' \subseteq [current: 0..MaxVersion, skip: BOOLEAN]
      BY <1>18 DEF Kill
    <3> QED
      BY <1>0, <1>18, <3>1, Zenon DEF Kill, UITyped
  <2>4. FilesTyped'
    <3>1. installed' \in Marker /\ pending' \in Marker
      BY <1>0, <1>18 DEF Kill, FilesTyped, Typed
    <3> QED
      BY <1>18, <3>1 DEF Kill, FilesTyped, Typed
  <2>5. BoundsTyped'
    BY <1>18, BoundAssumption DEF Kill, BoundsTyped, Typed
  <2> QED
    BY <1>18, <2>1, <2>2, <2>3, <2>4, <2>5, UnchangedTyped, Zenon DEF Kill, Typed
<1>19. CASE UNCHANGED vars
  BY <1>19, UnchangedTyped, Zenon DEF vars, Typed
<1>20. Fetch \in Task
  BY <1>0
<1> QED
  BY <1>1, <1>2, <1>3, <1>4, <1>5, <1>6, <1>7, <1>8, <1>9, <1>10, <1>11, <1>12, <1>13, <1>14,
     <1>15, <1>16, <1>17, <1>18, <1>19, <1>20, DownloadTyped, Zenon DEF Next, Start, User

-----------------------------------------------------------------------------
(* A version that was downloaded once has one download at a time, which    *)
(* asks for what its .part file lacks, and checks the whole of it.         *)
Active(d, v) == dl[d].v = v /\ dl[d].pc # "free"
Alone(v)     == \A d, e \in Task: Active(d, v) /\ Active(e, v) => d = e
Follows(d) ==
  /\ dl[d].pc = "request" => dl[d].offset = part[dl[d].v]
  /\ dl[d].pc = "body" => part[dl[d].v] = "some" /\ dl[d].to = "part"
  /\ dl[d].pc = "verify" => part[dl[d].v] = "all"
Untorn(v) == bin[v] \in {"none", "all"} /\ part[v] # "mixed"
Clean(v)  == Untorn(v) /\ Alone(v) /\ \A d \in Task: dl[d].v = v => Follows(d)
CleanInv  == \A v \in Version: v \in twice \/ Clean(v)

LEMMA CleanLocal ==
  ASSUME Typed, CleanInv, NEW d \in Task, Local(d),
         dl[d].v \notin twice => Follows(d)' /\ Untorn(dl[d].v)'
  PROVE  CleanInv'
<1> DEFINE w == dl[d].v
<1>1. ASSUME NEW e \in Task, e # d
      PROVE  /\ dl'[e].v = dl[e].v /\ dl'[e].pc = dl[e].pc /\ dl'[e].offset = dl[e].offset
             /\ dl[e].v # w => dl'[e] = dl[e]
  <2>1. PICK to \in Targets: dl'[e] = [dl[e] EXCEPT !.to = to]
    BY <1>1 DEF Local
  <2>2. dl[e] \in Attempt
    BY DEF Typed, DlTyped
  <2>3. dl'[e].v = dl[e].v /\ dl'[e].pc = dl[e].pc /\ dl'[e].offset = dl[e].offset
    BY <2>1, <2>2 DEF Attempt
  <2> QED
    BY <1>1, <2>3 DEF Local
<1>2. /\ dl'[d].v = w /\ dl[d].pc # "free" /\ twice' = twice /\ w \in Version
      /\ \A u \in Version: u # w => bin'[u] = bin[u] /\ part'[u] = part[u]
  BY DEF Local, Typed, DlTyped, Attempt
<1>3. ASSUME NEW v \in Version, v \notin twice, v = w
      PROVE  Clean(v)'
  <2>1. Clean(v) /\ Follows(d)' /\ Untorn(v)'
    <3>1. Clean(v)
      BY <1>3 DEF CleanInv
    <3> QED
      BY <1>2, <1>3, <3>1 DEF Untorn
  <2>2. \A e \in Task: e # d /\ dl[e].v = v => dl[e].pc = "free"
    BY <1>2, <1>3, <2>1 DEF Clean, Alone, Active
  <2>3. Alone(v)'
    BY <1>1, <2>2 DEF Alone, Active
  <2>4. \A e \in Task: e # d /\ dl'[e].v = v => Follows(e)'
    BY <1>1, <2>2 DEF Follows
  <2> QED
    BY <2>1, <2>3, <2>4 DEF Clean
<1>4. ASSUME NEW v \in Version, v \notin twice, v # w
      PROVE  Clean(v)'
  <2> HIDE DEF w
  <2>1. Clean(v)
    BY <1>4 DEF CleanInv
  <2>2. bin'[v] = bin[v] /\ part'[v] = part[v]
    BY <1>2, <1>4
  <2>3. \A e \in Task: dl'[e].v = v => e # d /\ dl[e].v = v /\ dl'[e] = dl[e]
    BY <1>1, <1>2, <1>4
  <2>4. Alone(v)' /\ Untorn(v)'
    BY <2>1, <2>2, <2>3 DEF Clean, Alone, Active, Untorn
  <2>5. \A e \in Task: dl'[e].v = v => Follows(e)'
    BY <2>1, <2>2, <2>3 DEF Clean, Follows
  <2> QED
    BY <2>4, <2>5 DEF Clean
<1> QED
  BY <1>2, <1>3, <1>4 DEF CleanInv

(* A binary may be removed. *)
LEMMA CleanRemoved ==
  ASSUME Typed, CleanInv, UNCHANGED <<part, dl>>, twice \subseteq twice',
         NEW x, bin' = bin \/ bin' \in Removed(x)
  PROVE  CleanInv'
<1> SUFFICES ASSUME NEW v \in Version, v \notin twice' PROVE Clean(v)'
  BY DEF CleanInv
<1>1. Clean(v)
  BY DEF CleanInv
<1>2. bin'[v] \in {bin[v], "none"}
  BY DEF Removed, Typed, FilesTyped
<1>3. Untorn(v)'
  BY <1>1, <1>2 DEF Clean, Untorn
<1>4. Alone(v)' /\ \A d \in Task: dl'[d].v = v => Follows(d)'
  BY <1>1 DEF Clean, Alone, Active, Follows
<1> QED
  BY <1>3, <1>4 DEF Clean

(* A download may begin: of a version that is nowhere, if it is the first. *)
LEMMA CleanBegun ==
  ASSUME Typed, CleanInv, UNCHANGED <<bin, part>>, NEW d \in Task, NEW v \in Version,
         Begin(v, d), \A e \in Task \ {d}: dl'[e] = dl[e],
         dl'[d].v = v, dl'[d].pc \in {"queued", "stat"}
  PROVE  CleanInv'
<1> SUFFICES ASSUME NEW u \in Version, u \notin twice' PROVE Clean(u)'
  BY DEF CleanInv
<1>1. /\ u \notin twice /\ Clean(u)
      /\ u = v => \A e \in Task \ {d}: dl[e].v = v => dl[e].pc = "free"
  BY BeginDoes DEF CleanInv
<1>2. Untorn(u)'
  BY <1>1 DEF Clean, Untorn
<1>3. Alone(u)'
  BY <1>1 DEF Clean, Alone, Active
<1>4. \A e \in Task: dl'[e].v = u => Follows(e)'
  <2> TAKE e \in Task
  <2>1. CASE e = d
    BY <2>1 DEF Follows
  <2>2. CASE e # d
    BY <1>1, <2>2 DEF Clean, Follows
  <2> QED
    BY <2>1, <2>2
<1> QED
  BY <1>2, <1>3, <1>4 DEF Clean

LEMMA CleanFreed ==
  ASSUME Typed, CleanInv, UNCHANGED <<bin, part, twice>>, NEW d \in Task,
         \A e \in Task \ {d}: dl'[e] = dl[e], dl'[d].pc = "free"
  PROVE  CleanInv'
<1> SUFFICES ASSUME NEW u \in Version, u \notin twice PROVE Clean(u)'
  BY DEF CleanInv
<1>1. Clean(u)
  BY DEF CleanInv
<1>2. Untorn(u)' /\ Alone(u)'
  BY <1>1 DEF Clean, Untorn, Alone, Active
<1>3. \A e \in Task: dl'[e].v = u => Follows(e)'
  <2> TAKE e \in Task
  <2>1. CASE e = d
    BY <2>1 DEF Follows
  <2>2. CASE e # d
    BY <1>1, <2>2 DEF Clean, Follows
  <2> QED
    BY <2>1, <2>2
<1> QED
  BY <1>2, <1>3 DEF Clean

(* The others, when d writes nothing but its own record. *)
LEMMA LocalAlone ==
  ASSUME Typed, NEW d \in Task, \A e \in Task \ {d}: dl'[e] = dl[e],
         dl'[d].v = dl[d].v, dl[d].pc # "free", twice' = twice,
         \A u \in Version: u # dl[d].v => bin'[u] = bin[u] /\ part'[u] = part[u]
  PROVE  Local(d)
<1>1. \A e \in Task: dl[e] = [dl[e] EXCEPT !.to = dl[e].to] /\ dl[e].to \in Targets
  BY DEF Typed, DlTyped, Attempt, Targets
<1> QED
  BY <1>1 DEF Local

LEMMA CleanRequest ==
  ASSUME Typed, CleanInv, NEW d \in Task, Request(d)
  PROVE  CleanInv'
<1> DEFINE v == dl[d].v
<1>0. DlTyped /\ dl[d] \in Attempt /\ v \in Version /\ "failed" \in PCs /\ dl[d].pc = "request"
      /\ part \in [Version -> Content] /\ bin' = bin /\ twice' = twice
  BY DEF Typed, DlTyped, FilesTyped, Attempt, PCs, Request, bounds
<1>1. v \notin twice => bin[v] \in {"none", "all"} /\ part[v] # "mixed" /\ dl[d].offset = part[v]
  BY <1>0 DEF CleanInv, Clean, Untorn, Follows
<1>2. ASSUME \A e \in Task \ {d}: dl'[e] = dl[e], dl'[d].v = v, part' = part,
             \/ dl'[d].pc \in {"failed", "stat"}
             \/ dl'[d].pc = "body" /\ dl'[d].to = "part" /\ dl[d].offset \in {"some", "mixed"}
      PROVE  CleanInv'
  <2>1. Local(d)
    BY <1>0, <1>2, LocalAlone
  <2>2. v \notin twice => Follows(d)' /\ Untorn(v)'
    BY <1>0, <1>1, <1>2 DEF Follows, Untorn
  <2> QED
    BY <2>1, <2>2, CleanLocal
<1>3. CASE Transient(d) /\ UNCHANGED part
  BY <1>0, <1>2, <1>3, TransientDoes
<1>4. CASE Goto(d, "failed") /\ UNCHANGED part
  <2>1. /\ \A e \in Task \ {d}: dl'[e] = dl[e]
        /\ dl'[d] = [dl[d] EXCEPT !.pc = "failed"]
    BY <1>0, <1>4, GotoDoes
  <2>2. dl'[d].v = v /\ dl'[d].pc = "failed"
    BY <1>0, <2>1 DEF Attempt
  <2> QED
    BY <1>2, <1>4, <2>1, <2>2
<1>5. CASE Partial(d)
  <2>1. /\ \A e \in Task \ {d}: dl'[e] = dl[e]
        /\ dl'[d].v = dl[d].v /\ part' = part /\ dl[d].offset \in {"some", "mixed"}
        /\ \/ dl'[d].pc = "failed"
           \/ dl'[d].pc = "body" /\ dl'[d].to = "part"
    BY <1>5, PartialDoes
  <2> QED
    BY <1>2, <2>1
<1>6. CASE Whole(d)
  <2>1. /\ \A e \in Task \ {d}: /\ \E to \in Targets: dl'[e] = [dl[e] EXCEPT !.to = to]
                                /\ dl[e].v # dl[d].v => dl'[e] = dl[e]
        /\ dl'[d].v = dl[d].v /\ dl'[d].pc = "body" /\ dl'[d].to = "part"
        /\ part' = [part EXCEPT ![dl[d].v] = "some"]
    BY <1>6, WholeDoes
  <2>2. part'[v] = "some" /\ \A u \in Version: u # v => part'[u] = part[u]
    BY <1>0, <2>1
  <2>3. Local(d)
    BY <1>0, <2>1, <2>2 DEF Local
  <2>4. v \notin twice => Follows(d)' /\ Untorn(v)'
    BY <1>0, <1>1, <2>1, <2>2 DEF Follows, Untorn
  <2> QED
    BY <2>3, <2>4, CleanLocal
<1> QED
  BY <1>3, <1>4, <1>5, <1>6 DEF Request

LEMMA CleanDownload ==
  ASSUME Typed, CleanInv, NEW d \in Task, Download(d)
  PROVE  CleanInv'
<1> DEFINE v == dl[d].v
<1>0. /\ DlTyped /\ dl[d] \in Attempt /\ v \in Version /\ "failed" \in PCs
      /\ part \in [Version -> Content] /\ bin \in [Version -> Content]
  BY DEF Typed, DlTyped, FilesTyped, Attempt, PCs
<1>1. ASSUME dl[d].pc # "free", v \notin twice
      PROVE  Untorn(v) /\ Follows(d) /\ \A e \in Task \ {d}: dl[e].v = v => dl[e].pc = "free"
  BY <1>0, <1>1 DEF CleanInv, Clean, Alone, Active
<1>2. CASE Stat(d)
  <2>1. /\ \A e \in Task \ {d}: dl'[e] = dl[e]
        /\ dl'[d] = [dl[d] EXCEPT !.pc = "request", !.offset = part[v]]
    BY <1>2, StatDoes
  <2>2. dl[d].pc = "stat" /\ UNCHANGED <<bin, part, twice>>
    BY <1>2 DEF Stat, files, bounds
  <2>3. dl'[d].v = v /\ dl'[d].pc = "request" /\ dl'[d].offset = part[v]
    BY <1>0, <2>1 DEF Attempt
  <2>4. Local(d)
    BY <2>1, <2>2, <2>3, LocalAlone
  <2>5. v \notin twice => Follows(d)' /\ Untorn(v)'
    BY <1>1, <2>2, <2>3 DEF Follows, Untorn
  <2> QED
    BY <2>4, <2>5, CleanLocal
<1>3. CASE ReadBody(d)
  <2>1. /\ \A e \in Task \ {d}: dl'[e] = dl[e]
        /\ dl'[d].v = dl[d].v /\ dl'[d].pc = "verify"
        /\ \/ /\ dl[d].to = "part" /\ bin' = bin
              /\ \E c \in Written(d, part[dl[d].v]): part' = [part EXCEPT ![dl[d].v] = c]
           \/ /\ dl[d].to = "binary" /\ part' = part
              /\ \E c \in Written(d, bin[dl[d].v]): bin' = [bin EXCEPT ![dl[d].v] = c]
           \/ dl[d].to \notin {"part", "binary"} /\ UNCHANGED <<bin, part>>
    BY <1>3, ReadBodyDoes
  <2>2. dl[d].pc = "body" /\ twice' = twice
    BY <1>3 DEF ReadBody, bounds
  <2>3. \A u \in Version: u # v => bin'[u] = bin[u] /\ part'[u] = part[u]
    BY <1>0, <2>1
  <2>4. Local(d)
    BY <2>1, <2>2, <2>3, LocalAlone
  <2>5. ASSUME v \notin twice PROVE Follows(d)' /\ Untorn(v)'
    <3>1. part[v] = "some" /\ dl[d].to = "part" /\ Untorn(v)
      BY <1>1, <2>2, <2>5 DEF Follows
    <3>2. ~Shared(d)
      BY <1>1, <2>2, <2>5 DEF Shared
    <3>3. Written(d, part[v]) = {"all"}
      BY <3>1, <3>2 DEF Written
    <3>4. part'[v] = "all" /\ bin' = bin
      BY <1>0, <2>1, <3>1, <3>3
    <3> QED
      BY <2>1, <3>1, <3>4 DEF Follows, Untorn
  <2> QED
    BY <2>4, <2>5, CleanLocal
<1>4. CASE BodyBreaks(d)
  <2>1. /\ \A e \in Task \ {d}: dl'[e] = dl[e]
        /\ dl'[d].v = dl[d].v /\ dl'[d].pc \in {"failed", "stat"}
    BY <1>0, <1>4, TransientDoes DEF BodyBreaks
  <2>2. dl[d].pc = "body" /\ UNCHANGED <<bin, part, twice>>
    BY <1>4 DEF BodyBreaks, files, bounds
  <2>4. Local(d)
    BY <2>1, <2>2, LocalAlone
  <2>5. v \notin twice => Follows(d)' /\ Untorn(v)'
    BY <1>1, <2>1, <2>2 DEF Follows, Untorn
  <2> QED
    BY <2>4, <2>5, CleanLocal
<1>5. CASE Verify(d)
  <2>0. dl[d].pc = "verify" /\ twice' = twice
    BY <1>5 DEF Verify, bounds
  <2>1. v \notin twice => Untorn(v) /\ part[v] = "all"
    BY <1>1, <2>0 DEF Follows
  <2>2. /\ \A e \in Task \ {d}: /\ \E to \in Targets: dl'[e] = [dl[e] EXCEPT !.to = to]
                                /\ dl[e].v # dl[d].v => dl'[e] = dl[e]
        /\ dl'[d].v = dl[d].v /\ dl'[d].pc \in {"stage", "failed"}
        /\ \/ UNCHANGED <<bin, part>>
           \/ bin' = bin /\ part' = [part EXCEPT ![v] = "none"]
           \/ bin' = [bin EXCEPT ![v] = part[v]] /\ part' = [part EXCEPT ![v] = "none"]
    <3>1. CASE Goto(d, "failed") /\ UNCHANGED <<bin, part, aria2_downloading>>
      <4>1. /\ \A e \in Task \ {d}: dl'[e] = dl[e]
            /\ dl'[d] = [dl[d] EXCEPT !.pc = "failed"]
        BY <1>0, <3>1, GotoDoes
      <4>2. dl'[d].v = dl[d].v /\ dl'[d].pc = "failed"
        BY <1>0, <4>1 DEF Attempt
      <4>3. \A e \in Task: dl[e] = [dl[e] EXCEPT !.to = dl[e].to] /\ dl[e].to \in Targets
        BY <1>0 DEF DlTyped, Attempt, Targets
      <4> QED
        BY <3>1, <4>1, <4>2, <4>3
    <3>2. CASE /\ part' = [part EXCEPT ![v] = "none"]
               /\ dl' = [Handles(v, FALSE) EXCEPT ![d].pc = "failed"]
               /\ UNCHANGED <<bin, aria2_downloading>>
      BY <3>2, RefusedDoes
    <3>3. CASE Rename(d)
      BY <3>3, RenameDoes
    <3> QED
      BY <1>5, <3>1, <3>2, <3>3 DEF Verify
  <2>3. /\ \A u \in Version: u # v => bin'[u] = bin[u] /\ part'[u] = part[u]
        /\ bin'[v] \in {bin[v], part[v]} /\ part'[v] \in {part[v], "none"}
    BY <1>0, <2>2
  <2>4. Local(d)
    BY <2>0, <2>2, <2>3 DEF Local
  <2>5. v \notin twice => Follows(d)' /\ Untorn(v)'
    BY <2>1, <2>2, <2>3 DEF Follows, Untorn
  <2> QED
    BY <2>4, <2>5, CleanLocal
<1>6. CASE Request(d)
  BY <1>6, CleanRequest
<1> QED
  BY <1>2, <1>3, <1>4, <1>5, <1>6 DEF Download

(* Every step by what it does to the directory and to the downloads. *)
Begins ==
  \E d \in Task, v \in Version:
    /\ Begin(v, d) /\ \A e \in Task \ {d}: dl'[e] = dl[e]
    /\ dl'[d].v = v /\ dl'[d].pc \in {"queued", "stat"}
    /\ UNCHANGED <<bin, part, pending>>
Frees ==
  \E d \in Task: /\ dl' = [dl EXCEPT ![d] = Free]
                 /\ UNCHANGED <<bin, part, pending, twice>>
Advances ==
  \E d \in Slot: TakeCommand(d) \/ ResolveChecksum(d) \/ StagePending(d)
Rests == UNCHANGED <<bin, part, dl, twice>> /\ pending' \in {pending, None}

LEMMA Steps ==
  ASSUME Typed, [Next]_vars
  PROVE  \/ ReadMarker \/ DropOld \/ Kill \/ (\E d \in Task: Download(d))
         \/ Begins \/ Frees \/ Advances \/ Rests
<1>0. Fetch \in Task /\ Slot \subseteq Task
  BY DEF Task
<1>1. CASE Start
  <2>1. CASE LookUp
    <3>1. CASE start' = "down" /\ UNCHANGED <<dl, twice>>
      BY <2>1, <3>1, Zenon DEF LookUp, Rests, files
    <3>2. CASE start' # "down" \/ ~UNCHANGED <<dl, twice>>
      <4>1. PICK sha \in {"", "good"}:
              /\ start' = "fetch" /\ Begin(latest, Fetch)
              /\ dl' = [dl EXCEPT ![Fetch] =
                   [Free EXCEPT !.pc = "stat", !.v = latest, !.sha = sha, !.left = MaxRetries]]
        BY <2>1, <3>2 DEF LookUp
      <4>2. latest \in Version
        BY DEF Typed, LatestTyped
      <4>3. /\ \A e \in Task \ {Fetch}: dl'[e] = dl[e]
            /\ dl'[Fetch].v = latest /\ dl'[Fetch].pc = "stat"
        BY <4>1, <4>2, FetchDoes
      <4>4. UNCHANGED <<bin, part, pending>>
        BY <2>1 DEF LookUp, files
      <4> QED
        BY <1>0, <4>1, <4>2, <4>3, <4>4 DEF Begins
    <3> QED
      BY <3>1, <3>2
  <2>2. CASE InstallFetched \/ FetchFailed
    <3>1. dl' = [dl EXCEPT ![Fetch] = Free] /\ UNCHANGED <<bin, part, pending, twice>>
      BY <2>2, Zenon DEF InstallFetched, FetchFailed, files, bounds
    <3> QED
      BY <1>0, <3>1 DEF Frees
  <2>3. CASE WriteInstalled \/ DropMarker \/ UseCache \/ Scan \/ Spawn
    <3>1. UNCHANGED <<bin, part, dl, twice>>
      BY <2>3, Zenon DEF WriteInstalled, DropMarker, UseCache, Scan, Spawn, files, bounds
    <3>2. pending' \in {pending, None}
      BY <2>3 DEF WriteInstalled, DropMarker, UseCache, Scan, Spawn, files
    <3> QED
      BY <3>1, <3>2 DEF Rests
  <2> QED
    BY <1>1, <2>1, <2>2, <2>3, Zenon DEF Start
<1>2. CASE User
  <2>1. CASE Restart \/ CheckUpdates \/ CancelOffer
    <3>1. UNCHANGED <<bin, part, dl, twice, pending>>
      BY <2>1, Zenon DEF Restart, CheckUpdates, CancelOffer, files, bounds
    <3> QED
      BY <3>1 DEF Rests
  <2>2. ASSUME NEW check \in checks, NothingNew(check) \/ ShowOffer(check) PROVE Rests
    <3>1. UNCHANGED <<bin, part, dl, twice, pending>>
      BY <2>2, Zenon DEF NothingNew, ShowOffer, EndCheck, files
    <3> QED
      BY <3>1 DEF Rests
  <2>3. ASSUME NEW d \in Slot, NEW v \in Version, SendDownload(v, d), UNCHANGED files
        PROVE  Begins
    <3>1. Begin(v, d) /\ d \in Task
      BY <1>0, <2>3 DEF SendDownload
    <3>2. /\ \A e \in Task \ {d}: dl'[e] = dl[e]
          /\ dl'[d].v = v /\ dl'[d].pc = "queued"
      BY <2>3, <3>1, SendDoes
    <3> QED
      BY <2>3, <3>1, <3>2 DEF Begins, files
  <2>4. ASSUME NEW d \in Slot, ApplyOffer(d) PROVE Begins
    <3>1. dialog \in Version
      <4>1. dialog # 0 /\ dialog \in 0..MaxVersion
        BY <2>4 DEF ApplyOffer, Typed, UITyped
      <4> QED
        BY <4>1, BoundAssumption DEF Version
    <3>2. SendDownload(dialog, d) /\ UNCHANGED files
      BY <2>4 DEF ApplyOffer
    <3> QED
      BY <2>3, <3>1, <3>2
  <2>5. ASSUME NEW check \in checks, NEW d \in Slot, SilentUpdate(check, d) PROVE Begins
    <3>1. latest \in Version /\ SendDownload(latest, d) /\ UNCHANGED files
      BY <2>5 DEF SilentUpdate, EndCheck, Typed, LatestTyped
    <3> QED
      BY <2>3, <3>1
  <2> QED
    BY <1>2, <2>1, <2>2, <2>4, <2>5, Zenon DEF User
<1>3. CASE \E d \in Slot: Update(d)
  <2>1. PICK d \in Slot: Update(d)
    BY <1>3
  <2>2. CASE DownloadEnded(d)
    <3>1. dl' = [dl EXCEPT ![d] = Free] /\ UNCHANGED <<bin, part, pending, twice>>
      BY <2>2, Zenon DEF DownloadEnded, files, bounds
    <3> QED
      BY <1>0, <3>1 DEF Frees
  <2> QED
    BY <1>0, <2>1, <2>2, Zenon DEF Update, Advances
<1>4. CASE Publish \/ UNCHANGED vars
  <2>1. UNCHANGED <<bin, part, dl, twice, pending>>
    BY <1>4, Zenon DEF Publish, vars, files, bounds
  <2> QED
    BY <2>1 DEF Rests
<1> QED
  BY <1>0, <1>1, <1>2, <1>3, <1>4, Zenon DEF Next

LEMMA AdvanceDoes ==
  ASSUME Typed, NEW d \in Slot, TakeCommand(d) \/ ResolveChecksum(d) \/ StagePending(d)
  PROVE  /\ \A e \in Task \ {d}: dl'[e] = dl[e]
         /\ dl'[d].v = dl[d].v /\ dl'[d].pc \in {"checksum", "stat", "staged", "failed"}
         /\ dl[d].pc \in {"queued", "checksum", "stage"} /\ UNCHANGED <<bin, part, twice>>
         /\ pending' = pending \/ (/\ dl[d].pc = "stage"
                                   /\ pending' = [version |-> dl[d].v, sha |-> dl[d].sha])
<1>0. DlTyped /\ d \in Task /\ dl[d] \in Attempt /\ {"checksum", "failed", "staged"} \subseteq PCs
  BY DEF Typed, DlTyped, Task, PCs
<1>1. CASE ResolveChecksum(d)
  <2>1. /\ \A e \in Task \ {d}: dl'[e] = dl[e]
        /\ dl'[d].v = dl[d].v /\ dl'[d].pc = "stat"
    BY <1>0, <1>1, ResolveDoes
  <2>2. dl[d].pc = "checksum" /\ UNCHANGED <<bin, part, twice, pending>>
    BY <1>1 DEF ResolveChecksum, files, bounds
  <2> QED
    BY <2>1, <2>2
<1>2. ASSUME NEW pc \in {"checksum", "staged", "failed"}, Goto(d, pc)
      PROVE  /\ \A e \in Task \ {d}: dl'[e] = dl[e]
             /\ dl'[d].v = dl[d].v /\ dl'[d].pc = pc
  <2>1. pc \in PCs
    BY DEF PCs
  <2>2. /\ \A e \in Task \ {d}: dl'[e] = dl[e]
        /\ dl'[d] = [dl[d] EXCEPT !.pc = pc]
    BY <1>0, <1>2, <2>1, GotoDoes
  <2> QED
    BY <1>0, <2>2 DEF Attempt
<1>3. CASE TakeCommand(d)
  <2>1. PICK pc \in {"checksum", "failed"}: Goto(d, pc)
    BY <1>3 DEF TakeCommand
  <2>2. dl[d].pc = "queued" /\ UNCHANGED <<bin, part, twice, pending>>
    BY <1>3 DEF TakeCommand, files, bounds
  <2> QED
    BY <1>2, <2>1, <2>2
<1>4. CASE StagePending(d)
  <2>1. PICK pc \in {"staged", "failed"}: Goto(d, pc)
    BY <1>4 DEF StagePending
  <2>2. dl[d].pc = "stage" /\ UNCHANGED <<bin, part, twice>>
        /\ (pending' = pending \/ pending' = [version |-> dl[d].v, sha |-> dl[d].sha])
    BY <1>4 DEF StagePending, bounds
  <2> QED
    BY <1>2, <2>1, <2>2
<1> QED
  BY <1>1, <1>3, <1>4

LEMMA CleanStep == Typed /\ CleanInv /\ [Next]_vars => CleanInv'
<1> SUFFICES ASSUME Typed, CleanInv, [Next]_vars PROVE CleanInv'
  OBVIOUS
<1>1. CASE ReadMarker
  <2>1. /\ UNCHANGED <<part, dl>> /\ twice \subseteq twice'
        /\ bin' = bin \/ bin' \in Removed(pending.version)
    BY <1>1 DEF ReadMarker, bounds
  <2> QED
    BY <2>1, CleanRemoved
<1>2. CASE DropOld
  <2>1. /\ UNCHANGED <<part, dl>> /\ twice \subseteq twice'
        /\ bin' = bin \/ bin' \in Removed(installed.version)
    BY <1>2 DEF DropOld, bounds
  <2> QED
    BY <2>1, CleanRemoved
<1>3. CASE Kill
  <2>1. (\A d \in Task: dl'[d].pc = "free") /\ UNCHANGED <<bin, part, twice>>
    BY <1>3 DEF Kill, Free
  <2> QED
    BY <2>1 DEF CleanInv, Clean, Untorn, Alone, Active, Follows
<1>4. CASE \E d \in Task: Download(d)
  BY <1>4, CleanDownload
<1>5. CASE Begins
  BY <1>5, CleanBegun DEF Begins
<1>6. CASE Frees
  <2>1. PICK d \in Task: dl' = [dl EXCEPT ![d] = Free] /\ UNCHANGED <<bin, part, twice>>
    BY <1>6 DEF Frees
  <2>2. (\A e \in Task \ {d}: dl'[e] = dl[e]) /\ dl'[d].pc = "free"
    BY <2>1, FreesTyped
  <2> QED
    BY <2>1, <2>2, CleanFreed
<1>7. CASE Advances
  <2>1. PICK d \in Slot: TakeCommand(d) \/ ResolveChecksum(d) \/ StagePending(d)
    BY <1>7 DEF Advances
  <2>2. /\ \A e \in Task \ {d}: dl'[e] = dl[e]
        /\ dl'[d].v = dl[d].v /\ dl'[d].pc \in {"checksum", "stat", "staged", "failed"}
        /\ dl[d].pc \in {"queued", "checksum", "stage"} /\ UNCHANGED <<bin, part, twice>>
    BY <2>1, AdvanceDoes
  <2>3. d \in Task /\ dl[d].v \in Version
    BY DEF Task, Typed, DlTyped, Attempt
  <2>4. Local(d)
    BY <2>2, <2>3, LocalAlone
  <2>5. Follows(d)'
    BY <2>2 DEF Follows
  <2>6. dl[d].v \notin twice => Untorn(dl[d].v)'
    BY <2>2, <2>3 DEF CleanInv, Clean, Untorn
  <2> QED
    BY <2>3, <2>4, <2>5, <2>6, CleanLocal
<1>8. CASE Rests
  BY <1>8, CleanRemoved DEF Rests
<1> QED
  BY <1>1, <1>2, <1>3, <1>4, <1>5, <1>6, <1>7, <1>8, Steps

-----------------------------------------------------------------------------
(* A marker never has a wrong checksum: what is promoted is what its own   *)
(* checksum was known of, and is there until the installed binary is gone. *)
PendingInv == (pending = None \/ pending.version \in Version) /\ pending.sha # "bad"
PromotingInv ==
  /\ start \in {"old", "installed", "unmark"} =>
       promoting.version \in Version /\ promoting.sha = "good"
  /\ start \in {"old", "installed"} =>
       \/ bin[promoting.version] = "all"
       \/ promoting.version \in twice
       \/ start = "installed" /\ promoting.version = installed.version

LEMMA PendingStep == Typed /\ PendingInv /\ [Next]_vars => PendingInv'
<1> SUFFICES ASSUME Typed, PendingInv, [Next]_vars PROVE PendingInv'
  OBVIOUS
<1>1. CASE pending' \in {pending, None}
  <2>1. None.sha # "bad"
    BY DEF None
  <2> QED
    BY <1>1, <2>1 DEF PendingInv
<1>2. CASE Advances
  <2>1. PICK d \in Slot: TakeCommand(d) \/ ResolveChecksum(d) \/ StagePending(d)
    BY <1>2 DEF Advances
  <2>2. pending' = pending \/ pending' = [version |-> dl[d].v, sha |-> dl[d].sha]
    BY <2>1, AdvanceDoes
  <2>3. dl[d].v \in Version /\ dl[d].sha \in {"", "good"}
    BY DEF Task, Typed, DlTyped, Attempt
  <2> DEFINE m == [version |-> dl[d].v, sha |-> dl[d].sha]
  <2>4. m.version \in Version /\ m.sha # "bad"
    BY <2>3
  <2> HIDE DEF m
  <2>5. pending' = pending \/ pending' = m
    BY <2>2 DEF m
  <2> QED
    BY <2>4, <2>5 DEF PendingInv
<1>3. CASE ReadMarker \/ DropOld \/ Kill \/ (\E d \in Task: Download(d)) \/ Begins \/ Frees \/ Rests
  <2>1. pending' \in {pending, None}
    BY <1>3 DEF ReadMarker, DropOld, Kill, Download, Stat, Request, ReadBody, BodyBreaks, Verify,
       Begins, Frees, Rests, files
  <2> QED
    BY <1>1, <2>1
<1> QED
  BY <1>2, <1>3, Steps

(* Nothing but a start removes a binary. *)
LEMMA BinaryStays ==
  ASSUME Typed, [Next]_vars, ~ReadMarker, ~DropOld, NEW v \in Version, bin[v] # "none"
  PROVE  bin'[v] # "none"
<1>0. bin \in [Version -> Content] /\ part \in [Version -> Content]
  BY DEF Typed, FilesTyped
<1>1. CASE bin' = bin
  BY <1>1
<1>2. ASSUME NEW d \in Task, Download(d) PROVE bin'[v] # "none"
  <2>1. CASE ReadBody(d)
    <3>1. \/ bin' = bin
          \/ \E c \in Written(d, bin[dl[d].v]): bin' = [bin EXCEPT ![dl[d].v] = c]
      BY <2>1, ReadBodyDoes
    <3>2. \A c: "none" \notin Written(d, c)
      BY DEF Written
    <3> QED
      BY <1>0, <3>1, <3>2
  <2>2. CASE Verify(d)
    <3>1. \/ bin' = bin
          \/ part[dl[d].v] # "none" /\ bin' = [bin EXCEPT ![dl[d].v] = part[dl[d].v]]
      BY <2>2 DEF Verify, Rename
    <3> QED
      BY <1>0, <3>1
  <2> QED
    BY <1>1, <1>2, <2>1, <2>2 DEF Download, Stat, Request, BodyBreaks, files
<1>3. CASE Advances
  BY <1>1, <1>3, AdvanceDoes DEF Advances
<1>4. CASE Kill \/ Begins \/ Frees \/ Rests
  BY <1>1, <1>4 DEF Kill, Begins, Frees, Rests
<1> QED
  BY <1>2, <1>3, <1>4, Steps

(* Where a start is in a promotion is changed by the promotion only. *)
LEMMA PromotionSteps ==
  ASSUME [Next]_vars
  PROVE  \/ ReadMarker \/ DropOld \/ WriteInstalled
         \/ start' \notin {"old", "installed", "unmark"}
         \/ UNCHANGED <<start, promoting, installed>>
<1>1. CASE Start
  BY <1>1 DEF Start, DropMarker, UseCache, Scan, LookUp, InstallFetched, FetchFailed, Spawn
<1>2. CASE User
  <2>1. CASE Restart
    BY <2>1 DEF Restart
  <2>2. CASE User /\ ~Restart
    BY <2>2, Zenon DEF User, CheckUpdates, CancelOffer, ApplyOffer, NothingNew, ShowOffer,
       SilentUpdate, EndCheck, files, engine
  <2> QED
    BY <1>2, <2>1, <2>2
<1>3. CASE Kill
  BY <1>3 DEF Kill
<1>4. CASE (\E d \in Slot: Update(d)) \/ Download(Fetch) \/ Publish \/ UNCHANGED vars
  BY <1>4, Zenon DEF Update, Download, TakeCommand, ResolveChecksum, StagePending, DownloadEnded,
     Stat, Request, ReadBody, BodyBreaks, Verify, Publish, vars, files, engine
<1> QED
  BY <1>1, <1>2, <1>3, <1>4, Zenon DEF Next

LEMMA TwiceGrows == Typed /\ [Next]_vars => twice \subseteq twice'
<1> SUFFICES ASSUME Typed, [Next]_vars PROVE twice \subseteq twice'
  OBVIOUS
<1>1. CASE Begins
  BY <1>1, BeginDoes DEF Begins
<1>2. CASE Advances
  BY <1>2, AdvanceDoes DEF Advances
<1>3. CASE ReadMarker \/ DropOld \/ Kill \/ (\E d \in Task: Download(d)) \/ Frees \/ Rests
  BY <1>3 DEF ReadMarker, DropOld, Kill, Download, Stat, Request, ReadBody, BodyBreaks, Verify,
     Frees, Rests, bounds
<1> QED
  BY <1>1, <1>2, <1>3, Steps

LEMMA PromotingStep ==
  Typed /\ CleanInv /\ CleanInv' /\ PendingInv /\ PromotingInv /\ [Next]_vars => PromotingInv'
<1> SUFFICES ASSUME Typed, CleanInv, CleanInv', PendingInv, PromotingInv, [Next]_vars
             PROVE  PromotingInv'
  OBVIOUS
<1> DEFINE p == promoting.version
<1>1. CASE ReadMarker
  <2>1. CASE pending # None /\ Verified(pending)
    <3>1. start' = "old" /\ promoting' = pending /\ bin' = bin
      BY <1>1, <2>1 DEF ReadMarker
    <3>2. pending.version \in Version /\ pending.sha = Digest(bin[pending.version])
      BY <2>1 DEF PendingInv, Verified
    <3>3. pending.sha = "good" /\ bin[pending.version] = "all"
      BY <3>2 DEF PendingInv, Digest
    <3> QED
      BY <3>1, <3>2, <3>3 DEF PromotingInv
  <2>2. CASE ~(pending # None /\ Verified(pending))
    <3>1. start' = "cache"
      BY <1>1, <2>2 DEF ReadMarker
    <3> QED
      BY <3>1 DEF PromotingInv
  <2> QED
    BY <2>1, <2>2
<1>2. CASE DropOld
  <2>1. /\ start = "old" /\ start' = "installed" /\ UNCHANGED <<promoting, twice, installed>>
        /\ bin' = bin \/ bin' \in Removed(installed.version)
    BY <1>2 DEF DropOld, bounds
  <2>2. p \in Version /\ promoting.sha = "good" /\ (bin[p] = "all" \/ p \in twice)
    BY <2>1 DEF PromotingInv
  <2>3. p # installed.version => bin'[p] = bin[p]
    BY <2>1, <2>2 DEF Removed, Typed, FilesTyped
  <2> QED
    BY <2>1, <2>2, <2>3 DEF PromotingInv
<1>3. CASE WriteInstalled
  <2>1. /\ start = "installed" /\ start' \in {"unmark", "cache"} /\ UNCHANGED promoting
    BY <1>3 DEF WriteInstalled
  <2> QED
    BY <2>1 DEF PromotingInv
<1>4. CASE ~ReadMarker /\ ~DropOld /\ UNCHANGED <<start, promoting, installed>>
  <2> SUFFICES ASSUME start \in {"old", "installed"}, bin[p] = "all", p \notin twice'
               PROVE  bin'[p] = "all"
    BY <1>4, TwiceGrows DEF PromotingInv
  <2>1. p \in Version
    BY DEF PromotingInv
  <2>2. bin'[p] # "none"
    BY <1>4, <2>1, BinaryStays
  <2>3. bin'[p] \in {"none", "all"}
    BY <2>1 DEF CleanInv, Clean, Untorn
  <2> QED
    BY <2>2, <2>3
<1>5. CASE start' \notin {"old", "installed", "unmark"}
  BY <1>5 DEF PromotingInv
<1> QED
  BY <1>1, <1>2, <1>3, <1>4, <1>5, PromotionSteps

IInv == TypeOK /\ CleanInv /\ PendingInv /\ PromotingInv

THEOREM Inductive == Spec => []IInv
<1>1. Init => IInv
  <2> SUFFICES ASSUME Init PROVE IInv
    OBVIOUS
  <2>1. TypeOK
    <3>1. /\ None \in Marker /\ Free \in Attempt /\ 1 \in Version /\ 0 \in 0..MaxVersion
          /\ 0 \in 0..MaxStarts /\ 0 \in 0..MaxChecks /\ 0 \in 0..MaxKills
      <4>1. None \in Marker /\ 0 \in 0..MaxVersion /\ 1 \in Version
        BY BoundAssumption DEF None, Marker, Version
      <4>2. 0 \in 0..MaxStarts /\ 0 \in 0..MaxChecks /\ 0 \in 0..MaxKills
        BY BoundAssumption
      <4> QED
        BY <4>1, <4>2, FreeTyped
    <3>2. FilesTyped /\ LatestTyped /\ EngineTyped /\ DlTyped
      BY <3>1 DEF Init, FilesTyped, LatestTyped, EngineTyped, DlTyped, Content
    <3>3. UITyped
      <4>1. checks \subseteq [current: 0..MaxVersion, skip: BOOLEAN]
        BY DEF Init
      <4> QED
        BY <3>1, <4>1, Zenon DEF Init, UITyped
    <3>4. BoundsTyped
      BY <3>1 DEF Init, BoundsTyped
    <3> QED
      BY <3>2, <3>3, <3>4, TypedIsTypeOK DEF Typed
  <2>2. CleanInv
    BY DEF Init, CleanInv, Clean, Untorn, Alone, Active, Follows, Free
  <2>3. PendingInv /\ PromotingInv
    BY DEF Init, PendingInv, PromotingInv, None
  <2> QED
    BY <2>1, <2>2, <2>3 DEF IInv
<1>2. IInv /\ [Next]_vars => IInv'
  <2> SUFFICES ASSUME IInv, [Next]_vars PROVE IInv'
    OBVIOUS
  <2>1. Typed /\ TypeOK'
    BY TypeStep, TypedIsTypeOK DEF IInv
  <2>2. CleanInv' /\ PendingInv'
    BY <2>1, CleanStep, PendingStep DEF IInv
  <2>3. PromotingInv'
    BY <2>1, <2>2, PromotingStep DEF IInv
  <2> QED
    BY <2>1, <2>2, <2>3 DEF IInv
<1> QED
  BY <1>1, <1>2, PTL DEF Spec

(* No file under the name of a binary is half of one, whatever is killed,  *)
(* fails or is retried (download, place_part).                             *)
THEOREM NeverTorn == Spec => []DirectoryWhole
<1>1. IInv => DirectoryWhole
  BY DEF IInv, CleanInv, Clean, Untorn, DirectoryWhole, NoTornBinary
<1> QED
  BY <1>1, Inductive, PTL

(* Only a verified download becomes the installed version                  *)
(* (apply_pending_update).                                                 *)
THEOREM VerifiedOnly == Spec => OnlyVerifiedIsPromoted
<1>1. IInv /\ [Next]_vars =>
        [start = "installed" /\ start' = "unmark" =>
           /\ installed'.sha = "good"
           /\ \/ bin[installed'.version] = "all"
              \/ installed'.version \in twice \cup {installed.version}]_vars
  <2> SUFFICES ASSUME IInv, [Next]_vars, start = "installed", start' = "unmark"
               PROVE  /\ installed'.sha = "good"
                      /\ \/ bin[installed'.version] = "all"
                         \/ installed'.version \in twice \cup {installed.version}
    OBVIOUS
  <2>1. WriteInstalled
    BY PromotionSteps DEF ReadMarker, DropOld
  <2>2. installed' = promoting
    BY <2>1 DEF WriteInstalled
  <2> QED
    BY <2>2 DEF IInv, PromotingInv
<1> QED
  BY <1>1, Inductive, PTL DEF Spec, OnlyVerifiedIsPromoted

-----------------------------------------------------------------------------
(* A download that goes on began before, but for those that begin now.     *)
LEMMA DownloadsGoOn ==
  ASSUME Typed, [Next]_vars, ~Begins
  PROVE  /\ \A e \in Slot: dl'[e].pc \notin Ended => dl[e].pc \notin Ended /\ dl'[e].v = dl[e].v
         /\ twice' = twice
<1> DEFINE GoOn == \A e \in Slot: dl'[e].pc \notin Ended =>
                                    dl[e].pc \notin Ended /\ dl'[e].v = dl[e].v
<1>0. \A e \in Slot: e \in Task /\ dl[e] \in Attempt
  BY DEF Task, Typed, DlTyped
<1>1. CASE UNCHANGED <<dl, twice>>
  BY <1>1
<1>2. ASSUME NEW d \in Task, dl[d].pc \notin Ended \cup {"free"}, dl'[d].v = dl[d].v,
             \A e \in Task \ {d}: \E to \in Targets: dl'[e] = [dl[e] EXCEPT !.to = to]
      PROVE  GoOn
  <2> SUFFICES ASSUME NEW e \in Slot, dl'[e].pc \notin Ended
               PROVE  dl[e].pc \notin Ended /\ dl'[e].v = dl[e].v
    OBVIOUS
  <2>1. CASE e = d
    BY <1>2, <2>1
  <2>2. CASE e # d
    <3>1. PICK to \in Targets: dl'[e] = [dl[e] EXCEPT !.to = to]
      BY <1>0, <1>2, <2>2
    <3>2. dl'[e].pc = dl[e].pc /\ dl'[e].v = dl[e].v
      BY <1>0, <3>1 DEF Attempt
    <3> QED
      BY <3>2
  <2> QED
    BY <2>1, <2>2
<1>3. ASSUME NEW d \in Task, \A e \in Task \ {d}: dl'[e] = dl[e]
      PROVE  \A e \in Task \ {d}: \E to \in Targets: dl'[e] = [dl[e] EXCEPT !.to = to]
  <2>1. \A e \in Task: dl[e] = [dl[e] EXCEPT !.to = dl[e].to] /\ dl[e].to \in Targets
    BY DEF Typed, DlTyped, Attempt, Targets
  <2> QED
    BY <1>3, <2>1
<1>4. ASSUME NEW d \in Task, Download(d) PROVE GoOn /\ twice' = twice
  <2>1. dl[d].pc \in {"stat", "request", "body", "verify"} /\ twice' = twice
    BY <1>4 DEF Download, Stat, Request, ReadBody, BodyBreaks, Verify, bounds
  <2>2. dl[d].pc \notin Ended \cup {"free"}
    BY <2>1 DEF Ended
  <2>3. dl[d] \in Attempt /\ DlTyped /\ "failed" \in PCs
    BY DEF Typed, DlTyped, PCs
  <2>4. CASE Goto(d, "failed")
    <3>1. (\A e \in Task \ {d}: dl'[e] = dl[e]) /\ dl'[d] = [dl[d] EXCEPT !.pc = "failed"]
      BY <2>3, <2>4, GotoDoes
    <3>2. dl'[d].v = dl[d].v
      BY <2>3, <3>1 DEF Attempt
    <3> QED
      BY <1>2, <1>3, <2>1, <2>2, <3>1, <3>2
  <2>5. CASE Stat(d)
    <3>1. /\ \A e \in Task \ {d}: dl'[e] = dl[e]
          /\ dl'[d] = [dl[d] EXCEPT !.pc = "request", !.offset = part[dl[d].v]]
      BY <2>5, StatDoes
    <3>2. dl'[d].v = dl[d].v
      BY <2>3, <3>1 DEF Attempt
    <3> QED
      BY <1>2, <1>3, <2>1, <2>2, <3>1, <3>2
  <2>6. CASE Transient(d)
    BY <1>2, <1>3, <2>1, <2>2, <2>3, <2>6, TransientDoes
  <2>7. CASE Partial(d)
    BY <1>2, <1>3, <2>1, <2>2, <2>7, PartialDoes
  <2>8. CASE Whole(d)
    BY <1>2, <2>1, <2>2, <2>8, WholeDoes
  <2>9. CASE ReadBody(d)
    BY <1>2, <1>3, <2>1, <2>2, <2>9, ReadBodyDoes
  <2>10. CASE dl' = [Handles(dl[d].v, FALSE) EXCEPT ![d].pc = "failed"]
    BY <1>2, <2>1, <2>2, <2>10, RefusedDoes
  <2>11. CASE Rename(d)
    BY <1>2, <2>1, <2>2, <2>11, RenameDoes
  <2> QED
    BY <1>4, <2>4, <2>5, <2>6, <2>7, <2>8, <2>9, <2>10, <2>11
       DEF Download, Request, BodyBreaks, Verify
<1>5. CASE Advances
  <2>1. PICK d \in Slot: TakeCommand(d) \/ ResolveChecksum(d) \/ StagePending(d)
    BY <1>5 DEF Advances
  <2>2. /\ \A e \in Task \ {d}: dl'[e] = dl[e]
        /\ dl'[d].v = dl[d].v
        /\ dl[d].pc \in {"queued", "checksum", "stage"} /\ UNCHANGED <<bin, part, twice>>
    BY <2>1, AdvanceDoes
  <2>3. dl[d].pc \notin Ended \cup {"free"}
    BY <2>2 DEF Ended
  <2> QED
    BY <1>0, <1>2, <1>3, <2>2, <2>3
<1>6. CASE Frees
  <2>1. PICK d \in Task: dl' = [dl EXCEPT ![d] = Free] /\ UNCHANGED <<bin, part, twice>>
    BY <1>6 DEF Frees
  <2>2. (\A e \in Task \ {d}: dl'[e] = dl[e]) /\ dl'[d].pc = "free"
    BY <2>1, FreesTyped
  <2> QED
    BY <1>0, <2>1, <2>2 DEF Ended
<1>7. CASE Kill
  BY <1>0, <1>7 DEF Kill, Free, Ended
<1>8. CASE ReadMarker \/ DropOld \/ Rests
  BY <1>1, <1>8 DEF ReadMarker, DropOld, Rests, bounds
<1> QED
  BY <1>4, <1>5, <1>6, <1>7, <1>8, Steps

(* A safe binary stays uncontested. *)
LEMMA StaysUncontested ==
  ASSUME Typed, [Next]_vars, twice' = twice, NEW v \in Version, ~Contested(v), bin[v] = "all"
  PROVE  ~Contested(v)'
<1>1. CASE Begins
  <2>1. PICK d \in Task, u \in Version:
          /\ Begin(u, d) /\ \A e \in Task \ {d}: dl'[e] = dl[e]
          /\ dl'[d].v = u /\ UNCHANGED <<bin, part, pending>>
    BY <1>1 DEF Begins
  <2>2. v # u
    <3> SUFFICES ASSUME v = u PROVE FALSE
      OBVIOUS
    <3>1. twice' = twice \cup {v}
      BY <2>1 DEF Begin
    <3> QED
      BY <3>1 DEF Contested
  <2> QED
    BY <2>1, <2>2 DEF Contested, Task
<1>2. CASE ~Begins
  <2>1. \A e \in Slot: dl'[e].pc \notin Ended => dl[e].pc \notin Ended /\ dl'[e].v = dl[e].v
    BY <1>2, DownloadsGoOn
  <2>2. ~(pending'.version = v /\ pending'.sha = "")
    <3>1. CASE pending' = pending
      BY <3>1 DEF Contested
    <3>2. CASE pending' = None
      <4>1. None.version = 0 /\ v # 0
        BY BoundAssumption DEF None, Version
      <4> QED
        BY <3>2, <4>1
    <3>3. CASE Advances
      <4>1. PICK d \in Slot: TakeCommand(d) \/ ResolveChecksum(d) \/ StagePending(d)
        BY <3>3 DEF Advances
      <4>2. pending' = pending \/ (/\ dl[d].pc = "stage"
                                   /\ pending' = [version |-> dl[d].v, sha |-> dl[d].sha])
        BY <4>1, AdvanceDoes
      <4>3. dl[d].pc = "stage" => dl[d].v # v
        BY DEF Contested, Ended
      <4>4. pending' # pending => pending'.version = dl[d].v
        BY <4>2
      <4> QED
        BY <3>1, <4>2, <4>3, <4>4
    <3>4. CASE ReadMarker \/ DropOld \/ Kill \/ (\E d \in Task: Download(d)) \/ Frees \/ Rests
      <4>1. pending' \in {pending, None}
        BY <3>4 DEF ReadMarker, DropOld, Kill, Download, Stat, Request, ReadBody, BodyBreaks,
           Verify, Frees, Rests, files
      <4> QED
        BY <3>1, <3>2, <4>1
    <3> QED
      BY <1>2, <3>3, <3>4, Steps
  <2> QED
    BY <2>1, <2>2 DEF Contested
<1> QED
  BY <1>1, <1>2

(* A whole binary that is safe is lost by a promotion of the version that  *)
(* is installed already or that is contested, and by another download of   *)
(* its version: by no failure and no kill (apply_pending_update).          *)
THEOREM BinaryKept == Spec => LastBinaryKept
<1> DEFINE Lost == SafeOnDisk /\ ~SafeOnDisk'
                     => \/ PromotesInstalled \/ twice' # twice
                        \/ start = "old" /\ Contested(promoting.version)
<1>1. IInv /\ CleanInv' /\ [Next]_vars => Lost
  <2> SUFFICES ASSUME IInv, CleanInv', [Next]_vars, SafeOnDisk, twice' = twice,
                      ~PromotesInstalled,
                      ~(start = "old" /\ Contested(promoting.version))
               PROVE  SafeOnDisk'
    OBVIOUS
  <2>0. Typed /\ PendingInv /\ PromotingInv
    BY TypedIsTypeOK DEF IInv
  <2>1. PICK v \in Version: bin[v] = "all" /\ ~Contested(v)
    BY DEF SafeOnDisk
  <2>2. ~Contested(v)'
    BY <2>0, <2>1, StaysUncontested
  <2>3. v \notin twice
    BY <2>1 DEF Contested
  <2>4. ASSUME bin'[v] = bin[v] PROVE SafeOnDisk'
    BY <2>1, <2>2, <2>4 DEF SafeOnDisk
  <2>5. CASE ReadMarker
    <3>1. CASE pending = None \/ Verified(pending)
      BY <2>4, <2>5, <3>1 DEF ReadMarker
    <3>2. CASE pending # None /\ ~Verified(pending)
      <4>1. pending.version # v
        <5> SUFFICES ASSUME pending.version = v PROVE FALSE
          OBVIOUS
        <5>1. pending.sha \in {"", "good", "bad"}
          BY <2>0 DEF Typed, FilesTyped, Marker
        <5>2. pending.sha = "good"
          BY <2>0, <2>1, <5>1 DEF Contested, PendingInv
        <5> QED
          BY <2>1, <3>2, <5>2 DEF Verified, Digest
      <4>2. bin' \in Removed(pending.version)
        BY <2>5, <3>2 DEF ReadMarker
      <4>3. bin'[v] = bin[v]
        BY <2>0, <4>1, <4>2 DEF Removed, Typed, FilesTyped
      <4> QED
        BY <2>4, <4>3
    <3> QED
      BY <3>1, <3>2
  <2>6. CASE DropOld
    <3> DEFINE p == promoting.version
    <3>1. start = "old" /\ p # installed.version /\ ~Contested(p)
      BY <2>6 DEF DropOld, PromotesInstalled
    <3>2. p \in Version /\ bin[p] = "all"
      BY <2>0, <3>1 DEF PromotingInv, Contested
    <3>3. bin' = bin \/ bin' \in Removed(installed.version)
      BY <2>6 DEF DropOld
    <3>4. bin'[p] = "all"
      BY <2>0, <3>1, <3>2, <3>3 DEF Removed, Typed, FilesTyped
    <3>5. ~Contested(p)'
      BY <2>0, <3>1, <3>2, StaysUncontested, <2>6 DEF DropOld
    <3>6. promoting' = promoting
      BY <2>6 DEF DropOld
    <3> QED
      BY <3>2, <3>4, <3>5, <3>6 DEF SafeOnDisk
  <2>7. CASE ~ReadMarker /\ ~DropOld
    <3>1. bin'[v] # "none"
      BY <2>0, <2>1, <2>7, BinaryStays
    <3>2. bin'[v] \in {"none", "all"}
      BY <2>3 DEF CleanInv, Clean, Untorn
    <3> QED
      BY <2>1, <2>4, <3>1, <3>2
  <2> QED
    BY <2>5, <2>6, <2>7
<1>2. IInv /\ IInv' /\ [Next]_vars => [Lost]_vars
  BY <1>1 DEF IInv
<1> HIDE DEF Lost
<1>3. Spec => [][Lost]_vars
  BY <1>2, Inductive, PTL DEF Spec
<1> QED
  BY <1>3 DEF Lost, LastBinaryKept

=============================================================================
