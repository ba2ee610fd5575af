-------------------------- MODULE AppUpdateProofs --------------------------
(***************************************************************************)
(* Proofs about two dialogs over the window.  The first part is about      *)
(* AppUpdate, for any releases, and for any number of checks, of retries   *)
(* and of ends of the program; the second about Intake, for any texts,     *)
(* torrents and requests.                                                  *)
(***************************************************************************)
EXTENDS AppUpdate, Intake, FiniteSetTheorems, TLAPS

(* What is under way, or offered, is newer than the program that runs, by  *)
(* the comparison of the code; only a file from the directory may be       *)
(* nameless, on Windows.  The program that runs stays the same until it    *)
(* ends, and then nothing is under way.                                    *)
Newer(v) == v = NoVersion \/ VersionGt(v, running)
Ready(v) == IF v = Nameless THEN kind = "WindowsSetup" ELSE Newer(v)
NewerInv ==
  running # NoVersion =>
    /\ \A v \in toasts: Ready(v)
    /\ \A d \in downloads: Newer(d.of)
    /\ \A c \in checks: Ready(c.found)
    /\ Newer(swap.of) /\ Newer(offer)
DownInv ==
  running = NoVersion =>
    toasts = {} /\ downloads = {} /\ checks = {} /\ offer = NoVersion /\ swap = NoSwap

(* Between the two renames the image is the one that was put aside. *)
SwapInv ==
  /\ swap.at = "aside" => bak # NoVersion /\ swap.of # NoVersion
  /\ swap.at = "placed" => target # NoVersion
  /\ target # NoVersion \/ bak # NoVersion

(* The flag is up exactly as long as the one download. *)
DownloadInv ==
  /\ app_update_in_flight => \E d \in downloads: downloads = {d}
  /\ ~app_update_in_flight => downloads = {}

(* A closed dialog has no changelog; every fetch was begun by a check that *)
(* was answered or by a retry.                                             *)
DialogInv ==
  /\ shown = "closed" => changelog = "none"
  /\ changelog = "loading" => fetches > 0
CountInv ==
  /\ IsFiniteSet(checks)
  /\ fetches + Cardinality(checks) <= started + retries

IInv == NewerInv /\ DownInv /\ SwapInv /\ DownloadInv /\ DialogInv /\ CountInv

-----------------------------------------------------------------------------
LEMMA Constants ==
  /\ Len(Releases) \in Nat \ {0}
  /\ DOMAIN Releases = 1..Len(Releases)
  /\ \A i \in 1..Len(Releases): Releases[i] \in Version
  /\ Installed \in Version /\ NoVersion \notin Version
  /\ Nameless \notin Version /\ Nameless # NoVersion
  /\ MaxChecks \in Nat /\ MaxRetries \in Nat /\ MaxKills \in Nat
<1> DEFINE R == [core: Seq(Nat) \ {<<>>}, pre: Seq(Identifier)]
<1>1. Releases \in Seq(R) /\ Releases # <<>>
  BY ConstAssumption
<1>2. NoVersion \notin R /\ Nameless \notin R /\ Nameless # NoVersion
  <2>1. NoVersion.core = <<>> /\ Nameless.core = <<>> /\ Len(NoVersion.pre) = 0 /\ Len(Nameless.pre) = 1
    BY DEF NoVersion, Nameless
  <2> QED
    BY <2>1
<1> HIDE DEF R
<1>3. Len(Releases) \in Nat \ {0} /\ DOMAIN Releases = 1..Len(Releases)
  BY <1>1
<1>4. \A i \in 1..Len(Releases): Releases[i] \in R /\ Releases[i] \in Version
  BY <1>1, <1>3 DEF Version, Range
<1>5. \A v \in Version: v \in R
  BY <1>3, <1>4 DEF Version, Range
<1> QED
  BY <1>2, <1>3, <1>4, <1>5, ConstAssumption DEF Installed

(* The state by the tuples in which the actions leave it alone. *)
DiskTyped ==
  /\ kind \in {"AppImage", "WindowsSetup", "Deb"} /\ beta \in BOOLEAN /\ silent \in BOOLEAN
  /\ target \in Maybe /\ bak \in Maybe /\ packages \subseteq Package /\ installers \subseteq Package
RunTyped == running \in Maybe
SwapTyped == swap \in [of: Maybe, at: {"idle", "aside", "placed"}]
CheckTyped ==
  /\ checks \subseteq [id: 0..MaxChecks, found: Maybe \cup {Nameless}] /\ \A c \in checks: c.id < started
  /\ update_check_in_flight \in BOOLEAN /\ started \in 0..MaxChecks
DialogTyped ==
  /\ offer \in Maybe /\ shown \in {"closed", "open", "leaving"}
  /\ (shown = "closed") = (offer = NoVersion)
  /\ changelog \in {"none", "loading", "shown", "failed"}
  /\ fetches \in 0..(MaxChecks + MaxRetries) /\ retries \in 0..MaxRetries
FetchTyped == downloads \subseteq [of: Version, nth: Nat] /\ app_update_in_flight \in BOOLEAN
ToastsTyped == toasts \subseteq Package
WorldTyped == published \in 1..Len(Releases)
KillsTyped == kills \in 0..MaxKills

Typed ==
  /\ DiskTyped /\ RunTyped /\ SwapTyped /\ CheckTyped /\ DialogTyped /\ FetchTyped
  /\ ToastsTyped /\ WorldTyped /\ KillsTyped

LEMMA TypedIsTypeOK == Typed <=> TypeOK
BY Zenon DEF Typed, TypeOK, DiskTyped, RunTyped, SwapTyped, CheckTyped, DialogTyped, FetchTyped,
       ToastsTyped, WorldTyped, KillsTyped

LEMMA UnchangedTyped ==
  ASSUME Typed
  PROVE  /\ UNCHANGED disk => DiskTyped'
         /\ UNCHANGED running => RunTyped'
         /\ UNCHANGED swap => SwapTyped'
         /\ UNCHANGED check => CheckTyped'
         /\ UNCHANGED dialog => DialogTyped'
         /\ UNCHANGED fetch => FetchTyped'
         /\ UNCHANGED toasts => ToastsTyped'
         /\ UNCHANGED published => WorldTyped'
         /\ UNCHANGED kills => KillsTyped'
BY DEF Typed, DiskTyped, RunTyped, SwapTyped, CheckTyped, DialogTyped, FetchTyped,
       ToastsTyped, WorldTyped, KillsTyped, disk, check, dialog, fetch

(* The parts of the invariant that a step leaves alone with its variables. *)
LEMMA UnchangedInv ==
  ASSUME IInv
  PROVE  /\ UNCHANGED <<kind, running, toasts, downloads, checks, swap, offer>> => NewerInv' /\ DownInv'
         /\ UNCHANGED <<swap, target, bak>> => SwapInv'
         /\ UNCHANGED fetch => DownloadInv'
         /\ UNCHANGED <<shown, changelog, fetches>> => DialogInv'
         /\ UNCHANGED <<checks, fetches, started, retries>> => CountInv'
BY DEF IInv, NewerInv, Newer, Ready, DownInv, SwapInv, DownloadInv, DialogInv, CountInv, fetch

-----------------------------------------------------------------------------
(* What is found in the directory, or on GitHub. *)

LEMMA Found ==
  ASSUME Typed, NEW version, NEW v \in FindPending(version)
  PROVE  /\ v \in Maybe \cup {Nameless}
         /\ IF v = Nameless THEN kind = "WindowsSetup"
                            ELSE v = NoVersion \/ VersionGt(v, version)
<1> DEFINE named == Candidates \ {Nameless}
           best == {u \in named: \A w \in named: ~CoreGt(w, u)}
<1>1. named \subseteq Version
  BY Constants DEF Candidates, Package, Typed, DiskTyped
<1>2. best \subseteq Version /\ \A u \in best \cup {NoVersion}: u # Nameless
  BY <1>1, Constants
<1>3. CASE best = {}
  <2>1. v = NoVersion \/ (v = Nameless /\ kind = "WindowsSetup")
    BY <1>3, Zenon DEF FindPending
  <2> QED
    BY <2>1, Constants DEF Maybe
<1>4. CASE best # {}
  <2>1. PICK u \in best: v = IF VersionGt(u, version) THEN u ELSE NoVersion
    BY <1>4, Zenon DEF FindPending
  <2> QED
    BY <1>2, <2>1 DEF Maybe
<1> QED
  BY <1>3, <1>4

LEMMA Latest == ASSUME Typed PROVE LatestAsset \subseteq Version
<1>1. published \in 1..Len(Releases)
  BY DEF Typed, WorldTyped
<1>2. \A i \in 1..published: Releases[i] \in Version
  BY <1>1, Constants
<1> QED
  BY <1>2 DEF LatestAsset, Stable, Recent

LEMMA ToastIs ==
  ASSUME NEW v
  PROVE  \A u \in WithToast(v): u \in toasts \/ (u = v /\ v # NoVersion)
BY DEF WithToast

LEMMA KickOffDoes ==
  ASSUME Typed, DownloadInv, ~app_update_in_flight, NEW v \in Version, KickOff(v)
  PROVE  /\ FetchTyped' /\ DownloadInv'
         /\ \A d \in downloads': d.of = v
<1> DEFINE n == Cardinality(downloads)
           d == [of |-> v, nth |-> n]
<1>1. downloads = {} /\ n = 0
  BY FS_EmptySet DEF DownloadInv
<1>2. downloads' = {d} /\ app_update_in_flight' = TRUE
  BY <1>1 DEF KickOff
<1>3. d \in [of: Version, nth: Nat] /\ d.of = v
  BY <1>1
<1> HIDE DEF d
<1> QED
  BY <1>2, <1>3 DEF FetchTyped, DownloadInv

(* An answer to a check. *)
LEMMA CheckEnds ==
  ASSUME Typed, CountInv, NEW c \in checks, checks' = checks \ {c}
  PROVE  IsFiniteSet(checks)' /\ Cardinality(checks)' = Cardinality(checks) - 1
         /\ Cardinality(checks) \in Nat /\ Cardinality(checks)' \in Nat
BY FS_RemoveElement, FS_CardinalityType DEF CountInv

-----------------------------------------------------------------------------
(* The steps. *)

(* While the program runs only what is new must be newer. *)
LEMMA Running ==
  ASSUME IInv, running # NoVersion, UNCHANGED running, UNCHANGED kind,
         \A v \in toasts': v \in toasts \/ Ready(v),
         \A d \in downloads': d \in downloads \/ Newer(d.of),
         \A c \in checks': c \in checks \/ Ready(c.found),
         swap'.of = swap.of \/ Newer(swap'.of),
         offer' = offer \/ Newer(offer')
  PROVE  NewerInv' /\ DownInv'
<1>1. \A v: (Newer(v) => Newer(v)') /\ (Ready(v) => Ready(v)')
  BY DEF Newer, Ready
<1> QED
  BY <1>1 DEF IInv, NewerInv, DownInv

LEMMA CheckUpdatesKeeps ==
  ASSUME Typed, IInv, CheckUpdates
  PROVE  Typed' /\ IInv'
<1>1. PICK found \in FindPending(running): checks' = checks \cup {[id |-> started, found |-> found]}
  BY Zenon DEF CheckUpdates
<1> DEFINE c == [id |-> started, found |-> found]
<1>2. found \in Maybe \cup {Nameless} /\ Ready(found)
  BY <1>1, Found DEF Newer, Ready
<1>3. started \in 0..MaxChecks /\ started < MaxChecks /\ MaxChecks \in Nat /\ started' = started + 1
  BY Constants DEF CheckUpdates, Typed, CheckTyped
<1>4. c \in [id: 0..MaxChecks, found: Maybe \cup {Nameless}] /\ c.id = started /\ c.found = found
  BY <1>2, <1>3
<1>5. c \notin checks
  BY <1>3, <1>4 DEF Typed, CheckTyped
<1> HIDE DEF c
<1>6. checks' = checks \cup {c}
  BY <1>1 DEF c
<1>7. CheckTyped'
  <2>1. checks' \subseteq [id: 0..MaxChecks, found: Maybe \cup {Nameless}]
    BY <1>4, <1>6 DEF Typed, CheckTyped
  <2>2. \A x \in checks': x.id < started'
    <3>1. \A x \in checks: x.id \in 0..MaxChecks /\ x.id < started
      BY DEF Typed, CheckTyped
    <3> QED
      BY <1>3, <1>4, <1>6, <3>1
  <2>3. started' \in 0..MaxChecks
    BY <1>3
  <2>4. update_check_in_flight' \in BOOLEAN
    BY DEF CheckUpdates
  <2> QED
    BY <2>1, <2>2, <2>3, <2>4 DEF CheckTyped
<1>8. CountInv'
  <2>1. IsFiniteSet(checks') /\ Cardinality(checks') = Cardinality(checks) + 1
    BY <1>5, <1>6, FS_AddElement DEF IInv, CountInv
  <2>2. Cardinality(checks) \in Nat /\ fetches \in Nat /\ retries \in Nat
    BY FS_CardinalityType, Constants DEF IInv, CountInv, Typed, DialogTyped
  <2>3. fetches' = fetches /\ retries' = retries
    BY DEF CheckUpdates, dialog
  <2> QED
    BY <1>3, <2>1, <2>2, <2>3 DEF IInv, CountInv
<1>9. NewerInv' /\ DownInv'
  BY <1>2, <1>4, <1>6, Running DEF CheckUpdates, Idle, fetch, dialog, disk
<1>10. Typed'
  BY <1>7, UnchangedTyped, Zenon DEF Typed, CheckUpdates
<1>11. UNCHANGED <<swap, target, bak>> /\ UNCHANGED fetch /\ UNCHANGED <<shown, changelog, fetches>>
  BY DEF CheckUpdates, disk, dialog
<1> QED
  BY <1>8, <1>9, <1>10, <1>11, UnchangedInv DEF IInv

LEMMA UpdateResultKeeps ==
  ASSUME Typed, IInv, Idle, NEW c \in checks, NEW newer \in Maybe, Newer(newer),
         UpdateResult(c, newer)
  PROVE  Typed' /\ IInv'
<1>1. /\ checks' = checks \ {c} /\ update_check_in_flight' = FALSE /\ toasts' = WithToast(c.found)
      /\ UNCHANGED <<disk, running, swap, started, retries, published, kills>>
  BY Zenon DEF UpdateResult
<1>2. Ready(c.found) /\ (c.found # NoVersion => c.found \in Package)
  BY DEF Typed, CheckTyped, Maybe, Package, IInv, NewerInv, Idle
<1>3. newer # NoVersion => newer \in Version
  BY DEF Maybe
<1>4. /\ Cardinality(checks') = Cardinality(checks) - 1
      /\ Cardinality(checks) \in Nat /\ Cardinality(checks') \in Nat /\ IsFiniteSet(checks')
      /\ fetches + Cardinality(checks) <= started + retries
  BY <1>1, CheckEnds DEF IInv, CountInv
<1>5. /\ fetches \in Nat /\ started \in Nat /\ retries \in Nat
      /\ started <= MaxChecks /\ retries <= MaxRetries /\ MaxChecks \in Nat /\ MaxRetries \in Nat
  BY Constants DEF Typed, CheckTyped, DialogTyped
<1>6. FetchTyped' /\ DownloadInv' /\ \A d \in downloads': d \in downloads \/ d.of = newer
  <2>1. CASE newer # NoVersion /\ silent /\ ~app_update_in_flight
    <3>1. KickOff(newer)
      BY <2>1, Zenon DEF UpdateResult, SilentDownload
    <3> QED
      BY <1>3, <2>1, <3>1, KickOffDoes DEF IInv
  <2>2. CASE ~(newer # NoVersion /\ silent /\ ~app_update_in_flight)
    <3>1. UNCHANGED fetch
      BY <2>2, Zenon DEF UpdateResult, SilentDownload
    <3> QED
      BY <3>1, UnchangedTyped, UnchangedInv DEF fetch
  <2> QED
    BY <2>1, <2>2
<1>7. /\ DialogTyped' /\ DialogInv' /\ fetches' \in {fetches, fetches + 1}
      /\ offer' \in {offer, newer}
  <2>1. CASE newer # NoVersion /\ ~silent
    <3>1. /\ offer' = newer /\ shown' = "open" /\ changelog' = "loading"
          /\ fetches' = fetches + 1 /\ retries' = retries
      BY <1>1, <2>1, Zenon DEF UpdateResult, FetchChangelog
    <3>2. fetches + 1 \in 0..(MaxChecks + MaxRetries) /\ fetches + 1 > 0
      BY <1>4, <1>5
    <3>3. DialogTyped'
      BY <2>1, <3>1, <3>2 DEF DialogTyped, Typed
    <3> QED
      BY <3>1, <3>2, <3>3 DEF DialogInv
  <2>2. CASE ~(newer # NoVersion /\ ~silent)
    <3>1. UNCHANGED <<offer, shown, changelog, fetches, retries>>
      BY <1>1, <2>2, Zenon DEF UpdateResult
    <3> QED
      BY <3>1, UnchangedTyped, UnchangedInv DEF dialog
  <2> QED
    BY <2>1, <2>2
<1>8. CountInv'
  BY <1>1, <1>4, <1>5, <1>7 DEF CountInv
<1>9. ToastsTyped' /\ \A v \in toasts': v \in toasts \/ Ready(v)
  BY <1>1, <1>2, ToastIs DEF Typed, ToastsTyped
<1>10. CheckTyped'
  BY <1>1 DEF Typed, CheckTyped
<1>11. NewerInv' /\ DownInv'
  BY <1>1, <1>6, <1>7, <1>9, Running DEF Idle, disk
<1>12. SwapInv'
  BY <1>1, UnchangedInv DEF disk
<1>13. Typed'
  BY <1>1, <1>6, <1>7, <1>9, <1>10, UnchangedTyped, Zenon DEF Typed
<1> QED
  BY <1>6, <1>7, <1>8, <1>11, <1>12, <1>13 DEF IInv

LEMMA CheckKeeps ==
  ASSUME Typed, IInv, CheckAnswered \/ CheckTimesOut \/ EngineUpdateApplied
  PROVE  Typed' /\ IInv'
<1>1. CASE CheckAnswered
  <2>1. PICK c \in checks: \E latest \in IF c.found = NoVersion THEN LatestAsset ELSE {NoVersion}:
          UpdateResult(c, IF VersionGt(latest, running) THEN latest ELSE NoVersion)
    BY <1>1, Zenon DEF CheckAnswered
  <2>2. PICK latest \in LatestAsset \cup {NoVersion}:
          UpdateResult(c, IF VersionGt(latest, running) THEN latest ELSE NoVersion)
    BY <2>1
  <2> DEFINE newer == IF VersionGt(latest, running) THEN latest ELSE NoVersion
  <2>3. newer \in Maybe /\ Newer(newer)
    BY Latest DEF Maybe, Newer
  <2>4. Idle
    BY <1>1 DEF CheckAnswered
  <2>5. UpdateResult(c, newer)
    BY <2>2
  <2> HIDE DEF newer
  <2> QED
    BY <2>3, <2>4, <2>5, UpdateResultKeeps
<1>2. CASE CheckTimesOut
  <2>1. PICK c \in checks: UpdateResult(c, NoVersion)
    BY <1>2, Zenon DEF CheckTimesOut
  <2>2. Idle /\ NoVersion \in Maybe /\ Newer(NoVersion)
    BY <1>2 DEF CheckTimesOut, Maybe, Newer
  <2> QED
    BY <2>1, <2>2, UpdateResultKeeps
<1>3. CASE EngineUpdateApplied
  <2>1. CheckTyped'
    BY <1>3 DEF EngineUpdateApplied, Typed, CheckTyped
  <2>2. UNCHANGED <<kind, running, toasts, downloads, checks, swap, offer>>
        /\ UNCHANGED <<swap, target, bak>> /\ UNCHANGED fetch
        /\ UNCHANGED <<shown, changelog, fetches>>
        /\ UNCHANGED <<checks, fetches, started, retries>>
    BY <1>3 DEF EngineUpdateApplied, disk, dialog, fetch
  <2>3. Typed'
    BY <1>3, <2>1, UnchangedTyped, Zenon DEF Typed, EngineUpdateApplied
  <2> QED
    BY <2>2, <2>3, UnchangedInv DEF IInv
<1> QED
  BY <1>1, <1>2, <1>3

(* The dialog. *)
LEMMA ChangelogKeeps ==
  ASSUME Typed, IInv, UpdateChangelogLoaded \/ RetryChangelog
  PROVE  Typed' /\ IInv'
<1>1. /\ fetches \in Nat /\ retries \in Nat /\ started \in Nat /\ Cardinality(checks) \in Nat
      /\ started <= MaxChecks /\ retries <= MaxRetries /\ MaxChecks \in Nat /\ MaxRetries \in Nat
      /\ fetches <= MaxChecks + MaxRetries
      /\ fetches + Cardinality(checks) <= started + retries /\ IsFiniteSet(checks)
  BY Constants, FS_CardinalityType DEF Typed, CheckTyped, DialogTyped, IInv, CountInv
<1>2. /\ UNCHANGED <<disk, running, swap, check, offer, shown, fetch, toasts, published, kills>>
  BY Zenon DEF UpdateChangelogLoaded, RetryChangelog
<1>3. DialogTyped' /\ DialogInv' /\ CountInv'
  <2>1. CASE UpdateChangelogLoaded
    <3>1. /\ fetches' = fetches - 1 /\ fetches > 0 /\ retries' = retries
          /\ changelog' \in {changelog, "shown", "failed"}
          /\ shown = "closed" => changelog' = changelog
          /\ shown # "closed" => changelog' # "loading"
      BY <2>1 DEF UpdateChangelogLoaded, Answers
    <3>2. DialogTyped'
      <4>1. fetches' \in 0..(MaxChecks + MaxRetries)
        BY <1>1, <3>1
      <4> QED
        BY <1>2, <3>1, <4>1 DEF Typed, DialogTyped
    <3>3. DialogInv'
      BY <1>2, <3>1 DEF IInv, DialogInv
    <3>4. CountInv'
      BY <1>1, <1>2, <3>1 DEF CountInv, check
    <3> QED
      BY <3>2, <3>3, <3>4
  <2>2. CASE RetryChangelog
    <3>1. /\ fetches' = fetches + 1 /\ retries' = retries + 1 /\ retries < MaxRetries
          /\ changelog' = "loading" /\ shown = "open"
      BY <2>2 DEF RetryChangelog, FetchChangelog
    <3>2. DialogTyped'
      <4>1. fetches' \in 0..(MaxChecks + MaxRetries) /\ retries' \in 0..MaxRetries
        BY <1>1, <3>1
      <4> QED
        BY <1>2, <3>1, <4>1 DEF Typed, DialogTyped
    <3>3. DialogInv'
      BY <1>1, <1>2, <3>1 DEF IInv, DialogInv
    <3>4. CountInv'
      BY <1>1, <1>2, <3>1 DEF CountInv, check
    <3> QED
      BY <3>2, <3>3, <3>4
  <2> QED
    BY <2>1, <2>2
<1>4. Typed'
  BY <1>2, <1>3, UnchangedTyped, Zenon DEF Typed
<1>5. NewerInv' /\ DownInv' /\ SwapInv' /\ DownloadInv'
  BY <1>2, UnchangedInv DEF check, disk, fetch
<1> QED
  BY <1>3, <1>4, <1>5 DEF IInv

LEMMA DialogKeeps ==
  ASSUME Typed, IInv, UpdateDialogCancel \/ UpdateDialogGone \/ UpdateDialogApply
  PROVE  Typed' /\ IInv'
<1>1. /\ running # NoVersion
      /\ UNCHANGED <<disk, running, swap, check, fetches, retries, toasts, published, kills>>
  BY DEF UpdateDialogCancel, UpdateDialogGone, UpdateDialogApply, Idle
<1>2. DialogTyped' /\ DialogInv' /\ offer' \in {offer, NoVersion}
  BY <1>1 DEF UpdateDialogCancel, UpdateDialogGone, UpdateDialogApply, Typed, DialogTyped, Maybe,
       IInv, DialogInv
<1>3. FetchTyped' /\ DownloadInv' /\ \A d \in downloads': d \in downloads \/ d.of = offer
  <2>1. CASE UpdateDialogApply
    <3>1. ~app_update_in_flight /\ offer \in Version /\ KickOff(offer)
      BY <2>1 DEF UpdateDialogApply, Typed, DialogTyped, Maybe
    <3> QED
      BY <3>1, KickOffDoes DEF IInv
  <2>2. CASE UpdateDialogCancel \/ UpdateDialogGone
    <3>1. UNCHANGED fetch
      BY <2>2, Zenon DEF UpdateDialogCancel, UpdateDialogGone
    <3> QED
      BY <3>1, UnchangedTyped, UnchangedInv DEF fetch
  <2> QED
    BY <2>1, <2>2
<1>4. NewerInv' /\ DownInv'
  <2>1. Newer(offer) /\ Newer(NoVersion)
    BY <1>1 DEF IInv, NewerInv, Newer
  <2>2. \A d \in downloads': d \in downloads \/ Newer(d.of)
    BY <1>3, <2>1
  <2> QED
    BY <1>1, <1>2, <2>1, <2>2, Running DEF check, disk
<1>5. SwapInv' /\ CountInv'
  BY <1>1, UnchangedInv DEF check, disk
<1>6. Typed'
  BY <1>1, <1>2, <1>3, UnchangedTyped, Zenon DEF Typed
<1> QED
  BY <1>2, <1>3, <1>4, <1>5, <1>6 DEF IInv

(* The download. *)
LEMMA DownloadKeeps ==
  ASSUME Typed, IInv, AppUpdateReady \/ AppUpdateFailed
  PROVE  Typed' /\ IInv'
<1>1. PICK d \in downloads: downloads' = downloads \ {d}
  BY Zenon DEF AppUpdateReady, AppUpdateFailed
<1>2. downloads' = {} /\ app_update_in_flight' = FALSE
  BY <1>1 DEF IInv, DownloadInv, AppUpdateReady, AppUpdateFailed
<1>3. /\ running # NoVersion
      /\ UNCHANGED <<kind, beta, silent, target, bak, installers, running, swap, check, dialog,
                     published, kills>>
  BY DEF AppUpdateReady, AppUpdateFailed, Idle, disk
<1>4. /\ DiskTyped' /\ ToastsTyped' /\ \A v \in toasts': v \in toasts \/ Ready(v)
  <2>1. CASE AppUpdateReady
    <3>1. PICK e \in downloads: packages' = packages \cup {e.of} /\ toasts' = toasts \cup {e.of}
      BY <2>1, Zenon DEF AppUpdateReady
    <3>2. e.of \in Version /\ Newer(e.of)
      BY <1>3 DEF Typed, FetchTyped, IInv, NewerInv
    <3>3. e.of \in Package /\ Ready(e.of)
      BY <3>2, Constants DEF Package, Ready
    <3> QED
      BY <1>3, <3>1, <3>3 DEF Typed, DiskTyped, ToastsTyped
  <2>2. CASE AppUpdateFailed
    <3>1. UNCHANGED disk /\ UNCHANGED toasts
      BY <2>2, Zenon DEF AppUpdateFailed
    <3> QED
      BY <3>1, UnchangedTyped
  <2> QED
    BY <2>1, <2>2
<1>5. FetchTyped' /\ DownloadInv'
  BY <1>2 DEF FetchTyped, DownloadInv
<1>6. NewerInv' /\ DownInv'
  BY <1>2, <1>3, <1>4, Running DEF check, dialog
<1>7. SwapInv' /\ DialogInv' /\ CountInv'
  BY <1>3, UnchangedInv DEF check, dialog
<1>8. Typed'
  BY <1>3, <1>4, <1>5, UnchangedTyped, Zenon DEF Typed
<1> QED
  BY <1>5, <1>6, <1>7, <1>8 DEF IInv

LEMMA DismissKeeps ==
  ASSUME Typed, IInv, NEW v, DismissToast(v)
  PROVE  Typed' /\ IInv'
<1>1. /\ running # NoVersion /\ toasts' = toasts \ {v}
      /\ UNCHANGED <<disk, running, swap, check, dialog, fetch, published, kills>>
  BY DEF DismissToast, Idle
<1>2. ToastsTyped'
  BY <1>1 DEF Typed, ToastsTyped
<1>3. NewerInv' /\ DownInv'
  BY <1>1, Running DEF check, dialog, fetch, disk
<1>4. SwapInv' /\ DialogInv' /\ CountInv' /\ DownloadInv'
  BY <1>1, UnchangedInv DEF check, dialog, disk
<1>5. Typed'
  BY <1>1, <1>2, UnchangedTyped, Zenon DEF Typed
<1> QED
  BY <1>3, <1>4, <1>5 DEF IInv

(* The package is applied. *)
LEMMA ApplyKeeps ==
  ASSUME Typed, IInv, NEW v \in Package, Apply(v)
  PROVE  Typed' /\ IInv'
<1>1. /\ running # NoVersion /\ v \in toasts /\ toasts' = toasts \ {v} /\ swap = NoSwap
      /\ UNCHANGED <<kind, beta, silent, running, check, dialog, fetch, published, kills>>
  BY DEF Apply, SwapBegins, RunInstaller, OpenDeb, Idle
<1>2. Ready(v) /\ v # NoVersion
  BY <1>1, Constants DEF IInv, NewerInv, Package
<1>3. ToastsTyped'
  BY <1>1 DEF Typed, ToastsTyped
<1>4. DiskTyped' /\ SwapTyped' /\ SwapInv' /\ (swap'.of = swap.of \/ Newer(swap'.of))
  <2>1. CASE SwapBegins(v)
    <3>0. v \in Version /\ Newer(v)
      BY <1>2, <2>1 DEF SwapBegins, Ready, Package
    <3>1. /\ bak' = target /\ target' = NoVersion /\ target # NoVersion
          /\ packages' = packages /\ installers' = installers
          /\ swap' = [of |-> v, at |-> "aside"]
      BY <2>1, Zenon DEF SwapBegins
    <3>2. swap'.of = v /\ swap'.at = "aside" /\ SwapTyped'
      BY <3>0, <3>1 DEF SwapTyped, Maybe
    <3>3. DiskTyped'
      BY <1>1, <3>1 DEF DiskTyped, Typed, Maybe
    <3> QED
      BY <1>2, <3>0, <3>1, <3>2, <3>3 DEF SwapInv
  <2>2. CASE RunInstaller(v)
    <3>1. /\ UNCHANGED <<target, bak, swap>>
          /\ installers' \in {installers, installers \cup {v}}
          /\ packages' \in {packages, packages \ {v}}
      BY <2>2 DEF RunInstaller
    <3>2. DiskTyped'
      BY <1>1, <3>1 DEF DiskTyped, Typed
    <3> QED
      BY <3>1, <3>2, UnchangedTyped, UnchangedInv
  <2>3. CASE OpenDeb(v)
    <3>1. /\ UNCHANGED <<target, bak, swap>> /\ installers' = installers
          /\ packages' = packages \ {v}
      BY <2>3 DEF OpenDeb
    <3>2. DiskTyped'
      BY <1>1, <3>1 DEF DiskTyped, Typed
    <3> QED
      BY <3>1, <3>2, UnchangedTyped, UnchangedInv
  <2> QED
    BY <2>1, <2>2, <2>3 DEF Apply
<1>5. NewerInv' /\ DownInv'
  BY <1>1, <1>2, <1>4, Running DEF check, dialog, fetch
<1>6. DialogInv' /\ CountInv' /\ DownloadInv'
  BY <1>1, UnchangedInv DEF check, dialog
<1>7. Typed'
  BY <1>1, <1>3, <1>4, UnchangedTyped, Zenon DEF Typed
<1> QED
  BY <1>4, <1>5, <1>6, <1>7 DEF IInv

(* The rest of a swap, which is not at work when the program is down. *)
LEMMA SwapKeeps ==
  ASSUME Typed, IInv, SwapPlaces \/ SwapEnds
  PROVE  Typed' /\ IInv'
<1>1. /\ running # NoVersion
      /\ UNCHANGED <<kind, beta, silent, installers, running, check, dialog, fetch, toasts,
                     published, kills>>
  BY DEF SwapPlaces, SwapEnds, IInv, DownInv, NoSwap
<1>2. swap.of \in Maybe /\ bak \in Maybe /\ target \in Maybe /\ packages \subseteq Package
  BY DEF Typed, SwapTyped, DiskTyped
<1>3. /\ target' \in Maybe /\ bak' \in Maybe /\ packages' \subseteq Package
      /\ SwapTyped' /\ SwapInv' /\ swap'.of \in {swap.of, NoVersion}
  <2>1. CASE SwapPlaces
    <3>1. swap.at = "aside" /\ bak # NoVersion /\ swap.of # NoVersion
      BY <2>1 DEF SwapPlaces, IInv, SwapInv
    <3>2. CASE swap.of \in packages
      <4>1. /\ target' = swap.of /\ packages' = packages \ {swap.of} /\ bak' = bak
            /\ swap' = [swap EXCEPT !.at = "placed"]
        BY <2>1, <3>2, Zenon DEF SwapPlaces
      <4>2. swap'.at = "placed" /\ swap'.of = swap.of /\ SwapTyped'
        BY <4>1 DEF SwapTyped, Typed
      <4> QED
        BY <1>2, <3>1, <4>1, <4>2 DEF SwapInv
    <3>3. CASE swap.of \notin packages
      <4>1. target' = bak /\ bak' = NoVersion /\ packages' = packages /\ swap' = NoSwap
        BY <2>1, <3>3, Zenon DEF SwapPlaces
      <4>2. swap'.at = "idle" /\ swap'.of = NoVersion /\ SwapTyped'
        BY <4>1 DEF SwapTyped, NoSwap, Maybe
      <4> QED
        BY <1>2, <3>1, <4>1, <4>2 DEF SwapInv, Maybe
    <3> QED
      BY <3>2, <3>3
  <2>2. CASE SwapEnds
    <3>1. /\ swap.at = "placed" /\ target # NoVersion /\ target' = target
          /\ bak' \in {bak, NoVersion} /\ packages' = packages /\ swap' = NoSwap
      BY <2>2 DEF SwapEnds, IInv, SwapInv
    <3>2. swap'.at = "idle" /\ swap'.of = NoVersion /\ SwapTyped'
      BY <3>1 DEF SwapTyped, NoSwap, Maybe
    <3> QED
      BY <1>2, <3>1, <3>2 DEF SwapInv, Maybe
  <2> QED
    BY <2>1, <2>2
<1>4. DiskTyped'
  BY <1>1, <1>3 DEF DiskTyped, Typed
<1>5. NewerInv' /\ DownInv'
  BY <1>1, <1>3, Running DEF check, dialog, fetch, Newer
<1>6. DialogInv' /\ CountInv' /\ DownloadInv'
  BY <1>1, UnchangedInv DEF check, dialog
<1>7. Typed'
  BY <1>1, <1>3, <1>4, UnchangedTyped, Zenon DEF Typed
<1> QED
  BY <1>3, <1>5, <1>6, <1>7 DEF IInv

(* The program ends and starts; the user, an installer and GitHub act. *)
LEMMA EndsKeeps ==
  ASSUME Typed, IInv, Ends
  PROVE  Typed' /\ IInv'
<1>1. /\ running' = NoVersion /\ swap' = NoSwap /\ kills < MaxKills /\ kills' = kills + 1
      /\ checks' = {} /\ update_check_in_flight' = FALSE
      /\ offer' = NoVersion /\ shown' = "closed" /\ changelog' = "none" /\ fetches' = 0
      /\ downloads' = {} /\ app_update_in_flight' = FALSE /\ toasts' = {}
      /\ UNCHANGED <<disk, started, retries, published>>
  BY Zenon DEF Ends
<1>2. kills \in 0..MaxKills /\ started \in 0..MaxChecks /\ retries \in 0..MaxRetries
      /\ MaxKills \in Nat /\ MaxChecks \in Nat /\ MaxRetries \in Nat
  BY Constants DEF Typed, KillsTyped, CheckTyped, DialogTyped
<1>3. KillsTyped'
  BY <1>1, <1>2 DEF KillsTyped
<1>4. RunTyped' /\ SwapTyped' /\ ToastsTyped' /\ FetchTyped'
  BY <1>1 DEF RunTyped, SwapTyped, ToastsTyped, FetchTyped, NoSwap, Maybe
<1>5. CheckTyped' /\ DialogTyped'
  <2>1. 0 \in 0..(MaxChecks + MaxRetries)
    BY <1>2
  <2> QED
    BY <1>1, <1>2, <2>1 DEF CheckTyped, DialogTyped, Maybe
<1>6. NewerInv' /\ DownInv' /\ DownloadInv'
  BY <1>1 DEF NewerInv, DownInv, DownloadInv
<1>7. SwapInv'
  BY <1>1 DEF SwapInv, NoSwap, IInv, disk
<1>8. DialogInv'
  BY <1>1 DEF DialogInv
<1>9. CountInv'
  BY <1>1, <1>2, FS_EmptySet DEF CountInv
<1>10. Typed'
  BY <1>1, <1>3, <1>4, <1>5, UnchangedTyped, Zenon DEF Typed
<1> QED
  BY <1>6, <1>7, <1>8, <1>9, <1>10 DEF IInv

LEMMA StartsKeeps ==
  ASSUME Typed, IInv, Starts
  PROVE  Typed' /\ IInv'
<1>1. PICK found \in FindPending(target): toasts' = WithToast(found)
  BY Zenon DEF Starts
<1>2. /\ running = NoVersion /\ target # NoVersion /\ running' = target
      /\ UNCHANGED <<disk, swap, check, dialog, fetch, published, kills>>
  BY Zenon DEF Starts
<1>3. /\ found \in Maybe \cup {Nameless}
      /\ IF found = Nameless THEN kind = "WindowsSetup"
                             ELSE found = NoVersion \/ VersionGt(found, running')
  BY <1>1, <1>2, Found
<1>4. /\ toasts = {} /\ downloads' = {} /\ checks' = {} /\ offer' = NoVersion
      /\ swap'.of = NoVersion
  BY <1>2 DEF IInv, DownInv, NoSwap, check, dialog, fetch
<1>5. \A v \in toasts': v = found /\ v # NoVersion
  BY <1>1, <1>4, ToastIs
<1>6. ToastsTyped' /\ RunTyped'
  BY <1>2, <1>3, <1>5 DEF ToastsTyped, Typed, RunTyped, DiskTyped, Maybe, Package
<1>7. NewerInv' /\ DownInv'
  BY <1>2, <1>3, <1>4, <1>5 DEF NewerInv, DownInv, Newer, Ready, disk
<1>8. SwapInv' /\ DialogInv' /\ CountInv' /\ DownloadInv'
  BY <1>2, UnchangedInv DEF check, dialog, disk
<1>9. Typed'
  BY <1>2, <1>6, UnchangedTyped, Zenon DEF Typed
<1> QED
  BY <1>7, <1>8, <1>9 DEF IInv

LEMMA OutsideKeeps ==
  ASSUME Typed, IInv, PutBack \/ Publish \/ \E v \in Package: Install(v)
  PROVE  Typed' /\ IInv'
<1>1. UNCHANGED <<kind, beta, silent, packages, running, swap, check, dialog, fetch, toasts, kills>>
  BY DEF PutBack, Publish, Install, disk
<1>2. DiskTyped' /\ WorldTyped' /\ SwapInv'
  <2>1. CASE PutBack
    <3>1. /\ running = NoVersion /\ bak # NoVersion /\ target' = bak /\ bak' = NoVersion
          /\ UNCHANGED <<installers, published>>
      BY <2>1 DEF PutBack
    <3>2. swap.at = "idle"
      BY <3>1 DEF IInv, DownInv, NoSwap
    <3> QED
      BY <1>1, <3>1, <3>2 DEF Typed, DiskTyped, WorldTyped, SwapInv, Maybe
  <2>2. CASE Publish
    <3>1. published' \in 1..Len(Releases)
      BY <2>2, Constants DEF Publish, Typed, WorldTyped
    <3> QED
      BY <2>2, <3>1, UnchangedTyped, UnchangedInv DEF Publish, WorldTyped, disk
  <2>3. ASSUME NEW v \in Package, Install(v)
        PROVE  DiskTyped' /\ WorldTyped' /\ SwapInv'
    <3>1. target' \in Version /\ target' # NoVersion /\ installers' = installers \ {v}
          /\ UNCHANGED <<bak, published>>
      BY <2>3, Constants DEF Install, Package
    <3> QED
      BY <1>1, <3>1 DEF Typed, DiskTyped, WorldTyped, SwapInv, IInv, Maybe
  <2> QED
    BY <2>1, <2>2, <2>3
<1>3. NewerInv' /\ DownInv' /\ DialogInv' /\ CountInv' /\ DownloadInv'
  BY <1>1, UnchangedInv DEF check, dialog, fetch
<1>4. Typed'
  BY <1>1, <1>2, UnchangedTyped, Zenon DEF Typed
<1> QED
  BY <1>2, <1>3, <1>4 DEF IInv

-----------------------------------------------------------------------------
LEMMA Initially == Init => Typed /\ IInv
<1> SUFFICES ASSUME Init PROVE Typed /\ IInv
  OBVIOUS
<1>1. DiskTyped /\ RunTyped /\ SwapTyped /\ ToastsTyped /\ FetchTyped
  BY Constants DEF Init, DiskTyped, RunTyped, SwapTyped, ToastsTyped, FetchTyped, NoSwap, Maybe,
       Package
<1>2. CheckTyped /\ DialogTyped /\ WorldTyped /\ KillsTyped
  <2>1. /\ 0 \in 0..MaxChecks /\ 0 \in 0..(MaxChecks + MaxRetries) /\ 0 \in 0..MaxRetries
        /\ 0 \in 0..MaxKills /\ 1 \in 1..Len(Releases)
    BY Constants
  <2>2. CheckTyped
    <3>1. checks = {} /\ update_check_in_flight \in BOOLEAN /\ started \in 0..MaxChecks
      BY <2>1, Zenon DEF Init
    <3> QED
      BY <3>1 DEF CheckTyped
  <2>3. DialogTyped
    <3>1. offer = NoVersion /\ shown = "closed" /\ NoVersion \in Maybe
      BY DEF Init, Maybe
    <3>2. /\ changelog \in {"none", "loading", "shown", "failed"}
          /\ fetches \in 0..(MaxChecks + MaxRetries) /\ retries \in 0..MaxRetries
      BY <2>1 DEF Init
    <3> QED
      BY <3>1, <3>2 DEF DialogTyped
  <2>4. WorldTyped /\ KillsTyped
    BY <2>1 DEF Init, WorldTyped, KillsTyped
  <2> QED
    BY <2>2, <2>3, <2>4
<1>3. NewerInv /\ DownInv /\ SwapInv /\ DownloadInv /\ DialogInv
  BY Constants DEF Init, NewerInv, DownInv, SwapInv, DownloadInv, DialogInv, NoSwap, Newer
<1>4. CountInv
  BY FS_EmptySet DEF Init, CountInv
<1> QED
  BY <1>1, <1>2, <1>3, <1>4, Zenon DEF Typed, IInv

LEMMA Keeps == Typed /\ IInv /\ [Next]_vars => Typed' /\ IInv'
<1> SUFFICES ASSUME Typed, IInv, [Next]_vars
             PROVE  Typed' /\ IInv'
  OBVIOUS
<1>1. CASE User
  <2>1. CASE CheckUpdates
    BY <2>1, CheckUpdatesKeeps
  <2>2. CASE RetryChangelog
    BY <2>2, ChangelogKeeps
  <2>3. CASE UpdateDialogCancel \/ UpdateDialogApply
    BY <2>3, DialogKeeps
  <2>4. ASSUME NEW v \in Package, Apply(v) \/ DismissToast(v)
        PROVE  Typed' /\ IInv'
    BY <2>4, ApplyKeeps, DismissKeeps
  <2> QED
    BY <1>1, <2>1, <2>2, <2>3, <2>4, Zenon DEF User
<1>2. CASE Next /\ ~User
  BY <1>2, CheckKeeps, ChangelogKeeps, DialogKeeps, DownloadKeeps, SwapKeeps, EndsKeeps, StartsKeeps,
     OutsideKeeps, Zenon DEF Next
<1>3. CASE UNCHANGED vars
  <2>1. /\ UNCHANGED disk /\ UNCHANGED running /\ UNCHANGED swap /\ UNCHANGED check
        /\ UNCHANGED dialog /\ UNCHANGED fetch /\ UNCHANGED toasts /\ UNCHANGED published
        /\ UNCHANGED kills
    BY <1>3, Zenon DEF vars
  <2>2. Typed'
    BY <2>1, UnchangedTyped, Zenon DEF Typed
  <2>3. IInv'
    BY <2>1, UnchangedInv DEF IInv, check, dialog, fetch, disk
  <2> QED
    BY <2>2, <2>3
<1> QED
  BY <1>1, <1>2, <1>3

(* Types, the swap, the download, the dialog and what is newer: the        *)
(* inductive invariant.                                                    *)
THEOREM Inductive == Spec => [](Typed /\ IInv)
<1>1. Init => Typed /\ IInv
  BY Initially
<1>2. Typed /\ IInv /\ [Next]_vars => Typed' /\ IInv'
  BY Keeps
<1> QED
  BY <1>1, <1>2, PTL DEF Spec

(* Wherever an update of Remotrix is cut short there is an image to start, *)
(* one download at most, and no dialog waits for a changelog that nobody   *)
(* fetches (replace_appimage, kick_off_app_update).                        *)
THEOREM Consistent == Spec => []UpdateConsistent
<1>1. Typed /\ IInv => UpdateConsistent
  <2> SUFFICES ASSUME Typed, IInv PROVE UpdateConsistent
    OBVIOUS
  <2>1. Cardinality(downloads) \in {0, 1}
    <3>1. downloads = {} => Cardinality(downloads) = 0
      BY FS_EmptySet
    <3>2. \A d: downloads = {d} => Cardinality(downloads) = 1
      BY FS_Singleton
    <3> QED
      BY <3>1, <3>2 DEF IInv, DownloadInv
  <2>2. OneDownload
    BY <2>1 DEF OneDownload
  <2> QED
    BY <2>2, TypedIsTypeOK DEF UpdateConsistent, SomeImageKept, ChangelogUnderWay, IInv, SwapInv,
       DialogInv
<1> QED
  BY <1>1, Inductive, PTL

(* The releases are published in the order of their versions, as VersionGt *)
(* compares them.                                                          *)
InOrder ==
  \A i, j \in DOMAIN Releases: VersionGt(Releases[j], Releases[i]) => i < j

(* Nothing is offered, downloaded or put in place of the program but a     *)
(* later release, where releases are published in order                    *)
(* (fetch_latest_asset, find_pending_app_update); and a file without a     *)
(* version is offered on Windows alone.                                    *)
THEOREM Forward == ASSUME InOrder PROVE Spec => []OnlyNewer
<1>1. Typed /\ IInv => OnlyNewer
  <2> SUFFICES ASSUME Typed, IInv, running # NoVersion
               PROVE  /\ Nameless \in toasts => kind = "WindowsSetup"
                      /\ \A v \in (toasts \ {Nameless}) \cup {d.of: d \in downloads}
                                 \cup {swap.of, offer}:
                           v = NoVersion \/ \E i, j \in DOMAIN Releases:
                                              Releases[i] = running /\ Releases[j] = v /\ i < j
    BY DEF OnlyNewer
  <2>1. Nameless \in toasts => kind = "WindowsSetup"
    BY DEF IInv, NewerInv, Ready
  <2>2. ASSUME NEW v \in (toasts \ {Nameless}) \cup {d.of: d \in downloads} \cup {swap.of, offer},
               v # NoVersion
        PROVE  \E i, j \in DOMAIN Releases: Releases[i] = running /\ Releases[j] = v /\ i < j
    <3>1. VersionGt(v, running)
      BY <2>2 DEF IInv, NewerInv, Newer, Ready
    <3>2. v \in Version /\ running \in Version
      BY <2>2 DEF Typed, ToastsTyped, FetchTyped, SwapTyped, DialogTyped, RunTyped, Maybe, Package
    <3>3. PICK i \in DOMAIN Releases: Releases[i] = running
      BY <3>2 DEF Version, Range
    <3>4. PICK j \in DOMAIN Releases: Releases[j] = v
      BY <3>2 DEF Version, Range
    <3> QED
      BY <3>1, <3>3, <3>4, InOrder DEF InOrder
  <2> QED
    BY <2>1, <2>2
<1> QED
  BY <1>1, Inductive, PTL

-----------------------------------------------------------------------------
(* Intake: what comes into the add dialog, and what leaves it.             *)

(* A text that is parsed has links, or the path of one file, which is a    *)
(* torrent the dialog can be given.                                        *)
Offered(payload) ==
  /\ payload.kind \in {"url", "torrent", "metalink", "nothing"}
  /\ payload.kind = "torrent" => payload.path \in DOMAIN Torrents
  /\ payload.kind = "nothing" => payload = Nothing
OfferedInv ==
  /\ \A p \in parses: Offered(p.payload)
  /\ \A d \in drops: Offered(d)

(* What the dialog holds was submitted at most once, and then it leaves. *)
SubmittedInv ==
  /\ submitted \in {0, 1}
  /\ submitted = 1 /\ visible => dismissing

(* What the form holds *)
FormOK ==
  /\ tab \in {"url", "torrent", "metalink"}
  /\ torrent \in DOMAIN Torrents \cup {""} /\ selected \subseteq FilesOf(torrent)

LEMMA ParseOffers ==
  ASSUME NEW text \in Texts
  PROVE  Offered(ParseClipboard(text, Prefs))
BY IntakeAssumption DEF ParseClipboard, Offered, Urls, Nothing

LEMMA FilterOffers ==
  ASSUME NEW payload, NEW mode, NEW client, NEW decisions, Offered(payload)
  PROVE  Offered(ApplyWebpageFilter(payload, mode, client, decisions))
<1>1. \A list: Offered(Urls(list))
  BY DEF Urls, Offered, Nothing
<1> QED  BY <1>1 DEF ApplyWebpageFilter

LEMMA FillKeeps ==
  ASSUME NEW payload, Offered(payload), payload # Nothing, Fill(payload)
  PROVE  FormOK' /\ visible' = TRUE /\ submitted' = 0
BY DEF Fill, Offered, FormOK, FilesOf

LEMMA ApplyPayloadKeeps ==
  ASSUME NEW payload, Offered(payload), FormOK, ApplyPayload(payload)
  PROVE  FormOK'
BY DEF ApplyPayload, SetTorrent, Offered, FormOK, FilesOf


(* IntakeTypeOK in three parts: what waits, the form, and the rest of the  *)
(* dialog with what was sent.                                              *)
WaitingOK ==
  /\ clip \in Texts \cup {NoText} /\ lastHash \in Texts \cup {NoText}
  /\ reads \in Seq(Texts)
  /\ \A p \in parses: p.text \in Texts /\ p.open \subseteq DOMAIN Probes(p.payload, p.mode)
  /\ picks \subseteq {"torrent", "metalink"} /\ covered \in BOOLEAN
DialogOK ==
  /\ visible \in BOOLEAN /\ dismissing \in BOOLEAN /\ submitted \in Nat
  /\ sent.kind \in {"none", "url", "torrent", "metalink", "external"}

LEMMA IntakeTyped == IntakeTypeOK <=> WaitingOK /\ FormOK /\ DialogOK
BY DEF IntakeTypeOK, WaitingOK, FormOK, DialogOK

Waits   == WaitingOK /\ OfferedInv
Dialog  == FormOK /\ DialogOK /\ SubmittedInv /\ SelectionIsOfTorrent

LEMMA WaitsUnchanged ==
  Waits /\ UNCHANGED <<clipboard, drops, picks, covered>> => Waits'
BY DEF Waits, WaitingOK, OfferedInv, Offered, clipboard

LEMMA DialogUnchanged ==
  Dialog /\ UNCHANGED <<addDialog, sent>> => Dialog'
<1> SUFFICES ASSUME Dialog, UNCHANGED <<addDialog, sent>> PROVE Dialog'
  OBVIOUS
<1>1. UNCHANGED <<visible, dismissing, tab, torrent, selected, submitted, sent>>
  BY DEF addDialog, form
<1>2. FormOK' /\ DialogOK' /\ SubmittedInv'
  BY <1>1 DEF Dialog, FormOK, DialogOK, SubmittedInv
<1>3. SelectionIsOfTorrent'
  BY <1>1 DEF Dialog, SelectionIsOfTorrent
<1> QED  BY <1>2, <1>3 DEF Dialog

(* An action that fills the dialog *)
LEMMA FillOpens ==
  ASSUME Dialog, NEW payload, Offered(payload), payload # Nothing, Fill(payload),
         dismissing' \in BOOLEAN, UNCHANGED sent
  PROVE  Dialog'
<1>1. FormOK' /\ visible' = TRUE /\ submitted' = 0
  BY FillKeeps
<1>2. SelectionIsOfTorrent'
  BY DEF Dialog, SelectionIsOfTorrent
<1> QED  BY <1>1, <1>2 DEF Dialog, DialogOK, SubmittedInv

-----------------------------------------------------------------------------
(* The clipboard and the files *)
LEMMA CopyKeeps == ASSUME Waits, Dialog, Copy PROVE Waits' /\ Dialog'
<1>1. Dialog'  BY DialogUnchanged DEF Copy
<1>2. clip' \in Texts /\ UNCHANGED <<reads, parses, lastHash, drops, picks, covered>>
  BY DEF Copy, tasks
<1> QED  BY <1>1, <1>2 DEF Waits, WaitingOK, OfferedInv, Offered

LEMMA WindowFocusedKeeps == ASSUME Waits, Dialog, WindowFocused PROVE Waits' /\ Dialog'
<1>1. Dialog'  BY DialogUnchanged DEF WindowFocused
<1>2. clip \in Texts /\ reads' = Append(reads, clip)
      /\ UNCHANGED <<clip, parses, lastHash, drops, picks, covered>>
  BY DEF WindowFocused, tasks, Waits, WaitingOK
<1>3. reads' \in Seq(Texts)
  BY <1>2 DEF Waits, WaitingOK
<1> QED  BY <1>1, <1>2, <1>3 DEF Waits, WaitingOK, OfferedInv, Offered

LEMMA ClipboardReadKeeps == ASSUME Waits, Dialog, ClipboardRead PROVE Waits' /\ Dialog'
<1>1. Dialog'  BY DialogUnchanged DEF ClipboardRead
<1>2. UNCHANGED <<clip, lastHash, drops, picks, covered>>
  BY DEF ClipboardRead, tasks
<1>3. Head(reads) \in Texts /\ reads' \in Seq(Texts)
  BY DEF ClipboardRead, Waits, WaitingOK
<1>4. \A p \in parses': /\ p.text \in Texts /\ p.open \subseteq DOMAIN Probes(p.payload, p.mode)
                        /\ Offered(p.payload)
  <2>1. CASE UNCHANGED parses
    BY <2>1 DEF Waits, WaitingOK, OfferedInv
  <2>2. CASE ~UNCHANGED parses
    <3>1. PICK mode, client, id:
             parses' = parses \cup
               {[id |-> id, text |-> Head(reads), payload |-> ParseClipboard(Head(reads), Prefs),
                 mode |-> mode, client |-> client,
                 open |-> IF client THEN DOMAIN Probes(ParseClipboard(Head(reads), Prefs), mode) ELSE {},
                 decisions |-> <<>>]}
      BY <2>2 DEF ClipboardRead
    <3> QED  BY <1>3, <3>1, ParseOffers DEF Waits, WaitingOK, OfferedInv
  <2> QED  BY <2>1, <2>2
<1>5. WaitingOK'
  BY <1>2, <1>3, <1>4 DEF Waits, WaitingOK
<1>6. OfferedInv'
  BY <1>2, <1>4 DEF Waits, OfferedInv, Offered
<1> QED  BY <1>1, <1>5, <1>6 DEF Waits

LEMMA ProbeEndsKeeps == ASSUME Waits, Dialog, ProbeEnds PROVE Waits' /\ Dialog'
<1>1. Dialog'  BY DialogUnchanged DEF ProbeEnds
<1>2. UNCHANGED <<clip, reads, lastHash, drops, picks, covered>>
  BY DEF ProbeEnds, tasks
<1>3. \A p \in parses': /\ p.text \in Texts /\ p.open \subseteq DOMAIN Probes(p.payload, p.mode)
                        /\ Offered(p.payload)
  <2>1. PICK p, i, decision:
          p \in parses /\ parses' = (parses \ {p}) \cup
            {[p EXCEPT !.open = @ \ {i}, !.decisions = Append(@, decision)]}
    BY DEF ProbeEnds
  <2> DEFINE q == [p EXCEPT !.open = @ \ {i}, !.decisions = Append(@, decision)]
  <2>2. q.text = p.text /\ q.payload = p.payload /\ q.mode = p.mode /\ q.open \subseteq p.open
    OBVIOUS
  <2> QED  BY <2>1, <2>2 DEF Waits, WaitingOK, OfferedInv
<1>4. WaitingOK'
  BY <1>2, <1>3 DEF Waits, WaitingOK
<1>5. OfferedInv'
  BY <1>2, <1>3 DEF Waits, OfferedInv, Offered
<1> QED  BY <1>1, <1>4, <1>5 DEF Waits

LEMMA ClipboardParsedKeeps == ASSUME Waits, Dialog, ClipboardParsed PROVE Waits' /\ Dialog'
<1>1. PICK p \in parses: 
        /\ parses' = parses \ {p}
        /\ \/ UNCHANGED <<lastHash, addDialog>>
           \/ /\ lastHash' = p.text
              /\ LET payload == ApplyWebpageFilter(p.payload, p.mode, p.client, p.decisions)
                 IN  IF payload = Nothing \/ visible THEN UNCHANGED addDialog
                     ELSE Fill(payload) /\ AnimOpen
        /\ UNCHANGED <<clip, reads, tasks, covered, sent, inputs>>
  BY DEF ClipboardParsed
<1>2. p.text \in Texts /\ Offered(p.payload)
  BY DEF Waits, WaitingOK, OfferedInv
<1>3. Waits'
  BY <1>1, <1>2 DEF Waits, WaitingOK, OfferedInv, Offered, tasks
<1>4. Dialog'
  <2>1. CASE UNCHANGED addDialog
    BY <1>1, <2>1, DialogUnchanged
  <2>2. CASE ~UNCHANGED addDialog
    BY <1>1, <1>2, <2>2, FilterOffers, FillOpens DEF AnimOpen
  <2> QED  BY <2>1, <2>2
<1> QED  BY <1>3, <1>4

LEMMA FileDroppedKeeps == ASSUME Waits, Dialog, FileDropped PROVE Waits' /\ Dialog'
<1>1. Dialog'  BY DialogUnchanged DEF FileDropped
<1>2. PICK t \in Texts: drops' \in {drops, drops \cup {ParseClipboard(t, Prefs)}}
  BY DEF FileDropped
<1>3. \A d \in drops': Offered(d)
  BY <1>2, ParseOffers DEF Waits, OfferedInv
<1>4. UNCHANGED <<clipboard, picks, covered>>
  BY DEF FileDropped
<1> QED  BY <1>1, <1>3, <1>4 DEF Waits, WaitingOK, OfferedInv, Offered, clipboard

LEMMA DroppedFileParsedKeeps ==
  ASSUME Waits, Dialog, DroppedFileParsed
  PROVE  Waits' /\ Dialog'
<1>1. PICK payload \in drops:
        /\ drops' = drops \ {payload}
        /\ \/ UNCHANGED addDialog
           \/ /\ payload # Nothing /\ ApplyPayload(payload)
              /\ UNCHANGED <<visible, dismissing, submitted>>
           \/ payload # Nothing /\ Fill(payload) /\ AnimOpen
        /\ UNCHANGED <<clipboard, picks, prompts, covered, sent, inputs>>
  BY DEF DroppedFileParsed
<1>2. Offered(payload)
  BY DEF Waits, OfferedInv
<1>3. Waits'
  BY <1>1 DEF Waits, WaitingOK, OfferedInv, Offered, clipboard
<1>4. Dialog'
  <2>1. CASE UNCHANGED addDialog
    BY <1>1, <2>1, DialogUnchanged
  <2>2. CASE ApplyPayload(payload) /\ UNCHANGED <<visible, dismissing, submitted>>
    <3>1. FormOK'
      BY <1>2, <2>2, ApplyPayloadKeeps DEF Dialog
    <3>2. DialogOK' /\ SubmittedInv' /\ SelectionIsOfTorrent'
      BY <1>1, <2>2 DEF Dialog, DialogOK, SubmittedInv, SelectionIsOfTorrent
    <3> QED  BY <3>1, <3>2 DEF Dialog
  <2>3. CASE payload # Nothing /\ Fill(payload) /\ AnimOpen
    BY <1>1, <1>2, <2>3, FillOpens DEF AnimOpen
  <2> QED  BY <1>1, <2>1, <2>2, <2>3
<1> QED  BY <1>3, <1>4

LEMMA BrowseKeeps == ASSUME Waits, Dialog, Browse PROVE Waits' /\ Dialog'
<1>1. Dialog'  BY DialogUnchanged DEF Browse
<1>2. picks' \subseteq {"torrent", "metalink"} /\ UNCHANGED <<clipboard, drops, covered>>
  BY DEF Browse, Waits, WaitingOK, Dialog, FormOK
<1> QED  BY <1>1, <1>2 DEF Waits, WaitingOK, OfferedInv, Offered, clipboard

LEMMA PathPickedKeeps == ASSUME Waits, Dialog, PathPicked PROVE Waits' /\ Dialog'
<1>1. UNCHANGED <<clipboard, drops, covered, visible, dismissing, submitted, sent>>
  BY DEF PathPicked
<1>2. Waits'
  <2>1. picks' \subseteq picks
    BY DEF PathPicked
  <2> QED  BY <1>1, <2>1 DEF Waits, WaitingOK, OfferedInv, Offered, clipboard
<1>3. FormOK'
  <2>1. CASE UNCHANGED form
    BY <2>1 DEF Dialog, FormOK, form
  <2>2. CASE \E path \in Valid: SetTorrent(path) /\ UNCHANGED tab
    BY <2>2 DEF Dialog, FormOK, SetTorrent, Valid
  <2>3. CASE UNCHANGED <<tab, urls, torrent, selected>>
    BY <2>3 DEF Dialog, FormOK
  <2> QED  BY <2>1, <2>2, <2>3 DEF PathPicked
<1>4. DialogOK' /\ SubmittedInv' /\ SelectionIsOfTorrent'
  BY <1>1 DEF Dialog, DialogOK, SubmittedInv, SelectionIsOfTorrent
<1> QED  BY <1>2, <1>3, <1>4 DEF Dialog

-----------------------------------------------------------------------------
(* The extension and the user *)
LEMMA ExtensionAddKeeps == ASSUME Waits, Dialog, ExtensionAdd PROVE Waits' /\ Dialog'
<1>1. Waits'
  BY WaitsUnchanged DEF ExtensionAdd
<1>2. sent' = sent \/ sent' = Command("external", "", {})
  BY DEF ExtensionAdd
<1>3. FormOK' /\ SubmittedInv'
  BY DEF ExtensionAdd, addDialog, form, Dialog, FormOK, SubmittedInv
<1>4. UNCHANGED sent \/ sent'.kind = "external"
  <2>1. Command("external", "", {}).kind = "external"
    BY DEF Command
  <2> QED  BY <1>2, <2>1
<1>5. UNCHANGED <<visible, dismissing, submitted>>
  BY DEF ExtensionAdd, addDialog
<1>6. DialogOK'
  BY <1>4, <1>5 DEF Dialog, DialogOK
<1>7. SelectionIsOfTorrent'
  BY <1>4 DEF Dialog, SelectionIsOfTorrent
<1> QED  BY <1>1, <1>3, <1>6, <1>7 DEF Dialog

LEMMA ShowAddDialogKeeps == ASSUME Waits, Dialog, ShowAddDialog PROVE Waits' /\ Dialog'
<1>1. Waits'
  BY WaitsUnchanged DEF ShowAddDialog
<1>2. PICK payload: payload = [kind |-> "url", urls |-> Head(prompts), path |-> ""]
  OBVIOUS
<1>3. Offered(payload) /\ payload # Nothing
  BY <1>2 DEF Offered, Nothing
<1>4. Fill(payload) /\ UNCHANGED <<dismissing, sent>>
  BY <1>2 DEF ShowAddDialog
<1>5. dismissing' \in BOOLEAN
  BY <1>4 DEF Dialog, DialogOK
<1> QED  BY <1>1, <1>3, <1>4, <1>5, FillOpens

LEMMA OpenAddDialogKeeps == ASSUME Waits, Dialog, OpenAddDialog PROVE Waits' /\ Dialog'
<1>1. Waits'
  BY WaitsUnchanged DEF OpenAddDialog, tasks
<1>2. PICK payload: Fill(payload) /\ Offered(payload) /\ payload # Nothing
  <2>1. Offered(Empty) /\ Empty # Nothing
    BY DEF Offered, Empty, Nothing
  <2>2. \A u: LET payload == [kind |-> "url", urls |-> <<u>>, path |-> ""]
              IN  Offered(payload) /\ payload # Nothing
    BY DEF Offered, Nothing
  <2>3. \A p \in DOMAIN Torrents: LET payload == [kind |-> "torrent", urls |-> <<>>, path |-> p]
                                  IN  Offered(payload) /\ payload # Nothing
    BY DEF Offered, Nothing
  <2> QED  BY <2>1, <2>2, <2>3 DEF OpenAddDialog
<1>3. dismissing' \in BOOLEAN /\ UNCHANGED sent
  BY DEF OpenAddDialog, AnimOpen
<1> QED  BY <1>1, <1>2, <1>3, FillOpens

LEMMA LeavingKeeps == ASSUME Waits, Dialog, CancelAdd \/ ExitEnds PROVE Waits' /\ Dialog'
<1>1. Waits'
  BY WaitsUnchanged DEF CancelAdd, ExitEnds, tasks
<1>2. FormOK' /\ SelectionIsOfTorrent'
  BY DEF CancelAdd, ExitEnds, Dialog, FormOK, SelectionIsOfTorrent, form
<1>3. DialogOK' /\ SubmittedInv'
  BY DEF CancelAdd, ExitEnds, BeginExit, Dialog, DialogOK, SubmittedInv
<1> QED  BY <1>1, <1>2, <1>3 DEF Dialog

(* A press on the tree leaves a selection of the torrent's own files. *)
LEMMA FlipFits ==
  ASSUME FormOK, NEW indices \in SUBSET FilesOf(torrent)
  PROVE  FlipWithGuard(indices) \subseteq FilesOf(torrent)
BY DEF FormOK, FlipWithGuard

LEMMA EditKeeps == ASSUME Waits, Dialog, Edit PROVE Waits' /\ Dialog'
<1>1. Waits'
  BY WaitsUnchanged DEF Edit, tasks
<1>2. FormOK'
  <2>1. CASE UNCHANGED <<torrent, selected>>
    BY <2>1 DEF Edit, Dialog, FormOK
  <2>2. CASE torrent' = "" /\ selected' = {}
    BY <2>2 DEF Edit, Dialog, FormOK
  <2>3. CASE UNCHANGED <<tab, torrent>> /\ selected' \subseteq FilesOf(torrent)
    BY <2>3 DEF Dialog, FormOK
  <2> QED  BY <2>1, <2>2, <2>3, FlipFits DEF Edit, Dialog
<1>3. DialogOK' /\ SubmittedInv' /\ SelectionIsOfTorrent'
  BY DEF Edit, Dialog, DialogOK, SubmittedInv, SelectionIsOfTorrent
<1> QED  BY <1>1, <1>2, <1>3 DEF Dialog

LEMMA AddDownloadKeeps == ASSUME Waits, Dialog, AddDownload PROVE Waits' /\ Dialog'
<1>1. Waits'
  BY WaitsUnchanged DEF AddDownload, tasks
<1>2. FormOK'
  BY DEF AddDownload, Dialog, FormOK, form
<1>3. DialogOK' /\ SubmittedInv'
  <2>1. submitted = 0
    BY DEF AddDownload, InDialog, Dialog, SubmittedInv, DialogOK
  <2>2. sent'.kind = tab
    BY DEF AddDownload, Submission, Command, Dialog, FormOK
  <2>3. submitted' = 1 /\ dismissing' = TRUE /\ UNCHANGED visible
    BY <2>1 DEF AddDownload, BeginExit
  <2> QED  BY <2>2, <2>3 DEF Dialog, DialogOK, SubmittedInv, FormOK
<1>4. SelectionIsOfTorrent'
  <2>1. SUFFICES ASSUME sent'.kind = "torrent"
                 PROVE  /\ sent'.files \subseteq FilesOf(sent'.path)
                        /\ sent'.files = {} => FilesOf(sent'.path) = {}
    BY DEF SelectionIsOfTorrent
  <2>2. tab = "torrent" /\ sent' = Command("torrent", torrent, selected)
    BY <2>1 DEF AddDownload, Submission, Command, Dialog, FormOK
  <2>3. FilesOf(torrent) = {} \/ selected # {}
    BY <2>2 DEF AddDownload, CanSubmit
  <2> QED  BY <2>2, <2>3 DEF Command, Dialog, FormOK
<1> QED  BY <1>1, <1>2, <1>3, <1>4 DEF Dialog

LEMMA CoverKeeps == ASSUME Waits, Dialog, Cover PROVE Waits' /\ Dialog'
<1>1. Dialog'  BY DialogUnchanged DEF Cover
<1>2. covered' \in BOOLEAN /\ UNCHANGED <<clipboard, drops, picks>>
  BY DEF Cover, tasks
<1> QED  BY <1>1, <1>2 DEF Waits, WaitingOK, OfferedInv, Offered, clipboard

-----------------------------------------------------------------------------
LEMMA IntakeInitially == IntakeInit => Waits /\ Dialog
<1> SUFFICES ASSUME IntakeInit PROVE Waits /\ Dialog
  OBVIOUS
<1>1. Waits
  <2>1. parses = {} /\ drops = {} /\ reads = <<>> /\ picks = {}
    BY DEF IntakeInit
  <2>2. clip = NoText /\ lastHash = NoText /\ covered = FALSE
    BY DEF IntakeInit
  <2>3. reads \in Seq(Texts)
    BY <2>1
  <2>4. \A p \in parses: p.text \in Texts /\ p.open \subseteq DOMAIN Probes(p.payload, p.mode)
    BY <2>1
  <2>5. WaitingOK
    BY <2>1, <2>2, <2>3, <2>4, Zenon DEF WaitingOK
  <2> QED  BY <2>1, <2>5 DEF Waits, OfferedInv
<1>2. FormOK
  BY DEF IntakeInit, FormOK, FilesOf
<1>3. DialogOK /\ SubmittedInv /\ SelectionIsOfTorrent
  BY DEF IntakeInit, DialogOK, SubmittedInv, SelectionIsOfTorrent, NoCommand, Command
<1> QED  BY <1>1, <1>2, <1>3 DEF Dialog

LEMMA IntakeKeeps == Waits /\ Dialog /\ [IntakeNext]_intakeVars => Waits' /\ Dialog'
<1> SUFFICES ASSUME Waits, Dialog, [IntakeNext]_intakeVars PROVE Waits' /\ Dialog'
  OBVIOUS
<1>1. CASE Copy              BY <1>1, CopyKeeps
<1>2. CASE WindowFocused     BY <1>2, WindowFocusedKeeps
<1>3. CASE ClipboardRead     BY <1>3, ClipboardReadKeeps
<1>4. CASE ProbeEnds         BY <1>4, ProbeEndsKeeps
<1>5. CASE ClipboardParsed   BY <1>5, ClipboardParsedKeeps
<1>6. CASE FileDropped       BY <1>6, FileDroppedKeeps
<1>7. CASE DroppedFileParsed BY <1>7, DroppedFileParsedKeeps
<1>8. CASE Browse            BY <1>8, BrowseKeeps
<1>9. CASE PathPicked        BY <1>9, PathPickedKeeps
<1>10. CASE ExtensionAdd     BY <1>10, ExtensionAddKeeps
<1>11. CASE ShowAddDialog    BY <1>11, ShowAddDialogKeeps
<1>12. CASE OpenAddDialog    BY <1>12, OpenAddDialogKeeps
<1>13. CASE CancelAdd \/ ExitEnds BY <1>13, LeavingKeeps
<1>14. CASE Edit             BY <1>14, EditKeeps
<1>15. CASE AddDownload      BY <1>15, AddDownloadKeeps
<1>16. CASE Cover            BY <1>16, CoverKeeps
<1>17. CASE UNCHANGED intakeVars
  <2>1. UNCHANGED <<clipboard, addDialog, drops, picks, covered, sent>>
    BY <1>17 DEF intakeVars, tasks
  <2> QED  BY <2>1, WaitsUnchanged, DialogUnchanged
<1> QED  BY <1>1, <1>2, <1>3, <1>4, <1>5, <1>6, <1>7, <1>8, <1>9, <1>10, <1>11, <1>12,
            <1>13, <1>14, <1>15, <1>16, <1>17 DEF IntakeNext

LEMMA IntakeAlways == IntakeSpec => [](Waits /\ Dialog)
BY IntakeInitially, IntakeKeeps, PTL DEF IntakeSpec

(* The add dialog, what waits for it and what was sent keep their types,   *)
(* whatever comes in and in whatever order it is handled.                  *)
THEOREM IntakeIsTyped == IntakeSpec => []IntakeTypeOK
<1>1. Waits /\ Dialog => IntakeTypeOK
  BY IntakeTyped DEF Waits, Dialog
<1> QED  BY <1>1, IntakeAlways, PTL

(* What the dialog holds is submitted once, however often it is filled     *)
(* anew and however many clicks come while it leaves.                      *)
THEOREM SubmittedOnce == IntakeSpec => []SentOnce
<1>1. Waits /\ Dialog => SentOnce
  BY DEF Dialog, SubmittedInv, SentOnce
<1> QED  BY <1>1, IntakeAlways, PTL

(* A torrent goes to the engine with files of its own, and with none only  *)
(* when it lists none, whichever way it came into the dialog.              *)
THEOREM SelectionIsItsOwn == IntakeSpec => []SelectionIsOfTorrent
<1>1. Waits /\ Dialog => SelectionIsOfTorrent
  BY DEF Dialog
<1> QED  BY <1>1, IntakeAlways, PTL

=============================================================================
