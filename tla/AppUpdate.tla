----------------------------- MODULE AppUpdate -----------------------------
(***************************************************************************)
(* How Remotrix updates itself (src/updaters/updater.rs, app_updater.rs,   *)
(* src/app.rs: check_updates, src/update/settings/mod.rs): the check, the  *)
(* dialog and its changelog, the download of the package, the toast that   *)
(* offers to apply it, and what applying it does: an AppImage is swapped   *)
(* for the new one, an installer is run, a Debian package is left to the   *)
(* user.  How the aria2-next binary is updated is in EngineUpdate.         *)
(*                                                                         *)
(* Checks, changelogs and downloads run beside the UI thread, which        *)
(* handles one message at a time; the program may be killed between any    *)
(* two steps.  A package whose download ended is whole: the download       *)
(* itself, and its .part file, are in EngineUpdate.                        *)
(***************************************************************************)
EXTENDS Integers, Sequences, FiniteSets, SequencesExt

CONSTANTS
  Releases,     \* the releases of GitHub, in the order they are published
  MaxChecks,    \* bound: checks for updates
  MaxRetries,   \* bound: retries of a changelog
  MaxKills      \* bound: ends of the program

(* A version is its dotted numbers, of which there is one at least, and    *)
(* the identifiers behind the first "-".  An identifier is a number, or a  *)
(* word known by its place in the alphabet.                                *)
Identifier == [number: BOOLEAN, at: Nat]

ASSUME ConstAssumption ==
  /\ Releases \in Seq([core: Seq(Nat) \ {<<>>}, pre: Seq(Identifier)]) /\ Releases # <<>>
  /\ {MaxChecks, MaxRetries, MaxKills} \subseteq Nat

VARIABLES
  (* the installation *)
  kind,                        \* InstallKind
  beta, silent,                \* beta_channel; silent_update_scope covers the app
  target, bak,                 \* the program on disk, and what a swap put aside
  packages,                    \* packages in the directory of downloads
  installers,                  \* Windows installers that run
  (* the program *)
  running,                     \* its version, NoVersion when it is down
  swap,                        \* the package the UI thread swaps in, and how far it is
  checks,                      \* checks under way, each with the package it found
  update_check_in_flight,
  offer, shown, changelog,     \* the update dialog
  fetches,                     \* changelogs that are fetched for it
  downloads, app_update_in_flight,
  toasts,                      \* packages the toasts offer to apply
  (* the world *)
  published,                   \* how many of the releases there are
  started, retries, kills      \* bounds

disk   == <<kind, beta, silent, target, bak, packages, installers>>
check  == <<checks, update_check_in_flight, started>>
dialog == <<offer, shown, changelog, fetches, retries>>
fetch  == <<downloads, app_update_in_flight>>
vars   == <<disk, running, swap, check, dialog, fetch, toasts, published, kills>>

NoVersion == [core |-> <<>>, pre |-> <<>>]
NoSwap    == [of |-> NoVersion, at |-> "idle"]
Version   == Range(Releases)

(* A file of the right kind with no version in its name, in the directory  *)
(* of downloads: on Windows that is the temp directory, and any            *)
(* *setup*.exe is of the right kind, Remotrix's or not.                    *)
Nameless  == [core |-> <<>>, pre |-> <<[number |-> TRUE, at |-> 0]>>]
Package   == Version \cup {Nameless}
Installed == Releases[1]      \* what was installed first, which an AppImage keeps in its name

-----------------------------------------------------------------------------
(* split_prerelease, version_gt, prerelease_gt: the numbers are compared   *)
(* with zeros behind the shorter ones; a prerelease comes before its       *)
(* release; identifiers are compared as numbers where both are, and by     *)
(* their letters otherwise, digits before letters.                         *)
Part(v, i) == IF i <= Len(v.core) THEN v.core[i] ELSE 0
Parts(a, b) == 1..(Len(a.core) + Len(b.core))

CoreGt(a, b) ==
  \E i \in Parts(a, b): Part(a, i) > Part(b, i) /\ \A j \in 1..(i-1): Part(a, j) = Part(b, j)

CoreSame(a, b) == \A i \in Parts(a, b): Part(a, i) = Part(b, i)

After(x, y) == IF x.number = y.number THEN x.at > y.at ELSE y.number

PrereleaseGt(p, q) ==
  \E i \in DOMAIN p:
    /\ \A j \in 1..(i-1): j \in DOMAIN q /\ p[j] = q[j]
    /\ i \in DOMAIN q => After(p[i], q[i])

VersionGe(a, b) == ~CoreGt(b, a)    \* mutant: an equal core, or an older prerelease

VersionGt(a, b) ==
  \/ CoreGt(a, b)
  \/ /\ CoreSame(a, b)
     /\ b.pre # <<>> /\ (a.pre = <<>> \/ PrereleaseGt(a.pre, b.pre))

-----------------------------------------------------------------------------
(* fetch_latest_asset: releases/latest is the newest that is no prerelease; *)
(* the beta channel takes the first of the newest five that has a package. *)
Stable == {i \in 1..published: Releases[i].pre = <<>>}
Recent == {i \in 1..published: i > published - 5}

LatestAsset ==
  IF beta THEN {Releases[i]: i \in Recent}
  ELSE {Releases[i]: i \in {j \in Stable: \A k \in Stable: k <= j}}

(* find_pending_app_update: the package with the largest numbers, the first *)
(* the directory lists among equals, if it is newer than what runs.  The   *)
(* AppImage that runs lies in the directory too.  A nameless file comes    *)
(* behind all that have a version, newer or not; alone, it is taken on     *)
(* Windows, whatever it is.                                                *)
Candidates == packages \cup (IF kind = "AppImage" /\ target # NoVersion THEN {Installed} ELSE {})

FindPending(version) ==
  LET named == Candidates \ {Nameless}
      best  == {v \in named: \A w \in named: ~CoreGt(w, v)}
  IN  IF best # {} THEN {IF VersionGt(v, version) THEN v ELSE NoVersion: v \in best}
      ELSE IF kind = "WindowsSetup" /\ Nameless \in Candidates THEN {Nameless}
      ELSE {NoVersion}

WithToast(v) ==                    \* push_pending_app_toast
  IF v = NoVersion \/ toasts # {} THEN toasts ELSE {v}

Init ==
  /\ kind \in {"AppImage", "WindowsSetup", "Deb"} /\ beta \in BOOLEAN /\ silent \in BOOLEAN
  /\ target = Installed /\ bak = NoVersion
  /\ packages \in {{}, {Nameless}} /\ installers = {}
  /\ running = Installed /\ swap = NoSwap
  /\ checks = {} /\ update_check_in_flight = FALSE
  /\ offer = NoVersion /\ shown = "closed" /\ changelog = "none" /\ fetches = 0
  /\ downloads = {} /\ app_update_in_flight = FALSE
  /\ toasts = {}
  /\ published = 1
  /\ started = 0 /\ retries = 0 /\ kills = 0

Idle == running # NoVersion /\ swap = NoSwap

(* A release appears on GitHub. *)
Publish ==
  /\ published < Len(Releases)
  /\ published' = published + 1
  /\ UNCHANGED <<disk, running, swap, check, dialog, fetch, toasts, kills>>

-----------------------------------------------------------------------------
(* check_updates, by hand, at the start or when it is due.  The directory  *)
(* is looked at now, GitHub is asked later; a package that waits to be     *)
(* applied saves the question.                                             *)
CheckUpdates ==
  /\ Idle /\ ~update_check_in_flight /\ started < MaxChecks
  /\ \E found \in FindPending(running):
       checks' = checks \cup {[id |-> started, found |-> found]}
  /\ update_check_in_flight' = TRUE
  /\ started' = started + 1
  /\ UNCHANGED <<disk, running, swap, dialog, fetch, toasts, published, kills>>

(* Aria2UpdateApplied also clears the flag, whatever the check does. *)
EngineUpdateApplied ==
  /\ Idle /\ update_check_in_flight
  /\ update_check_in_flight' = FALSE
  /\ UNCHANGED <<disk, running, swap, checks, started, dialog, fetch, toasts, published, kills>>

(* changelog_fetch_task, and what it answers *)
FetchChangelog == fetches' = fetches + 1
Answers == {"shown", "failed"}

(* kick_off_app_update *)
KickOff(v) ==
  /\ downloads' = downloads \cup {[of |-> v, nth |-> Cardinality(downloads)]}
  /\ app_update_in_flight' = TRUE

SilentDownload(v) ==
  IF app_update_in_flight THEN UNCHANGED fetch ELSE KickOff(v)

(* UpdateResult: a newer release is downloaded at once, or offered in the  *)
(* dialog, which starts over.                                              *)
UpdateResult(c, newer) ==
  /\ checks' = checks \ {c} /\ update_check_in_flight' = FALSE
  /\ toasts' = WithToast(c.found)
  /\ IF newer # NoVersion /\ silent THEN SilentDownload(newer) ELSE UNCHANGED fetch
  /\ IF newer # NoVersion /\ ~silent
     THEN /\ offer' = newer /\ shown' = "open" /\ changelog' = "loading"
          /\ FetchChangelog
     ELSE UNCHANGED <<offer, shown, changelog, fetches>>
  /\ UNCHANGED <<disk, running, swap, started, retries, published, kills>>

CheckAnswered ==
  /\ Idle
  /\ \E c \in checks:
       \E latest \in IF c.found = NoVersion THEN LatestAsset ELSE {NoVersion}:
         UpdateResult(c, IF VersionGt(latest, running) THEN latest ELSE NoVersion)

(* GitHub does not answer, or without a package, or not within 30 s. *)
CheckTimesOutSilently ==      \* mutant: nobody hears of a check that fails
  /\ Idle /\ \E c \in checks: checks' = checks \ {c}
  /\ UNCHANGED <<disk, running, swap, update_check_in_flight, started, dialog, fetch, toasts,
                 published, kills>>

CheckTimesOut ==
  /\ Idle
  /\ \E c \in checks: UpdateResult(c, NoVersion)

-----------------------------------------------------------------------------
(* The dialog.  A changelog is for a tab: one that was fetched for the     *)
(* dialog before is taken for this one's.                                  *)
UpdateChangelogLoaded ==
  /\ Idle /\ fetches > 0
  /\ fetches' = fetches - 1
  /\ \E result \in Answers:
       changelog' = IF shown = "closed" THEN changelog ELSE result
  /\ UNCHANGED <<disk, running, swap, check, offer, shown, retries, fetch, toasts, published, kills>>

RetryChangelog ==
  /\ Idle /\ shown = "open" /\ changelog = "failed" /\ retries < MaxRetries
  /\ changelog' = "loading" /\ FetchChangelog /\ retries' = retries + 1
  /\ UNCHANGED <<disk, running, swap, check, offer, shown, fetch, toasts, published, kills>>

UpdateDialogCancel ==
  /\ Idle /\ shown = "open"
  /\ shown' = "leaving"
  /\ UNCHANGED <<disk, running, swap, check, offer, changelog, fetches, retries, fetch, toasts,
                 published, kills>>

UpdateDialogGone ==          \* the animation has ended
  /\ Idle /\ shown = "leaving"
  /\ shown' = "closed" /\ offer' = NoVersion /\ changelog' = "none"
  /\ UNCHANGED <<disk, running, swap, check, fetches, retries, fetch, toasts, published, kills>>

UpdateDialogApply ==
  /\ Idle /\ shown = "open" /\ ~app_update_in_flight
  /\ shown' = "leaving"
  /\ KickOff(offer)
  /\ UNCHANGED <<disk, running, swap, check, offer, changelog, fetches, retries, toasts,
                 published, kills>>

-----------------------------------------------------------------------------
(* The download; its two outcomes. *)
AppUpdateReady ==
  /\ Idle
  /\ \E d \in downloads:
       /\ downloads' = downloads \ {d}
       /\ packages' = packages \cup {d.of}
       /\ toasts' = toasts \cup {d.of}
  /\ app_update_in_flight' = FALSE
  /\ UNCHANGED <<kind, beta, silent, target, bak, installers, running, swap, check, dialog,
                 published, kills>>

AppUpdateFailed ==
  /\ Idle
  /\ \E d \in downloads: downloads' = downloads \ {d}
  /\ app_update_in_flight' = FALSE
  /\ UNCHANGED <<disk, running, swap, check, dialog, toasts, published, kills>>

DismissToast(v) ==
  /\ Idle /\ v \in toasts
  /\ toasts' = toasts \ {v}
  /\ UNCHANGED <<disk, running, swap, check, dialog, fetch, published, kills>>

-----------------------------------------------------------------------------
(* ApplyAppUpdate, from the toast, which goes.  An AppImage is put aside,   *)
(* the new one takes its name, and what was put aside is removed; if the   *)
(* new one cannot be renamed, the old one is put back.                     *)
SwapByDeleting(v) ==        \* mutant: the old image is removed first
  /\ Idle /\ kind = "AppImage" /\ v \in toasts /\ target # NoVersion
  /\ toasts' = toasts \ {v}
  /\ target' = NoVersion
  /\ swap' = [of |-> v, at |-> "aside"]
  /\ UNCHANGED <<kind, beta, silent, bak, packages, installers, running, check, dialog, fetch,
                 published, kills>>

SwapBegins(v) ==
  /\ Idle /\ kind = "AppImage" /\ v \in toasts /\ target # NoVersion
  /\ toasts' = toasts \ {v}
  /\ bak' = target /\ target' = NoVersion
  /\ swap' = [of |-> v, at |-> "aside"]
  /\ UNCHANGED <<kind, beta, silent, packages, installers, running, check, dialog, fetch,
                 published, kills>>

SwapPlaces ==
  /\ swap.at = "aside"
  /\ IF swap.of \in packages
     THEN /\ target' = swap.of /\ packages' = packages \ {swap.of}
          /\ swap' = [swap EXCEPT !.at = "placed"]
          /\ UNCHANGED bak
     ELSE /\ target' = bak /\ bak' = NoVersion
          /\ swap' = NoSwap
          /\ UNCHANGED packages
  /\ UNCHANGED <<kind, beta, silent, installers, running, check, dialog, fetch, toasts,
                 published, kills>>

SwapEnds ==                 \* set_perms may fail, and leaves what was put aside
  /\ swap.at = "placed"
  /\ bak' \in {bak, NoVersion}
  /\ swap' = NoSwap
  /\ UNCHANGED <<kind, beta, silent, target, packages, installers, running, check, dialog, fetch,
                 toasts, published, kills>>

(* The installer runs, and the file it runs from is removed if it can be.  *)
RunInstaller(v) ==
  /\ Idle /\ kind = "WindowsSetup" /\ v \in toasts
  /\ toasts' = toasts \ {v}
  /\ IF v \in packages
     THEN installers' = installers \cup {v} /\ packages' \in {packages, packages \ {v}}
     ELSE UNCHANGED <<installers, packages>>
  /\ UNCHANGED <<kind, beta, silent, target, bak, running, swap, check, dialog, fetch,
                 published, kills>>

(* The user is told where the package is, with a button to open it, and    *)
(* the package is removed.                                                 *)
OpenDeb(v) ==
  /\ Idle /\ kind = "Deb" /\ v \in toasts
  /\ toasts' = toasts \ {v}
  /\ packages' = packages \ {v}
  /\ UNCHANGED <<kind, beta, silent, target, bak, installers, running, swap, check, dialog, fetch,
                 published, kills>>

(* What the user, or the installer, does with it.  What a nameless one     *)
(* puts in place of the program can be any release; another program's      *)
(* leaves it as it is.                                                     *)
Install(v) ==
  /\ \/ kind = "Deb" /\ v \in packages
     \/ kind = "WindowsSetup" /\ v \in installers
  /\ target' \in IF v = Nameless THEN Version ELSE {v}
  /\ installers' = installers \ {v}
  /\ UNCHANGED <<kind, beta, silent, bak, packages, running, swap, check, dialog, fetch, toasts,
                 published, kills>>

-----------------------------------------------------------------------------
(* The program ends, at any point; what was under way is gone. *)
Ends ==
  /\ running # NoVersion /\ kills < MaxKills
  /\ running' = NoVersion /\ swap' = NoSwap /\ kills' = kills + 1
  /\ checks' = {} /\ update_check_in_flight' = FALSE
  /\ offer' = NoVersion /\ shown' = "closed" /\ changelog' = "none" /\ fetches' = 0
  /\ downloads' = {} /\ app_update_in_flight' = FALSE /\ toasts' = {}
  /\ UNCHANGED <<disk, started, retries, published>>

(* It starts from the disk and looks for packages (CheckPendingUpdates).   *)
Starts ==
  /\ running = NoVersion /\ target # NoVersion
  /\ running' = target
  /\ \E found \in FindPending(target): toasts' = WithToast(found)
  /\ UNCHANGED <<disk, swap, check, dialog, fetch, published, kills>>

(* A swap that was cut short left no program: the user puts back the old.  *)
PutBack ==
  /\ running = NoVersion /\ target = NoVersion /\ bak # NoVersion
  /\ target' = bak /\ bak' = NoVersion
  /\ UNCHANGED <<kind, beta, silent, packages, installers, running, swap, check, dialog, fetch,
                 toasts, published, kills>>

Apply(v) == SwapBegins(v) \/ RunInstaller(v) \/ OpenDeb(v)

User ==
  \/ CheckUpdates \/ RetryChangelog \/ UpdateDialogCancel \/ UpdateDialogApply
  \/ \E v \in Package: Apply(v) \/ DismissToast(v)

Next ==
  \/ User
  \/ CheckAnswered \/ CheckTimesOut \/ EngineUpdateApplied
  \/ UpdateChangelogLoaded \/ UpdateDialogGone
  \/ AppUpdateReady \/ AppUpdateFailed
  \/ SwapPlaces \/ SwapEnds
  \/ Ends \/ Starts \/ PutBack
  \/ Publish \/ \E v \in Package: Install(v)

Spec == Init /\ [][Next]_vars

(* The time limits hold (30 s for a check and for a page of a changelog,   *)
(* 60 s for an attempt at the download), and the UI thread goes on.        *)
FairSpec ==
  /\ Spec
  /\ WF_vars(CheckTimesOut) /\ WF_vars(AppUpdateFailed) /\ WF_vars(UpdateChangelogLoaded)
  /\ WF_vars(SwapPlaces) /\ WF_vars(SwapEnds)

-----------------------------------------------------------------------------
(* The values of the variables. *)
Maybe == Version \cup {NoVersion}

TypeOK ==
  /\ kind \in {"AppImage", "WindowsSetup", "Deb"}
  /\ beta \in BOOLEAN
  /\ silent \in BOOLEAN
  /\ target \in Maybe
  /\ bak \in Maybe
  /\ packages \subseteq Package
  /\ installers \subseteq Package
  /\ running \in Maybe
  /\ swap \in [of: Maybe, at: {"idle", "aside", "placed"}]
  /\ checks \subseteq [id: 0..MaxChecks, found: Maybe \cup {Nameless}]
  /\ \A c \in checks: c.id < started
  /\ update_check_in_flight \in BOOLEAN
  /\ offer \in Maybe
  /\ shown \in {"closed", "open", "leaving"}
  /\ (shown = "closed") = (offer = NoVersion)
  /\ changelog \in {"none", "loading", "shown", "failed"}
  /\ fetches \in 0..(MaxChecks + MaxRetries)
  /\ downloads \subseteq [of: Version, nth: Nat]
  /\ app_update_in_flight \in BOOLEAN
  /\ toasts \subseteq Package
  /\ published \in 1..Len(Releases)
  /\ started \in 0..MaxChecks
  /\ retries \in 0..MaxRetries
  /\ kills \in 0..MaxKills

(* Wherever the swap of an AppImage is cut short or fails, a whole image   *)
(* is there, under its name or as the one that was put aside               *)
(* (app_updater.rs, replace_appimage).                                     *)
SomeImageKept == target # NoVersion \/ bak # NoVersion

(* What is offered, downloaded or put in place of the program, by the      *)
(* dialog, by a silent update or from the directory at the next start, is  *)
(* a later release than the program that runs: nothing goes back from a    *)
(* release to one of its prereleases (updater.rs, version_gt;              *)
(* app_updater.rs, find_pending_app_update).  The code makes one           *)
(* exception, on Windows alone: a toast may offer a nameless file, of      *)
(* which nobody knows what it is (app_updater.rs:311).                     *)
OnlyNewer ==
  running # NoVersion =>
    /\ Nameless \in toasts => kind = "WindowsSetup"
    /\ \A v \in (toasts \ {Nameless}) \cup {d.of: d \in downloads} \cup {swap.of, offer}:
         v = NoVersion \/ \E i, j \in DOMAIN Releases:
                            Releases[i] = running /\ Releases[j] = v /\ i < j

(* Two downloads of packages, which may share a .part file, never run at   *)
(* once, though a check that began before the dialog was answered may      *)
(* answer after it (update/settings/mod.rs, app_update_in_flight).         *)
OneDownload == Cardinality(downloads) <= 1

(* A dialog that says its changelog is loading has one under way, whatever *)
(* came of the dialogs before it.                                          *)
ChangelogUnderWay == changelog = "loading" => fetches > 0

(* A check and a download end, and the flags that keep out the next are    *)
(* cleared, whatever GitHub does.                                          *)
FlagsClear ==
  /\ update_check_in_flight ~> ~update_check_in_flight
  /\ app_update_in_flight ~> ~app_update_in_flight

(* At every point of an update there is an image to start, one download at *)
(* most, and a changelog under way when the dialog says so.                *)
UpdateConsistent == TypeOK /\ SomeImageKept /\ OneDownload /\ ChangelogUnderWay

=============================================================================
