---------------------------- MODULE EngineUpdate ----------------------------
(***************************************************************************)
(* How Remotrix installs and updates the aria2-next binary                 *)
(* (src/updaters/aria2_fetcher.rs, src/updaters/download.rs,               *)
(* src/engine/install.rs, src/app.rs, src/update/settings/mod.rs).         *)
(*                                                                         *)
(* Three parties write into one directory: ensure_aria2_next, which runs   *)
(* whenever the engine starts; the detached tasks that download an update; *)
(* and whatever a killed run of the application left there.  A fourth, the *)
(* UI, decides what to download from a check that looked at the directory  *)
(* seconds ago.                                                            *)
(*                                                                         *)
(* A release is a number.  A file has all the bytes of its release, the    *)
(* first of them, or bytes written by two downloads at once; its digest is *)
(* the release's checksum in the first case only.                          *)
(***************************************************************************)
EXTENDS Naturals, FiniteSets, FiniteSetsExt

CONSTANTS
  MaxVersion,   \* bound: the releases are 1..MaxVersion
  Slot,         \* bound: the downloads of updates that can run at once
  Fetch,        \* the download of ensure_aria2_next itself
  MaxRetries,   \* RETRY_DELAYS.len()
  MaxStarts,    \* bound: starts of the engine after the first
  MaxChecks,    \* bound: update checks
  MaxKills      \* bound: kills of the application

ASSUME BoundAssumption ==
  /\ MaxVersion \in Nat \ {0}
  /\ IsFiniteSet(Slot) /\ Fetch \notin Slot
  /\ {MaxRetries, MaxStarts, MaxChecks, MaxKills} \subseteq Nat

VARIABLES
  (* the directory, and GitHub *)
  bin, part,           \* aria2-next-{version} and aria2-next-{version}.part
  installed, pending,  \* .installed and .pending-update
  latest,              \* the newest release
  (* ensure_aria2_next *)
  start,               \* where it is, or whether the engine runs
  promoting, applied,  \* the marker it has read, the version it has promoted
  (* the downloads *)
  dl,
  (* the UI *)
  checks,              \* what the update checks under way saw when they began
  update_check_in_flight, aria2_downloading, aria2_version_known,
  dialog,              \* the version the update dialog offers, 0 for none
  (* bounds *)
  starts, checked, kills,
  (* history *)
  twice                \* versions downloaded though on disk, or two at once

files  == <<bin, part, installed, pending>>
engine == <<start, promoting, applied>>
ui     == <<checks, update_check_in_flight, aria2_downloading,
            aria2_version_known, dialog>>
bounds == <<starts, checked, kills, twice>>
vars   == <<files, latest, engine, dl, ui, bounds>>

Version == 1..MaxVersion
Task    == Slot \cup {Fetch}
Content == {"none", "some", "all", "mixed"}
Marker  == [version: 0..MaxVersion, sha: {"", "good", "bad"}]
None    == [version |-> 0, sha |-> ""]
Attempt == [pc: {"free", "queued", "checksum", "stat", "request", "body",
                 "verify", "stage", "staged", "failed"},
            v: Version, sha: {"", "good"}, offset: Content,
            to: {"none", "part", "binary", "gone"}, left: 0..MaxRetries]
Free    == [pc |-> "free", v |-> 1, sha |-> "", offset |-> "none",
            to |-> "none", left |-> 0]

-----------------------------------------------------------------------------
(* First launch: nothing is installed. *)
Init ==
  /\ bin = [v \in Version |-> "none"] /\ part = [v \in Version |-> "none"]
  /\ installed = None /\ pending = None
  /\ latest = 1
  /\ start = "marker" /\ promoting = None /\ applied = 0
  /\ dl = [d \in Task |-> Free]
  /\ checks = {} /\ update_check_in_flight = FALSE
  /\ aria2_downloading = FALSE /\ aria2_version_known = FALSE
  /\ dialog = 0
  /\ starts = 0 /\ checked = 0 /\ kills = 0
  /\ twice = {}

-----------------------------------------------------------------------------
(* The directory. *)
Digest(content) == IF content = "all" THEN "good" ELSE "bad"

DigestOrNone(marker) ==        \* mutant: no checksum is as good as a match
  /\ bin[marker.version] # "none"
  /\ marker.sha \in {"", Digest(bin[marker.version])}

Verified(marker) ==
  /\ bin[marker.version] # "none"
  /\ marker.sha = Digest(bin[marker.version])

(* scan_for_binary: the newest version there is a file for. *)
Scanned ==
  LET found == {v \in Version: bin[v] # "none"}
  IN  IF found = {} THEN 0 ELSE Max(found)

(* installed_version *)
InstalledVersion ==
  IF installed # None THEN installed.version ELSE Scanned

-----------------------------------------------------------------------------
(* ensure_aria2_next: apply_pending_update first, one file at a time; that *)
(* a file could not be removed is ignored.  The two removals when a marker *)
(* is refused are one step: without its binary it is refused again.        *)
Removed(v) == {bin, [bin EXCEPT ![v] = "none"]}

ReadMarker ==
  /\ start = "marker"
  /\ IF pending # None /\ Verified(pending)
       THEN /\ start' = "old"
            /\ promoting' = pending
            /\ UNCHANGED <<bin, pending>>
       ELSE /\ start' = "cache"
            /\ pending' \in {pending, None}
            /\ bin' \in IF pending = None THEN {bin} ELSE Removed(pending.version)
            /\ UNCHANGED promoting
  /\ UNCHANGED <<part, installed, latest, applied, dl, ui, bounds>>

DropOld ==
  /\ start = "old"
  /\ start' = "installed"
  /\ bin' \in IF installed = None THEN {bin} ELSE Removed(installed.version)
  /\ UNCHANGED <<part, installed, pending, latest, promoting, applied, dl, ui,
                 bounds>>

(* A failure to write .installed is taken for the lack of an update. *)
WriteInstalled ==
  /\ start = "installed"
  /\ \/ start' = "unmark" /\ installed' = promoting
     \/ start' = "cache" /\ UNCHANGED installed
  /\ UNCHANGED <<bin, part, pending, latest, promoting, applied, dl, ui, bounds>>

DropMarker ==
  /\ start = "unmark"
  /\ start' = "cache"
  /\ pending' \in {pending, None}
  /\ applied' = promoting.version
  /\ UNCHANGED <<bin, part, installed, latest, promoting, dl, ui, bounds>>

(* The cached binary; else the newest file, whatever it contains, with its *)
(* own digest for a checksum, if .installed can be written; else a         *)
(* download.                                                               *)
UseOrDelete ==                 \* mutant: a cached binary with another digest is deleted
  /\ start = "cache"
  /\ start' = IF installed # None /\ Verified(installed) THEN "found" ELSE "scan"
  /\ bin' = IF installed = None \/ Verified(installed) THEN bin
            ELSE [bin EXCEPT ![installed.version] = "none"]
  /\ UNCHANGED <<part, installed, pending, latest, promoting, applied, dl, ui, bounds>>

UseCache ==
  /\ start = "cache"
  /\ start' = IF installed # None /\ Verified(installed) THEN "found" ELSE "scan"
  /\ UNCHANGED <<files, latest, promoting, applied, dl, ui, bounds>>

Scan ==
  /\ start = "scan"
  /\ \/ /\ Scanned # 0
        /\ installed' = [version |-> Scanned, sha |-> Digest(bin[Scanned])]
        /\ start' = "found"
     \/ /\ start' = IF Scanned = 0 THEN "lookup" ELSE "down"
        /\ UNCHANGED installed
  /\ UNCHANGED <<bin, part, pending, latest, promoting, applied, dl, ui, bounds>>

(* fetch_latest_release, which may find no checksum. *)
Begin(v, d) ==
  twice' = IF \/ bin[v] # "none"
              \/ \E e \in Task \ {d}: dl[e].v = v /\ dl[e].pc # "free"
             THEN twice \cup {v} ELSE twice

LookUp ==
  /\ start = "lookup"
  /\ \/ start' = "down" /\ UNCHANGED <<dl, twice>>
     \/ \E sha \in {"", "good"}:
          /\ start' = "fetch"
          /\ Begin(latest, Fetch)
          /\ dl' = [dl EXCEPT ![Fetch] =
                      [Free EXCEPT !.pc = "stat", !.v = latest, !.sha = sha,
                                   !.left = MaxRetries]]
  /\ UNCHANGED <<files, latest, promoting, applied, ui, starts, checked, kills>>

InstallFetched ==
  /\ dl[Fetch].pc = "stage"
  /\ installed' = [version |-> dl[Fetch].v, sha |-> dl[Fetch].sha]
  /\ start' = "found"
  /\ dl' = [dl EXCEPT ![Fetch] = Free]
  /\ UNCHANGED <<bin, part, pending, latest, promoting, applied, ui, bounds>>

FetchFailed ==
  /\ dl[Fetch].pc = "failed"
  /\ start' = "down"
  /\ dl' = [dl EXCEPT ![Fetch] = Free]
  /\ UNCHANGED <<files, latest, promoting, applied, ui, bounds>>

(* The rest of boot starts the binary, or fails.  Aria2Version tells the   *)
(* UI that there is an engine, Aria2UpdateApplied that it is a new one.    *)
Spawn ==
  /\ start = "found"
  /\ \/ /\ start' = "up"
        /\ aria2_version_known' = TRUE
        /\ IF applied = 0
             THEN UNCHANGED <<update_check_in_flight, aria2_downloading>>
             ELSE /\ update_check_in_flight' = FALSE
                  /\ aria2_downloading' = FALSE
     \/ /\ start' = "down"
        /\ UNCHANGED <<update_check_in_flight, aria2_downloading,
                       aria2_version_known>>
  /\ applied' = 0 /\ promoting' = None
  /\ UNCHANGED <<files, latest, dl, checks, dialog, bounds>>

(* A restart by the user, a retry, or a crash of the engine. *)
Restart ==
  /\ start \in {"up", "down"}
  /\ starts < MaxStarts
  /\ starts' = starts + 1
  /\ start' = "marker" /\ promoting' = None /\ applied' = 0
  /\ UNCHANGED <<files, latest, dl, ui, checked, kills, twice>>

-----------------------------------------------------------------------------
(* download: a loop of attempts, each of which asks for the bytes that the *)
(* .part file lacks.                                                       *)
Goto(d, pc) == dl' = [dl EXCEPT ![d].pc = pc]

Transient(d) ==
  IF dl[d].left = 0
    THEN dl' = [dl EXCEPT ![d].pc = "failed", ![d].to = "none"]
    ELSE dl' = [dl EXCEPT ![d].pc = "stat", ![d].to = "none", ![d].left = @ - 1]

(* The handles that others hold on the files of version v, once the .part  *)
(* is unlinked, or renamed over the binary.                                *)
Handles(v, renamed) ==
  [e \in Task |->
     IF dl[e].v # v \/ dl[e].to = "none" THEN dl[e]
     ELSE [dl[e] EXCEPT !.to = IF @ = "part" THEN (IF renamed THEN "binary" ELSE "gone")
                               ELSE IF renamed THEN "gone" ELSE @]]

Stat(d) ==
  /\ dl[d].pc = "stat"
  /\ dl' = [dl EXCEPT ![d].pc = "request", ![d].offset = part[dl[d].v]]
  /\ UNCHANGED <<files, latest, engine, ui, bounds>>

(* 206: append to the .part file, if there still is one. *)
Partial(d) ==
  /\ dl[d].offset \in {"some", "mixed"}
  /\ dl' = IF part[dl[d].v] = "none"
             THEN [dl EXCEPT ![d].pc = "failed"]
             ELSE [dl EXCEPT ![d].pc = "body", ![d].to = "part"]
  /\ UNCHANGED part

(* 200: begin again; a .part file seen by Stat is removed first.  When     *)
(* Stat saw none, one made since is only truncated.                        *)
Whole(d) ==
  LET v == dl[d].v
      others == IF dl[d].offset = "none" THEN dl ELSE Handles(v, FALSE)
  IN  /\ dl' = [others EXCEPT ![d].pc = "body", ![d].to = "part"]
      /\ part' = [part EXCEPT ![v] = "some"]

(* The answer to the request: an error to retry, one not to retry (416 if  *)
(* there is nothing left to send), or a body.                              *)
Request(d) ==
  /\ dl[d].pc = "request"
  /\ \/ Transient(d) /\ UNCHANGED part
     \/ Goto(d, "failed") /\ UNCHANGED part
     \/ Partial(d)
     \/ Whole(d)
  /\ UNCHANGED <<bin, installed, pending, latest, engine, ui, bounds>>

(* read_chunks_sync, up to the end of the body. *)
Shared(d) ==
  \E e \in Task \ {d}:
    dl[e].pc = "body" /\ dl[e].v = dl[d].v /\ dl[e].to = dl[d].to

ShortBody(d, content) ==       \* mutant: a broken body is taken for its end
  IF content = "mixed" THEN {"mixed"} ELSE {"some", "all"}

Written(d, content) ==
  IF content = "some" /\ ~Shared(d) THEN {"all"}
  ELSE IF content = "mixed" THEN {"mixed"} ELSE {"all", "mixed"}

(* Aria2UpdateProgress *)
Progress(d) == aria2_downloading' = (aria2_downloading \/ d \in Slot)

ReadBody(d) ==
  /\ dl[d].pc = "body"
  /\ LET v == dl[d].v
     IN  /\ IF dl[d].to = "part"
              THEN \E c \in Written(d, part[v]): part' = [part EXCEPT ![v] = c]
              ELSE UNCHANGED part
         /\ IF dl[d].to = "binary"
              THEN \E c \in Written(d, bin[v]): bin' = [bin EXCEPT ![v] = c]
              ELSE UNCHANGED bin
  /\ dl' = [dl EXCEPT ![d].pc = "verify", ![d].to = "none"]
  /\ Progress(d)
  /\ UNCHANGED <<installed, pending, latest, engine, checks,
                 update_check_in_flight, aria2_version_known, dialog, bounds>>

BodyBreaks(d) ==
  /\ dl[d].pc = "body"
  /\ Transient(d)
  /\ Progress(d)
  /\ UNCHANGED <<files, latest, engine, checks, update_check_in_flight,
                 aria2_version_known, dialog, bounds>>

(* The end of run_attempt.  Nothing is transient here: a wrong digest      *)
(* removes the .part file, a missing one or a failed rename is an error.   *)
Mismatch(d) ==
  /\ dl[d].sha # "" /\ dl[d].sha # Digest(part[dl[d].v])

Rename(d) ==
  LET v == dl[d].v
  IN  /\ bin' = [bin EXCEPT ![v] = part[v]]
      /\ part' = [part EXCEPT ![v] = "none"]
      /\ \E pc \in {"stage", "failed"}:      \* set_perms may fail
           dl' = [Handles(v, TRUE) EXCEPT ![d].pc = pc]
      /\ Progress(d)

Verify(d) ==
  /\ dl[d].pc = "verify"
  /\ LET v == dl[d].v
     IN  \/ Goto(d, "failed") /\ UNCHANGED <<bin, part, aria2_downloading>>
         \/ /\ part[v] # "none" /\ Mismatch(d)
            /\ part' = [part EXCEPT ![v] = "none"]
            /\ dl' = [Handles(v, FALSE) EXCEPT ![d].pc = "failed"]
            /\ UNCHANGED <<bin, aria2_downloading>>
         \/ part[v] # "none" /\ ~Mismatch(d) /\ Rename(d)
  /\ UNCHANGED <<installed, pending, latest, engine, checks,
                 update_check_in_flight, aria2_version_known, dialog, bounds>>

(* handle_download_aria2_update, around download. *)
TakeCommand(d) ==
  /\ dl[d].pc = "queued" /\ start \in {"up", "down"}
  /\ Goto(d, IF start = "up" THEN "checksum" ELSE "failed")
  /\ UNCHANGED <<files, latest, engine, ui, bounds>>

ResolveChecksum(d) ==
  /\ dl[d].pc = "checksum"
  /\ \E sha \in {"", "good"}:
       dl' = [dl EXCEPT ![d].pc = "stat", ![d].sha = sha]
  /\ UNCHANGED <<files, latest, engine, ui, bounds>>

StagePending(d) ==
  /\ dl[d].pc = "stage"
  /\ \/ Goto(d, "staged") /\ pending' = [version |-> dl[d].v, sha |-> dl[d].sha]
     \/ Goto(d, "failed") /\ UNCHANGED pending
  /\ UNCHANGED <<bin, part, installed, latest, engine, ui, bounds>>

Download(d) ==
  \/ Stat(d) \/ Request(d) \/ ReadBody(d) \/ BodyBreaks(d) \/ Verify(d)

-----------------------------------------------------------------------------
(* The UI. *)

(* Aria2UpdateStaged and Aria2UpdateFailed. *)
FailureKeepsFlag(d) ==         \* mutant: only a success ends the download
  /\ dl[d].pc \in {"staged", "failed"}
  /\ update_check_in_flight' = FALSE
  /\ aria2_downloading' = (aria2_downloading /\ dl[d].pc = "failed")
  /\ dl' = [dl EXCEPT ![d] = Free]
  /\ UNCHANGED <<files, latest, engine, checks, aria2_version_known, dialog,
                 bounds>>

DownloadEnded(d) ==
  /\ dl[d].pc \in {"staged", "failed"}
  /\ update_check_in_flight' = FALSE
  /\ aria2_downloading' = FALSE
  /\ dl' = [dl EXCEPT ![d] = Free]
  /\ UNCHANGED <<files, latest, engine, checks, aria2_version_known, dialog,
                 bounds>>

(* check_updates looks at the directory and asks GitHub ... *)
CheckUpdates ==
  /\ aria2_version_known /\ ~update_check_in_flight
  /\ checked < MaxChecks
  /\ checked' = checked + 1
  /\ update_check_in_flight' = TRUE
  /\ checks' = checks \cup
       {[current |-> InstalledVersion,
         skip |-> aria2_downloading \/ (pending # None /\ Verified(pending))]}
  /\ UNCHANGED <<files, latest, engine, dl, aria2_downloading,
                 aria2_version_known, dialog, starts, kills, twice>>

(* send_download_aria2_update *)
SendDownload(v, d) ==
  /\ dl[d].pc = "free"
  /\ aria2_downloading' = TRUE
  /\ Begin(v, d)
  /\ dl' = [dl EXCEPT ![d] = [Free EXCEPT !.pc = "queued", !.v = v,
                                          !.left = MaxRetries]]

(* ... and UpdateResult shows an offer, or downloads it silently. *)
Offers(check) == ~check.skip /\ latest > check.current

EndCheck(check) ==
  /\ check \in checks
  /\ checks' = checks \ {check}
  /\ update_check_in_flight' = FALSE
  /\ UNCHANGED <<files, latest, engine, aria2_version_known, starts, checked,
                 kills>>

NothingNew(check) ==
  /\ EndCheck(check)
  /\ UNCHANGED <<dl, aria2_downloading, dialog, twice>>

ShowOffer(check) ==
  /\ EndCheck(check)
  /\ Offers(check)
  /\ dialog' = latest
  /\ UNCHANGED <<dl, aria2_downloading, twice>>

SilentUpdate(check, d) ==
  /\ EndCheck(check)
  /\ Offers(check)
  /\ SendDownload(latest, d)
  /\ UNCHANGED dialog

(* UpdateDialogApply, UpdateDialogCancel *)
ApplyOffer(d) ==
  /\ dialog # 0
  /\ dialog' = 0
  /\ SendDownload(dialog, d)
  /\ UNCHANGED <<files, latest, engine, checks, update_check_in_flight,
                 aria2_version_known, starts, checked, kills>>

CancelOffer ==
  /\ dialog # 0
  /\ dialog' = 0
  /\ UNCHANGED <<files, latest, engine, dl, checks, update_check_in_flight,
                 aria2_downloading, aria2_version_known, bounds>>

-----------------------------------------------------------------------------
(* The environment. *)
Publish ==
  /\ latest < MaxVersion
  /\ latest' = latest + 1
  /\ UNCHANGED <<files, engine, dl, ui, bounds>>

(* The application is killed and launched again.  A JSON file that was     *)
(* being written may be cut short, and reads like none.                    *)
Kill ==
  /\ kills < MaxKills
  /\ kills' = kills + 1
  /\ \/ UNCHANGED <<installed, pending>>
     \/ /\ start \in {"installed", "scan"} \/ dl[Fetch].pc = "stage"
        /\ installed' = None /\ UNCHANGED pending
     \/ (\E d \in Slot: dl[d].pc = "stage") /\ pending' = None /\ UNCHANGED installed
  /\ start' = "marker" /\ promoting' = None /\ applied' = 0
  /\ dl' = [d \in Task |-> Free]
  /\ checks' = {} /\ update_check_in_flight' = FALSE
  /\ aria2_downloading' = FALSE /\ aria2_version_known' = FALSE
  /\ dialog' = 0
  /\ UNCHANGED <<bin, part, latest, starts, checked, twice>>

-----------------------------------------------------------------------------
Start ==
  \/ ReadMarker \/ DropOld \/ WriteInstalled \/ DropMarker \/ UseCache \/ Scan
  \/ LookUp \/ InstallFetched \/ FetchFailed \/ Spawn

Update(d) ==
  \/ TakeCommand(d) \/ ResolveChecksum(d) \/ Download(d) \/ StagePending(d)
  \/ DownloadEnded(d)

User ==
  \/ Restart \/ CheckUpdates \/ CancelOffer
  \/ \E d \in Slot: ApplyOffer(d)
  \/ \E check \in checks:
       \/ NothingNew(check) \/ ShowOffer(check)
       \/ \E d \in Slot: SilentUpdate(check, d)

Next ==
  \/ Start \/ Download(Fetch)
  \/ \E d \in Slot: Update(d)
  \/ User \/ Publish \/ Kill

Spec == Init /\ [][Next]_vars

(* Every request has a timeout of sixty seconds, so each task takes its    *)
(* next step in the end.                                                   *)
Fairness ==
  /\ WF_vars(Start) /\ WF_vars(Download(Fetch))
  /\ \A d \in Slot: WF_vars(Update(d))
FairSpec == Spec /\ Fairness

-----------------------------------------------------------------------------
(* Properties. *)

(* Type correctness of the directory, the downloads and the UI's flags.    *)
TypeOK ==
  /\ bin \in [Version -> Content] /\ part \in [Version -> Content]
  /\ installed \in Marker /\ pending \in Marker /\ promoting \in Marker
  /\ latest \in Version
  /\ start \in {"marker", "old", "installed", "unmark", "cache", "scan",
                "lookup", "fetch", "found", "up", "down"}
  /\ applied \in 0..MaxVersion
  /\ dl \in [Task -> Attempt]
  /\ checks \subseteq [current: 0..MaxVersion, skip: BOOLEAN]
  /\ update_check_in_flight \in BOOLEAN /\ aria2_downloading \in BOOLEAN
  /\ aria2_version_known \in BOOLEAN
  /\ dialog \in 0..MaxVersion
  /\ starts \in 0..MaxStarts /\ checked \in 0..MaxChecks /\ kills \in 0..MaxKills
  /\ twice \subseteq Version

(* Whatever is killed, fails or is refused, a whole binary that is safe    *)
(* stays on the disk for a start without network: one that was downloaded  *)
(* once, that no download and no marker without its checksum is about to   *)
(* replace.  It is only lost by downloading its version again, and by      *)
(* promoting a version that is installed already, or contested itself.     *)
Ended == {"free", "staged", "failed"}
Contested(v) ==
  \/ v \in twice
  \/ pending.version = v /\ pending.sha = ""
  \/ \E d \in Slot: dl[d].v = v /\ dl[d].pc \notin Ended
SafeOnDisk == \E v \in Version: bin[v] = "all" /\ ~Contested(v)
PromotesInstalled ==
  start = "old" /\ promoting.version = installed.version
LastBinaryKept ==
  [][SafeOnDisk /\ ~SafeOnDisk'
       => \/ PromotesInstalled \/ twice' # twice
          \/ start = "old" /\ Contested(promoting.version)]_vars

(* A file under the name of a binary has all of its bytes, unless two      *)
(* downloads wrote it: .part files are resumed and renamed so that no      *)
(* kill, failure or retry shows half of one.                               *)
NoTornBinary ==
  \A v \in Version: bin[v] \in {"none", "all"} \/ v \in twice

(* An update replaces the installed version only when its own checksum was *)
(* known and the file matched it; with one download of it, it still does.  *)
OnlyVerifiedIsPromoted ==
  [][start = "installed" /\ start' = "unmark" =>
       /\ installed'.sha = "good"
       /\ \/ bin[installed'.version] = "all"
          \/ installed'.version \in twice \cup {installed.version}]_vars

(* A start ends with an engine or a failure the user sees.                 *)
StartEnds == start \notin {"up", "down"} ~> start \in {"up", "down"}

(* The UI never takes an update for running for ever.                      *)
DownloadFlagClears == aria2_downloading ~> ~aria2_downloading

(* The directory of the binaries never shows half of one (download,        *)
(* place_part), and what is known of it is of its kind.                    *)
DirectoryWhole == TypeOK /\ NoTornBinary

(* Whatever fails, the start of an engine and the downloads of updates     *)
(* come to an end the user sees (ensure_aria2_next, handle_event).         *)
StartsAndDownloadsEnd == StartEnds /\ DownloadFlagClears

=============================================================================
