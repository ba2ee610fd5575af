------------------------------ MODULE Bootstrap ------------------------------
(***************************************************************************)
(* The cache of ED2K bootstrap files (src/storage/ed2k_bootstrap.rs).  Two *)
(* tasks write it: the supervisor, which puts the bundled defaults where a *)
(* file is missing whenever it starts aria2-next or adds an ed2k download, *)
(* and sync_once, which downloads newer files when the user or the timer   *)
(* asks for it.  Both write <file>.tmp, remove the file and rename; nothing *)
(* keeps one from doing so while the other does.  The application can be   *)
(* killed between any two steps.                                           *)
(*                                                                         *)
(* A file is two blocks, so that a write can be half done; an open file    *)
(* follows a rename and outlives a removal, so that a writer goes on       *)
(* writing to what the other has renamed meanwhile.                        *)
(***************************************************************************)
EXTENDS Naturals, Sequences

CONSTANTS
  Cached   \* the files, in the order they are handled: server.met, nodes.dat

VARIABLES
  (* the directory *)
  target, tmp,      \* what each file and its .tmp hold
  (* the two writers: the supervisor and sync_once *)
  writer,
  wanted,           \* files with a URL in the settings, as sync_once read them
  had_error,
  (* the supervisor, the UI *)
  engine,           \* aria2-next
  syncing, asked, answer,  \* the UI's flag, its command, the event
  (* history *)
  refused,          \* the command met a supervisor without an engine
  mixed,            \* files the two wrote at the same time
  disturbed         \* files the user removed, or both wrote, since the
                    \* synchronisation began

disk    == <<target, tmp>>
sync    == <<wanted, had_error>>
ui      == <<syncing, asked, answer>>
history == <<refused, mixed, disturbed>>
vars    == <<disk, writer, sync, engine, ui, history>>

File   == {Cached[i] : i \in DOMAIN Cached}

(* Each file has a name of its own. *)
ASSUME ConstAssumption ==
  /\ Cached \in Seq(File) /\ Len(Cached) > 0
  /\ \A i, j \in DOMAIN Cached: Cached[i] = Cached[j] => i = j

Writer == {"supervisor", "sync"}
Missing == <<>>
Hole    == <<"none", "none">>
Copy(data) == <<data, data>>

(* A writer: the procedure it is in, its step, the file, what it writes,   *)
(* what its open file is called by now, and whether the other has been     *)
(* writing the same file.                                                  *)
Resting == [job |-> "none", at |-> "none", n |-> 1, data |-> "bundled",
            open |-> "none", shared |-> FALSE]
Name(w) == Cached[writer[w].n]
Writes(w, f) ==
  /\ writer[w].at \in {"open", "first", "second", "remove", "rename"}
  /\ Name(w) = f
Other(w) == CHOOSE o \in Writer: o # w

Init ==
  /\ target = [f \in File |-> Missing] /\ tmp = [f \in File |-> Missing]
  /\ writer = [w \in Writer |-> Resting]
  /\ wanted = {} /\ had_error = FALSE
  /\ engine = "down"
  /\ syncing = FALSE /\ asked = FALSE /\ answer = "none"
  /\ refused = FALSE /\ mixed = {} /\ disturbed = {}

At(w, job, step) == writer[w].job = job /\ writer[w].at = step
Goes(w, step) == writer' = [writer EXCEPT ![w].at = step]

-----------------------------------------------------------------------------
(* write_cache_file, by either task. *)

Disturb(files) == disturbed' = IF syncing THEN disturbed \cup files ELSE {}
Overlap(files) == mixed' = mixed \cup files /\ Disturb(files)

(* The write of a file begins: from here to the rename the other may do    *)
(* the same.                                                               *)
Begin(w, data) ==
  LET other  == Other(w)
      shared == Writes(other, Name(w))
  IN /\ writer' = [writer EXCEPT
          ![w] = [@ EXCEPT !.at = "open", !.data = data, !.shared = shared],
          ![other].shared = @ \/ shared]
     /\ Overlap(IF shared THEN {Name(w)} ELSE {})

OpenInPlace(w) ==              \* mutant: the file is written where it is
  /\ writer[w].at = "open"
  /\ target' = [target EXCEPT ![Name(w)] = Hole]
  /\ writer' = [writer EXCEPT ![w].at = "first", ![w].open = "target"]
  /\ UNCHANGED <<tmp, sync, engine, ui, history>>

(* fs::write opens with truncation: a file that is there is used again. *)
Open(w) ==
  /\ writer[w].at = "open"
  /\ tmp' = [tmp EXCEPT ![Name(w)] = Hole]
  /\ writer' = [writer EXCEPT ![w].at = "first", ![w].open = "tmp"]
  /\ UNCHANGED <<target, sync, engine, ui, history>>

Put(w, k) ==
  LET put(files) == [files EXCEPT ![Name(w)][k] = writer[w].data]
  IN /\ tmp'    = IF writer[w].open = "tmp"    THEN put(tmp)    ELSE tmp
     /\ target' = IF writer[w].open = "target" THEN put(target) ELSE target

WriteFirst(w) ==
  /\ writer[w].at = "first"
  /\ Put(w, 1)
  /\ Goes(w, "second")
  /\ UNCHANGED <<sync, engine, ui, history>>

WriteSecond(w) ==
  /\ writer[w].at = "second"
  /\ Put(w, 2)
  /\ writer' = [writer EXCEPT ![w].at = "remove", ![w].open = "none"]
  /\ UNCHANGED <<sync, engine, ui, history>>

(* What an open file of f is called after the removal, or the rename. *)
Renamed(writers, f) ==
  [o \in Writer |->
     IF Cached[writers[o].n] = f
     THEN [writers[o] EXCEPT !.open = CASE @ = "tmp" -> "target" [] @ = "target" -> "gone"
                                        [] OTHER -> @]
     ELSE writers[o]]
Unlinked(writers, f) ==
  [o \in Writer |->
     IF Cached[writers[o].n] = f /\ writers[o].open = "target"
     THEN [writers[o] EXCEPT !.open = "gone"] ELSE writers[o]]

(* Only when the file is there; a failure is ignored. *)
Remove(w) ==
  /\ writer[w].at = "remove"
  /\ target' = [target EXCEPT ![Name(w)] = Missing]
  /\ writer' = [Unlinked(writer, Name(w)) EXCEPT ![w].at = "rename"]
  /\ UNCHANGED <<tmp, sync, engine, ui, history>>

(* What follows a file: the next one, or the step `last'. *)
Following(w, first, last) ==
  [writer[w] EXCEPT !.open = "none", !.shared = FALSE, !.data = "bundled",
     !.at = IF writer[w].n < Len(Cached) THEN first ELSE last,
     !.n  = IF writer[w].n < Len(Cached) THEN @ + 1 ELSE 1]
AdvanceOf(writers, w, first, last) == writer' = [writers EXCEPT ![w] = Following(w, first, last)]
Advance(w, first, last) == AdvanceOf(writer, w, first, last)

(* The `?' of ensure_cache_with ends it; sync_once notes the error and     *)
(* goes on to the next file.                                               *)
FileDoneWith(writers, w, error) ==
  /\ \/ writer[w].job = "ensure" /\ AdvanceOf(writers, w, "look", "stat")
     \/ writer[w].job = "fetch"  /\ AdvanceOf(writers, w, "get", "done")
  /\ had_error' = error
FileDoneClears(writers, w) ==  \* mutant: a file that is stored makes up for one that failed
  FileDoneWith(writers, w, FALSE)
FileDone(writers, w) == FileDoneWith(writers, w, had_error)
FileFails(w) ==
  \/ /\ writer[w].job = "ensure"
     /\ writer' = [writer EXCEPT ![w] = [Resting EXCEPT !.job = "ensure", !.at = "failed"]]
     /\ UNCHANGED had_error
  \/ /\ writer[w].job = "fetch"
     /\ had_error' = TRUE
     /\ Advance(w, "get", "done")

(* The disk is full, or the directory cannot be written.  What is left in  *)
(* the .tmp is truncated by the next open, so it counts as missing, unless *)
(* the other writer is at it.                                              *)
WriteFails(w) ==
  /\ writer[w].at \in {"open", "first", "second"}
  /\ FileFails(w)
  /\ tmp' = IF Writes(Other(w), Name(w)) THEN tmp ELSE [tmp EXCEPT ![Name(w)] = Missing]
  /\ UNCHANGED <<target, wanted, engine, ui, history>>

(* A file nobody else wrote meanwhile is what its writer put there. *)
MoveInPlace(w) ==
  /\ tmp[Name(w)] # Missing
  /\ target' = [target EXCEPT ![Name(w)] = tmp[Name(w)]]
  /\ tmp' = [tmp EXCEPT ![Name(w)] = Missing]
  /\ mixed' = IF writer[w].shared THEN mixed ELSE mixed \ {Name(w)}
  /\ FileDone(Renamed(writer, Name(w)), w)
  /\ UNCHANGED <<wanted, engine, ui, refused, disturbed>>

Rename(w) == writer[w].at = "rename" /\ MoveInPlace(w)

(* The other writer has renamed it. *)
RenameFails(w) ==
  /\ writer[w].at = "rename"
  /\ tmp[Name(w)] = Missing
  /\ FileFails(w)
  /\ UNCHANGED <<disk, wanted, engine, ui, history>>

WriteFile(w) ==
  \/ Open(w) \/ WriteFirst(w) \/ WriteSecond(w) \/ Remove(w)
  \/ Rename(w) \/ RenameFails(w) \/ WriteFails(w)

-----------------------------------------------------------------------------
(* ensure_cache_with: the bundled file where none is; then neither may be  *)
(* missing or empty.                                                       *)
Look(w) ==
  /\ At(w, "ensure", "look")
  /\ IF target[Name(w)] # Missing THEN Advance(w, "look", "stat") /\ UNCHANGED <<mixed, disturbed>>
                            ELSE Begin(w, "bundled")
  /\ UNCHANGED <<disk, sync, engine, ui, refused>>

Stat(w) ==
  /\ At(w, "ensure", "stat")
  /\ IF target[Name(w)] \in {Missing, Hole}
       THEN writer' = [writer EXCEPT ![w] = [Resting EXCEPT !.job = "ensure", !.at = "failed"]]
       ELSE Advance(w, "stat", "ok")
  /\ UNCHANGED <<disk, sync, engine, ui, history>>

Ensure(w) == Look(w) \/ Stat(w)
StartsEnsure(w) == [Resting EXCEPT !.job = "ensure", !.at = "look"]

-----------------------------------------------------------------------------
(* The supervisor. *)

Idle == writer["supervisor"] = Resting

(* run_sidecar: the arguments of the process. *)
Start ==
  /\ engine = "down" /\ Idle
  /\ engine' = "starting"
  /\ writer' = [writer EXCEPT !["supervisor"] = StartsEnsure("supervisor")]
  /\ UNCHANGED <<disk, sync, ui, history>>

(* add_download_internal; it would have come before an earlier command. *)
AddEd2k ==
  /\ engine = "up" /\ Idle /\ ~asked
  /\ writer' = [writer EXCEPT !["supervisor"] = StartsEnsure("supervisor")]
  /\ UNCHANGED <<disk, sync, engine, ui, history>>

(* inject_managed_bootstrap_args, inject_managed_bootstrap_options: when   *)
(* the cache is not in order the lists are left out, and the engine starts *)
(* or the download is added without them.                                  *)
Inject ==
  /\ \E step \in {"ok", "failed"}: At("supervisor", "ensure", step)
  /\ engine' = "up"
  /\ writer' = [writer EXCEPT !["supervisor"] = Resting]
  /\ UNCHANGED <<disk, sync, ui, history>>

(* The engine exits and is not installed again, or not yet. *)
Degrade ==
  /\ engine = "up" /\ Idle
  /\ engine' = "down"
  /\ UNCHANGED <<disk, writer, sync, ui, history>>

(* EngineCmd::Ed2kBootstrapSyncNow: without an engine every command is     *)
(* answered with EngineDegraded.                                           *)
HandleSync ==
  /\ asked /\ Idle
  /\ asked' = FALSE
  /\ IF engine = "up"
       THEN /\ writer' = [writer EXCEPT !["sync"] = StartsEnsure("sync")]
            /\ UNCHANGED refused
       ELSE /\ refused' = TRUE
            /\ UNCHANGED writer
  /\ UNCHANGED <<disk, sync, engine, syncing, answer, mixed, disturbed>>

-----------------------------------------------------------------------------
(* sync_once *)

Answer(a) ==
  /\ answer' = a
  /\ writer' = [writer EXCEPT !["sync"] = Resting]

UnusableUnsaid ==              \* mutant: the early return sends no event
  /\ At("sync", "ensure", "failed")
  /\ writer' = [writer EXCEPT !["sync"] = Resting]
  /\ UNCHANGED <<disk, sync, engine, ui, history>>

CacheUnusable ==
  /\ At("sync", "ensure", "failed")
  /\ Answer("failed")
  /\ UNCHANGED <<disk, sync, engine, syncing, asked, history>>

(* The settings are read after the cache; without a URL, or with a proxy   *)
(* no client can be built for, nothing is downloaded.                      *)
Load ==
  /\ At("sync", "ensure", "ok")
  /\ wanted' \in SUBSET File /\ had_error' = FALSE
  /\ \/ Answer("failed")
     \/ /\ wanted' # {}
        /\ writer' = [writer EXCEPT !["sync"] = [Resting EXCEPT !.job = "fetch", !.at = "get"]]
        /\ UNCHANGED answer
  /\ UNCHANGED <<disk, engine, syncing, asked, history>>

(* download_bootstrap_file: a file that is refused, cut, empty or too big  *)
(* leaves the cache alone.                                                 *)
Download ==
  /\ At("sync", "fetch", "get")
  /\ \/ /\ Name("sync") \notin wanted
        /\ Advance("sync", "get", "done")
        /\ UNCHANGED <<had_error, mixed, disturbed>>
     \/ /\ Name("sync") \in wanted
        /\ FileFails("sync")
        /\ UNCHANGED <<mixed, disturbed>>
     \/ /\ Name("sync") \in wanted
        /\ Begin("sync", "remote")
        /\ UNCHANGED had_error
  /\ UNCHANGED <<disk, wanted, engine, ui, refused>>

Report ==
  /\ At("sync", "fetch", "done")
  /\ Answer(IF had_error THEN "failed" ELSE "synced")
  /\ UNCHANGED <<disk, sync, engine, syncing, asked, history>>

-----------------------------------------------------------------------------
(* The UI: the button, which is disabled meanwhile, and the timer of       *)
(* automatic synchronisation, which is not.                                *)
SyncNow ==
  /\ ~syncing
  /\ syncing' = TRUE /\ asked' = TRUE
  /\ UNCHANGED <<disk, writer, sync, engine, answer, history>>

(* Ed2kBootstrapSynced, Ed2kBootstrapSyncFailed *)
Answered ==
  /\ answer # "none"
  /\ answer' = "none" /\ syncing' = FALSE
  /\ wanted' = {} /\ had_error' = FALSE /\ disturbed' = {}
  /\ UNCHANGED <<disk, writer, engine, asked, refused, mixed>>

(* The user removes a file to have the bundled one again. *)
Delete(f) ==
  /\ target[f] # Missing
  /\ target' = [target EXCEPT ![f] = Missing]
  /\ writer' = Unlinked(writer, f)
  /\ Disturb({f})
  /\ UNCHANGED <<tmp, sync, engine, ui, refused, mixed>>

(* The application ends, with all its tasks, and is started again. *)
Kill ==
  /\ writer' = [w \in Writer |-> Resting]
  /\ wanted' = {} /\ had_error' = FALSE
  /\ engine' = "down"
  /\ syncing' = FALSE /\ asked' = FALSE /\ answer' = "none"
  /\ refused' = FALSE /\ disturbed' = {}
  /\ tmp' = [f \in File |-> Missing]
  /\ UNCHANGED <<target, mixed>>

-----------------------------------------------------------------------------
Writing(w) == WriteFile(w) \/ Ensure(w)
Syncing == CacheUnusable \/ Load \/ Download \/ Report
Supervisor == Start \/ AddEd2k \/ Inject \/ Degrade \/ HandleSync
User == SyncNow \/ (\E f \in File: Delete(f))

Next == (\E w \in Writer: Writing(w)) \/ Syncing \/ Supervisor \/ Answered \/ User \/ Kill

Spec == Init /\ [][Next]_vars

(* Tasks run; the supervisor chooses fairly between the reports of the     *)
(* engine and the commands.  The user owes nothing.                        *)
Fairness ==
  /\ \A w \in Writer: WF_vars(Writing(w))
  /\ WF_vars(Syncing) /\ WF_vars(Inject) /\ SF_vars(HandleSync) /\ WF_vars(Answered)

FairSpec == Spec /\ Fairness

-----------------------------------------------------------------------------
(* Every variable is of its kind; one synchronisation at a time; a writer  *)
(* has a file open exactly while it writes.                                *)
Contents == {Missing} \cup ({"none", "bundled", "remote"} \X {"none", "bundled", "remote"})
AnyWriter ==
  [job : {"none", "ensure", "fetch"},
   at : {"none", "look", "stat", "ok", "failed", "get", "done",
         "open", "first", "second", "remove", "rename"},
   n : DOMAIN Cached, data : {"bundled", "remote"},
   open : {"none", "tmp", "target", "gone"}, shared : BOOLEAN]
TypeOK ==
  /\ target \in [File -> Contents]
  /\ tmp \in [File -> Contents]
  /\ writer \in [Writer -> AnyWriter]
  /\ wanted \subseteq File
  /\ had_error \in BOOLEAN
  /\ engine \in {"down", "starting", "up"}
  /\ syncing \in BOOLEAN
  /\ asked \in BOOLEAN
  /\ answer \in {"none", "synced", "failed"}
  /\ refused \in BOOLEAN
  /\ mixed \subseteq File
  /\ disturbed \subseteq File
  /\ \A w \in Writer: (writer[w].open = "none") = (writer[w].at \notin {"first", "second"})
  /\ asked \/ answer # "none" \/ writer["sync"] # Resting => syncing
  /\ ~(asked /\ answer # "none")
  /\ writer["sync"] # Resting => ~asked /\ answer = "none"

(* A kill or a failed write at any step of write_cache_file leaves each    *)
(* file of the cache complete or missing, never torn: the temporary name   *)
(* takes all that is unfinished.  Files both tasks wrote at the same time  *)
(* are excepted: they share the temporary name, and a writer that was      *)
(* overtaken goes on writing under the final one.                          *)
CacheWhole ==
  \A f \in File: f \notin mixed => target[f] \in {Missing, Copy("bundled"), Copy("remote")}

(* When the UI is told that the files were synchronised, every file with a *)
(* URL is in the cache as it was downloaded, whatever engine starts, ed2k  *)
(* downloads, failures and edits of the URLs came in between; but for the  *)
(* files the user removed or the supervisor wrote meanwhile.               *)
ToldIsCached ==
  answer = "synced" =>
    \A f \in wanted \ disturbed:
      target[f] = Copy("remote")

(* The UI's flag is cleared in the end, so that the next synchronisation   *)
(* is not dropped and the application is not taken for busy for ever.  The *)
(* exception is a command that met no engine: it is answered with          *)
(* EngineDegraded, which does not clear the flag.                          *)
SyncEnds == (syncing /\ ~refused) ~> (~syncing \/ refused)

(* Each file of the cache is whole or missing, and the tasks that write    *)
(* them are of their kind.                                                 *)
CacheConsistent == TypeOK /\ CacheWhole

=============================================================================
