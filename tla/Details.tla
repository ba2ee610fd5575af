------------------------------ MODULE Details ------------------------------
(***************************************************************************)
(* The details dialog of a download: the files of a torrent that are to be *)
(* downloaded, and the options of the download that can be edited          *)
(* (src/ui/details_dialog.rs, src/update/task.rs, the details events of    *)
(* src/update/engine.rs and the details commands of src/engine/mod.rs).    *)
(*                                                                         *)
(* The dialog shows what aria2 answered last, with the user's changes on   *)
(* top.  A change of the selection waits in pending_select for a timer; an *)
(* edit waits for the Apply button.  Commands go to the engine in order,   *)
(* and answers come back in order, but a question asked before a change    *)
(* may be answered after it.                                               *)
(***************************************************************************)
EXTENDS FileTree, TaskOptions

CONSTANTS
  Gid,          \* downloads with a row
  NoGid,        \* no download
  Layouts,      \* the files the downloads may have
  MaxInputs,    \* bound: what the user does, and what becomes of downloads
  MaxFailures,  \* bound: calls of aria2 that fail for no reason of its own
  MaxQueue      \* bound: the clock asks only when no more is under way

ASSUME DetailsAssumption ==
  /\ NoGid \notin Gid
  /\ {MaxInputs, MaxFailures, MaxQueue} \subseteq Nat
  /\ Layouts \subseteq [Gid -> Seq(TorrentFile) \ {<< >>}]

Text          == {"", "x"}
AdvancedField == {"ua", "cookie"}   \* a plain option, and the one kept in a header
Options       == [AdvancedField -> Text]
Empty         == [f \in AdvancedField |-> ""]
NotShown      == {NoIndex}          \* no details: no file has this index

IndicesOf(files) == {files[k].index : k \in DOMAIN files}

VARIABLES
  (* aria2 *)
  files,            \* the files of each download
  life,             \* running; finished; completed: the row says so; gone
  selected,         \* the files it downloads
  options,          \* the options it runs with
  (* the engine *)
  cmds, events,
  (* the dialog: DetailsDialogState *)
  phase,            \* closed, open, leaving: fading out
  gid, shown,       \* shown: the files with a checked box
  loading, fetch_failed, files_expanded,
  pending_select, select_gen,
  text,             \* what the fields of the Advanced tab hold
  advanced_saving, advanced_dirty,
  (* the rest of the UI *)
  advanced,         \* DownloadTask.advanced: the options, and the name
  select_timers,    \* generations, in the order their timers end
  closing,          \* begin_close has run
  (* what happened: only the properties read it *)
  wanted,           \* the selection the user left behind, until aria2 refuses
                    \* it or the download ends
  made,             \* where it was made, or that it was dropped
  inputs, failures  \* bounds

aria2  == <<files, life, selected, options>>
engine == <<cmds, events>>
select == <<pending_select, select_gen, select_timers>>
edit   == <<text, advanced_saving, advanced_dirty>>
dialog == <<phase, gid, shown, loading, fetch_failed, files_expanded>>
past   == <<wanted, made>>
bounds == <<inputs, failures>>
detailsVars ==
  <<aria2, engine, dialog, select, edit, advanced, closing, past, bounds>>

NoPending == [gid |-> NoGid, files |-> {}]
Nothing   == [g \in Gid |-> NotShown]

Cmd(op, g)  == [op |-> op, gid |-> g, files |-> {}, options |-> Empty]
Answer(e, g) == [ev |-> e, gid |-> g, files |-> {}, options |-> Empty]

\* The shape of the state.
DetailsTypeOK ==
  /\ files \in Layouts
  /\ life \in [Gid -> {"running", "finished", "completed", "gone"}]
  /\ \A g \in Gid : selected[g] \subseteq IndicesOf(files[g])
  /\ options \in [Gid -> Options]
  /\ \A k \in DOMAIN cmds : cmds[k].op \in {"details", "advanced", "change",
                                            "select", "shutdown"}
  /\ \A k \in DOMAIN events : events[k].gid \in Gid
  /\ phase \in {"closed", "open", "leaving"}
  /\ gid \in Gid \cup {NoGid} /\ (gid = NoGid <=> phase = "closed")
  /\ shown \subseteq Nat
  /\ {loading, fetch_failed, advanced_saving, advanced_dirty, closing}
       \subseteq BOOLEAN
  /\ pending_select.gid \in Gid \cup {NoGid} /\ select_gen \in Nat
  /\ select_timers \in Seq(Nat)
  /\ text \in Options
  /\ advanced \in [Gid -> [out : Text, options : Options]]
  /\ wanted \in [Gid -> SUBSET Nat]
  /\ made \in [Gid -> {"open", "leaving", "dropped"}]
  /\ inputs \in 0 .. MaxInputs /\ failures \in 0 .. MaxFailures

----------------------------------------------------------------------------
(* The dialog *)

Visible == phase # "closed"
HasRow(g) == life[g] # "gone"
Completed(g) == life[g] = "completed"

Tree == BuildTree(files[gid])

\* advanced_options_editable, and what the files tab enables: the dialog
\* knows the download by its row
Editable == /\ Visible /\ ~ closing
            /\ HasRow(gid) /\ ~ Completed(gid)

\* Everything the user does counts.
Input == /\ inputs < MaxInputs
         /\ inputs' = inputs + 1
         /\ UNCHANGED <<aria2, events, closing, failures>>

Forget ==     \* DetailsDialogState::open and close clear the same
  /\ fetch_failed' = FALSE
  /\ files_expanded' = {}
  /\ shown' = NotShown

\* OpenTaskDetails: the card of a download is pressed; a dialog that fades
\* out still covers it.  The generations start again, and a selection that
\* waits since then is dropped.
Open(g) ==
  /\ phase = "closed" /\ ~ closing /\ HasRow(g)
  /\ Input /\ Forget
  /\ phase' = "open" /\ gid' = g
  /\ pending_select' = NoPending /\ select_gen' = 0
  /\ made' = [h \in Gid |->
                IF h = pending_select.gid /\ made[h] = "leaving" THEN "dropped" ELSE made[h]]
  /\ text' = advanced[g].options
  /\ advanced_dirty' = FALSE /\ advanced_saving' = FALSE
  /\ loading' = ~ Completed(g)
  /\ cmds' = IF Completed(g) THEN cmds
             ELSE cmds \o <<Cmd("details", g), Cmd("advanced", g)>>
  /\ UNCHANGED <<select_timers, advanced, wanted>>

SelectFiles(p) == [Cmd("select", p.gid) EXCEPT !.files = p.files]

\* What closing the dialog and closing the window do about a selection that
\* waits
\* mutant: it is left to a timer that is of the old generation now
LeavePending ==
  /\ select_gen' = select_gen + 1
  /\ UNCHANGED <<pending_select, cmds>>

FlushPending ==
  /\ select_gen' = select_gen + 1
  /\ pending_select' = NoPending
  /\ cmds' = IF pending_select = NoPending THEN cmds
             ELSE Append(cmds, SelectFiles(pending_select))

\* CloseTaskDetails
Close ==
  /\ phase = "open" /\ ~ closing
  /\ Input /\ FlushPending
  /\ phase' = "leaving"
  /\ UNCHANGED <<gid, shown, loading, fetch_failed, files_expanded, select_timers,
                 edit, advanced, past>>

\* DetailsAnim: the dialog has faded out.  pending_select stays.
Exited ==
  /\ phase = "leaving"
  /\ phase' = "closed" /\ gid' = NoGid
  /\ Forget
  /\ loading' = FALSE
  /\ text' = Empty /\ advanced_saving' = FALSE /\ advanced_dirty' = FALSE
  /\ UNCHANGED <<aria2, engine, select, advanced, closing, past, bounds>>

\* RefreshTaskDetails: every two seconds while the dialog is visible.  A
\* download without a row, or whose row says it is complete, is not asked
\* for; options are not asked for while they are edited.
Refresh ==
  /\ Visible /\ ~ closing /\ ~ fetch_failed
  /\ HasRow(gid) /\ ~ Completed(gid)
  /\ Len(cmds) + Len(events) < MaxQueue
  /\ cmds' = cmds \o <<Cmd("details", gid)>>
                  \o (IF advanced_dirty THEN << >> ELSE <<Cmd("advanced", gid)>>)
  /\ UNCHANGED <<aria2, events, dialog, select, edit, advanced, closing, past,
                 bounds>>

----------------------------------------------------------------------------
(* The files tab *)

\* flip_with_guard: a flip that would leave nothing selected leaves the
\* files it would have unchecked checked
Flip(chosen, flipped) ==
  LET result == (chosen \ flipped) \cup (flipped \ chosen)
  IN  IF result = {} THEN chosen \cap flipped ELSE result

\* schedule_details_select_flush: the boxes are checked at once, aria2 is
\* told when nothing has changed for 350 ms
Schedule(chosen) ==
  /\ shown' = chosen
  /\ IF chosen = {}
     THEN UNCHANGED <<select, past>>
     ELSE /\ pending_select' = [gid |-> gid, files |-> chosen]
          /\ select_gen' = select_gen + 1
          /\ select_timers' = Append(select_timers, select_gen + 1)
          /\ wanted' = [wanted EXCEPT ![gid] = chosen]
          /\ made' = [made EXCEPT ![gid] = phase]
  /\ UNCHANGED <<cmds, phase, gid, loading, fetch_failed, files_expanded, edit,
                 advanced>>

\* DetailsTreeToggle
Toggle ==
  /\ Editable /\ shown # NotShown
  /\ \E node \in VisibleRows(Tree, files_expanded) :
       Schedule(Flip(shown, DescendantIndices(Tree, node)))
  /\ Input

\* DetailsFilesSelectAll, DetailsFilesSelectNone: one file stays selected
Master ==
  /\ Editable /\ shown # NotShown
  /\ LET all == IndicesOf(files[gid])
     IN  Schedule(IF MasterSelects(Tree, shown) = "all" THEN all ELSE {Min(all)})
  /\ Input

\* DetailsTreeExpand
Expand ==
  /\ Visible /\ ~ closing /\ HasRow(gid) /\ shown # NotShown
  /\ \E node \in {n \in VisibleRows(Tree, files_expanded) : n.dir} :
       files_expanded' = SymDiff(files_expanded, {node.path})
  /\ Input
  /\ UNCHANGED <<cmds, phase, gid, shown, loading, fetch_failed, select, edit,
                 advanced, past>>

\* DetailsFilesFlush: a timer has ended
Flush ==
  /\ select_timers # << >>
  /\ select_timers' = Tail(select_timers)
  /\ IF Head(select_timers) = select_gen /\ pending_select # NoPending
     THEN /\ pending_select' = NoPending
          /\ cmds' = cmds \o <<SelectFiles(pending_select),
                               Cmd("details", pending_select.gid)>>
     ELSE UNCHANGED <<pending_select, cmds>>
  /\ UNCHANGED <<aria2, events, dialog, select_gen, edit, advanced, closing,
                 past, bounds>>

----------------------------------------------------------------------------
(* The Advanced tab *)

\* DetailsAdvancedFieldChanged
Edit ==
  /\ Editable
  /\ \E f \in AdvancedField, t \in Text : t # text[f] /\ text' = [text EXCEPT ![f] = t]
  /\ advanced_dirty' = TRUE
  /\ Input
  /\ UNCHANGED <<cmds, dialog, select, advanced_saving, advanced, past>>

\* DetailsAdvancedSave: the Apply button
SaveAdvanced ==
  /\ Editable /\ advanced_dirty /\ ~ advanced_saving
  /\ advanced_saving' = TRUE
  /\ cmds' = Append(cmds, [Cmd("change", gid) EXCEPT !.options = text])
  /\ Input
  /\ UNCHANGED <<dialog, select, text, advanced_dirty, advanced, past>>

----------------------------------------------------------------------------
(* Closing the window *)

\* begin_close: the selection that waits goes out before the shutdown
BeginClose ==
  /\ ~ closing /\ inputs < MaxInputs
  /\ closing' = TRUE
  /\ LET flushed == IF pending_select = NoPending THEN << >>
                    ELSE <<SelectFiles(pending_select)>>
     IN  cmds' = cmds \o flushed \o <<Cmd("shutdown", NoGid)>>
  /\ pending_select' = NoPending /\ select_gen' = select_gen + 1
  /\ UNCHANGED <<aria2, events, dialog, select_timers, edit, advanced, past, bounds>>

----------------------------------------------------------------------------
(* The engine carries commands out one by one *)

\* A call of aria2 fails when the download is not there any more, or for a
\* reason of its own; a download that is finished takes no new options.
Fails(possible) ==
  IF ~ possible
  THEN UNCHANGED failures
  ELSE failures < MaxFailures /\ failures' = failures + 1

Tell(e) == events' = Append(events, e)

\* FetchTaskDetails, FetchTaskAdvanced
Fetch(c) ==
  /\ c.op \in {"details", "advanced"}
  /\ \/ /\ life[c.gid] # "gone"
        /\ Tell(IF c.op = "details"
                THEN [Answer("details", c.gid) EXCEPT !.files = selected[c.gid]]
                ELSE [Answer("loaded", c.gid) EXCEPT !.options = options[c.gid]])
        /\ UNCHANGED failures
     \/ /\ Fails(life[c.gid] # "gone")
        /\ Tell(Answer(IF c.op = "details" THEN "detailsFailed" ELSE "loadFailed",
                       c.gid))
  /\ UNCHANGED <<selected, options, past>>

\* apply_change: every option is written, but a cookie that is empty adds no
\* header, and what is not written stays as it is
Rewritten(current, new) ==
  [f \in AdvancedField |-> IF f = "cookie" /\ new[f] = "" THEN current[f] ELSE new[f]]

\* ChangeTaskAdvanced
Change(c) ==
  /\ c.op = "change"
  /\ \/ /\ life[c.gid] = "running"
        /\ options' = [options EXCEPT ![c.gid] = Rewritten(@, c.options)]
        /\ Tell([Answer("applied", c.gid) EXCEPT !.options = c.options])
        /\ UNCHANGED failures
     \/ /\ Fails(life[c.gid] = "running")
        /\ Tell(Answer("applyFailed", c.gid))
        /\ UNCHANGED options
  /\ UNCHANGED <<selected, past>>

\* SelectFiles
Select(c) ==
  /\ c.op = "select"
  /\ \/ /\ life[c.gid] = "running" /\ c.files # {}
        /\ selected' = [selected EXCEPT ![c.gid] = c.files]
        /\ UNCHANGED <<events, failures, wanted>>
     \/ /\ c.files # {} /\ Fails(life[c.gid] = "running")
        /\ Tell(Answer("selectFailed", c.gid))
        /\ wanted' = [wanted EXCEPT ![c.gid] =
                        IF @ = c.files THEN NotShown ELSE @]
        /\ UNCHANGED selected
     \/ c.files = {} /\ UNCHANGED <<selected, events, failures, wanted>>
  /\ UNCHANGED <<options, made>>

Work ==
  /\ cmds # << >>
  /\ LET c == Head(cmds)
     IN  IF c.op = "shutdown"
         THEN /\ cmds' = << >>
              /\ UNCHANGED <<events, selected, options, failures, past>>
         ELSE /\ cmds' = Tail(cmds)
              /\ Fetch(c) \/ Change(c) \/ Select(c)
  /\ UNCHANGED <<files, life, dialog, select, edit, advanced, closing, inputs>>

----------------------------------------------------------------------------
(* What the UI does with the answers *)

\* TaskDetails
\* mutant: the answer for another download is shown as well
DetailsOfAny(e) ==
  /\ e.ev = "details"
  /\ IF Visible
     THEN /\ shown' = e.files
          /\ loading' = FALSE /\ fetch_failed' = FALSE
          /\ files_expanded' = IF loading THEN DirPaths(Tree) ELSE files_expanded
     ELSE UNCHANGED <<shown, loading, fetch_failed, files_expanded>>
  /\ UNCHANGED <<edit, advanced>>

\* mutant: once the details are there, no answer changes the boxes
DetailsOnce(e) ==
  /\ e.ev = "details"
  /\ IF gid = e.gid
     THEN /\ shown' = IF shown = NotShown THEN e.files ELSE shown
          /\ loading' = FALSE /\ fetch_failed' = FALSE
          /\ files_expanded' = IF loading THEN DirPaths(Tree) ELSE files_expanded
     ELSE UNCHANGED <<shown, loading, fetch_failed, files_expanded>>
  /\ UNCHANGED <<edit, advanced>>

TaskDetails(e) ==
  /\ e.ev = "details"
  /\ IF gid = e.gid
     THEN /\ shown' = e.files
          /\ loading' = FALSE /\ fetch_failed' = FALSE
          /\ files_expanded' = IF loading THEN DirPaths(Tree) ELSE files_expanded
     ELSE UNCHANGED <<shown, loading, fetch_failed, files_expanded>>
  /\ UNCHANGED <<edit, advanced>>

\* TaskDetailsFailed: nothing is asked for any more
TaskDetailsFailed(e) ==
  /\ e.ev = "detailsFailed"
  /\ IF gid = e.gid
     THEN loading' = FALSE /\ fetch_failed' = TRUE
     ELSE UNCHANGED <<loading, fetch_failed>>
  /\ UNCHANGED <<shown, files_expanded, edit, advanced>>

\* TaskAdvancedLoaded: options that are edited stay, but a save that is
\* under way is forgotten
AdvancedLoaded(e) ==
  /\ e.ev = "loaded"
  /\ IF gid = e.gid
     THEN /\ text' = IF advanced_dirty THEN text ELSE e.options
          /\ advanced_saving' = FALSE
     ELSE UNCHANGED <<text, advanced_saving>>
  /\ UNCHANGED <<shown, loading, fetch_failed, files_expanded, advanced_dirty,
                 advanced>>

\* TaskAdvancedApplied: the panel has no field for the name, the one the
\* download was given is kept
AdvancedApplied(e) ==
  /\ e.ev = "applied"
  /\ IF gid = e.gid THEN advanced_dirty' = FALSE /\ advanced_saving' = FALSE
                    ELSE UNCHANGED <<advanced_dirty, advanced_saving>>
  /\ advanced' = IF HasRow(e.gid)
                 THEN [advanced EXCEPT ![e.gid].options = e.options]
                 ELSE advanced
  /\ UNCHANGED <<text, shown, loading, fetch_failed, files_expanded>>

\* TaskAdvancedLoadFailed, TaskAdvancedApplyFailed; SelectFilesFailed only
\* tells the user
Failed(e) ==
  /\ e.ev \in {"loadFailed", "applyFailed", "selectFailed"}
  /\ advanced_saving' = (advanced_saving /\ ~ (e.ev # "selectFailed" /\ gid = e.gid))
  /\ UNCHANGED <<shown, loading, fetch_failed, files_expanded, text,
                 advanced_dirty, advanced>>

Deliver ==
  /\ events # << >>
  /\ events' = Tail(events)
  /\ LET e == Head(events)
     IN  \/ TaskDetails(e) \/ TaskDetailsFailed(e) \/ AdvancedLoaded(e)
         \/ AdvancedApplied(e) \/ Failed(e)
  /\ UNCHANGED <<aria2, cmds, phase, gid, select, closing, past, bounds>>

----------------------------------------------------------------------------
(* What happens to the download meanwhile *)

Live(g, from, to) ==
  /\ life[g] \in from /\ inputs < MaxInputs
  /\ inputs' = inputs + 1
  /\ life' = [life EXCEPT ![g] = to]
  /\ wanted' = [wanted EXCEPT ![g] = NotShown]
  /\ UNCHANGED <<files, selected, options, engine, dialog, select, edit,
                 advanced, closing, made, failures>>

Finishes(g)     == Live(g, {"running"}, "finished")
RowCompletes(g) == Live(g, {"finished"}, "completed")
Vanishes(g)     == Live(g, {"running", "completed"}, "gone")

DetailsInit ==
  /\ files \in Layouts
  /\ life = [g \in Gid |-> "running"]
  /\ selected = [g \in Gid |-> IndicesOf(files[g])]
  /\ options = [g \in Gid |-> [f \in AdvancedField |-> "x"]]
  /\ advanced = [g \in Gid |-> [out |-> "x", options |-> options[g]]]
  /\ cmds = << >> /\ events = << >>
  /\ phase = "closed" /\ gid = NoGid /\ shown = NotShown
  /\ loading = FALSE /\ fetch_failed = FALSE /\ files_expanded = {}
  /\ pending_select = NoPending /\ select_gen = 0 /\ select_timers = << >>
  /\ text = Empty /\ advanced_saving = FALSE /\ advanced_dirty = FALSE
  /\ closing = FALSE /\ wanted = Nothing /\ made = [g \in Gid |-> "open"]
  /\ inputs = 0 /\ failures = 0

DetailsUser ==
  (\E g \in Gid : Open(g)) \/ Close \/ Toggle \/ Master \/ Expand
    \/ Edit \/ SaveAdvanced \/ BeginClose

DetailsNext ==
  \/ DetailsUser \/ Exited \/ Refresh \/ Flush \/ Work \/ Deliver
  \/ \E g \in Gid : Finishes(g) \/ RowCompletes(g) \/ Vanishes(g)

DetailsSpec == DetailsInit /\ [][DetailsNext]_detailsVars

\* The clock ticks, timers end, the dialog fades out, and the engine and the
\* UI go through what they are sent.  The user need not do anything, and a
\* download need not finish.
DetailsFairness ==
  /\ WF_detailsVars(Exited) /\ WF_detailsVars(Refresh) /\ WF_detailsVars(Flush)
  /\ WF_detailsVars(Work) /\ WF_detailsVars(Deliver)

DetailsFairSpec == DetailsSpec /\ DetailsFairness

----------------------------------------------------------------------------
(* Properties *)

\* build_tree keeps every file of the torrent, in one node that no other
\* hides from find_node, also when two files have one path, when a file has
\* the path of a directory, and beyond the depth limit; the sizes add up
\* unless a file took the place of a directory.
TreeKeepsFiles ==
  \A g \in Gid :
    LET tree  == BuildTree(files[g])
        nodes == {n \in tree : n.index # NoIndex}
        roots == {n \in tree : Len(n.path) <= 1}
    IN  /\ {n.index : n \in nodes} = IndicesOf(files[g])
        /\ Cardinality(nodes) = Len(files[g])
        /\ Cardinality({n.path : n \in tree}) = Cardinality(tree)
        /\ (\A n \in nodes : Below(tree, n) = {})
             => MapThenSumSet(LAMBDA n : LengthOf(tree, n), roots)
                  = MapThenSumSet(LAMBDA k : files[g][k].length, DOMAIN files[g])

\* The box of a row is checked when all the files a press on it flips are
\* selected, and empty when none is: the counts of collect_aggregates and
\* the indices of collect_indices are of the same files.
BoxesTellSelection ==
  (Visible /\ shown # NotShown) =>
    \A node \in Tree :
      LET flips == DescendantIndices(Tree, node)
          box   == CheckState(Tree, node, shown)
      IN  /\ box = "checked" <=> flips \subseteq shown
          /\ box = "unchecked" <=> flips \cap shown = {}

\* What is shown, and what aria2 is told to download, is a choice of files
\* of that very download, and never none of them, although answers for the
\* dialog that was open before still arrive (update/engine.rs, TaskDetails;
\* flip_with_guard; an empty list would mean all files, select_file_csv).
SelectionFits ==
  /\ (Visible /\ shown # NotShown)
        => shown # {} /\ shown \subseteq IndicesOf(files[gid])
  /\ \A k \in DOMAIN cmds : cmds[k].op = "select"
        => cmds[k].files # {} /\ cmds[k].files \subseteq IndicesOf(files[cmds[k].gid])

ChangeUnderWay(g) ==
  \/ \E k \in DOMAIN cmds : cmds[k].op = "change" /\ cmds[k].gid = g
  \/ \E k \in DOMAIN events : events[k].ev = "applied" /\ events[k].gid = g

\* The row keeps the options aria2 runs the download with, and the name it
\* was given (docs/07-behavior-gotchas.md:455), so that a re-download takes
\* what the last one had; the cookie is another
\* matter: one that is cleared stays in aria2.
RowHasOptions ==
  \A g \in Gid : ~ ChangeUnderWay(g) /\ HasRow(g) =>
    /\ advanced[g].out = "x"
    /\ advanced[g].options["ua"] = options[g]["ua"]

\* The selection the user left behind reaches aria2: when the timer ends,
\* when the dialog is closed before, and when the window is closed - unless
\* another takes its place, aria2 refuses it, or the download ends.  One is
\* lost otherwise: made while the dialog fades out, after CloseTaskDetails
\* sent what waited, and still waiting when a card is opened
\* (OpenTaskDetails, update/task.rs:304).
SelectionReaches ==
  \A g \in Gid : (wanted[g] # NotShown)
     ~> (wanted[g] = NotShown \/ selected[g] = wanted[g] \/ made[g] = "dropped")

\* A dialog that stays open comes to show what aria2 downloads, whatever was
\* lost or refused before; unless an answer was an error, after which it
\* asks no more.
ShownSettles ==
  \A g \in Gid :
    <>[](gid = g /\ phase = "open" /\ ~ closing /\ ~ fetch_failed /\ life[g] = "running")
      => <>[](shown = selected[g])

\* The dialog shows every file of the torrent once, its boxes agree with the
\* selection, and the row of a download with the options aria2 was given;
\* those read back as they were written, and a name is kept.
DialogConsistent ==
  /\ DetailsTypeOK /\ TreeKeepsFiles /\ BoxesTellSelection /\ RowHasOptions
  /\ OptionsReadBack /\ NamesKept

=============================================================================
