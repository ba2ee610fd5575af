------------------------------- MODULE Intake -------------------------------
(***************************************************************************)
(* How a download gets into Remotrix: the clipboard, a file dropped on the *)
(* window, the file picker, the browser extension, and the dialog "Add     *)
(* download" in which they meet (src/update/window.rs, add.rs, misc.rs,    *)
(* src/ui/add_dialog.rs, src/integration/extension_api.rs).  What a text   *)
(* holds is in Links.                                                      *)
(*                                                                         *)
(* Every action is a message the UI thread handles, or a step of a task    *)
(* beside it: a read of the clipboard, a parse with the probes of its      *)
(* links, a file picker, a request of the extension.                       *)
(***************************************************************************)
EXTENDS Links, TorrentMeta

CONSTANTS
  Texts,          \* what the clipboard may hold, or a dropped file
  Torrents,       \* paths of files called .torrent, with what they contain
  Serves,         \* what the server of each link that is probed has
  Requests,       \* what the extension sends: [url, final, token]
  TypedLinks,     \* links the user may type
  Prefs,          \* clipboard_types
  MaxInputs       \* bound: what comes from outside

NoText == [lines |-> <<>>, file |-> NoFile]
NoUrl  == <<>>
Command(kind, path, files) == [kind |-> kind, path |-> path, files |-> files]
NoCommand == Command("none", "", {})

ASSUME IntakeAssumption ==
  /\ \A t \in Texts: t.lines \in Seq(Seq(STRING)) /\ t # NoText
  /\ \A t \in Texts: t.file.kind = "torrent" => t.file.path \in DOMAIN Torrents
  /\ \A p \in DOMAIN Torrents: \A i \in DOMAIN Torrents[p]:
       Torrents[p][i].is \in {"int", "str", "list", "dict", "end", "junk"}
  /\ MAX_BENCODE_DEPTH \in Nat
  /\ \A u \in DOMAIN Serves: Serves[u] \in Serve
  /\ Prefs \subseteq LinkTypes
  /\ MaxInputs \in Nat

VARIABLES
  (* the clipboard *)
  clip, reads, parses,      \* its text; texts that were read; tasks that parse
  lastHash,                 \* last_clipboard_hash: the text it is of
  (* the dialog *)
  visible, dismissing,
  tab, urls, torrent, selected, metalink,
  (* beside the UI thread *)
  drops, picks, prompts,    \* files that are parsed, pickers, downloads of the extension
  covered,                  \* another dialog is over everything
  (* the engine *)
  sent,                     \* what it was told to add last
  submitted,                \* how often what the dialog holds was
  inputs                    \* bound

clipboard  == <<clip, reads, parses, lastHash>>
form       == <<tab, urls, torrent, selected, metalink>>
addDialog  == <<visible, dismissing, form, submitted>>
tasks      == <<drops, picks, prompts>>
intakeVars == <<clipboard, addDialog, tasks, covered, sent, inputs>>

Listed == [p \in DOMAIN Torrents |-> {f.index: f \in Range(ParseTorrent(Torrents[p]))}]
Valid  == {p \in DOMAIN Torrents: IsValidTorrentFile(Torrents[p])}
FilesOf(path) == IF path = "" THEN {} ELSE Listed[path]

IntakeInit ==
  /\ clip = NoText /\ reads = <<>> /\ parses = {} /\ lastHash = NoText
  /\ visible = FALSE /\ dismissing = FALSE
  /\ tab = "url" /\ urls = <<>> /\ torrent = "" /\ selected = {} /\ metalink = ""
  /\ drops = {} /\ picks = {} /\ prompts = <<>> /\ covered = FALSE
  /\ sent = NoCommand /\ submitted = 0
  /\ inputs = 0

-----------------------------------------------------------------------------
(* The dialog.  set_torrent_path reads the files of the torrent and        *)
(* selects all; a torrent that cannot be read has none.                    *)
SetTorrentKeepsFiles(path) ==        \* mutant: the files are not read again
  /\ torrent' = path
  /\ selected' = IF torrent = "" THEN FilesOf(path) ELSE selected

SetTorrent(path) == torrent' = path /\ selected' = FilesOf(path)

(* apply_payload: one tab is filled, the others stay. *)
ApplyPayload(payload) ==
  /\ tab' = payload.kind
  /\ \/ payload.kind = "url" /\ urls' = payload.urls /\ UNCHANGED <<torrent, selected, metalink>>
     \/ payload.kind = "torrent" /\ SetTorrent(payload.path) /\ UNCHANGED <<urls, metalink>>
     \/ payload.kind = "metalink" /\ metalink' = payload.path /\ UNCHANGED <<urls, torrent, selected>>

(* open, and what open_with, open_external and the others fill in *)
Fill(payload) ==
  /\ visible' = TRUE /\ submitted' = 0
  /\ tab' = payload.kind /\ urls' = payload.urls
  /\ torrent' = (IF payload.kind = "torrent" THEN payload.path ELSE "")
  /\ selected' = (IF payload.kind = "torrent" THEN FilesOf(payload.path) ELSE {})
  /\ metalink' = (IF payload.kind = "metalink" THEN payload.path ELSE "")

Input == inputs < MaxInputs /\ inputs' = inputs + 1
Empty == [kind |-> "url", urls |-> <<>>, path |-> ""]
AnimOpen == dismissing' = FALSE   \* DialogAnim::open
BeginExit == dismissing' = TRUE   \* DialogAnim::begin_exit

(* AddDialogAnim: the exit animation has run. *)
ExitEnds ==
  /\ dismissing
  /\ dismissing' = FALSE /\ visible' = FALSE
  /\ UNCHANGED <<clipboard, form, submitted, tasks, covered, sent, inputs>>

-----------------------------------------------------------------------------
(* The clipboard *)
Copy ==                  \* another program
  /\ Input
  /\ \E t \in Texts: clip' = t
  /\ UNCHANGED <<reads, parses, lastHash, addDialog, tasks, covered, sent>>

WindowFocused ==         \* WindowOpened and WindowFocused: read_clipboard
  /\ clip # NoText /\ Input
  /\ reads' = Append(reads, clip)
  /\ UNCHANGED <<clip, parses, lastHash, addDialog, tasks, covered, sent>>

(* A text that is not the last one goes to a task, which knows the         *)
(* webpage_filter of now.  The task extracts the links and asks for what   *)
(* it does not know.                                                       *)
Probes(payload, mode) == IF mode = "smart" /\ payload.kind = "url" THEN ToProbe(payload.urls) ELSE <<>>

ClipboardRead ==
  /\ reads # <<>>
  /\ reads' = Tail(reads)
  /\ IF Head(reads) = lastHash THEN UNCHANGED parses
     ELSE \E mode \in {"smart", "static", "off"}, client \in BOOLEAN:    \* build_probe_client
            LET payload == ParseClipboard(Head(reads), Prefs)
            IN  parses' = parses \cup
                  {[id |-> Min((0..MaxInputs) \ {p.id: p \in parses}), text |-> Head(reads), payload |-> payload,
                    mode |-> mode, client |-> client,
                    open |-> IF client THEN DOMAIN Probes(payload, mode) ELSE {}, decisions |-> <<>>]}
  /\ UNCHANGED <<clip, lastHash, addDialog, tasks, covered, sent, inputs>>

ProbeEnds ==             \* probe_url; what is collected is in this order
  \E p \in parses: \E i \in p.open, head \in HeadAnswer, get \in GetAnswer:
    /\ Cardinality({j \in p.open: j < i}) < Window
    /\ parses' = (parses \ {p}) \cup
         {[p EXCEPT !.open = @ \ {i},
                    !.decisions = Append(@, ProbeUrl(Serves[Probes(p.payload, p.mode)[i]], head, get))]}
    /\ UNCHANGED <<clip, reads, lastHash, addDialog, tasks, covered, sent, inputs>>

(* The text becomes the last one, also when its links are not offered      *)
(* because the dialog is in use, and last_clipboard_hash is saved.         *)
ClipboardParsed ==
  \E p \in parses:
    /\ p.open = {}
    /\ parses' = parses \ {p}
    /\ \/ /\ p.text = lastHash
          /\ UNCHANGED <<lastHash, addDialog>>
       \/ /\ p.text # lastHash /\ lastHash' = p.text
          /\ LET payload == ApplyWebpageFilter(p.payload, p.mode, p.client, p.decisions)
             IN  IF payload = Nothing \/ visible THEN UNCHANGED addDialog
                 ELSE Fill(payload) /\ AnimOpen
    /\ UNCHANGED <<clip, reads, tasks, covered, sent, inputs>>

-----------------------------------------------------------------------------
(* A file dropped on the window: FileDropped starts the parse,             *)
(* DroppedFileParsed applies it to the dialog, or opens that.              *)
FileDropped ==
  /\ Input
  /\ \E t \in Texts:
       drops' = IF covered \/ t.file = NoFile THEN drops ELSE drops \cup {ParseClipboard(t, Prefs)}
  /\ UNCHANGED <<clipboard, addDialog, picks, prompts, covered, sent>>

DroppedFileParsed ==
  \E payload \in drops:
    /\ drops' = drops \ {payload}
    /\ IF \/ covered \/ payload = Nothing
          \/ payload.kind = "torrent" /\ payload.path \notin Valid
       THEN UNCHANGED addDialog
       ELSE IF visible
       THEN ApplyPayload(payload) /\ UNCHANGED <<visible, dismissing, submitted>>
       ELSE Fill(payload) /\ AnimOpen
    /\ UNCHANGED <<clipboard, picks, prompts, covered, sent, inputs>>

(* The file picker, which the user may leave open: PathPicked comes when   *)
(* it closes, whatever the dialog has become.                              *)
Browse ==
  /\ visible /\ ~covered /\ tab # "url" /\ Input
  /\ picks' = picks \cup {tab}
  /\ UNCHANGED <<clipboard, addDialog, drops, prompts, covered, sent>>

PathPicked ==
  \E kind \in picks:
    /\ picks' = picks \ {kind}
    /\ \/ UNCHANGED form                 \* nothing chosen, or not a torrent or metalink
       \/ /\ kind = "torrent"
          /\ \E path \in Valid: SetTorrent(path)
          /\ UNCHANGED <<tab, urls, metalink>>
       \/ /\ kind = "metalink"
          /\ \E t \in Texts: t.file.kind = "metalink" /\ metalink' = t.file.path
          /\ UNCHANGED <<tab, urls, torrent, selected>>
    /\ UNCHANGED <<clipboard, visible, dismissing, submitted, drops, prompts,
                   covered, sent, inputs>>

-----------------------------------------------------------------------------
(* The browser extension: POST /add, on a thread of the server, which      *)
(* looks up in the settings whether it submits without the dialog.         *)
UrlSchemeAllowed(url) ==
  url[1] \in Http \cup {"ftp://", "magnet:?", "ed2k://", "thunder://"}

AddDenied(r) == \/ ~r.token \/ ~UrlSchemeAllowed(r.url)
                \/ r.final # NoUrl /\ ~UrlSchemeAllowed(r.final)

(* from_request: the URL the browser was sent to, if there is one *)
Primary(r) == IF r.final # NoUrl THEN r.final ELSE r.url

ExtensionAdd ==
  /\ Input
  /\ \E r \in Requests:
       \/ AddDenied(r) /\ UNCHANGED <<prompts, sent>>
       \/ /\ ~AddDenied(r) 
          /\ prompts' = Append(prompts, <<Primary(r)>>) /\ UNCHANGED sent
       \/ /\ ~AddDenied(r) 
          /\ sent' = Command("external", "", {}) /\ UNCHANGED prompts
  /\ UNCHANGED <<clipboard, addDialog, drops, picks, covered>>

(* ShowAddDialog fills the dialog whatever is in it, and does not open its *)
(* animation.                                                              *)
ShowAddDialog ==
  /\ prompts # <<>>
  /\ prompts' = Tail(prompts)
  /\ Fill([kind |-> "url", urls |-> Head(prompts), path |-> ""])
  /\ UNCHANGED <<clipboard, dismissing, drops, picks, covered, sent, inputs>>

-----------------------------------------------------------------------------
(* The user.  The dialog takes every click while it is visible, also while *)
(* it leaves; another dialog is over it.                                   *)
InDialog == visible /\ ~covered

(* OpenAddDialog, AddFromEd2kResult and OpenTaskFile: from the task list,  *)
(* the settings or, whatever is open, the tray.                            *)
OpenAddDialog ==
  /\ \/ Fill(Empty)
     \/ ~visible /\ ~covered /\ \E u \in TypedLinks: Fill([kind |-> "url", urls |-> <<u>>, path |-> ""])
     \/ ~visible /\ ~covered /\ \E p \in DOMAIN Torrents: Fill([kind |-> "torrent", urls |-> <<>>, path |-> p])
  /\ AnimOpen
  /\ UNCHANGED <<clipboard, tasks, covered, sent, inputs>>

CancelAdd ==
  /\ InDialog /\ BeginExit
  /\ UNCHANGED <<clipboard, visible, form, submitted, tasks, covered, sent, inputs>>

(* flip_with_guard: what is flipped off goes on again if nothing is left. *)
FlipWithGuard(indices) ==
  LET flipped == (selected \ indices) \cup (indices \ selected)
  IN  IF flipped = {} THEN selected ELSE flipped

Edit ==
  /\ InDialog
  /\ \/ \E t \in {"url", "torrent", "metalink"}: tab' = t /\ UNCHANGED <<urls, torrent, selected, metalink>>
     \/ /\ tab = "url"                               \* UrlEditor
        /\ \E u \in TypedLinks: urls' \in {<<>>, <<u>>} /\ UNCHANGED <<tab, torrent, selected, metalink>>
     \/ /\ tab = "torrent"                           \* TorrentTreeToggle: a file or a directory
        /\ \E indices \in SUBSET FilesOf(torrent): selected' = FlipWithGuard(indices)
        /\ UNCHANGED <<tab, urls, torrent, metalink>>
     \/ /\ tab = "torrent"                           \* TorrentFilesSelectAll, None
        /\ selected' \in {{}, FilesOf(torrent)} /\ UNCHANGED <<tab, urls, torrent, metalink>>
     \/ /\ tab # "url"                               \* Clear, which both tabs send to the torrent's
        /\ torrent' = "" /\ selected' = {} /\ UNCHANGED <<tab, urls, metalink>>
  /\ UNCHANGED <<clipboard, visible, dismissing, submitted, tasks, covered, sent, inputs>>

(* can_submit, and AddDownload: the click that began the exit is the last. *)
CanSubmit ==
  CASE tab = "url"      -> urls # <<>>
    [] tab = "torrent"  -> torrent # "" /\ (FilesOf(torrent) = {} \/ selected # {})
    [] tab = "metalink" -> metalink # ""

Submission ==
  CASE tab = "url"      -> Command("url", "", {})
    [] tab = "torrent"  -> Command("torrent", torrent, selected)
    [] tab = "metalink" -> Command("metalink", metalink, {})

AddDownloadAgain ==           \* mutant: also while the dialog leaves
  /\ InDialog /\ CanSubmit
  /\ sent' = Submission /\ submitted' = submitted + 1
  /\ BeginExit
  /\ UNCHANGED <<clipboard, visible, form, tasks, covered, inputs>>

AddDownload ==
  /\ InDialog /\ CanSubmit /\ ~dismissing
  /\ sent' = Submission /\ submitted' = submitted + 1
  /\ BeginExit
  /\ UNCHANGED <<clipboard, visible, form, tasks, covered, inputs>>

Cover ==          \* the dialogs to close, confirm, update and about
  /\ \/ ~covered /\ covered' = TRUE /\ Input
     \/ covered /\ covered' = FALSE /\ UNCHANGED inputs
  /\ UNCHANGED <<clipboard, addDialog, tasks, sent>>

IntakeNext ==
  \/ Copy \/ WindowFocused \/ ClipboardRead \/ ProbeEnds \/ ClipboardParsed
  \/ FileDropped \/ DroppedFileParsed \/ Browse \/ PathPicked
  \/ ExtensionAdd \/ ShowAddDialog
  \/ OpenAddDialog \/ CancelAdd \/ Edit \/ AddDownload \/ ExitEnds \/ Cover

IntakeSpec == IntakeInit /\ [][IntakeNext]_intakeVars

-----------------------------------------------------------------------------
(* The dialog, what waits for it and what was sent have these values.       *)
IntakeTypeOK ==
  /\ clip \in Texts \cup {NoText} /\ lastHash \in Texts \cup {NoText}
  /\ reads \in Seq(Texts) /\ \A p \in parses: p.text \in Texts /\ p.open \subseteq DOMAIN Probes(p.payload, p.mode)
  /\ {visible, dismissing, covered} \subseteq BOOLEAN
  /\ tab \in {"url", "torrent", "metalink"} /\ picks \subseteq {"torrent", "metalink"}
  /\ torrent \in DOMAIN Torrents \cup {""} /\ selected \subseteq FilesOf(torrent)
  /\ submitted \in Nat /\ sent.kind \in {"none", "url", "torrent", "metalink", "external"}

(* What the task extracts from a text is what a reader finds who goes from *)
(* the left: at a prefix or a hash a link begins, it ends before a blank,  *)
(* at what no URL has, or, on a line that starts with a link, before the   *)
(* next prefix; the punctuation and the brackets of the prose around it    *)
(* are not part of it; and a link is listed once (extract_links).          *)
ReadFrom(line, whole) ==
  LET prefixes == EnabledPrefixes(Prefs)
      ends(c) == IF whole THEN c \in UrlForeign \cup prefixes ELSE c \in LinkTerminator
      prose(i, j) == whole /\ line[j] = "(" /\ line[j-1] = " "
      upTo(i) == Min({Len(line) + 1} \cup {j \in (i+1)..Len(line): ends(line[j]) \/ prose(i, j)})
      clean(s) == \A c \in {s[Len(s)]}: c \notin {".", "'", " "} /\ (c = ")" => Open(s) > 0)
      link(i) == LET n == Max({m \in (i+1)..(upTo(i) - 1): clean(SubSeq(line, i, m))})
                 IN  SubSeq(line, i, n)
      from[i \in Nat] ==
        IF i > Len(line) THEN <<>>
        ELSE IF line[i] \in prefixes THEN <<ThunderUrl(link(i))>> \o from[i + Len(link(i))]
        ELSE IF ~whole /\ line[i] = "hash" /\ IsWordBoundary(line, i) THEN <<Lifted>> \o from[i + 1]
        ELSE from[i + 1]
  IN  from[1]

LinksRead ==
  \A p \in parses: p.text.file = NoFile =>
    LET line(l) == Trim(l)
        links == FlattenSeq([n \in DOMAIN p.text.lines |->
                   LET l == line(p.text.lines[n])
                   IN  ReadFrom(l, l # <<>> /\ l[1] \in EnabledPrefixes(Prefs))])
    IN  /\ Range(p.payload.urls) = Range(links)
        /\ IsInjective(p.payload.urls)

(* What the dialog holds is submitted once, however often and however fast *)
(* the button is pressed: each filling of the dialog leaves at most one    *)
(* download (AddDownload and the exit of the dialog).                      *)
SentOnce == submitted <= 1

(* A torrent is never added with the files of another one, nor with none:  *)
(* whichever way its path came in, dropped on the dialog, picked while the *)
(* dialog changed, or filled in, the selection sent along is of its own    *)
(* files (set_torrent_path, toggle_torrent_node, can_submit).              *)
SelectionIsOfTorrent ==
  sent.kind = "torrent" =>
    /\ sent.files \subseteq FilesOf(sent.path)
    /\ sent.files = {} => FilesOf(sent.path) = {}

(* Torrents as a program writes them: of many files or of one, with        *)
(* something that nobody looks for on the way, which may nest deep.        *)
List(items)   == <<Mark("list")>> \o FlattenSeq(items) \o <<Mark("end")>>
Dict(entries) == <<Mark("dict")>>
                 \o FlattenSeq([i \in DOMAIN entries |-> <<Str(entries[i][1])>> \o entries[i][2]])
                 \o <<Mark("end")>>
Nested(n)     == [i \in 1..2*n |-> Mark(IF i <= n THEN "list" ELSE "end")]

Entry(file) ==
  Dict(<<<<"length", <<Number(file.length)>>>>,
         <<"path", List([i \in DOMAIN file.path |-> <<Str(file.path[i])>>])>>>>)
Many(name, files, extra) ==
  Dict(<<<<"announce", extra>>,
         <<"info", Dict(<<<<"files", List([i \in DOMAIN files |-> Entry(files[i])])>>,
                          <<"name", <<Str(name)>>>>, <<"pieces", extra>>>>)>>>>)
One(name, n, extra) ==
  Dict(<<<<"info", Dict(<<<<"length", <<Number(n)>>>>, <<"name", <<Str(name)>>>>>>)>>,
         <<"announce", extra>>>>)

(* The dialog lists the files of a torrent in its own order, numbered from *)
(* 1 as aria2 numbers them, or none: none of a file that is cut anywhere,  *)
(* that nests too deep, or that has one entry no file can have             *)
(* (parse_torrent and the numbers AddTorrent sends).                       *)
TorrentsRead ==
  LET deep(extra) == Len(extra) > 2 * (MAX_BENCODE_DEPTH - 1)
      extras == {Nested(n): n \in 1..MAX_BENCODE_DEPTH}
      entry  == [path: {<<>>, <<"y">>, <<"y", "z">>}, length: {-1, 0, 2}]
      odd(f) == f.path = <<>> \/ f.length < 0
      cut(s) == \A n \in 0..(Len(s) - 1): ParseTorrent(SubSeq(s, 1, n)) = NoFiles
  IN  \A name \in {"", "x"}, extra \in extras:
        /\ \A files \in UNION {[1..n -> entry]: n \in 0..2}:
             LET s == Many(name, files, extra)
                 root == IF name = "" THEN <<>> ELSE <<name>>
                 none == Len(extra) > 2 * (MAX_BENCODE_DEPTH - 2) \/ \E i \in DOMAIN files: odd(files[i])
             IN  /\ ParseTorrent(s) =
                      IF none THEN NoFiles
                      ELSE [i \in DOMAIN files |-> [index |-> i, path |-> root \o files[i].path,
                                                   length |-> files[i].length]]
                 /\ cut(s)
        /\ \A n \in {-1, 0, 2}:
             LET s == One(name, n, extra)
             IN  /\ ParseTorrent(s) = IF deep(extra) \/ n < 0 THEN NoFiles
                                      ELSE <<[index |-> 1, path |-> <<name>>, length |-> n]>>
                 /\ cut(s)

(* What is waiting to be offered is what the text has in it, and the       *)
(* dialog lists the files of a torrent as the torrent has them.            *)
IntakeConsistent == IntakeTypeOK /\ LinksRead /\ TorrentsRead

=============================================================================
