------------------------------- MODULE Links -------------------------------
(***************************************************************************)
(* What Remotrix finds in a text (src/integration/clipboard_watch.rs): the *)
(* links of its lines, the file it names, and the filter that drops web    *)
(* pages.  There is no state here; Intake has the windows and the tasks    *)
(* that call this.                                                         *)
(*                                                                         *)
(* A line is a sequence of symbols: the prefix of a link, "x" for letters  *)
(* and digits a URL may have, ".zip" for an ending or a parameter that     *)
(* only a download has, " ", "(" and ")" for any pair of brackets, "." for *)
(* punctuation that may follow a link, "'", "cjk" for what no URL has,     *)
(* "hash" for 40 hexadecimal or 32 base-32 digits, "btih:", and "b64" for  *)
(* digits that decode to the link in Wrapped.  A link is never its bare    *)
(* prefix in the texts: there must be something behind "magnet:?".         *)
(***************************************************************************)
EXTENDS Integers, Sequences, FiniteSets, SequencesExt, FiniteSetsExt

Http     == {"http://", "https://"}
LinkPrefixes == [http |-> Http, ftp |-> {"ftp://", "ftps://"}, magnet |-> {"magnet:?"},
             ed2k |-> {"ed2k://"}, thunder |-> {"thunder://"},
             metalink |-> {"metalink://", "meta4://"}, bt_infohash |-> {}]
LinkTypes == DOMAIN LinkPrefixes      \* ClipboardLinkTypes: a preference is a set of them
Wrapped   == <<"http://", "x">>   \* the link inside a thunder:// link

EnabledPrefixes(prefs) == UNION {LinkPrefixes[t]: t \in prefs}

UrlForeign     == {"cjk"}
LinkTerminator == UrlForeign \cup {" ", "'"}
Trailing       == {".", "'"}
WordEnd        == {"x", "hash", "b64", ".zip"}
WordStart      == {"x", "hash", "b64", "btih:"} \cup UNION {LinkPrefixes[t]: t \in LinkTypes}

-----------------------------------------------------------------------------
(* One line.  Places are symbols, from 1; a link ends before its end. *)

(* trim and trim_end *)
TrimEnd(s) == SubSeq(s, 1, Max({0} \cup {i \in DOMAIN s: s[i] # " "}))
Trim(s)    == LET first == {i \in DOMAIN s: s[i] # " "}
              IN  IF first = {} THEN <<>> ELSE TrimEnd(SubSeq(s, Min(first), Len(s)))

(* trailing_closer_unmatched: no bracket is open before the last symbol. *)
Count(s, i, j, c) == Cardinality({k \in i..j: s[k] = c})
Open(s) ==
  LET n == Len(s) - 1
  IN  Max({0} \cup {Count(s, i, n, "(") - Count(s, i, n, ")"): i \in 1..n})

Strip(s) == \/ Last(s) \in Trailing
            \/ Last(s) = ")" /\ Open(s) = 0

TrimTrailingPunct(s) == SubSeq(s, 1, Max({0} \cup {n \in DOMAIN s: ~Strip(SubSeq(s, 1, n))}))

(* Where the token that starts at i ends, and what is left of it. *)
TokenEnd(line, i) == Min({Len(line) + 1} \cup {j \in i..Len(line): line[j] \in LinkTerminator})
Token(line, i)    == TrimTrailingPunct(SubSeq(line, i, TokenEnd(line, i) - 1))

ThunderUrl(token) == IF token = <<"thunder://", "b64">> THEN Wrapped ELSE token

(* extract_infohashes: a hash that no letter or digit touches, with the    *)
(* "btih:" before it if there is one.                                      *)
IsWordBoundary(line, i) ==
  /\ i > 1 => line[i-1] \notin WordEnd
  /\ i < Len(line) => line[i+1] \notin WordStart \cup WordEnd

Match(i, length, value) == [start |-> i, end |-> i + length, value |-> value]
Lifted == <<"magnet:?", "btih:", "hash">>

Infohashes(line) ==
  LET bare == {i \in DOMAIN line: line[i] = "hash" /\ IsWordBoundary(line, i)}
      led  == {i \in bare: i > 1 /\ line[i-1] = "btih:"}
  IN  {Match(i - 1, 2, Lifted): i \in led} \cup {Match(i, 1, Lifted): i \in bare \ led}

(* A line that starts with a prefix is a list of links, each up to the     *)
(* next prefix or to what no URL has: spaces belong to it.                 *)
SegmentEnd(seg) ==
  Min({Len(seg) + 1} \cup {i \in DOMAIN seg: \/ seg[i] \in UrlForeign
                                             \/ i > 1 /\ seg[i] = "(" /\ seg[i-1] = " "})

WholeLineMatches(line, prefixes) ==
  LET bounds  == {i \in DOMAIN line: line[i] \in prefixes}
      next(i) == Min({Len(line) + 1} \cup {j \in bounds: j > i})
      seg(i)  == TrimEnd(SubSeq(line, i, next(i) - 1))
      token(i) == TrimTrailingPunct(TrimEnd(SubSeq(seg(i), 1, SegmentEnd(seg(i)) - 1)))
  IN  {Match(i, Len(token(i)), ThunderUrl(token(i))): i \in bounds}

(* Any other line is searched for prefixes and hashes. *)
ScanMatches(line, prefixes, prefs) ==
  {Match(i, Len(Token(line, i)), ThunderUrl(Token(line, i))): i \in {j \in DOMAIN line: line[j] \in prefixes}}
    \cup (IF "bt_infohash" \in prefs THEN Infohashes(line) ELSE {})

LineMatches(line, prefs) ==
  LET prefixes == EnabledPrefixes(prefs)
  IN  IF line # <<>> /\ line[1] \in prefixes THEN WholeLineMatches(line, prefixes)
      ELSE ScanMatches(line, prefixes, prefs)

KeptAll(line, matches) == matches      \* mutant: also the link inside a link

(* What starts inside a link that is kept is dropped. *)
KeptMatches(line, matches) ==
  LET at(i) == CHOOSE m \in matches: m.start = i
      starts == {m.start: m \in matches}
      lastEnd[i \in 0..Len(line)] ==        \* the end of the last link kept up to i
        IF i = 0 THEN 0
        ELSE IF i \in starts /\ i >= lastEnd[i-1] THEN at(i).end ELSE lastEnd[i-1]
  IN  {m \in matches: m.start >= lastEnd[m.start - 1]}

LineLinks(raw, prefs) ==
  LET line == Trim(raw)
      kept == KeptMatches(line, LineMatches(line, prefs))
  IN  [k \in 1..Cardinality(kept) |->
         (CHOOSE m \in kept: Cardinality({o \in kept: o.start < m.start}) = k - 1).value]

(* extract_links: the links of all lines, each once, in their order. *)
FirstOnly(urls) ==
  LET keep == {i \in DOMAIN urls: \A j \in 1..(i-1): urls[j] # urls[i]}
  IN  [k \in 1..Cardinality(keep) |-> urls[CHOOSE i \in keep: Cardinality({j \in keep: j < i}) = k - 1]]

ExtractLinks(lines, prefs) ==
  FirstOnly(FlattenSeq([i \in DOMAIN lines |-> LineLinks(lines[i], prefs)]))

-----------------------------------------------------------------------------
(* A clipboard has lines; a single one may be the path of a file: a        *)
(* torrent, a metalink, one with lines of its own, or one that is not      *)
(* read (too long, empty, not UTF-8).  NoFile when it is not a path.       *)
NoFile    == [kind |-> "none", path |-> "", lines |-> <<>>]
Nothing   == [kind |-> "nothing", urls |-> <<>>, path |-> ""]
Urls(urls) == IF urls = <<>> THEN Nothing ELSE [kind |-> "url", urls |-> urls, path |-> ""]

(* parse_clipboard *)
ParseClipboard(text, prefs) ==
  CASE text.file.kind \in {"torrent", "metalink"} ->
         [kind |-> text.file.kind, urls |-> <<>>, path |-> text.file.path]
    [] text.file.kind = "unread" -> Nothing
    [] text.file.kind = "links"  -> Urls(ExtractLinks(text.file.lines, prefs))
    [] OTHER                     -> Urls(ExtractLinks(text.lines, prefs))

-----------------------------------------------------------------------------
(* The filter.  A server answers HEAD and a GET of one byte, or not; what  *)
(* an answer says of the content is the same for both.                     *)
HeadAnswer == {"ok", "unsupported", "failed", "other"}   \* 2xx; 405, 501, 403; no answer; the rest
GetAnswer  == {"ok", "other"}
Serve      == [type: {"none", "html", "binary", "inline"}, attachment: BOOLEAN]

ClassifyContentType(s) ==
  IF s.attachment \/ s.type = "binary" THEN "Download"
  ELSE IF s.type = "html" THEN "Webpage" ELSE "Ambiguous"

ProbeUrl(serve, head, get) ==
  IF head = "ok" \/ (head \in {"unsupported", "failed"} /\ get = "ok")
  THEN ClassifyContentType(serve) ELSE "Ambiguous"

LooksLikeDownload(url) == \E i \in DOMAIN url: url[i] = ".zip"

(* probe_parallel: up to Window probes run; their decisions come in the    *)
(* order in which they end.                                                *)
Window == 8

(* filter_webpage_urls and apply_webpage_filter: the other links come first. *)
FilterWebpageUrls(urls, mode, decisions) ==     \* the decisions in the order they come
  LET probed(i) == Cardinality({j \in 1..i: ~LooksLikeDownload(urls[j])})
      keep(i) == \/ LooksLikeDownload(urls[i])
                 \/ mode = "smart" /\ decisions[probed(i)] # "Webpage"
  IN  IF mode = "off" THEN urls
      ELSE LET kept == SetToSortSeq({i \in DOMAIN urls: keep(i)}, <)
           IN  [k \in DOMAIN kept |-> urls[kept[k]]]

IsHttp(url)   == url[1] \in Http
ToProbe(urls) == SelectSeq(SelectSeq(urls, IsHttp), LAMBDA u: ~LooksLikeDownload(u))

ApplyWebpageFilter(payload, mode, client, decisions) ==   \* client: it could be built
  LET http  == SelectSeq(payload.urls, IsHttp)
      other == SelectSeq(payload.urls, LAMBDA u: ~IsHttp(u))
      kept  == IF client THEN FilterWebpageUrls(http, mode, decisions) ELSE http
  IN  IF payload.kind # "url" THEN payload ELSE Urls(other \o kept)
=============================================================================
