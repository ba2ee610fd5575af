------------------------------ MODULE MCIntake ------------------------------
(* Instance of Intake for TLC: lines with every kind of link and prose,    *)
(* two links to probe, torrents of two files, of one, and of none that can *)
(* be read.                                                                *)
EXTENDS Intake

File(kind, path) == [kind |-> kind, path |-> path, lines |-> <<>>]
Text(lines)      == [lines |-> lines, file |-> NoFile]
PathOf(file)     == [lines |-> <<<<"x">>>>, file |-> file]

Download == <<"https://", "x">>
Page     == <<"http://", "x", "x">>

MCLinks == Text(<<
  <<" ", "ed2k://", "x", " ", "x", " ", "(", "x", ")">>,
  <<"x", "(", "ftp://", "x", "(", "x", ")", ")", ".", " ", "hash">>,
  <<"ftp://", "x", ".", " ", "x", ".zip", "'", "magnet:?", "btih:", "hash">>,
  <<"x", "ed2k://", "x", "ftp://", "x", " ", "thunder://", "b64", " ", "btih:", "hash">>,
  <<"x", "hash", "cjk", "magnet:?", "btih:", "hash", "'", "hash", ")">>,
  <<"http://", "x", ".zip", "cjk", "x", "thunder://", "x">> >>)
MCPages   == Text(<<Download, Page>>)
MCNone    == Text(<<<<"x", "hash", "x">>>>)

MCTexts    == {MCLinks, MCPages, MCNone, PathOf(File("torrent", "a")), PathOf(File("torrent", "page")),
               PathOf(File("metalink", "m"))}
MCTorrents == ("a" :> Many("x", <<[path |-> <<"y">>, length |-> 1], [path |-> <<"y", "z">>, length |-> 0]>>, Nested(1)))
           @@ ("b" :> One("x", 1, Nested(2)))
           @@ ("page" :> <<Mark("junk")>>)
MCServes   == (Download :> [type |-> "binary", attachment |-> FALSE])
           @@ (Page :> [type |-> "html", attachment |-> FALSE])
           @@ (Wrapped :> [type |-> "inline", attachment |-> FALSE])
MCRequests == {[url |-> Download, final |-> NoUrl, token |-> TRUE],
               [url |-> Download, final |-> <<"metalink://", "x">>, token |-> TRUE],
               [url |-> Download, final |-> NoUrl, token |-> FALSE]}
MCTyped    == {Download}
=============================================================================
