----------------------------- MODULE MCDetails -----------------------------
(* Instance of Details for TLC.  The torrents have files in a directory, a *)
(* path deeper than the limit, two files with one path, and a file with    *)
(* the path of a directory.                                                *)
EXTENDS Details

File(index, path) == [index |-> index, length |-> 1, path |-> path]

MCGid     == {"g", "h"}
Single    == <<File(1, <<<<"f">>>>)>>
Deep      == <<File(1, <<<<"d">>, <<"a">>>>),
               File(2, <<<<"d">>, <<"b">>, <<"c">>, <<"e">>>>)>>
Colliding == <<File(1, <<<<"d">>, <<"a">>>>), File(2, <<<<"d">>, <<"a">>>>),
               File(3, <<<<"d">>>>)>>
MCLayouts == {[g \in MCGid |-> IF g = "h" THEN Single ELSE torrent] :
                torrent \in {Deep, Colliding}}
=============================================================================
