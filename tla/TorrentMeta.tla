----------------------------- MODULE TorrentMeta -----------------------------
(***************************************************************************)
(* The files of a torrent (src/storage/torrent_meta.rs), which the dialog  *)
(* "Add download" lists, and whose numbers it sends to aria2.  There is no *)
(* state here; Intake has the dialog.                                      *)
(*                                                                         *)
(* The content of a file is a sequence of tokens: an integer, a byte       *)
(* string, the beginning of a list or of a dictionary, their end, and      *)
(* "junk" for anything that is none of these, a string that is cut short   *)
(* or a number with no digits.                                             *)
(***************************************************************************)
EXTENDS Integers, Sequences, FiniteSetsExt

CONSTANT MAX_BENCODE_DEPTH      \* how deep lists and dictionaries may nest

Number(n) == [is |-> "int", of |-> n]
Str(s)    == [is |-> "str", of |-> s]
Mark(is)  == [is |-> is, of |-> <<>>]       \* "list", "dict", "end", "junk"

(* A value is read up to a place, 0 where it cannot be read. *)
At(place, value) == [place |-> place, value |-> value]
NoValue == Mark("none")
Fail    == At(0, NoValue)

(* parse_value; parse_list and parse_dict, which read items up to the end, *)
(* each behind a key in a dictionary: parse["list", i, depth] is what is   *)
(* left of a list from i on.                                               *)
ParseValue(s) ==
  LET parse[form \in {"value", "list", "dict"}, i \in 1..Len(s) + 1, depth \in 0..MAX_BENCODE_DEPTH] ==
        LET keyed == form = "dict"
            item  == parse["value", IF keyed THEN i + 1 ELSE i, depth]
            entry == IF keyed THEN [key |-> s[i].of, value |-> item.value] ELSE item.value
            rest  == parse[form, item.place, depth]
            whole == parse[s[i].is, i + 1, depth + 1]
        IN  IF i \notin DOMAIN s THEN Fail
            ELSE IF form = "value"
            THEN CASE s[i].is \in {"int", "str"} -> At(i + 1, s[i])
                   [] s[i].is \in {"list", "dict"} ->
                        IF depth = MAX_BENCODE_DEPTH \/ whole.place = 0 THEN Fail
                        ELSE At(whole.place, [s[i] EXCEPT !.of = whole.value])
                   [] OTHER -> Fail
            ELSE IF s[i].is = "end" THEN At(i + 1, <<>>)
            ELSE IF (keyed /\ s[i].is # "str") \/ item.place = 0 \/ rest.place = 0 THEN Fail
            ELSE At(rest.place, <<entry>> \o rest.value)
  IN  parse["value", 1, 0].value

(* lookup: the first of the entries with this key. *)
Lookup(dict, key) ==
  LET places == IF dict.is = "dict" THEN {i \in DOMAIN dict.of: dict.of[i].key = key} ELSE {}
  IN  IF places = {} THEN NoValue ELSE dict.of[Min(places)].value

(* parse_torrent: a "length" makes it one file, else each of the "files"   *)
(* has to have a length and a path.  What cannot be read has no files.     *)
NoFiles == <<>>

Readable(entry) ==
  /\ Lookup(entry, "length").is = "int" /\ Lookup(entry, "length").of >= 0
  /\ LET path == Lookup(entry, "path")
     IN  path.is = "list" /\ path.of # <<>> /\ \A i \in DOMAIN path.of: path.of[i].is = "str"

ParseTorrent(s) ==
  LET info   == Lookup(ParseValue(s), "info")
      name   == Lookup(info, "name")
      length == Lookup(info, "length")
      list   == Lookup(info, "files")
      root   == IF name.of = "" THEN <<>> ELSE <<name.of>>
      path(entry) == [i \in DOMAIN Lookup(entry, "path").of |-> Lookup(entry, "path").of[i].of]
      file(i, p, n) == [index |-> i, path |-> p, length |-> n]
  IN  CASE name.is # "str" -> NoFiles
        [] name.is = "str" /\ length.is = "int" ->
             IF length.of < 0 THEN NoFiles ELSE <<file(1, <<name.of>>, length.of)>>
        [] name.is = "str" /\ length.is # "int" /\ list.is = "list" ->
             IF \E i \in DOMAIN list.of: ~Readable(list.of[i]) THEN NoFiles
             ELSE [i \in DOMAIN list.of |->
                     file(i, root \o path(list.of[i]), Lookup(list.of[i], "length").of)]
        [] OTHER -> NoFiles

(* is_valid_torrent_file, of a file that can be read and is not too large. *)
IsValidTorrentFile(s) == s # <<>> /\ s[1].is = "dict"

=============================================================================
