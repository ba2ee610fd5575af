---------------------------- MODULE TaskOptions ----------------------------
(***************************************************************************)
(* The options and the file name a download is given when it is added,     *)
(* edited, added again after a loss and downloaded again                   *)
(* (src/core/task.rs, src/config/settings.rs, src/engine/mod.rs).  There   *)
(* is no state here: Details has the dialog that edits them, TaskSync the  *)
(* commands.                                                               *)
(*                                                                         *)
(* A text is a sequence of tokens: the separators that are looked for, "x" *)
(* and "y" for letters, "%x" and "%/" for encoded ones, "ctl" for control  *)
(* characters, "gid" for the identifier of the download.                   *)
(***************************************************************************)
EXTENDS Integers, Sequences, TLC

\* The first and the last of some places.
First(S) == CHOOSE i \in S : \A j \in S : i <= j
Final(S) == CHOOSE i \in S : \A j \in S : i >= j

Places(s, token) == {i \in DOMAIN s : s[i] = token}
Before(s, i)     == SubSeq(s, 1, i - 1)
After(s, i)      == SubSeq(s, i + 1, Len(s))

Trim(s) ==
  LET solid == {i \in DOMAIN s : s[i] # " "}
  IN  IF solid = {} THEN << >> ELSE SubSeq(s, First(solid), Final(solid))

----------------------------------------------------------------------------
(* The proxy: one URL for aria2, three fields for the user *)

Fields(server, username, password) ==
  [server |-> server, username |-> username, password |-> password]

\* all_proxy_url; no URL is the empty one
AllProxyUrl(proxy) ==
  LET server  == Trim(proxy.server)
      auth    == IF proxy.username = << >> THEN << >>
                 ELSE proxy.username \o <<":">> \o proxy.password \o <<"@">>
      schemes == Places(server, "://")
  IN  IF server = << >> THEN << >>
      ELSE IF schemes = {} THEN <<"http", "://">> \o auth \o server
      ELSE Before(server, First(schemes)) \o <<"://">> \o auth
             \o After(server, First(schemes))

\* parse_all_proxy.  A password with a colon is split at the last one.
ParseAllProxy(all_proxy) ==
  LET url   == Trim(all_proxy)
      start == IF Places(url, "://") = {} THEN 0 ELSE First(Places(url, "://"))
      rest  == After(url, start)
      ats   == Places(rest, "@")
      user  == Before(rest, Final(ats))
      colon == Places(user, ":")
      Server(host) == SubSeq(url, 1, start) \o host
  IN  IF ats = {} THEN Fields(url, << >>, << >>)
      ELSE IF After(rest, Final(ats)) = << >> THEN Fields(Server(url), << >>, << >>)
      ELSE IF colon = {} THEN Fields(Server(After(rest, Final(ats))), user, << >>)
      ELSE Fields(Server(After(rest, Final(ats))), Before(user, Final(colon)),
                  After(user, Final(colon)))

----------------------------------------------------------------------------
(* The options of a download.  What is sent to aria2 is a function whose   *)
(* domain is the options that are given; a header is a name and a value.   *)

Plain == {"user-agent", "referer"}     \* and http-user, http-passwd

Advanced(out, plain, cookie, proxy) ==
  [out |-> out, plain |-> plain, cookie |-> cookie, proxy |-> proxy]

Given(key, value) == IF value = << >> THEN << >> ELSE key :> value

\* push_cookie_header
PushCookieHeader(opts, cookie) ==
  LET headers == IF "header" \in DOMAIN opts THEN opts["header"] ELSE << >>
      entry   == [name |-> "cookie", value |-> cookie]
  IN  IF cookie = << >> \/ Places(cookie, "ctl") # {} \/ Places(headers, entry) # {}
      THEN opts
      ELSE ("header" :> Append(headers, entry)) @@ opts

\* TaskAdvancedOptions::apply, for a new download: what is empty is left
\* to the global options
Apply(opts, adv) ==
  Given("all-proxy", AllProxyUrl(adv.proxy))
    @@ PushCookieHeader([f \in {p \in Plain : adv.plain[p] # << >>}
                           |-> adv.plain[f]] @@ opts, adv.cookie)
    @@ Given("out", adv.out)

\* apply_change, for a download that runs: what is empty is emptied, but for
\* the cookie and the name
ApplyChange(opts, adv) ==
  ("all-proxy" :> AllProxyUrl(adv.proxy))
    @@ PushCookieHeader(adv.plain @@ opts, adv.cookie)
    @@ Given("out", adv.out)

\* aria2: an option that is given takes the place of the one it had
ChangeOption(opts, given) == given @@ opts

\* FetchTaskAdvanced: what the dialog reads back.  The name is not read.
CookieFromGetOption(opts) ==
  LET headers == IF "header" \in DOMAIN opts THEN opts["header"] ELSE << >>
      cookies == {i \in DOMAIN headers : headers[i].name = "cookie"}
  IN  IF cookies = {} THEN << >> ELSE Trim(headers[First(cookies)].value)

FetchTaskAdvanced(opts) ==
  LET Get(key) == IF key \in DOMAIN opts THEN opts[key] ELSE << >>
  IN  Advanced(<< >>, [f \in Plain |-> Get(f)], CookieFromGetOption(opts),
               ParseAllProxy(Get("all-proxy")))

----------------------------------------------------------------------------
(* The name of the file *)

\* is_safe_out: one plain name
IsSafeOut(name) ==
  /\ name \notin {<< >>, <<".">>, <<".", ".">>}
  /\ \A i \in DOMAIN name : name[i] \notin {"/", "://", "ctl"}

Decoded(token) == CASE token = "%/" -> "/" [] token = "%x" -> "x"
                    [] token \notin {"%/", "%x"} -> token

\* basename.  The scheme ends with slashes too; a fragment is kept.
Basename(url) ==
  LET IsSlash(i) == url[i] \in {"/", "://"}
      query == Places(url, "?") \cup {Len(url) + 1}
      last  == {i \in 1 .. First(query) - 1 : ~ IsSlash(i)}
      end   == IF last = {} THEN 0 ELSE Final(last)
      start == {i \in 1 .. end : IsSlash(i)} \cup {0}
      seg   == SubSeq(url, Final(start) + 1, end)
  IN  [i \in DOMAIN seg |-> Decoded(seg[i])]

\* add_download_internal: the rename, or the name in the URL
AddedOut(url, adv) ==
  IF adv.out # << >> THEN adv.out
  ELSE IF IsSafeOut(Basename(url)) THEN Basename(url) ELSE << >>

\* ReaddTask: the rename is not sent
ReaddedOut(url) == IF IsSafeOut(Basename(url)) THEN Basename(url) ELSE << >>

\* name_from_status: the file aria2 writes, the URL, the identifier
NameFromStatus(path, url) ==
  LET slashes == {i \in DOMAIN path : path[i] = "/"} \cup {0}
      file    == After(path, Final(slashes))
  IN  IF file # << >> THEN file
      ELSE IF Basename(url) # << >> THEN Basename(url) ELSE <<"gid">>

\* usable_output_name
UsableOutputName(name) ==
  /\ name # <<"gid">>
  /\ name # << >> => name[1] \notin {"[METADATA]", "magnet:"}
  /\ IsSafeOut(name)

\* redownload_advanced; a bit torrent has a hash or a magnet link
RedownloadAdvanced(task) ==
  LET usable == ~ task.torrent /\ UsableOutputName(task.name)
  IN  IF IsSafeOut(task.adv.out) THEN task.adv
      ELSE [task.adv EXCEPT !.out = IF usable THEN task.name ELSE << >>]

\* RedownloadTask keeps the name it found, where there was none
Redownloaded(task) ==
  IF task.adv.out = << >>
  THEN [task EXCEPT !.adv.out = RedownloadAdvanced(task).out]
  ELSE task

----------------------------------------------------------------------------
(* Bounded inputs, and what holds of them *)

Words   == {<< >>, <<"x">>, <<"y", ":", "x">>, <<"@">>, <<"x", ":", "@", "y">>}
Servers == {<< >>, <<" ">>, <<"x">>, <<" ", "x", ":", "y">>, <<"y", "://", "x", " ">>}
Proxies == {Fields(s, u, w) : s \in Servers, u \in Words, w \in Words}

\* A dialog that is saved as it was read changes nothing: the proxy is the
\* same URL again, whatever separators the user has in name and password,
\* and the cookie the same.  What was typed is shown as it was typed, unless
\* a colon in the password makes the dialog take part of it for the name, or
\* a password came without a name.
OptionsReadBack ==
  \A proxy \in Proxies, cookie \in {<< >>, <<"x">>}, referer \in {<< >>, <<"y">>} :
    LET plain   == [f \in Plain |-> IF f = "referer" THEN referer ELSE <<"x">>]
        adv     == Advanced(<<"y">>, plain, cookie, proxy)
        added   == Apply(<< >>, adv)
        other   == Apply(<< >>, Advanced(<< >>, plain, <<"y">>, proxy))
        changed == ChangeOption(other, ApplyChange(<< >>, adv))
        Read(opts) == FetchTaskAdvanced(opts)
        Saved(opts) == ChangeOption(opts, ApplyChange(<< >>, Read(opts)))
    IN  /\ \A key \in DOMAIN added : Saved(added)[key] = added[key]
        /\ Saved(changed) = changed
        /\ Read(changed).plain = plain
        /\ cookie # << >> => Read(changed).cookie = cookie
        /\ (Trim(proxy.server) # << >> /\ proxy.username # << >>
              /\ Places(proxy.password, ":") = {})
             => /\ Read(added).proxy.username = proxy.username
                /\ Read(added).proxy.password = proxy.password

Paths == {<<"x">>, <<"x", "/", "y">>, <<"x", "%/", "y", "/">>, <<"x", "?", "/">>,
          <<"x", "/", ".", ".">>, <<"ctl">>, <<"[METADATA]", "x">>, <<"%x", "/", "?">>}
Urls  == {<<"x", "://", "x", "/">> \o path : path \in Paths} \cup {<<"magnet:", "x">>}
Names == {NameFromStatus(path, url) : path \in {<< >>} \cup Paths, url \in Urls}

\* A name the user did not type is one plain name in the download's
\* directory, and the same when the download is lost and added again; a
\* download that is downloaded again keeps the name it got the first time,
\* whatever aria2 calls the new file (docs/07-behavior-gotchas.md:452),
\* unless the user's own name for it is none aria2 may be given.
NamesKept ==
  /\ \A url \in Urls :
       LET out == AddedOut(url, FetchTaskAdvanced(<< >>))
       IN  /\ out # << >> => IsSafeOut(out)
           /\ ReaddedOut(url) = out
  /\ \A first, second \in Names, torrent \in BOOLEAN, out \in {<< >>, <<"y">>, <<"x", "/">>} :
       LET adv == [FetchTaskAdvanced(<< >>) EXCEPT !.out = out]
           Out(t) == RedownloadAdvanced(t).out
           task     == [name |-> first, torrent |-> torrent, adv |-> adv]
           again    == [Redownloaded(task) EXCEPT !.name = second]
       IN  /\ Out(task) # << >> => IsSafeOut(Out(task)) /\ Out(task) # <<"gid">>
           /\ (Out(task) # << >> /\ (out # << >> => IsSafeOut(out)))
                => Out(again) = Out(task)
           /\ torrent => Out(task) \in {<< >>, out}

=============================================================================
