------------------------------- MODULE MCParts -------------------------------
(* Parts for TLC: the data its parts work on. *)
EXTENDS Parts, SequencesExt

CONSTANTS w1, w2, t1, t2, t3, t4, files, nexus, other, f1, query, c1, c2, n1, blank

------------------------------------------------------------------------------
(* WheelReader: archives of a few dozen bytes, sound ones, each of the ways *)
(* in which one can be unsound, and newer ones with the same layout.        *)

\* t1, t2 and t4 have the same length.
Sizes == (t1 :> 6) @@ (t2 :> 6) @@ (t3 :> 9) @@ (t4 :> 6)
Checksums == (t1 :> 1) @@ (t2 :> 2) @@ (t3 :> 3) @@ (t4 :> 4)
\* In the order of the limits of the code, with an archive limit above all.
SmallLimits == [search |-> 24, archive |-> 70, directory |-> 8, entries |-> 3, text |-> 8]

\* Header 0..2, name 3..4, text 5..8, directory 9..14, end record 15..16.
Other == [metadata |-> FALSE, name |-> w1, zip64 |-> FALSE, otherDisk |-> FALSE,
          flags |-> {}, method |-> "stored", crc |-> 0, csize |-> 0, usize |-> 0, at |-> 0]
Meta == [Other EXCEPT !.metadata = TRUE, !.method = "deflated", !.crc = 1, !.csize = 4, !.usize = 6]
Header == [name |-> w1, flags |-> {}, method |-> "deflated", rest |-> 2, zip64 |-> FALSE]
Text == [text |-> t1, csize |-> 4, method |-> "deflated"]
Good == [size |-> 17,
         end |-> [at |-> 15, comment |-> 0, spans |-> FALSE, zip64 |-> FALSE, entries |-> 2,
                  dirAt |-> 9, dirSize |-> 6],
         members |-> <<Other, Meta>>, headers |-> (0 :> Header), texts |-> (5 :> Text)]

\* The same with s more bytes before the directory and c after the end.
Longer(o, s, c) == [o EXCEPT !.size = @ + s + c, !.end.at = @ + s, !.end.dirAt = @ + s,
                             !.end.comment = c]
SoundOnes == {Good, Longer(Good, 0, 7), Longer(Good, 30, 0), Longer(Good, 30, 9), Longer(Good, 30, 22),
    [Good EXCEPT !.members[2].method = "stored", !.headers[0].method = "stored",
                 !.members[2].csize = 6, !.texts[5] = [text |-> t1, csize |-> 6, method |-> "stored"]],
    [Good EXCEPT !.members[2].flags = {"utf8"}, !.headers[0].flags = {"utf8"}]}
NewerOnes == {[Good EXCEPT !.members[2].crc = 2, !.texts[5].text = t2],
          [Longer(Good, 30, 0) EXCEPT !.members[2].crc = 2, !.texts[5].text = t2],
          [Longer(Good, 30, 0) EXCEPT !.headers[0].rest = 3,
                                      !.texts = (6 :> [Text EXCEPT !.text = t2]),
                                      !.members[2].crc = 2]}
Unsound == {
    Longer(Good, 5, 23), Longer(Good, 54, 0),
    [Good EXCEPT !.size = 18],
    [Good EXCEPT !.end.spans = TRUE], [Good EXCEPT !.end.zip64 = TRUE],
    [Good EXCEPT !.end.entries = 0], [Good EXCEPT !.end.entries = 3], [Good EXCEPT !.end.entries = 4],
    [Good EXCEPT !.end.dirSize = 5], [Good EXCEPT !.end.dirSize = 9, !.end.dirAt = 6],
    [Good EXCEPT !.members[1].zip64 = TRUE], [Good EXCEPT !.members[1].otherDisk = TRUE],
    [Good EXCEPT !.members[1] = Meta], [Good EXCEPT !.members[2].metadata = FALSE],
    [Good EXCEPT !.members[2].name = w2], [Good EXCEPT !.members[2].name = w2, !.headers[0].name = w2],
    [Good EXCEPT !.headers[0].name = w2], [Good EXCEPT !.headers[0].zip64 = TRUE],
    [Good EXCEPT !.members[2].flags = {"encrypted"}, !.headers[0].flags = {"encrypted"}],
    [Good EXCEPT !.headers[0].flags = {"encrypted"}], [Good EXCEPT !.headers[0].flags = {"utf8"}],
    [Good EXCEPT !.headers[0].method = "stored"],
    [Good EXCEPT !.members[2].method = "other", !.headers[0].method = "other"],
    [Good EXCEPT !.members[2].at = 16], [Good EXCEPT !.members[2].at = 1],
    [Good EXCEPT !.headers[0].rest = 1], [Good EXCEPT !.headers[0].rest = 0],
    [Good EXCEPT !.headers[0].rest = 14],
    [Good EXCEPT !.members[2].csize = 0], [Good EXCEPT !.members[2].csize = 3],
    [Good EXCEPT !.members[2].csize = 9], [Good EXCEPT !.members[2].usize = 7],
    [Good EXCEPT !.members[2].usize = 9, !.members[2].crc = 3, !.texts[5].text = t3],
    [Good EXCEPT !.texts[5].text = t2]}
\* METADATA further back, and another file of the same length in its place.
Moved == [Longer(Good, 30, 0) EXCEPT !.members[2].at = 20,
            !.headers = (0 :> [Header EXCEPT !.name = w2]) @@ (20 :> Header),
            !.texts = (5 :> [Text EXCEPT !.text = t4]) @@ (25 :> Text)]

Texts == [o \in SoundOnes \cup {Moved} |-> t1] @@ [o \in NewerOnes |-> t2]
Wheels == DOMAIN Texts
Objects == Wheels \cup Unsound

------------------------------------------------------------------------------
(* Artifacts: a link that upstream wrote in any way, in every deployment    *)
(* with up to two more hosts on the list.                                   *)

Url == [kind |-> "absolute", scheme |-> "https", host |-> files, port |-> None,
        path |-> [name |-> f1, escaped |-> FALSE], query |-> None]
Absolute == {[Url EXCEPT !.scheme = s, !.host = h, !.port = p, !.query = x] :
    s \in {"http", "https"}, h \in {files, nexus, other}, p \in {None, 80, 443, 8081}, x \in {None, query}}
Relative == {[Url EXCEPT !.kind = "relative", !.scheme = None, !.host = None]}
\* What upstream must not write, but may.
Ready == {[Url EXCEPT !.kind = "artifact", !.scheme = None, !.host = h, !.port = p] :
    h \in {files, nexus, other}, p \in {None, 8081}}
Written == {[u EXCEPT !.path.escaped = e] : u \in Absolute \cup Relative \cup Ready, e \in BOOLEAN}

FilesUrls == {[scheme |-> s, host |-> files, port |-> p] : s \in {"http", "https"}, p \in {None, 443, 8081}}
Hosts == {[host |-> nexus, port |-> None], [host |-> nexus, port |-> 8081]}
Deployments == [files : FilesUrls, allowlist : SUBSET Hosts, rewrite : BOOLEAN, scheme : {"http", "https"}]

------------------------------------------------------------------------------
(* Conversions: every entry, with one or two algorithms in either order.    *)

Mappings == {<<"sha256">>, <<"sha512">>, <<"md5">>, <<"md5", "sha256">>,
            <<"sha256", "md5">>, <<"md5", "sha512">>, <<"sha512", "md5">>}
\* The order of metadata_value_to_html, and some names of _parse_hashes.
Preferred == <<"sha256", "sha384", "sha512", "blake2b", "sha1", "md5">>
Fragments == {"sha256", "md5"}

------------------------------------------------------------------------------
(* Negotiation: up to three media ranges in any order, and a max-age of     *)
(* nothing, below the floor, below the TTL and above it.                    *)

Ranges ==
    {[major |-> t[1], minor |-> t[2], q |-> q] :
        t \in {<<"application", "json">>, <<"application", "*">>, <<"text", "html">>,
               <<"text", "*">>, <<"*", "*">>, <<"image", "png">>},
        q \in {0, 5, 10}}
Accepts == SeqOf(Ranges, 3)
Ages == {0, 4, 30, 600}
==============================================================================
