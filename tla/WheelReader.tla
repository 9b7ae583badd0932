----------------------------- MODULE WheelReader -----------------------------
(***************************************************************************)
(* app/wheel_metadata.py: the METADATA of a wheel is read with a handful of *)
(* range requests, from a server that may honour them, answer something    *)
(* else, or have another archive under the URL by the next request.         *)
(*                                                                         *)
(* An archive is a record of what the reader looks at: its size, its end   *)
(* record, the members its central directory lists, the local headers and  *)
(* the stored texts by their offset.  Bytes are counted, not spelt out; a  *)
(* read at a place where the archive has no record of the kind expected is *)
(* garbage, and no signature, size or checksum fits garbage.               *)
(***************************************************************************)
EXTENDS Naturals, Sequences, FiniteSets

CONSTANTS
    Archives,   \* what the URL may hold at first
    Later,      \* what may be put in its place, a subset of Archives
    TextOf,     \* the METADATA of those that are wheels of the kind the reader is meant for
    Wheel,      \* the distribution and version its file name states
    Size, Crc,  \* length and checksum of a text, no two texts of the same checksum
    EndSize,    \* 22: an end record without its comment
    HeaderSize, \* 30: a local header without its name
    Limits,     \* [search, archive, directory, entries, text], see the head of the file
    Server,     \* how the server may answer, a subset of Kinds
    MaxSeen,    \* bound: archives the URL holds in the course of one extraction
    None

Kinds == {"range", "full", "full undeclared", "whole range", "clipped", "truncated",
          "runs on", "miscounted", "encoded", "refused"}
Fetches == {"suffix", "directory", "header", "names", "data"}

Wheels == DOMAIN TextOf

(* What a wheel of that kind is, in terms of the format and not of the      *)
(* reader: o is one whose METADATA, its i-th member, has the text t.        *)
IsWheelWith(o, i, t) ==
    LET e == o.end
        m == o.members[i]
        h == o.headers[m.at]
        start == m.at + HeaderSize + h.rest
    IN /\ o.size <= Limits.archive
       /\ e.at + EndSize + e.comment = o.size /\ EndSize + e.comment <= Limits.search
       /\ ~e.spans /\ ~e.zip64
       /\ e.dirAt + e.dirSize = e.at
       /\ e.dirSize \in 1..Limits.directory /\ e.entries \in 1..Limits.entries
       /\ Len(o.members) = e.entries
       /\ \A j \in 1..Len(o.members) :
            LET n == o.members[j] IN ~n.zip64 /\ ~n.otherDisk /\ (n.metadata <=> j = i)
       /\ m.name = Wheel /\ "encrypted" \notin m.flags /\ m.method \in {"stored", "deflated"}
       /\ m.csize \in 1..Limits.text /\ m.usize <= Limits.text
       /\ m.at \in DOMAIN o.headers
       /\ h.name = Wheel /\ h.flags = m.flags /\ ~h.zip64 /\ h.method = m.method /\ h.rest > 0
       /\ start \in DOMAIN o.texts /\ start + m.csize <= o.size
       /\ o.texts[start] = [text |-> t, csize |-> m.csize, method |-> m.method]
       /\ m.usize = Size[t] /\ m.crc = Crc[t]

IsArchive(o) ==
    /\ {o.size, o.end.at, o.end.comment, o.end.dirAt, o.end.dirSize, o.end.entries} \subseteq Nat
    /\ Len(o.members) \in Nat
    /\ \A i \in 1..Len(o.members) :
        /\ {o.members[i].at, o.members[i].csize, o.members[i].usize} \subseteq Nat
        /\ o.members[i].metadata \in BOOLEAN
    /\ \A a \in DOMAIN o.headers : o.headers[a].rest \in Nat
    /\ \A a \in DOMAIN o.texts :
        LET x == o.texts[a] IN
        x = [text |-> x.text, csize |-> x.csize, method |-> x.method] /\ x.text \in DOMAIN Crc

DataAssumption ==
    /\ \A o \in Archives : IsArchive(o)
    /\ None \notin Archives /\ None \notin DOMAIN Crc /\ Later \subseteq Archives
    /\ Server \subseteq Kinds
    /\ EndSize \in Nat \ {0} /\ HeaderSize \in Nat \ {0} /\ Limits.search # None
    /\ {Limits.search, Limits.archive, Limits.directory, Limits.entries, Limits.text} \subseteq Nat
    /\ \A s, t \in DOMAIN Crc : Crc[s] = Crc[t] => s = t
    /\ \A o \in Archives : \A t \in DOMAIN Crc :
        (\E i \in 1..Len(o.members) : IsWheelWith(o, i, t)) <=> o \in Wheels /\ TextOf[o] = t
    /\ \A o \in Wheels : TextOf[o] \in DOMAIN Crc

VARIABLES
    object,     \* the archive under the URL
    full,       \* full_archive: the one that came whole, or None
    stage,      \* the next fetch, "done" or "failed"
    total,      \* archive_size
    end,        \* the end record
    member,     \* the directory's entry for METADATA
    rest,       \* name_length + extra_length of its local header
    result,     \* the text returned
    seen,       \* history: archives the URL held so far
    faithful    \* history: the server did as the requests said

found == <<full, total, end, member, rest, result>>
vars == <<object, full, stage, total, end, member, rest, result, seen, faithful>>

Init ==
    /\ object \in Archives
    /\ stage = "suffix"
    /\ full = None /\ total = 0 /\ end = None /\ member = None /\ rest = 0 /\ result = None
    /\ seen = {object} /\ faithful = TRUE

------------------------------------------------------------------------------
(* Requests *)

Least(a, b) == IF a < b THEN a ELSE b

(* A server answers the range first..last of what it has.                   *)
Reply(kind, first, last) ==
    LET size == object.size
        ranged == [status |-> 206, encoded |-> FALSE, start |-> first, end |-> last,
                   total |-> size, declared |-> last + 1 - first, bytes |-> last + 1 - first]
        whole == [ranged EXCEPT !.start = 0, !.end = size - 1, !.declared = size, !.bytes = size]
    IN CASE kind = "range"           -> ranged
         [] kind = "full"            -> [whole EXCEPT !.status = 200]
         [] kind = "full undeclared" -> [whole EXCEPT !.status = 200, !.declared = None]
         [] kind = "whole range"     -> whole
         [] kind = "clipped"         -> [ranged EXCEPT !.end = last - 1, !.declared = last - first,
                                                       !.bytes = last - first]
         [] kind = "truncated"       -> [ranged EXCEPT !.bytes = @ - 1]
         [] kind = "runs on"         -> [ranged EXCEPT !.declared = None, !.bytes = @ + 1]
         [] kind = "miscounted"      -> [ranged EXCEPT !.total = size + 1]
         [] kind = "encoded"         -> [ranged EXCEPT !.encoded = TRUE]
         [] kind = "refused"         -> [ranged EXCEPT !.status = 416]

(* _range_response, up to the body: a full response may be as long as the   *)
(* allowance, where there is one; a range is as long as it says.            *)
Expected(r) == r.end + 1 - r.start

HeadersFit(r, allowance) ==
    /\ ~r.encoded
    /\ \/ /\ r.status = 200 /\ allowance # None
          /\ r.declared = None \/ r.declared <= allowance
       \/ /\ r.status = 206
          /\ r.total \in 1..Limits.archive /\ r.start <= r.end /\ r.end < r.total
          /\ r.declared \in {None, Expected(r)}

BodyFits(r, allowance) ==
    IF r.status = 200
    THEN r.bytes \in 1..Least(allowance, Limits.archive) /\ r.declared \in {None, r.bytes}
    ELSE r.bytes = Expected(r)

Accepted(r, allowance) == HeadersFit(r, allowance) /\ BodyFits(r, allowance)

(* What the server may answer to a request, and whether it did as asked.    *)
Honest(kind, allowance) ==
    kind = "range" \/ (kind = "full" /\ allowance # None /\ object.size <= allowance)
Request(first, last, allowance) ==
    {[r |-> Reply(kind, first, last), honest |-> Honest(kind, allowance)] : kind \in Server}

(* _fetch_exact, or the same slice of what is here already: the archive the *)
(* bytes come from, or None.                                                *)
InBounds(first, length) == length > 0 /\ first + length <= total
AsAsked(r, first, last) ==
    Accepted(r, None) /\ r.total = total /\ r.start = first /\ r.end = last
FetchExact(first, length) ==
    IF ~InBounds(first, length) \/ full # None
    THEN {[from |-> IF InBounds(first, length) THEN full ELSE None, honest |-> TRUE]}
    ELSE LET last == first + length - 1
         IN {[from |-> IF AsAsked(a.r, first, last) THEN object ELSE None, honest |-> a.honest] :
             a \in Request(first, last, None)}

Fail == stage' = "failed" /\ UNCHANGED found
Remember(answer) ==
    /\ faithful' = (faithful /\ answer.honest)
    /\ UNCHANGED <<object, seen>>

------------------------------------------------------------------------------
(* The steps of extract_wheel_metadata *)

(* Variant: an end record right at the start of the suffix is not found.    *)
EndIsFoundInside(o, tailStart) ==
    o.end.at > tailStart /\ o.end.at + EndSize + o.end.comment = o.size

(* _parse_eocd *)
EndIsFound(o, tailStart) == o.end.at >= tailStart /\ o.end.at + EndSize + o.end.comment = o.size

EndIsGood(e) ==
    /\ ~e.spans /\ ~e.zip64
    /\ e.entries \in 1..Limits.entries
    /\ e.dirSize \in 1..Limits.directory
    /\ e.dirAt + e.dirSize = e.at

SuffixStart(size) == IF size > Limits.search THEN size - Limits.search ELSE 0

FetchSuffix ==
    /\ stage = "suffix"
    /\ \E a \in Request(SuffixStart(object.size), object.size - 1, Limits.search) :
        /\ IF /\ Accepted(a.r, Limits.search)
              /\ a.r.start = SuffixStart(a.r.total) /\ a.r.end = a.r.total - 1
              /\ EndIsFound(object, a.r.start) /\ EndIsGood(object.end)
           THEN /\ total' = a.r.total
                /\ full' = IF a.r.status = 200 THEN object ELSE None
                /\ end' = object.end
                /\ stage' = "directory"
                /\ UNCHANGED <<member, rest, result>>
           ELSE Fail
        /\ Remember(a)

(* _parse_central_directory: the entries that are there are as many as the  *)
(* end record says, none is exotic, and one is METADATA.                    *)
Listed(o) == {i \in 1..Len(o.members) : o.members[i].metadata}

DirectoryIsGood(o, e) ==
    /\ o.end.dirAt = e.dirAt /\ o.end.dirSize = e.dirSize
    /\ Len(o.members) = e.entries
    /\ \A i \in 1..Len(o.members) : ~o.members[i].zip64 /\ ~o.members[i].otherDisk
    /\ Cardinality(Listed(o)) = 1

Entry(o) == o.members[CHOOSE i \in Listed(o) : TRUE]

(* Variant: an encrypted entry will do. *)
EntryIsGoodEncrypted(m) ==
    m.name = Wheel /\ m.csize \in 1..Limits.text /\ m.usize <= Limits.text

(* _validate_metadata_member and what is asked of the entry after it.       *)
EntryIsGood(m) ==
    /\ m.name = Wheel /\ "encrypted" \notin m.flags
    /\ m.csize \in 1..Limits.text /\ m.usize <= Limits.text

FetchDirectory ==
    /\ stage = "directory"
    /\ \E a \in FetchExact(end.dirAt, end.dirSize) :
        /\ IF a.from # None /\ DirectoryIsGood(a.from, end) /\ EntryIsGood(Entry(a.from))
           THEN /\ member' = Entry(a.from) /\ stage' = "header"
                /\ UNCHANGED <<full, total, end, rest, result>>
           ELSE Fail
        /\ Remember(a)

Agrees(h, m) == h.flags = m.flags /\ h.method = m.method

FetchHeader ==
    /\ stage = "header"
    /\ \E a \in FetchExact(member.at, HeaderSize) :
        /\ IF a.from # None /\ member.at \in DOMAIN a.from.headers
              /\ Agrees(a.from.headers[member.at], member)
           THEN /\ rest' = a.from.headers[member.at].rest /\ stage' = "names"
                /\ UNCHANGED <<full, total, end, member, result>>
           ELSE Fail
        /\ Remember(a)

(* If the archive has changed, bytes of another length may look right.      *)
Named(o) ==
    /\ member.at \in DOMAIN o.headers
    /\ o.headers[member.at].name = member.name
    /\ ~o.headers[member.at].zip64

FetchNames ==
    /\ stage = "names"
    /\ \E a \in FetchExact(member.at + HeaderSize, rest) :
        /\ \/ /\ a.from # None /\ Named(a.from)
              /\ stage' = "data" /\ UNCHANGED found
           \/ /\ a.from # None /\ Named(a.from) => a.from.headers[member.at].rest # rest
              /\ Fail
        /\ Remember(a)

(* _decompress_metadata and the checksum: all of a text and nothing else.   *)
DataAt == member.at + HeaderSize + rest
Inflates(o) ==
    /\ DataAt \in DOMAIN o.texts
    /\ LET t == o.texts[DataAt] IN
        /\ t.csize = member.csize
        /\ t.method = member.method /\ member.method \in {"stored", "deflated"}
        /\ Size[t.text] = member.usize

(* Variant: the checksum is not looked at. *)
ChecksumAny(t) == t \in DOMAIN Crc

ChecksumFits(t) == Crc[t] = member.crc

FetchData ==
    /\ stage = "data"
    /\ \E a \in FetchExact(DataAt, member.csize) :
        /\ IF a.from # None /\ Inflates(a.from) /\ ChecksumFits(a.from.texts[DataAt].text)
           THEN /\ result' = a.from.texts[DataAt].text /\ stage' = "done"
                /\ UNCHANGED <<full, total, end, member, rest>>
           ELSE Fail
        /\ Remember(a)

(* Another archive is put under the URL, or a cache in front has parts of   *)
(* an earlier one.                                                          *)
Replace ==
    /\ stage \in Fetches
    /\ object' \in Later
    /\ seen' = seen \cup {object'} /\ Cardinality(seen') <= MaxSeen
    /\ UNCHANGED <<stage, found, faithful>>

Next == FetchSuffix \/ FetchDirectory \/ FetchHeader \/ FetchNames \/ FetchData \/ Replace
Spec == Init /\ [][Next]_vars

------------------------------------------------------------------------------
(* Properties *)

(* The variables have their types, and what one fetch leaves to the next is *)
(* there when the next needs it.                                            *)
TypeOK ==
    /\ object \in Archives /\ full \in Archives \cup {None}
    /\ stage \in Fetches \cup {"done", "failed"}
    /\ total \in 0..Limits.archive /\ rest \in Nat
    /\ result \in DOMAIN Crc \cup {None} /\ (result # None <=> stage = "done")
    /\ stage \in Fetches \ {"suffix"} => EndIsGood(end) /\ total > 0
    /\ stage \in {"header", "names", "data", "done"} => EntryIsGood(member)
    /\ seen \subseteq Archives /\ object \in seen
    /\ faithful \in BOOLEAN

(* Whatever the server sends, and however often the wheel is replaced by    *)
(* another between requests: what is returned is all of the METADATA of one *)
(* of them, never a mixture of two.                                         *)
ResultIsOfOneWheel ==
    result # None /\ seen \subseteq Wheels => result \in {TextOf[o] : o \in seen}

(* "Anything ambiguous fails closed": if there was one archive all along,   *)
(* its METADATA is returned only if nothing is wrong with it.               *)
FailsClosed == result # None => \A o \in seen : seen = {o} => o \in Wheels /\ result = TextOf[o]

(* And it is returned if nothing is wrong with it and the server does as    *)
(* requested, be the archive larger or smaller than the suffix asked for.   *)
SoundWheelsAreRead ==
    stage = "failed" /\ faithful => \A o \in seen : seen = {o} => o \notin Wheels
==============================================================================
