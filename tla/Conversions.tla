----------------------------- MODULE Conversions -----------------------------
(***************************************************************************)
(* app/parse.py, with what app/artifacts.py and app/metadata.py do to the  *)
(* same fields: the entry of one file on a project page, on its way from   *)
(* upstream through the cache, converted from one format to the other,     *)
(* enriched, and converted again.  The file is on an allowed host.         *)
(*                                                                         *)
(* The entry is what an installer looks at.  A metadata value is absent,   *)
(* "false", "true", a string of another kind, or a mapping with the names  *)
(* of its hash algorithms in the order they come in; HTML has room for one. *)
(***************************************************************************)
EXTENDS Naturals, Sequences, FiniteSets, FiniteSetsExt, SequencesExt

CONSTANTS
    Offered,    \* lists of algorithms that occur in mappings, none of them empty
    HtmlAlgorithms, \* those metadata_value_to_html looks for, in its order
    Known       \* names of hashes that are taken from a fragment

(* SHA-256 comes first in the one list and is in the other.                 *)
DataAssumption ==
    /\ Len(HtmlAlgorithms) \in Nat \ {0} /\ HtmlAlgorithms[1] = "sha256"
    /\ "sha256" \in Known
    /\ \A o \in Offered : Len(o) \in Nat

Formats == {"json", "html"}
Opposite(f) == IF f = "json" THEN "html" ELSE "json"

Value(kind) == [kind |-> kind, hashes |-> <<>>]
Absent == Value("absent")
Mapping(hashes) == [kind |-> "hashes", hashes |-> hashes]
Plain == {Value(k) : k \in {"absent", "false", "true", "empty", "text"}}
ValuesIn(f) == Plain \cup {Mapping(h) : h \in {o \in Offered : f = "json" \/ Len(o) = 1}}

(* Entries upstream may have.  In JSON "true" and "false" are the Booleans.  *)
YankedIn(f) == {"absent", "true", "", "reason"} \cup (IF f = "json" THEN {"false"} ELSE {})
Pages ==
    UNION {[format : {f}, yanked : YankedIn(f), python : {"absent", "", "spec"},
            hashes : SUBSET (Known \cup {"other"}), core : ValuesIn(f), dist : ValuesIn(f)] : f \in Formats}

VARIABLES
    entry,      \* as it is on the page
    format,     \* of the page
    link,       \* "direct" or "proxied" (/artifacts/...)
    rewrite,    \* rewrite_artifact_urls, as the deployment has it
    stage       \* "upstream" or "cached"

vars == <<entry, format, link, rewrite, stage>>

Init ==
    /\ entry \in Pages /\ format = entry.format
    /\ link = "direct" /\ rewrite \in BOOLEAN
    /\ stage = "upstream"

------------------------------------------------------------------------------
(* From the page to a File and back *)

(* metadata_value_to_html *)
HtmlValue(v) ==
    LET first == SelectInSeq(HtmlAlgorithms, LAMBDA a : Contains(v.hashes, a)) IN
    IF v.kind # "hashes" THEN v
    ELSE IF first = 0 THEN Absent
    ELSE Mapping(<<HtmlAlgorithms[first]>>)

(* parse_simple_html: an attribute without a reason, and a known hash.      *)
ParseHtml(e) ==
    [e EXCEPT !.yanked = IF @ \in {"", "true"} THEN "true" ELSE @,
              !.hashes = @ \cap Known]

(* parse_simple_json *)
ParseJson(e) == e

Parse(e) == IF e.format = "html" THEN ParseHtml(e) ELSE ParseJson(e)

(* Variant: what only the older name advertises is not rendered. *)
MetadataOfCore(f) ==
    LET core == HtmlValue(f.core) IN
    IF core # Absent THEN [core |-> core, dist |-> Absent]
    ELSE [core |-> Value("false"), dist |-> Absent]

(* Of the two attributes HTML gets one, and a file without either "false".  *)
MetadataOf(f) ==
    LET core == HtmlValue(f.core)
        dist == HtmlValue(f.dist)
    IN IF core # Absent THEN [core |-> core, dist |-> Absent]
       ELSE IF dist # Absent THEN [core |-> Absent, dist |-> dist]
       ELSE IF f.core = Absent /\ f.dist = Absent
       THEN [core |-> Value("false"), dist |-> Absent]
       ELSE [core |-> Absent, dist |-> Absent]

(* model_to_html *)
RenderHtml(f) ==
    [f EXCEPT !.format = "html",
              !.yanked = IF @ = "true" THEN "" ELSE IF @ \in {"false", ""} THEN "absent" ELSE @,
              !.python = IF @ = "" THEN "absent" ELSE @,
              !.core = MetadataOf(f).core,
              !.dist = MetadataOf(f).dist]

(* model_to_json *)
RenderJson(f) ==
    [f EXCEPT !.format = "json",
              !.core = IF f.core = Absent /\ f.dist = Absent THEN Value("false") ELSE @]

Render(f, to) == IF to = "html" THEN RenderHtml(f) ELSE RenderJson(f)

------------------------------------------------------------------------------
(* Links *)

(* _metadata_value_advertised *)
ValueAdvertised(v) == v.kind \in {"true", "empty", "text", "hashes"}

(* Variant: only the newer name counts. *)
FileAdvertisesByCore(f) == ValueAdvertised(f.core)

(* _file_advertises_metadata, and for JSON _json_entry_advertises_metadata. *)
FileAdvertises(f) == ValueAdvertised(f.core) \/ ValueAdvertised(f.dist)

(* _rewrite_anchor: an attribute with a value that says something.          *)
AnchorAdvertises(e) == \E v \in {e.core, e.dist} : v.kind \in {"true", "text", "hashes"}

Linked(advertised) == IF rewrite \/ advertised THEN "proxied" ELSE link

------------------------------------------------------------------------------
(* Steps *)

(* rewrite_simple_body: the page is stored as it came but for its links.    *)
Passthrough ==
    /\ stage = "upstream" /\ stage' = "cached"
    /\ link' = Linked(IF format = "html" THEN AnchorAdvertises(entry) ELSE FileAdvertises(entry))
    /\ UNCHANGED <<entry, format, rewrite>>

(* Converted as it is fetched, or later from the page in the cache.         *)
Convert ==
    /\ format' = Opposite(format)
    /\ entry' = Render(Parse(entry), format')
    /\ link' = Linked(FileAdvertises(Parse(entry)))
    /\ stage' = "cached"
    /\ UNCHANGED rewrite

(* _needs_probe *)
NeedsProbe(f) == f.core.kind \in {"absent", "false"} /\ f.dist.kind \in {"absent", "false"}

(* _advertise_metadata with what _probe turned up for the file, which is    *)
(* native metadata, or extracted metadata with its digest; or for another   *)
(* of the page, while this one has a value.  Then it is written as it was   *)
(* parsed (a null reads as absent), and its link as well.                   *)
Enrich ==
    /\ stage = "cached"
    /\ \/ /\ NeedsProbe(Parse(entry))
          /\ \E v \in {Value("true"), Mapping(<<"sha256">>)} : entry' = [entry EXCEPT !.core = v]
          /\ link' = "proxied"
       \/ /\ ~NeedsProbe(Parse(entry)) /\ UNCHANGED entry
          /\ link' = IF format = "json" \/ HtmlValue(entry.core) # Absent THEN "proxied" ELSE link
    /\ UNCHANGED <<format, rewrite, stage>>

Next == Passthrough \/ Convert \/ Enrich
Spec == Init /\ [][Next]_vars

------------------------------------------------------------------------------
(* Properties *)

(* The variables have their types: in HTML a value names one algorithm.     *)
TypeOK ==
    /\ entry \in Pages /\ entry.format = format
    /\ link \in {"direct", "proxied"} /\ rewrite \in BOOLEAN
    /\ stage \in {"upstream", "cached"}

(* What an installer takes from an entry: whether the file is yanked and    *)
(* why, which Pythons it is for, the hash it is checked against, and        *)
(* whether metadata is offered and with which hash.  The newer name wins.   *)
Yanked(e) ==
    LET no == IF e.format = "json" THEN {"absent", "false", ""} ELSE {"absent"} IN
    IF e.yanked \in no THEN "no" ELSE IF e.yanked = "reason" THEN "reason" ELSE "yes"
Offer(e) == IF e.core # Absent THEN e.core ELSE e.dist
Offers(e) == Offer(e).kind \in {"true", "text", "hashes"}
Meaning(e) ==
    [yanked |-> Yanked(e),
     python |-> IF e.python = "" THEN "absent" ELSE e.python,
     checked |-> "sha256" \in e.hashes,
     offered |-> Offers(e),
     digest |-> Contains(Offer(e).hashes, "sha256"),
     hashed |-> Offer(e).kind = "hashes"]

(* However often a page is converted back and forth, and whether before or  *)
(* after its enrichment, it says the same to an installer.                  *)
MeaningIsKept == [][format' # format => Meaning(entry') = Meaning(entry)]_vars

(* "Links advertising metadata are still rewritten because generated        *)
(* .metadata responses are served by this proxy": wherever a page of the    *)
(* cache came from, what it offers metadata for is linked through the proxy. *)
OfferedIsProxied == stage = "cached" /\ Offers(entry) => link = "proxied"
==============================================================================
