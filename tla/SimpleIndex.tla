----------------------------- MODULE SimpleIndex -----------------------------
(***************************************************************************)
(* app/simple_index.py: requests for /simple/, the listing of all projects, *)
(* in one process.  Upstream lists them in JSON or in HTML, as it likes; a *)
(* client wants one or the other; listings are cached under                *)
(* simple:index:json and simple:index:html.  Nothing keeps two requests    *)
(* from fetching the same listing at a time.                               *)
(*                                                                         *)
(* A listing is a set of items, each with a text.  In JSON an item is a    *)
(* record with a name, or the bare name; in HTML it is an anchor, and      *)
(* there are some whose text is blank.                                     *)
(***************************************************************************)
EXTENDS FiniteSets

CONSTANTS
    Clients,
    Names,          \* of projects
    Blank,          \* the text of an anchor that names none
    None

Formats == {"json", "html"}
Shapes(f) == IF f = "json" THEN {"record", "name"} ELSE {"anchor"}
TextsIn(f) == IF f = "json" THEN Names ELSE Names \cup {Blank}
ItemsIn(f) == [text : TextsIn(f), shape : Shapes(f)]
Listings == UNION {[format : {f}, items : SUBSET ItemsIn(f)] : f \in Formats}

Failed == [format |-> None, items |-> {}]

DataAssumption == None \notin Formats /\ None \notin Listings \cup {Failed} /\ Blank \notin Names

(* names: what is taken from a listing that came from upstream.             *)
NamesIn(l) ==
    IF l.format = "json" THEN {i.text : i \in l.items}
    ELSE {i.text : i \in l.items} \ {Blank}

VARIABLES
    entries,    \* the listing cached in each format, or None
    upstream,   \* the projects upstream has
    pc,         \* "free", "lookup", "fetch", "store" or "answered"
    format,     \* the format a client asks for
    got,        \* the listing upstream sent for it
    answer,     \* the listing it was answered with, or Failed
    past        \* history: the sets of projects upstream has had

vars == <<entries, upstream, pc, format, got, answer, past>>

Init ==
    /\ entries = [f \in Formats |-> None]
    /\ upstream \in SUBSET Names /\ past = {upstream}
    /\ pc = [c \in Clients |-> "free"]
    /\ format = [c \in Clients |-> "html"]
    /\ got = [c \in Clients |-> None]
    /\ answer = [c \in Clients |-> None]

Goes(c, next) == pc' = [pc EXCEPT ![c] = next]

Ask(c) ==
    /\ pc[c] = "free"
    /\ \E f \in Formats : format' = [format EXCEPT ![c] = f]
    /\ Goes(c, "lookup")
    /\ UNCHANGED <<entries, upstream, got, answer, past>>

Lookup(c) ==
    /\ pc[c] = "lookup"
    /\ IF entries[format[c]] # None
       THEN answer' = [answer EXCEPT ![c] = entries[format[c]]] /\ Goes(c, "answered")
       ELSE UNCHANGED answer /\ Goes(c, "fetch")
    /\ UNCHANGED <<entries, upstream, format, got, past>>

Fails(c) == answer' = [answer EXCEPT ![c] = Failed] /\ Goes(c, "answered")

(* Upstream answers with what it has now, in a format and with items of its *)
(* choice, or with an error.                                                *)
Fetch(c) ==
    /\ pc[c] = "fetch"
    /\ \/ /\ \E l \in Listings : NamesIn(l) = upstream /\ got' = [got EXCEPT ![c] = l]
          /\ Goes(c, "store") /\ UNCHANGED answer
       \/ Fails(c) /\ UNCHANGED got
    /\ UNCHANGED <<entries, upstream, format, past>>

(* A project for each of the names. *)
Synthesized(f, names) ==
    [format |-> f,
     items |-> {[text |-> n, shape |-> IF f = "json" THEN "record" ELSE "anchor"] : n \in names}]

(* Variant: JSON is passed on as it came, too. *)
RenderedAsItCame(l, f) == IF l.format = f THEN l ELSE Synthesized(f, NamesIn(l))

(* The listing in the format asked for: HTML for HTML is passed on as it    *)
(* came, and all else is written anew.                                      *)
Rendered(l, f) == IF l.format = "html" /\ f = "html" THEN l ELSE Synthesized(f, NamesIn(l))

(* What came as JSON may turn out to be no listing.                         *)
StoreAndAnswer(c) ==
    /\ pc[c] = "store"
    /\ LET body == Rendered(got[c], format[c]) IN
        \/ /\ entries' = [entries EXCEPT ![format[c]] = body]
           /\ answer' = [answer EXCEPT ![c] = body] /\ Goes(c, "answered")
        \/ got[c].format = "json" /\ Fails(c) /\ UNCHANGED entries
    /\ got' = [got EXCEPT ![c] = None]
    /\ UNCHANGED <<upstream, format, past>>

(* The client has its answer and may come again. *)
Leave(c) ==
    /\ pc[c] = "answered"
    /\ Goes(c, "free")
    /\ format' = [format EXCEPT ![c] = "html"]
    /\ answer' = [answer EXCEPT ![c] = None]
    /\ UNCHANGED <<entries, upstream, got, past>>

Expire ==
    /\ \E f \in Formats : entries[f] # None /\ entries' = [entries EXCEPT ![f] = None]
    /\ UNCHANGED <<upstream, pc, format, got, answer, past>>

Publish ==
    /\ upstream' \in SUBSET Names /\ past' = past \cup {upstream'}
    /\ UNCHANGED <<entries, pc, format, got, answer>>

Step(c) == Lookup(c) \/ Fetch(c) \/ StoreAndAnswer(c)
Next ==
    \/ \E c \in Clients : Ask(c) \/ Step(c) \/ Leave(c)
    \/ Expire \/ Publish

Spec == Init /\ [][Next]_vars

------------------------------------------------------------------------------
(* Properties *)

(* The variables have their types, and what has come from upstream is kept  *)
(* until it is stored.                                                      *)
TypeOK ==
    /\ entries \in [Formats -> Listings \cup {None}]
    /\ upstream \in SUBSET Names /\ past \subseteq SUBSET Names /\ upstream \in past
    /\ pc \in [Clients -> {"free", "lookup", "fetch", "store", "answered"}]
    /\ format \in [Clients -> Formats]
    /\ got \in [Clients -> Listings \cup {None}]
    /\ answer \in [Clients -> Listings \cup {Failed, None}]
    /\ \A c \in Clients : (got[c] # None <=> pc[c] = "store") /\ (answer[c] # None <=> pc[c] = "answered")

(* The projects a client finds in a listing it takes to be in format f: in  *)
(* JSON the records with a name (PEP 691), in HTML the text of the anchors. *)
ReadAs(l, f) ==
    IF f = "json" THEN {i.text : i \in {j \in l.items : j.shape = "record"}}
    ELSE {i.text : i \in {j \in l.items : j.shape = "anchor"}} \ {Blank}

(* Whatever form upstream's listings come in, whichever requests share the  *)
(* cache, and whatever upstream publishes meanwhile: a client finds in its  *)
(* answer, read as what it asked for, the projects of upstream at one time, *)
(* all of them and no others.                                               *)
ListingsAreWhole ==
    \A c \in Clients : pc[c] = "answered" /\ answer[c] # Failed =>
        ReadAs(answer[c], format[c]) \in past
==============================================================================
