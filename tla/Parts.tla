-------------------------------- MODULE Parts --------------------------------
(***************************************************************************)
(* The parts that work on one thing at a time and share no state, in one   *)
(* specification: a behaviour is one of the wheel reader, of a link, of an *)
(* entry, of the negotiation of a page, or of the requests for listings.   *)
(* What the other parts have for state stays None.                         *)
(***************************************************************************)
EXTENDS Naturals, Sequences

CONSTANTS
    None,
    \* WheelReader
    Archives, Later, TextOf, Wheel, Size, Crc, EndSize, HeaderSize, Limits, Server, MaxSeen,
    \* Artifacts
    Links, Settings,
    \* Conversions
    Offered, HtmlAlgorithms, Known,
    \* Negotiation
    Headers, MaxAges, ProjectTtl,
    \* SimpleIndex
    Clients, Names, Blank

VARIABLES part,
    object, full, stage, total, end, member, rest, result, seen, faithful,
    settings, link, page, stored, fetched, extracted,
    entry, format, rewrite,
    accept, upstream, served, maxAge, ttl,
    entries, pc, got, answer, past

Reader == INSTANCE WheelReader
Way == INSTANCE Artifacts
Page == INSTANCE Conversions
Format == INSTANCE Negotiation
Index == INSTANCE SimpleIndex

------------------------------------------------------------------------------
(* What the parts ask of their data, stated and explained in each of them.  *)

ASSUME ReaderData == Reader!DataAssumption
ASSUME WayData == Way!DataAssumption
ASSUME PageData == Page!DataAssumption
ASSUME FormatData == Format!DataAssumption
ASSUME IndexData == Index!DataAssumption

------------------------------------------------------------------------------
ReaderIdle ==
    /\ object = None /\ full = None /\ total = None /\ end = None /\ member = None
    /\ rest = None /\ result = None /\ seen = None /\ faithful = None
WayIdle ==
    settings = None /\ page = None /\ stored = None /\ fetched = None /\ extracted = None
PageIdle == entry = None /\ rewrite = None
FormatIdle == accept = None /\ served = None /\ maxAge = None /\ ttl = None
IndexIdle == entries = None /\ pc = None /\ got = None /\ answer = None /\ past = None

Init ==
    \/ part = "wheel" /\ Reader!Init /\ link = None /\ format = None /\ upstream = None
       /\ WayIdle /\ PageIdle /\ FormatIdle /\ IndexIdle
    \/ part = "link" /\ Way!Init /\ format = None /\ upstream = None
       /\ ReaderIdle /\ PageIdle /\ FormatIdle /\ IndexIdle
    \/ part = "entry" /\ Page!Init /\ upstream = None
       /\ ReaderIdle /\ WayIdle /\ FormatIdle /\ IndexIdle
    \/ part = "format" /\ Format!Init /\ stage = None /\ link = None /\ format = None
       /\ ReaderIdle /\ WayIdle /\ PageIdle /\ IndexIdle
    \/ part = "listing" /\ Index!Init /\ stage = None /\ link = None
       /\ ReaderIdle /\ WayIdle /\ PageIdle /\ FormatIdle

readerVars == <<object, full, total, end, member, rest, result, seen, faithful>>
wayVars == <<settings, page, stored, fetched, extracted>>
pageVars == <<entry, rewrite>>
formatVars == <<accept, served, maxAge, ttl>>
indexVars == <<entries, pc, got, answer, past>>

ReadWheel ==
    /\ part = "wheel" /\ Reader!Next
    /\ UNCHANGED <<part, link, format, upstream, wayVars, pageVars, formatVars, indexVars>>
FollowLink ==
    /\ part = "link" /\ Way!Next
    /\ UNCHANGED <<part, format, upstream, readerVars, pageVars, formatVars, indexVars>>
ConvertEntry ==
    /\ part = "entry" /\ Page!Next
    /\ UNCHANGED <<part, upstream, readerVars, wayVars, formatVars, indexVars>>
NegotiateFormat ==
    /\ part = "format" /\ Format!Next
    /\ UNCHANGED <<part, stage, link, format, readerVars, wayVars, pageVars, indexVars>>
AnswerListing ==
    /\ part = "listing" /\ Index!Next
    /\ UNCHANGED <<part, stage, link, readerVars, wayVars, pageVars, formatVars>>

Next == ReadWheel \/ FollowLink \/ ConvertEntry \/ NegotiateFormat \/ AnswerListing
vars == <<part, stage, link, format, upstream, readerVars, wayVars, pageVars, formatVars, indexVars>>
Spec == Init /\ [][Next]_vars

------------------------------------------------------------------------------
(* The properties of each part, while it is the one at work *)

(* WheelReader: a wheel is read only if nothing is wrong with it. *)
FailsClosed == part = "wheel" => Reader!FailsClosed

(* WheelReader: one with which nothing is wrong is read. *)
SoundWheelsAreRead == part = "wheel" => Reader!SoundWheelsAreRead

(* WheelReader: what is read is never a mixture of two wheels. *)
ResultIsOfOneWheel == part = "wheel" => Reader!ResultIsOfOneWheel

(* Artifacts: what is fetched for a link is what it links to. *)
FetchedIsLinked == part = "link" => Way!FetchedIsLinked

(* Artifacts: metadata that background work stored is found by requests. *)
StoredIsServed == part = "link" => Way!StoredIsServed

(* Conversions: conversions keep what an entry says to an installer. *)
MeaningIsKept == [][part = "entry" /\ format' # format => Page!Meaning(entry') = Page!Meaning(entry)]_vars

(* Conversions: what metadata is offered for is linked through the proxy. *)
OfferedIsProxied == part = "entry" => Page!OfferedIsProxied

(* Negotiation: no client gets a format it refuses while it welcomes one. *)
RefusedIsNotServed == part = "format" => Format!RefusedIsNotServed

(* SimpleIndex: a listing has the projects upstream had at one time. *)
ListingsAreWhole == part = "listing" => Index!ListingsAreWhole
==============================================================================
