----------------------------- MODULE Negotiation -----------------------------
(***************************************************************************)
(* app/accept.py and app/ttl.py, as app/simple_project.py uses them for a  *)
(* page that is not in the cache: in which format the client gets it, and  *)
(* how long it is kept.  An Accept header is a sequence of media ranges,   *)
(* each with its quality in tenths.                                        *)
(***************************************************************************)
EXTENDS Integers, Sequences, FiniteSets, FiniteSetsExt

CONSTANTS
    Headers,        \* Accept headers clients send; <<>> if there is none
    MaxAges,        \* values of max-age upstream may send, numbers of seconds
    ProjectTtl,     \* cache_project_ttl_seconds
    None

(* Qualities are tenths; a header names as many ranges as it likes.         *)
DataAssumption ==
    \A h \in Headers : Len(h) \in Nat /\ \A i \in 1..Len(h) : h[i].q \in 0..10

JSON == [major |-> "application", minor |-> "json"]
HTML == [major |-> "text", minor |-> "html"]
Pages == {JSON, HTML}
Wild == "*"

VARIABLES
    accept,     \* the client's header
    upstream,   \* what upstream has, None before it is asked
    served,     \* what the client gets, None before that
    maxAge,     \* upstream's max-age, or None
    ttl         \* how long the page is kept

vars == <<accept, upstream, served, maxAge, ttl>>

Init ==
    /\ accept \in Headers
    /\ upstream = None /\ served = None /\ maxAge = None /\ ttl = 0

(* _quality: of the ranges that cover a type the most specific ones decide. *)
Specificity(range, type) ==
    CASE range.major = type.major /\ range.minor = type.minor -> 2
      [] range.major = type.major /\ range.minor = Wild        -> 1
      [] range.major = Wild /\ range.minor = Wild               -> 0
      [] OTHER                                                -> -1
Covering(type) == {i \in 1..Len(accept) : Specificity(accept[i], type) >= 0}
Quality(type) ==
    IF Covering(type) = {} THEN None
    ELSE LET best == Max({Specificity(accept[i], type) : i \in Covering(type)})
         IN Max({accept[i].q : i \in {i \in Covering(type) : Specificity(accept[i], type) = best}})

Positive(q) == q # None /\ q > 0

AcceptsHtml == accept = <<>> \/ Positive(Quality(HTML))

(* Variant: naming the type is enough. *)
WantJsonNamed == \E i \in 1..Len(accept) : Specificity(accept[i], JSON) = 2

(* want_json: the first time the type itself is named decides.              *)
WantJson ==
    LET named == {i \in 1..Len(accept) : Specificity(accept[i], JSON) = 2}
    IN named # {} /\ accept[Min(named)].q > 0

(* Passed through if that is what the client wants, or if it is HTML and    *)
(* will do; else the other format is made of it.                            *)
Representation ==
    IF (upstream = JSON) = WantJson \/ (upstream = HTML /\ AcceptsHtml) THEN upstream
    ELSE IF WantJson THEN JSON ELSE HTML

(* effective_project_ttl *)
MinUpstreamTtl == 5
EffectiveTtl(age) ==
    IF age # None /\ age < ProjectTtl THEN Max({age, MinUpstreamTtl}) ELSE ProjectTtl

Fetch ==
    /\ upstream = None
    /\ upstream' \in Pages
    /\ maxAge' \in MaxAges \cup {None}
    /\ UNCHANGED <<accept, served, ttl>>

Serve ==
    /\ upstream # None /\ served = None
    /\ served' = Representation
    /\ ttl' = EffectiveTtl(maxAge)
    /\ UNCHANGED <<accept, upstream, maxAge>>

Next == Fetch \/ Serve
Spec == Init /\ [][Next]_vars

------------------------------------------------------------------------------
(* Properties *)

(* "An explicit q=0 means not acceptable", however the client and upstream  *)
(* put it: a type the client refuses by name it gets only if it does not    *)
(* name the other one as acceptable.  (Types named once: of a type named    *)
(* twice, want_json takes the first and _quality the best.)                 *)
Named(type) == {i \in 1..Len(accept) : Specificity(accept[i], type) = 2}
Refused(type) == \E i \in Named(type) : accept[i].q = 0
Welcome(type) == \E i \in Named(type) : accept[i].q > 0
RefusedIsNotServed ==
    served # None /\ (\A t \in Pages : Cardinality(Named(t)) <= 1) =>
        ~(Refused(served) /\ \E t \in Pages : Welcome(t))
==============================================================================
