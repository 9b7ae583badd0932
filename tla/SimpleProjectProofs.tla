------------------------- MODULE SimpleProjectProofs -------------------------
(* Proofs about SimpleProject: its types, that no client gets a format it   *)
(* does not accept, that conversions are published next to their source, and *)
(* that its lock is a section of SingleFlight, for every assignment of       *)
(* requests to replicas, every number of versions and every set of malformed *)
(* ones.                                                                     *)
EXTENDS SimpleProject, TLAPS

CacheOK == CacheTypes /\ StoredAsNamed
RequestsOK == RequestTypes /\ LocalsFit /\ AcceptableReply

(* What LocalsFit and RequestTypes ask of a request that goes on at next.   *)
Fits(r, next, locals) ==
    /\ locals.source # None => locals.source.fmt = Other(r)
    /\ next \in {"source ttl", "stale ttl", "commit", "restale"} => locals.source # None
    /\ next \in {"restale", "promote", "fill"} => locals.body # None
    /\ next \in {"restale", "promote"} =>
        /\ locals.key \in Formats /\ locals.body.fmt = locals.key
        /\ locals.key = Want(r) \/ kind[r] = "both"

------------------------------------------------------------------------------
(* Formats and conversions *)

(* The two formats of the simple API are distinct and each the other's other. *)
LEMMA FormatFacts ==
    ASSUME NEW r
    PROVE  /\ Want(r) \in Formats /\ Other(r) \in Formats /\ Want(r) # Other(r)
           /\ \A f \in Formats : f = Want(r) \/ f = Other(r)
           /\ Opposite(Other(r)) = Want(r)
BY DEF Want, Other, Opposite, Formats

(* Converting a body yields a body of the opposite format. *)
LEMMA ConvertFacts ==
    ASSUME NEW b \in Bodies
    PROVE  Convert(b) \in Bodies /\ Convert(b).fmt = Opposite(b.fmt) /\ Convert(b) # None
BY NoneIsNothingElse DEF Convert, Bodies, Opposite, Formats

(* Records of locals, by field. *)
LEMMA LocalsFacts ==
    /\ NoLocals \in Locals /\ NoLocals.source = None /\ NoLocals.body = None
    /\ \A l \in Locals :
        /\ l.etag \in MaybeBody /\ l.body \in MaybeBody /\ l.source \in MaybeBody
BY DEF NoLocals, Locals, MaybeBody

------------------------------------------------------------------------------
(* The two ways a handler step ends, and steps that only read the cache. *)

(* Moving one request to its next line keeps the invariant. *)
LEMMA GoOnKeeps ==
    ASSUME RequestsOK, NEW r \in Requests, pc[r] \notin {"idle", "answer"},
           NEW next \in Locations \ {"idle", "answer"}, NEW locals \in Locals,
           GoOn(r, next, locals), Fits(r, next, locals), kind' = kind,
           filling' \in [Requests -> BOOLEAN]
    PROVE  RequestsOK'
<1>1. /\ pc' = [pc EXCEPT ![r] = next]
      /\ loc' = [loc EXCEPT ![r] = locals]
      /\ reply' = reply
  BY DEF GoOn
<1>2. \A q : Want(q)' = Want(q) /\ Other(q)' = Other(q)
  BY DEF Want, Other
<1>3. RequestTypes'
  BY <1>1 DEF RequestsOK, RequestTypes, Fits
<1>4. LocalsFit'
  BY <1>1, <1>2 DEF RequestsOK, RequestTypes, LocalsFit, Fits
<1>5. AcceptableReply'
  BY <1>1, <1>2 DEF RequestsOK, AcceptableReply
<1>6. QED
  BY <1>3, <1>4, <1>5 DEF RequestsOK

(* Answering a request with an acceptable reply keeps the invariant. *)
LEMMA AnswerKeeps ==
    ASSUME RequestsOK, NEW r \in Requests, pc[r] # "idle",
           NEW outcome \in Outcomes, NEW b \in MaybeBody,
           b # None => b.fmt = Want(r) \/ kind[r] = "both",
           Answer(r, outcome, b), kind' = kind, filling' = filling
    PROVE  RequestsOK'
<1> DEFINE given == [outcome |-> outcome, body |-> b]
<1>1. /\ pc' = [pc EXCEPT ![r] = "answer"]
      /\ loc' = [loc EXCEPT ![r] = NoLocals]
      /\ reply' = [reply EXCEPT ![r] = given]
      /\ given \in Replies /\ given.body = b /\ given # None
  BY NoneIsNothingElse DEF Answer, Replies
<1> HIDE DEF given
<1>2. \A q : Want(q)' = Want(q) /\ Other(q)' = Other(q)
  BY DEF Want, Other
<1>3. RequestTypes'
  BY <1>1, LocalsFacts DEF RequestsOK, RequestTypes, Locations
<1>4. LocalsFit'
  BY <1>1, <1>2, LocalsFacts DEF RequestsOK, RequestTypes, LocalsFit
<1>5. AcceptableReply'
  BY <1>1, <1>2 DEF RequestsOK, RequestTypes, AcceptableReply
<1>6. QED
  BY <1>3, <1>4, <1>5 DEF RequestsOK

(* A lookup pass that serves nothing, and goes on to the lock or to the
   upstream request, keeps the invariant. *)
LEMMA NotServedKeeps ==
    ASSUME RequestsOK, NEW r \in Requests, pc[r] \notin {"idle", "answer"},
           NotServed(r), kind' = kind, filling' = filling
    PROVE  RequestsOK'
<1>1. PICK next \in {"stale check", "queued"} : GoOn(r, next, NoLocals)
  BY DEF NotServed
<1>2. filling' \in [Requests -> BOOLEAN]
  BY DEF RequestsOK, RequestTypes
<1>3. Fits(r, next, NoLocals) /\ next \in Locations \ {"idle", "answer"}
  BY <1>1, LocalsFacts DEF Fits, Locations
<1>4. QED
  BY <1>1, <1>2, <1>3, LocalsFacts, GoOnKeeps

(* The part of the invariant about the cache depends on the cache alone. *)
LEMMA SameCache ==
    ASSUME CacheOK, UNCHANGED <<cacheVars, upstreamVars>>
    PROVE  CacheOK'
BY DEF CacheOK, CacheTypes, StoredAsNamed, cacheVars, upstreamVars

(* IInv, split into the part about the cache and the part about requests. *)
LEMMA InvariantParts == IInv <=> CacheOK /\ RequestsOK
BY DEF IInv, TypeOK, CacheOK, RequestsOK

(* The cached bodies, and a request's own, one at a time.                  *)
LEMMA StoredBody ==
    ASSUME CacheOK, NEW f \in Formats
    PROVE  /\ fresh[f] \in MaybeBody /\ stale[f] \in MaybeBody
           /\ fresh[f] # None => fresh[f] \in Bodies /\ fresh[f].fmt = f
           /\ stale[f] # None => stale[f] \in Bodies /\ stale[f].fmt = f
BY DEF CacheOK, CacheTypes, StoredAsNamed, MaybeBody

(* What the invariant says of the locals of one request. *)
LEMMA OwnLocals ==
    ASSUME RequestsOK, NEW r \in Requests
    PROVE  /\ loc[r] \in Locals
           /\ loc[r].source \in MaybeBody /\ loc[r].body \in MaybeBody
           /\ loc[r].source # None => loc[r].source \in Bodies /\ loc[r].source.fmt = Other(r)
           /\ loc[r].body # None => loc[r].body \in Bodies
BY LocalsFacts DEF RequestsOK, RequestTypes, LocalsFit, MaybeBody

(* Replacing the locals of one request by well-formed ones keeps the
   locals of all requests well-formed. *)
LEMMA LocalsWith ==
    ASSUME NEW l \in Locals, NEW b \in MaybeBody, NEW c \in MaybeBody, NEW k \in BOOLEAN
    PROVE  LET m == [l EXCEPT !.body = b, !.source = c]
               n == [l EXCEPT !.source = c]
               o == [l EXCEPT !.keep = k]
               p == [l EXCEPT !.body = b]
               q == [l EXCEPT !.etag = c]
               e == [l EXCEPT !.etag = c, !.body = b] IN
           /\ m \in Locals /\ m.body = b /\ m.source = c
           /\ n \in Locals /\ n.body = l.body /\ n.source = c
           /\ o \in Locals /\ o.body = l.body /\ o.source = l.source
           /\ p \in Locals /\ p.body = b /\ p.source = l.source
           /\ q \in Locals /\ q.body = l.body /\ q.source = l.source
           /\ e \in Locals /\ e.body = b /\ e.source = l.source
BY DEF Locals

------------------------------------------------------------------------------
(* Every action keeps the invariant. *)

(* A request that arrives keeps the invariant. *)
LEMMA ArriveStep == ASSUME IInv, NEW r \in Requests, Arrive(r) PROVE IInv'
<1>1. PICK k \in Kinds : kind' = [kind EXCEPT ![r] = k]
  BY DEF Arrive
<1>2. /\ pc[r] = "idle" /\ reply' = reply
      /\ pc' = [pc EXCEPT ![r] = "lookup"]
      /\ loc' = [loc EXCEPT ![r] = NoLocals]
      /\ filling' = filling
  BY DEF Arrive, GoOn
<1>3. \A q \in Requests \ {r} : kind'[q] = kind[q] /\ Want(q)' = Want(q) /\ Other(q)' = Other(q)
  BY <1>1 DEF Want, Other, IInv, TypeOK, RequestTypes
<1>4. RequestTypes'
  BY <1>1, <1>2, LocalsFacts, NoneIsNothingElse DEF IInv, TypeOK, RequestTypes, Locations
<1>5. LocalsFit'
  BY <1>2, <1>3, LocalsFacts DEF IInv, TypeOK, RequestTypes, LocalsFit
<1>6. AcceptableReply'
  BY <1>2, <1>3 DEF IInv, TypeOK, RequestTypes, AcceptableReply
<1>7. CacheOK'
  BY InvariantParts, SameCache DEF Arrive
<1>8. QED
  BY <1>4, <1>5, <1>6, <1>7, InvariantParts DEF RequestsOK, IInv, TypeOK, CacheOK

(* The first cache lookup, in the format asked for, keeps the invariant. *)
LEMMA LookupStep == ASSUME IInv, NEW r \in Requests, Lookup(r) PROVE IInv'
<1>1. CacheOK /\ RequestsOK /\ CacheOK'
  BY InvariantParts, SameCache DEF Lookup
<1>2. /\ pc[r] = "lookup" /\ kind' = kind /\ filling' = filling
      /\ filling' \in [Requests -> BOOLEAN]
  BY <1>1 DEF Lookup, RequestsOK, RequestTypes
<1>3. RequestsOK'
  <2>1. CASE Answer(r, "not found", None)
    BY <1>1, <1>2, <2>1, AnswerKeeps DEF Outcomes, MaybeBody
  <2>2. CASE fresh[Want(r)] # None /\ Answer(r, "hit", fresh[Want(r)])
    BY <1>1, <1>2, <2>2, AnswerKeeps, StoredBody, FormatFacts DEF Outcomes
  <2>3. CASE GoOn(r, "lookup other", NoLocals)
    BY <1>1, <1>2, <2>3, GoOnKeeps, LocalsFacts DEF Fits, Locations
  <2>4. QED
    BY <2>1, <2>2, <2>3 DEF Lookup
<1>4. QED
  BY <1>1, <1>3, InvariantParts DEF IInv, TypeOK, CacheOK, RequestsOK

(* The lookup in the other format, with its synthesis, keeps the invariant. *)
LEMMA LookupOtherStep == ASSUME IInv, NEW r \in Requests, LookupOther(r) PROVE IInv'
<1> DEFINE b == fresh[Other(r)]
           l == [NoLocals EXCEPT !.source = b]
<1>1. CacheOK /\ RequestsOK /\ CacheOK'
  BY InvariantParts, SameCache DEF LookupOther
<1>2. /\ pc[r] = "lookup other" /\ kind' = kind /\ filling' = filling
      /\ filling' \in [Requests -> BOOLEAN]
  BY <1>1 DEF LookupOther, RequestsOK, RequestTypes
<1>3. b \in MaybeBody /\ (b # None => b.fmt = Other(r))
  BY <1>1, StoredBody, FormatFacts
<1>4. l \in Locals /\ l.source = b /\ l.body = None
  BY <1>3, LocalsFacts, LocalsWith DEF NoLocals, Locals
<1>5. RequestsOK'
  <2>1. CASE NotServed(r)
    BY <1>1, <1>2, <2>1, NotServedKeeps
  <2>2. CASE kind[r] = "both" /\ Answer(r, "hit", b)
    BY <1>1, <1>2, <1>3, <2>2, AnswerKeeps DEF Outcomes
  <2>3. CASE Usable(r, b) /\ GoOn(r, "source ttl", l)
    <3>1. Fits(r, "source ttl", l)
      BY <1>3, <1>4, <2>3 DEF Fits, Usable
    <3>2. "source ttl" \in Locations \ {"idle", "answer"}
      BY DEF Locations
    <3>3. QED
      BY <1>1, <1>2, <1>4, <2>3, <3>1, <3>2, GoOnKeeps
  <2>4. QED
    BY <2>1, <2>2, <2>3 DEF LookupOther
<1>6. QED
  BY <1>1, <1>5, InvariantParts DEF IInv, TypeOK, CacheOK, RequestsOK

(* Reading the time to live of the synthesis source keeps the invariant. *)
LEMMA SourceTtlStep == ASSUME IInv, NEW r \in Requests, SourceTtl(r) PROVE IInv'
<1>1. CacheOK /\ RequestsOK /\ CacheOK'
  BY InvariantParts, SameCache DEF SourceTtl
<1>2. /\ pc[r] = "source ttl" /\ kind' = kind /\ filling' = filling
      /\ filling' \in [Requests -> BOOLEAN]
  BY <1>1 DEF SourceTtl, RequestsOK, RequestTypes
<1>3. RequestsOK'
  <2>1. CASE NotServed(r)
    BY <1>1, <1>2, <2>1, NotServedKeeps
  <2>2. CASE GoOn(r, "stale ttl", loc[r])
    <3>1. Fits(r, "stale ttl", loc[r])
      BY <1>1, <1>2, OwnLocals DEF Fits, RequestsOK, RequestTypes
    <3>2. "stale ttl" \in Locations \ {"idle", "answer"} /\ loc[r] \in Locals
      BY <1>1, OwnLocals DEF Locations
    <3>3. QED
      BY <1>1, <1>2, <2>2, <3>1, <3>2, GoOnKeeps
  <2>3. QED
    BY <2>1, <2>2 DEF SourceTtl
<1>4. QED
  BY <1>1, <1>3, InvariantParts DEF IInv, TypeOK, CacheOK, RequestsOK

(* Reading the time to live of the stale body of the source keeps the invariant. *)
LEMMA StaleTtlStep == ASSUME IInv, NEW r \in Requests, StaleTtl(r) PROVE IInv'
<1>1. CacheOK /\ RequestsOK /\ CacheOK'
  BY InvariantParts, SameCache DEF StaleTtl
<1>2. /\ pc[r] = "stale ttl" /\ kind' = kind /\ filling' = filling
      /\ filling' \in [Requests -> BOOLEAN]
  BY <1>1 DEF StaleTtl, RequestsOK, RequestTypes
<1>3. PICK keep \in BOOLEAN : GoOn(r, "commit", [loc[r] EXCEPT !.keep = keep])
  BY DEF StaleTtl
<1> DEFINE l == [loc[r] EXCEPT !.keep = keep]
<1>4. l \in Locals /\ l.source = loc[r].source /\ l.body = loc[r].body
  BY <1>1, OwnLocals DEF Locals
<1>5. Fits(r, "commit", l) /\ "commit" \in Locations \ {"idle", "answer"}
  BY <1>1, <1>2, <1>4, OwnLocals DEF Fits, RequestsOK, RequestTypes, Locations
<1>6. RequestsOK'
  BY <1>1, <1>2, <1>3, <1>4, <1>5, GoOnKeeps
<1>7. QED
  BY <1>1, <1>6, InvariantParts DEF IInv, TypeOK, CacheOK, RequestsOK

(* Writing the synthesized page keeps the invariant. *)
LEMMA CommitStep == ASSUME IInv, NEW r \in Requests, Commit(r) PROVE IInv'
<1> DEFINE w == Convert(loc[r].source)
<1>1. CacheOK /\ RequestsOK
  BY InvariantParts
<1>2. /\ pc[r] = "commit" /\ kind' = kind /\ filling' = filling
      /\ UNCHANGED <<validator, notFound, upstreamVars>>
      /\ w \in Bodies /\ w.fmt = Want(r) /\ Want(r) \in Formats /\ w # None
  BY <1>1, ConvertFacts, OwnLocals, FormatFacts, ZenonT(60) DEF Commit, RequestsOK, RequestTypes
<1> HIDE DEF w
<1>3. CASE SynthesisWrites(r)
  <2>1. /\ Answer(r, "synthesized", w)
        /\ fresh' = [fresh EXCEPT ![Want(r)] = w]
        /\ stale' = [stale EXCEPT ![Want(r)] = IF loc[r].keep THEN w ELSE stale[Want(r)]]
    BY <1>3 DEF SynthesisWrites, w
  <2>2. RequestsOK'
    BY <1>1, <1>2, <2>1, AnswerKeeps DEF Outcomes, MaybeBody
  <2>3. CacheOK'
    BY <1>1, <1>2, <2>1 DEF CacheOK, CacheTypes, StoredAsNamed, MaybeBody, upstreamVars
  <2>4. QED
    BY <2>2, <2>3, InvariantParts DEF IInv, TypeOK, CacheOK, RequestsOK
<1>4. CASE NotServed(r) /\ UNCHANGED <<fresh, stale>>
  <2>1. RequestsOK'
    BY <1>1, <1>2, <1>4, NotServedKeeps
  <2>2. CacheOK'
    BY <1>1, <1>2, <1>4, SameCache DEF cacheVars
  <2>3. QED
    BY <2>1, <2>2, InvariantParts DEF IInv, TypeOK, CacheOK, RequestsOK
<1>5. QED
  BY <1>3, <1>4 DEF Commit

(* Taking the lock of the project keeps the invariant. *)
LEMMA GetLockStep == ASSUME IInv, NEW r \in Requests, GetLock(r) PROVE IInv'
<1>1. CacheOK /\ RequestsOK /\ CacheOK'
  BY InvariantParts, SameCache DEF GetLock, EnterSection
<1>2. /\ pc[r] = "queued" /\ kind' = kind /\ GoOn(r, "lookup", NoLocals)
      /\ filling' \in [Requests -> BOOLEAN]
  BY <1>1 DEF GetLock, EnterSection, RequestsOK, RequestTypes
<1>3. RequestsOK'
  BY <1>1, <1>2, GoOnKeeps, LocalsFacts DEF Fits, Locations
<1>4. QED
  BY <1>1, <1>3, InvariantParts DEF IInv, TypeOK, CacheOK, RequestsOK

(* Looking whether a stale body survives keeps the invariant. *)
LEMMA StaleCheckStep == ASSUME IInv, NEW r \in Requests, StaleCheck(r) PROVE IInv'
<1>1. CacheOK /\ RequestsOK /\ CacheOK'
  BY InvariantParts, SameCache DEF StaleCheck
<1>2. /\ pc[r] = "stale check" /\ kind' = kind
      /\ filling' \in [Requests -> BOOLEAN]
  BY <1>1 DEF StaleCheck, RequestsOK, RequestTypes
<1>3. PICK next \in {"validators", "fetch"} : GoOn(r, next, NoLocals)
  BY DEF StaleCheck
<1>4. RequestsOK'
  BY <1>1, <1>2, <1>3, GoOnKeeps, LocalsFacts DEF Fits, Locations
<1>5. QED
  BY <1>1, <1>4, InvariantParts DEF IInv, TypeOK, CacheOK, RequestsOK

(* Reading the validators for a conditional fetch keeps the invariant. *)
LEMMA ReadValidatorsStep == ASSUME IInv, NEW r \in Requests, ReadValidators(r) PROVE IInv'
<1> DEFINE l == [NoLocals EXCEPT !.etag = validator]
<1>1. CacheOK /\ RequestsOK /\ CacheOK'
  BY InvariantParts, SameCache DEF ReadValidators
<1>2. /\ pc[r] = "validators" /\ kind' = kind /\ GoOn(r, "fetch", l)
      /\ filling' \in [Requests -> BOOLEAN]
  BY <1>1 DEF ReadValidators, RequestsOK, RequestTypes
<1>3. l \in Locals /\ l.source = None
  BY <1>1 DEF CacheOK, CacheTypes, NoLocals, Locals, MaybeBody
<1>4. Fits(r, "fetch", l) /\ "fetch" \in Locations \ {"idle", "answer"}
  BY <1>3 DEF Fits, Locations
<1>5. RequestsOK'
  BY <1>1, <1>2, <1>3, <1>4, GoOnKeeps
<1>6. QED
  BY <1>1, <1>5, InvariantParts DEF IInv, TypeOK, CacheOK, RequestsOK

(* A 304 answer of the upstream keeps the invariant. *)
LEMMA FetchNotModifiedStep == ASSUME IInv, NEW r \in Requests, FetchNotModified(r) PROVE IInv'
<1>1. CacheOK /\ RequestsOK /\ CacheOK'
  BY InvariantParts, SameCache DEF FetchNotModified
<1>2. /\ pc[r] \in {"fetch", "refetch"} /\ kind' = kind /\ filling' = filling
      /\ filling' \in [Requests -> BOOLEAN]
  BY <1>1 DEF FetchNotModified, RequestsOK, RequestTypes
<1>3. RequestsOK'
  <2>1. CASE GoOn(r, "stale bodies", loc[r])
    <3>1. Fits(r, "stale bodies", loc[r]) /\ loc[r] \in Locals
          /\ "stale bodies" \in Locations \ {"idle", "answer"}
      BY <1>1, OwnLocals DEF Fits, Locations
    <3>2. QED
      BY <1>1, <1>2, <2>1, <3>1, GoOnKeeps
  <2>2. CASE Answer(r, "no stale", None)
    BY <1>1, <1>2, <2>2, AnswerKeeps DEF Outcomes, MaybeBody
  <2>3. QED
    BY <2>1, <2>2 DEF FetchNotModified
<1>4. QED
  BY <1>1, <1>3, InvariantParts DEF IInv, TypeOK, CacheOK, RequestsOK

(* A failed fetch keeps the invariant. *)
LEMMA FetchFailsStep == ASSUME IInv, NEW r \in Requests, FetchFails(r) PROVE IInv'
<1>1. CacheOK /\ RequestsOK /\ CacheOK'
  BY InvariantParts, SameCache DEF FetchFails
<1>2. /\ pc[r] \in {"fetch", "refetch"} /\ kind' = kind /\ filling' = filling
      /\ Answer(r, "upstream error", None)
  BY DEF FetchFails
<1>3. RequestsOK'
  BY <1>1, <1>2, AnswerKeeps DEF Outcomes, MaybeBody
<1>4. QED
  BY <1>1, <1>3, InvariantParts DEF IInv, TypeOK, CacheOK, RequestsOK

(* A 404 answer of the upstream keeps the invariant. *)
LEMMA FetchNotFoundStep == ASSUME IInv, NEW r \in Requests, FetchNotFound(r) PROVE IInv'
<1>1. CacheOK /\ RequestsOK /\ CacheOK'
  BY InvariantParts, SameCache DEF FetchNotFound
<1>2. /\ pc[r] \in {"fetch", "refetch"} /\ kind' = kind /\ GoOn(r, "put 404", NoLocals)
      /\ filling' \in [Requests -> BOOLEAN]
  BY <1>1 DEF FetchNotFound, RequestsOK, RequestTypes
<1>3. RequestsOK'
  BY <1>1, <1>2, GoOnKeeps, LocalsFacts DEF Fits, Locations
<1>4. QED
  BY <1>1, <1>3, InvariantParts DEF IInv, TypeOK, CacheOK, RequestsOK

(* A 200 answer of the upstream keeps the invariant. *)
LEMMA FetchOkStep == ASSUME IInv, NEW r \in Requests, FetchOk(r) PROVE IInv'
<1>1. CacheOK /\ RequestsOK /\ CacheOK'
  BY InvariantParts, SameCache DEF FetchOk
<1>2. /\ pc[r] \in {"fetch", "refetch"} /\ kind' = kind /\ filling' = filling
      /\ filling' \in [Requests -> BOOLEAN]
  BY <1>1 DEF FetchOk, RequestsOK, RequestTypes
<1>3. PICK f \in UpstreamFormats :
        LET b == [ver |-> version, fmt |-> f, by |-> "upstream"] IN
        \/ Answer(r, "failed", None)
        \/ \E v \in {None, b} : GoOn(r, "fill", [NoLocals EXCEPT !.etag = v, !.body = b])
  BY DEF FetchOk
<1> DEFINE b == [ver |-> version, fmt |-> f, by |-> "upstream"]
<1>4. b \in Bodies /\ b \in MaybeBody /\ b # None
  BY <1>1, UpstreamAssumption, NoneIsNothingElse DEF CacheOK, CacheTypes, Bodies, MaybeBody
<1>5. RequestsOK'
  <2>1. CASE Answer(r, "failed", None)
    BY <1>1, <1>2, <2>1, AnswerKeeps DEF Outcomes, MaybeBody
  <2>2. ASSUME NEW v \in {None, b}, GoOn(r, "fill", [NoLocals EXCEPT !.etag = v, !.body = b])
        PROVE  RequestsOK'
    <3> DEFINE l == [NoLocals EXCEPT !.etag = v, !.body = b]
    <3>1. l \in Locals /\ l.source = None /\ l.body = b
      BY <1>4 DEF NoLocals, Locals, MaybeBody
    <3>2. Fits(r, "fill", l) /\ "fill" \in Locations \ {"idle", "answer"}
      BY <1>4, <3>1 DEF Fits, Locations
    <3>3. QED
      BY <1>1, <1>2, <2>2, <3>1, <3>2, GoOnKeeps
  <2>3. QED
    BY <1>3, <2>1, <2>2
<1>6. QED
  BY <1>1, <1>5, InvariantParts DEF IInv, TypeOK, CacheOK, RequestsOK

(* Choosing the stale body a 304 answer stands for keeps the invariant. *)
LEMMA StaleBodiesStep == ASSUME IInv, NEW r \in Requests, StaleBodies(r) PROVE IInv'
<1> DEFINE mine == stale[Want(r)]
           theirs == stale[Other(r)]
<1>1. CacheOK /\ RequestsOK /\ CacheOK'
  BY InvariantParts, SameCache DEF StaleBodies
<1>2. /\ pc[r] = "stale bodies" /\ kind' = kind /\ filling' = filling
      /\ filling' \in [Requests -> BOOLEAN]
  BY <1>1 DEF StaleBodies, RequestsOK, RequestTypes
<1>3. /\ mine \in MaybeBody /\ theirs \in MaybeBody
      /\ mine # None => mine.fmt = Want(r)
      /\ theirs # None => theirs \in Bodies /\ theirs.fmt = Other(r)
  BY <1>1, StoredBody, FormatFacts
<1>4. /\ loc[r] \in Locals
      /\ loc[r].source # None => loc[r].source.fmt = Other(r)
  BY <1>1, OwnLocals
<1>5. {"promote", "restale", "refetch"} \subseteq Locations \ {"idle", "answer"}
  BY DEF Locations
<1>6. RequestsOK'
  <2>1. CASE /\ mine # None
             /\ GoOn(r, "promote",
                     [loc[r] EXCEPT !.body = mine, !.source = theirs, !.key = Want(r)])
    <3> DEFINE l == [loc[r] EXCEPT !.body = mine, !.source = theirs, !.key = Want(r)]
    <3>1. l \in Locals /\ l.body = mine /\ l.source = theirs /\ l.key = Want(r)
      BY <1>3, <1>4, FormatFacts DEF Locals
    <3>2. Fits(r, "promote", l)
      BY <1>3, <2>1, <3>1, FormatFacts DEF Fits
    <3>3. QED
      BY <1>1, <1>2, <1>5, <2>1, <3>1, <3>2, GoOnKeeps
  <2>2. CASE /\ Usable(r, theirs) /\ kind[r] = "both"
             /\ GoOn(r, "promote",
                     [loc[r] EXCEPT !.body = theirs, !.source = theirs, !.key = Other(r)])
    <3> DEFINE l == [loc[r] EXCEPT !.body = theirs, !.source = theirs, !.key = Other(r)]
    <3>1. l \in Locals /\ l.body = theirs /\ l.source = theirs /\ l.key = Other(r)
      BY <1>3, <1>4, FormatFacts DEF Locals
    <3>2. Fits(r, "promote", l)
      BY <1>3, <2>2, <3>1, FormatFacts DEF Fits, Usable
    <3>3. QED
      BY <1>1, <1>2, <1>5, <2>2, <3>1, <3>2, GoOnKeeps
  <2>3. CASE /\ Usable(r, theirs)
             /\ GoOn(r, "restale",
                     [loc[r] EXCEPT !.body = Convert(theirs), !.source = theirs, !.key = Want(r)])
    <3> DEFINE c == Convert(theirs)
               l == [loc[r] EXCEPT !.body = c, !.source = theirs, !.key = Want(r)]
    <3>1. c \in MaybeBody /\ c # None /\ c.fmt = Want(r)
      BY <1>3, <2>3, ConvertFacts, FormatFacts DEF Usable, MaybeBody
    <3> HIDE DEF c
    <3>2. l \in Locals /\ l.body = c /\ l.source = theirs /\ l.key = Want(r)
      BY <1>3, <1>4, <3>1, FormatFacts DEF Locals
    <3>3. Fits(r, "restale", l)
      BY <1>3, <2>3, <3>1, <3>2, FormatFacts DEF Fits, Usable
    <3>4. GoOn(r, "restale", l)
      BY <2>3 DEF c
    <3>5. QED
      BY <1>1, <1>2, <1>5, <3>2, <3>3, <3>4, GoOnKeeps
  <2>4. CASE GoOn(r, "refetch", NoLocals)
    BY <1>1, <1>2, <1>5, <2>4, GoOnKeeps, LocalsFacts DEF Fits
  <2>5. QED
    BY <2>1, <2>2, <2>3, <2>4 DEF StaleBodies
<1>7. QED
  BY <1>1, <1>6, InvariantParts DEF IInv, TypeOK, CacheOK, RequestsOK

(* Writing back the stale body of the other format keeps the invariant. *)
LEMMA RestaleStep == ASSUME IInv, NEW r \in Requests, Restale(r) PROVE IInv'
<1>1. CacheOK /\ RequestsOK
  BY InvariantParts
<1>2. /\ pc[r] = "restale" /\ kind' = kind /\ filling' = filling
      /\ filling' \in [Requests -> BOOLEAN]
      /\ GoOn(r, "promote", loc[r])
      /\ stale' = [stale EXCEPT ![Other(r)] = loc[r].source]
      /\ UNCHANGED <<fresh, validator, notFound, upstreamVars>>
  BY <1>1 DEF Restale, RequestsOK, RequestTypes
<1>3. /\ loc[r] \in Locals /\ loc[r].source \in MaybeBody
      /\ loc[r].source # None => loc[r].source.fmt = Other(r)
      /\ Other(r) \in Formats
  BY <1>1, OwnLocals, FormatFacts
<1>4. Fits(r, "promote", loc[r]) /\ "promote" \in Locations \ {"idle", "answer"}
  BY <1>1, <1>2, <1>3 DEF Fits, Locations, RequestsOK, RequestTypes, LocalsFit
<1>5. RequestsOK'
  BY <1>1, <1>2, <1>3, <1>4, GoOnKeeps
<1>6. CacheOK'
  BY <1>1, <1>2, <1>3 DEF CacheOK, CacheTypes, StoredAsNamed, upstreamVars
<1>7. QED
  BY <1>5, <1>6, InvariantParts DEF IInv, TypeOK, CacheOK, RequestsOK

(* Promoting stale bodies to fresh ones keeps the invariant. *)
LEMMA PromoteStep == ASSUME IInv, NEW r \in Requests, Promote(r) PROVE IInv'
<1> DEFINE b == loc[r].body
           other == loc[r].source
           key == loc[r].key
<1>1. CacheOK /\ RequestsOK
  BY InvariantParts
<1>2. /\ pc[r] = "promote" /\ kind' = kind /\ filling' = filling
      /\ fresh' = [f \in Formats |-> IF f = key THEN b
                                     ELSE IF f = Other(r) /\ other # None THEN other ELSE fresh[f]]
      /\ validator' \in {loc[r].etag, validator}
      /\ Answer(r, "revalidated", b)
      /\ UNCHANGED <<stale, notFound, upstreamVars>>
  BY DEF Promote, StoreValidator
<1>3. /\ loc[r] \in Locals /\ b \in Bodies /\ b \in MaybeBody /\ other \in MaybeBody
      /\ other # None => other.fmt = Other(r)
      /\ b.fmt = key /\ (key = Want(r) \/ kind[r] = "both")
  BY <1>1, <1>2, OwnLocals DEF RequestsOK, RequestTypes, LocalsFit
<1>4. RequestsOK'
  BY <1>1, <1>2, <1>3, AnswerKeeps DEF Outcomes
<1>5. CacheOK'
  <2>1. \A f \in Formats : fresh'[f] \in MaybeBody /\ (fresh'[f] # None => fresh'[f].fmt = f)
    BY <1>1, <1>2, <1>3, FormatFacts, StoredBody
  <2>2. validator' \in MaybeBody
    BY <1>1, <1>2, <1>3, LocalsFacts DEF CacheOK, CacheTypes
  <2>3. QED
    BY <1>1, <1>2, <2>1, <2>2 DEF CacheOK, CacheTypes, StoredAsNamed, upstreamVars
<1>6. QED
  BY <1>4, <1>5, InvariantParts DEF IInv, TypeOK, CacheOK, RequestsOK

(* Writing the negative entry keeps the invariant. *)
LEMMA Put404Step == ASSUME IInv, NEW r \in Requests, Put404(r) PROVE IInv'
<1>1. CacheOK /\ RequestsOK
  BY InvariantParts
<1>2. /\ pc[r] = "put 404" /\ kind' = kind /\ filling' = filling
      /\ Answer(r, "not found", None) /\ notFound' = TRUE
      /\ UNCHANGED <<fresh, stale, validator, upstreamVars>>
  BY DEF Put404
<1>3. RequestsOK'
  BY <1>1, <1>2, AnswerKeeps DEF Outcomes, MaybeBody
<1>4. CacheOK'
  BY <1>1, <1>2 DEF CacheOK, CacheTypes, StoredAsNamed, upstreamVars
<1>5. QED
  BY <1>3, <1>4, InvariantParts DEF IInv, TypeOK, CacheOK, RequestsOK

(* Filling the cache with the fetched page keeps the invariant. *)
LEMMA FillStep == ASSUME IInv, NEW r \in Requests, Fill(r) PROVE IInv'
<1> DEFINE b == loc[r].body
           c == Convert(b)
           asItCame == Passthrough(r, b)
<1>1. CacheOK /\ RequestsOK
  BY InvariantParts
<1>2. /\ pc[r] = "fill" /\ kind' = kind /\ filling' = filling
      /\ fresh' = [f \in Formats |-> IF f = b.fmt THEN b ELSE IF asItCame THEN fresh[f] ELSE c]
      /\ stale' = [f \in Formats |-> IF f = b.fmt THEN b ELSE IF asItCame THEN stale[f] ELSE c]
      /\ validator' \in {loc[r].etag, validator}
      /\ Answer(r, "miss", IF asItCame THEN b ELSE c)
      /\ UNCHANGED <<notFound, upstreamVars>>
  BY DEF Fill, StoreValidator
<1>3. /\ loc[r] \in Locals /\ b \in Bodies /\ b.fmt \in Formats
      /\ c \in Bodies /\ c.fmt = Opposite(b.fmt)
  BY <1>1, <1>2, OwnLocals, ConvertFacts DEF RequestsOK, RequestTypes, Bodies
<1>4. \A f \in Formats : f # b.fmt => f = c.fmt
  BY <1>3 DEF Formats, Opposite
<1>5. IF asItCame THEN b.fmt = Want(r) \/ kind[r] = "both" ELSE c.fmt = Want(r)
  BY <1>1, <1>2, <1>3, KindsAssumption
     DEF Passthrough, Want, Opposite, Formats, RequestsOK, RequestTypes
<1> HIDE DEF b, c, asItCame
<1>6. RequestsOK'
  BY <1>1, <1>2, <1>3, <1>5, AnswerKeeps DEF Outcomes, MaybeBody
<1>7. CacheOK'
  <2>1. \A f \in Formats : fresh'[f] \in MaybeBody /\ (fresh'[f] # None => fresh'[f].fmt = f)
    BY <1>1, <1>2, <1>3, <1>4, StoredBody DEF MaybeBody
  <2>2. \A f \in Formats : stale'[f] \in MaybeBody /\ (stale'[f] # None => stale'[f].fmt = f)
    BY <1>1, <1>2, <1>3, <1>4, StoredBody DEF MaybeBody
  <2>3. validator' \in MaybeBody
    BY <1>1, <1>2, <1>3, LocalsFacts DEF CacheOK, CacheTypes
  <2>4. QED
    BY <1>1, <1>2, <2>1, <2>2, <2>3 DEF CacheOK, CacheTypes, StoredAsNamed, upstreamVars
<1>8. QED
  BY <1>6, <1>7, InvariantParts DEF IInv, TypeOK, CacheOK, RequestsOK

(* Ending any set of requests, by a response or a crash, keeps the invariant. *)
LEMMA ForgetStep == ASSUME IInv, NEW S \in SUBSET Requests, Forget(S) PROVE IInv'
<1>1. CacheOK /\ RequestsOK /\ CacheOK'
  BY InvariantParts, SameCache DEF Forget
<1>2. \A q \in Requests :
        /\ q \in S => /\ pc'[q] = "idle" /\ kind'[q] = None /\ filling'[q] = FALSE
                      /\ loc'[q] = NoLocals /\ reply'[q] = None
        /\ q \notin S => /\ pc'[q] = pc[q] /\ kind'[q] = kind[q] /\ filling'[q] = filling[q]
                         /\ loc'[q] = loc[q] /\ reply'[q] = reply[q]
                         /\ Want(q)' = Want(q) /\ Other(q)' = Other(q)
  BY DEF Forget, Want, Other
<1>3. RequestTypes'
  <2>1. /\ pc' \in [Requests -> Locations]
        /\ kind' \in [Requests -> Kinds \cup {None}]
        /\ filling' \in [Requests -> BOOLEAN]
        /\ loc' \in [Requests -> Locals]
        /\ reply' \in [Requests -> Replies \cup {None}]
    BY <1>1, LocalsFacts DEF Forget, RequestsOK, RequestTypes, Locations
  <2>2. QED
    BY <1>1, <1>2, <2>1, NoneIsNothingElse, ZenonT(60) DEF RequestsOK, RequestTypes
<1>4. LocalsFit'
  <2>1. ASSUME NEW q \in Requests
        PROVE  /\ loc'[q].source # None => loc'[q].source.fmt = Other(q)'
               /\ pc'[q] \in {"restale", "promote"} =>
                    /\ loc'[q].body.fmt = loc'[q].key
                    /\ loc'[q].key = Want(q)' \/ kind'[q] = "both"
    <3>1. CASE q \in S
      BY <1>2, <3>1, LocalsFacts
    <3>2. CASE q \notin S
      BY <1>1, <1>2, <3>2 DEF RequestsOK, LocalsFit
    <3>3. QED
      BY <3>1, <3>2
  <2>2. QED
    BY <2>1 DEF LocalsFit
<1>5. AcceptableReply'
  BY <1>1, <1>2 DEF RequestsOK, AcceptableReply
<1>6. QED
  BY <1>1, <1>3, <1>4, <1>5, InvariantParts DEF IInv, TypeOK, CacheOK, RequestsOK

(* Uploads, removals and expiry leave the requests alone.                   *)
LEMMA WorldStep == ASSUME IInv, Publish \/ Remove \/ Expire PROVE IInv'
<1>1. CacheOK /\ RequestsOK
  BY InvariantParts
<1>2. UNCHANGED <<pc, kind, filling, loc, reply>>
  BY DEF Publish, Remove, Expire
<1>3. RequestsOK'
  BY <1>1, <1>2 DEF RequestsOK, RequestTypes, LocalsFit, AcceptableReply, Want, Other
<1>4. CacheOK'
  <2>1. CASE Publish
    BY <1>1, <2>1, UpstreamAssumption DEF Publish, CacheOK, CacheTypes, StoredAsNamed, cacheVars
  <2>2. CASE Remove
    BY <1>1, <2>2 DEF Remove, CacheOK, CacheTypes, StoredAsNamed, cacheVars
  <2>3. CASE Expire
    BY <1>1, <2>3 DEF Expire, CacheOK, CacheTypes, StoredAsNamed, upstreamVars, MaybeBody
  <2>4. QED
    BY <2>1, <2>2, <2>3
<1>5. QED
  BY <1>3, <1>4, InvariantParts DEF IInv, TypeOK, CacheOK, RequestsOK

(* An empty cache and no request under way satisfy the invariant. *)
LEMMA InitEstablishes == Init => IInv
<1>1. SUFFICES ASSUME Init PROVE IInv
  OBVIOUS
<1>2. CacheOK
  <2>1. None \in MaybeBody
    BY DEF MaybeBody
  <2>2. /\ fresh = [f \in Formats |-> None]
        /\ stale = [f \in Formats |-> None]
    BY <1>1 DEF Init
  <2>3. /\ fresh \in [Formats -> MaybeBody]
        /\ stale \in [Formats -> MaybeBody]
    BY <2>1, <2>2
  <2>4. StoredAsNamed
    BY <2>2 DEF StoredAsNamed
  <2>5. /\ validator \in MaybeBody
        /\ notFound \in BOOLEAN
        /\ listed \in BOOLEAN
    BY <1>1, <2>1 DEF Init
  <2>6. version \in 1..MaxVersion
    BY <1>1, UpstreamAssumption DEF Init
  <2>7. QED
    BY <2>3, <2>4, <2>5, <2>6 DEF CacheOK, CacheTypes
<1>3. RequestsOK
  BY <1>1, LocalsFacts
     DEF Init, RequestsOK, RequestTypes, LocalsFit, AcceptableReply, Locations
<1>4. QED
  BY <1>2, <1>3, InvariantParts

(* Every step of every request, of the cache and of the upstream index
   keeps the invariant. *)
LEMMA StepPreserves == IInv /\ [Next]_vars => IInv'
<1>1. SUFFICES ASSUME IInv, [Next]_vars PROVE IInv'
  OBVIOUS
<1>2. CASE UNCHANGED vars
  <2>1. CacheOK' /\ RequestsOK'
    BY <1>1, <1>2, InvariantParts
       DEF vars, CacheOK, CacheTypes, StoredAsNamed, RequestsOK, RequestTypes, LocalsFit,
           AcceptableReply, Want, Other
  <2>2. QED
    BY <2>1 DEF IInv, TypeOK, CacheOK, RequestsOK
<1>3. ASSUME NEW r \in Requests, Handle(r) PROVE IInv'
  <2>1. ASSUME Respond(r) PROVE IInv'
    BY <1>1, <2>1, ForgetStep DEF Respond
  <2>2. QED
    BY <1>1, <1>3, <2>1, LookupStep, LookupOtherStep, SourceTtlStep, StaleTtlStep, CommitStep,
       StaleCheckStep, ReadValidatorsStep, FetchNotModifiedStep, FetchFailsStep,
       FetchNotFoundStep, FetchOkStep, StaleBodiesStep, RestaleStep, PromoteStep, Put404Step,
       FillStep DEF Handle, Fetch
<1>4. ASSUME NEW p \in Replicas, Crash(p) PROVE IInv'
  <2>1. Forget({r \in Requests : Home[r] = p})
    BY <1>4 DEF Crash
  <2>2. QED
    BY <1>1, <2>1, ForgetStep
<1>5. CASE Next
  BY <1>1, <1>3, <1>4, <1>5, ArriveStep, GetLockStep, WorldStep DEF Next
<1>6. QED
  BY <1>1, <1>2, <1>5

(* The inductive invariant of the handler.                                  *)
THEOREM Invariance == Spec => []IInv
<1>1. QED
  BY InitEstablishes, StepPreserves, PTL DEF Spec

(* Every variable keeps its type, and a handler never reaches a step        *)
(* without the body or the source that step works on.                       *)
THEOREM TypeCorrect == Spec => []TypeOK
<1>1. IInv => TypeOK
  BY DEF IInv
<1>2. QED
  BY <1>1, Invariance, PTL

(* No client is answered in a format it does not accept.                    *)
THEOREM RepliesAcceptable == Spec => []AcceptableReply
<1>1. IInv => AcceptableReply
  BY DEF IInv
<1>2. QED
  BY <1>1, Invariance, PTL

(* A cache key never holds a body of the other format.                      *)
THEOREM KeysNameFormats == Spec => []StoredAsNamed
<1>1. IInv => StoredAsNamed
  BY DEF IInv
<1>2. QED
  BY <1>1, Invariance, PTL

(* A request is only answered by a step of its own. *)
LEMMA AnsweredByOwnStep ==
    ASSUME IInv, Next, NEW r \in Requests, pc[r] # "answer", pc'[r] = "answer"
    PROVE  Handle(r)
<1>1. pc \in [Requests -> Locations]
  BY DEF IInv, TypeOK, RequestTypes
<1>2. ASSUME NEW q \in Requests, NEW next, NEW locals, next # "answer", GoOn(q, next, locals)
      PROVE  FALSE
  BY <1>1, <1>2 DEF GoOn
<1>3. ASSUME NEW q \in Requests, q # r, NEW next, NEW locals, GoOn(q, next, locals) PROVE FALSE
  BY <1>1, <1>3 DEF GoOn
<1>4. ASSUME NEW q \in Requests, q # r, NEW outcome, NEW b, Answer(q, outcome, b) PROVE FALSE
  BY <1>1, <1>4 DEF Answer
<1>5. ASSUME NEW q \in Requests, NotServed(q) PROVE FALSE
  BY <1>2, <1>5 DEF NotServed
<1>6. ASSUME NEW S, Forget(S) PROVE FALSE
  BY <1>1, <1>6 DEF Forget
<1>7. ASSUME NEW q \in Requests, Arrive(q) \/ GetLock(q) PROVE FALSE
  BY <1>2, <1>7 DEF Arrive, GetLock, EnterSection
<1>8. ASSUME NEW q \in Requests, q # r, Handle(q) PROVE FALSE
  <2>1. CASE Lookup(q) \/ LookupOther(q) \/ SourceTtl(q) \/ StaleTtl(q)
    BY <1>3, <1>4, <1>5, <1>8, <2>1 DEF Lookup, LookupOther, SourceTtl, StaleTtl
  <2>2. CASE Commit(q)
    BY <1>4, <1>5, <1>8, <2>2 DEF Commit, SynthesisWrites
  <2>3. CASE StaleCheck(q) \/ ReadValidators(q) \/ Fetch(q)
    BY <1>3, <1>4, <1>8, <2>3
       DEF StaleCheck, ReadValidators, Fetch, FetchNotModified, FetchFails, FetchNotFound, FetchOk
  <2>4. CASE StaleBodies(q) \/ Restale(q) \/ Promote(q) \/ Put404(q) \/ Fill(q)
    BY <1>3, <1>4, <1>8, <2>4 DEF StaleBodies, Restale, Promote, Put404, Fill
  <2>5. CASE Respond(q)
    BY <1>6, <2>5 DEF Respond
  <2>6. QED
    BY <1>8, <2>1, <2>2, <2>3, <2>4, <2>5 DEF Handle
<1>9. CASE \E p \in Replicas : Crash(p)
  BY <1>6, <1>9 DEF Crash
<1>10. CASE Publish \/ Remove \/ Expire
  BY <1>10 DEF Publish, Remove, Expire
<1>11. QED
  BY <1>7, <1>8, <1>9, <1>10 DEF Next

(* Only Commit takes a request from the conversion to its answer. *)
LEMMA AnsweredByCommit ==
    ASSUME IInv, Next, NEW r \in Requests, pc[r] = "commit", pc'[r] = "answer"
    PROVE  Commit(r)
BY AnsweredByOwnStep
   DEF Handle, Lookup, LookupOther, SourceTtl, StaleTtl, StaleCheck, ReadValidators, Fetch,
       FetchNotModified, FetchFails, FetchNotFound, FetchOk, StaleBodies, Restale, Promote, Put404,
       Fill, Respond

(* A conversion is published only next to the very body it was made from,  *)
(* on any number of replicas and whatever expires meanwhile.               *)
THEOREM SynthesisIsCurrent == Spec => NoOutdatedSynthesis
<1>1. IInv /\ [Next]_vars =>
        [\A r \in Requests : \A f \in Formats :
            pc[r] = "commit" /\ pc'[r] = "answer" /\ fresh'[f] # fresh[f] =>
                fresh[Opposite(f)] # None /\ fresh'[f].ver = fresh[Opposite(f)].ver]_vars
  <2> SUFFICES ASSUME IInv, Next, NEW r \in Requests, NEW f \in Formats,
                      pc[r] = "commit", pc'[r] = "answer", fresh'[f] # fresh[f]
               PROVE  fresh[Opposite(f)] # None /\ fresh'[f].ver = fresh[Opposite(f)].ver
    OBVIOUS
  <2>1. Commit(r)
    BY AnsweredByCommit
  <2>2. fresh \in [Formats -> MaybeBody] /\ loc[r].source # None
    BY DEF IInv, TypeOK, CacheTypes, RequestTypes
  <2>3. fresh[Other(r)] = loc[r].source /\ fresh' = [fresh EXCEPT ![Want(r)] = Convert(loc[r].source)]
    BY <2>1 DEF Commit, SynthesisWrites
  <2>4. f = Want(r) /\ Opposite(f) = Other(r)
    BY <2>2, <2>3, FormatFacts DEF Other
  <2>5. loc[r].source \in Bodies
    BY <2>2, <2>3, FormatFacts DEF MaybeBody
  <2>6. Convert(loc[r].source).ver = loc[r].source.ver
    BY <2>5 DEF Convert, Bodies
  <2>7. QED
    BY <2>2, <2>3, <2>4, <2>6
<1>2. QED
  BY <1>1, Invariance, PTL DEF Spec, NoOutdatedSynthesis

------------------------------------------------------------------------------
(* The lock, whatever is in the cache                                       *)

(* Moving one request to a line where it may be keeps the discipline.       *)
LEMMA GoOnDisciplined ==
    ASSUME IInv, LockDiscipline, NEW r \in Requests, NEW next, NEW locals,
           pc[r] \notin {"idle", "answer"}, filling' = filling, kind' = kind,
           GoOn(r, next, locals),
           next \in {"idle", "queued"} => ~filling[r],
           next \in Converting => kind[r] # "both",
           next \in Upstream => filling[r]
    PROVE  LockDiscipline'
<1>1. /\ pc' = [pc EXCEPT ![r] = next]
      /\ \A q \in Requests : pc'[q] = IF q = r THEN next ELSE pc[q]
  BY DEF GoOn, IInv, TypeOK, RequestTypes
<1>2. OneUnderLock'
  BY <1>1 DEF LockDiscipline, OneUnderLock, UnderLock
<1>3. ASSUME NEW q \in Requests PROVE Disciplined(q)'
  BY <1>1 DEF LockDiscipline, Disciplined
<1>4. QED
  BY <1>2, <1>3 DEF LockDiscipline

LEMMA AnswerDisciplined ==
    ASSUME IInv, LockDiscipline, NEW r \in Requests, NEW outcome, NEW b,
           filling' = filling, kind' = kind, Answer(r, outcome, b)
    PROVE  LockDiscipline'
<1>1. \A q \in Requests : pc'[q] = IF q = r THEN "answer" ELSE pc[q]
  BY DEF Answer, IInv, TypeOK, RequestTypes
<1>2. OneUnderLock'
  BY <1>1 DEF LockDiscipline, OneUnderLock, UnderLock
<1>3. ASSUME NEW q \in Requests PROVE Disciplined(q)'
  BY <1>1 DEF LockDiscipline, Disciplined, Converting, Upstream
<1>4. QED
  BY <1>2, <1>3 DEF LockDiscipline

LEMMA NotServedDisciplined ==
    ASSUME IInv, LockDiscipline, NEW r \in Requests, pc[r] \notin {"idle", "answer"},
           filling' = filling, kind' = kind, NotServed(r)
    PROVE  LockDiscipline'
<1>1. PICK next \in {"stale check", "queued"} :
        GoOn(r, next, NoLocals) /\ (filling[r] <=> next = "stale check")
  BY DEF NotServed
<1>2. QED
  BY <1>1, GoOnDisciplined DEF Converting, Upstream

(* Those who have the lock are the only ones of their replica: it is given   *)
(* when it is free.                                                         *)
LEMMA GetLockDisciplined ==
    ASSUME IInv, LockDiscipline, NEW r \in Requests, GetLock(r)
    PROVE  LockDiscipline'
<1>1. \A q \in Requests :
        /\ pc'[q] = IF q = r THEN "lookup" ELSE pc[q]
        /\ filling'[q] = IF q = r THEN TRUE ELSE filling[q]
        /\ kind'[q] = kind[q]
  BY DEF GetLock, EnterSection, GoOn, IInv, TypeOK, RequestTypes
<1>2. \A q \in Requests : Home[q] = Home[r] => ~(filling[q] /\ pc[q] # "answer")
  BY DEF GetLock, EnterSection, LockIsFree
<1>3. OneUnderLock'
  BY <1>1, <1>2 DEF LockDiscipline, OneUnderLock, UnderLock
<1>4. ASSUME NEW q \in Requests PROVE Disciplined(q)'
  BY <1>1 DEF LockDiscipline, Disciplined, Converting, Upstream
<1>5. QED
  BY <1>3, <1>4 DEF LockDiscipline

LEMMA ForgetDisciplined ==
    ASSUME LockDiscipline, NEW S, Forget(S)
    PROVE  LockDiscipline'
<1>1. \A q \in Requests :
        /\ q \in S => pc'[q] = "idle" /\ filling'[q] = FALSE
        /\ q \notin S => pc'[q] = pc[q] /\ filling'[q] = filling[q] /\ kind'[q] = kind[q]
  BY DEF Forget
<1>2. OneUnderLock'
  BY <1>1 DEF LockDiscipline, OneUnderLock, UnderLock
<1>3. ASSUME NEW q \in Requests PROVE Disciplined(q)'
  BY <1>1 DEF LockDiscipline, Disciplined, Converting, Upstream
<1>4. QED
  BY <1>2, <1>3 DEF LockDiscipline

(* The upstream part of the handler goes on to another of its lines, or      *)
(* answers, until it stores something.                                      *)
LEMMA UpstreamSteps ==
    ASSUME NEW r \in Requests,
           StaleCheck(r) \/ ReadValidators(r) \/ Fetch(r) \/ StaleBodies(r) \/ Restale(r)
    PROVE  \/ \E next \in Upstream : \E locals : GoOn(r, next, locals)
           \/ \E outcome, b : Answer(r, outcome, b)
<1>1. CASE StaleCheck(r) \/ ReadValidators(r) \/ StaleBodies(r) \/ Restale(r)
  BY <1>1 DEF StaleCheck, ReadValidators, StaleBodies, Restale, Upstream
<1>2. CASE FetchNotModified(r) \/ FetchFails(r) \/ FetchNotFound(r)
  BY <1>2 DEF FetchNotModified, FetchFails, FetchNotFound, Upstream
<1>3. CASE FetchOk(r)
  BY <1>3 DEF FetchOk, Upstream
<1>4. QED
  BY <1>1, <1>2, <1>3 DEF Fetch

(* The discipline is kept by every step.                                    *)
LEMMA DisciplineKept ==
    ASSUME IInv, LockDiscipline, [Next]_vars
    PROVE  LockDiscipline'
<1>1. CASE UNCHANGED vars \/ Publish \/ Remove \/ Expire
  BY <1>1 DEF vars, Publish, Remove, Expire, LockDiscipline, OneUnderLock, UnderLock, Disciplined
<1>2. ASSUME NEW r \in Requests, Arrive(r) PROVE LockDiscipline'
  <2>1. \A q \in Requests :
          /\ pc'[q] = IF q = r THEN "lookup" ELSE pc[q]
          /\ q # r => kind'[q] = kind[q]
    BY <1>2 DEF Arrive, GoOn, IInv, TypeOK, RequestTypes
  <2>2. pc[r] = "idle" /\ filling' = filling
    BY <1>2 DEF Arrive
  <2>3. OneUnderLock'
    BY <2>1, <2>2 DEF LockDiscipline, OneUnderLock, UnderLock, Disciplined
  <2>4. ASSUME NEW q \in Requests PROVE Disciplined(q)'
    BY <2>1, <2>2 DEF LockDiscipline, Disciplined, Converting, Upstream
  <2>5. QED
    BY <2>3, <2>4 DEF LockDiscipline
<1>3. ASSUME NEW r \in Requests, Handle(r) PROVE LockDiscipline'
  <2>1. CASE Lookup(r)
    <3>1. pc[r] = "lookup" /\ filling' = filling /\ kind' = kind
      BY <2>1 DEF Lookup
    <3>2. CASE GoOn(r, "lookup other", NoLocals)
      BY <3>1, <3>2, GoOnDisciplined DEF Converting, Upstream
    <3>3. QED
      BY <2>1, <3>1, <3>2, AnswerDisciplined DEF Lookup
  <2>2. CASE LookupOther(r)
    <3>1. pc[r] = "lookup other" /\ filling' = filling /\ kind' = kind
      BY <2>2 DEF LookupOther
    <3>2. ASSUME NEW l, kind[r] # "both", GoOn(r, "source ttl", l) PROVE LockDiscipline'
      BY <3>1, <3>2, GoOnDisciplined DEF Converting, Upstream
    <3>3. QED
      BY <2>2, <3>1, <3>2, AnswerDisciplined, NotServedDisciplined DEF LookupOther
  <2>3. CASE SourceTtl(r) \/ StaleTtl(r) \/ Commit(r)
    <3>1. pc[r] \in Converting /\ filling' = filling /\ kind' = kind
      BY <2>3 DEF SourceTtl, StaleTtl, Commit, Converting
    <3>2. kind[r] # "both"
      BY <3>1 DEF LockDiscipline, Disciplined
    <3>3. ASSUME NEW next \in Converting, NEW l, GoOn(r, next, l) PROVE LockDiscipline'
      BY <3>1, <3>2, <3>3, GoOnDisciplined DEF Converting, Upstream
    <3>4. CASE SourceTtl(r) \/ StaleTtl(r)
      BY <3>1, <3>3, <3>4, NotServedDisciplined DEF SourceTtl, StaleTtl, Converting
    <3>5. CASE Commit(r)
      BY <3>1, <3>5, AnswerDisciplined, NotServedDisciplined DEF Commit, SynthesisWrites, Converting
    <3>6. QED
      BY <2>3, <3>4, <3>5
  <2>4. CASE StaleCheck(r) \/ ReadValidators(r) \/ Fetch(r) \/ StaleBodies(r) \/ Restale(r)
    <3>1. filling[r] /\ filling' = filling /\ kind' = kind /\ pc[r] \notin {"idle", "answer"}
      BY <2>4 DEF LockDiscipline, Disciplined, Upstream, StaleCheck, ReadValidators, Fetch,
                  FetchNotModified, FetchFails, FetchNotFound, FetchOk, StaleBodies, Restale
    <3>2. ASSUME NEW next \in Upstream, NEW l, GoOn(r, next, l) PROVE LockDiscipline'
      BY <3>1, <3>2, GoOnDisciplined DEF Converting, Upstream
    <3>3. QED
      BY <2>4, <3>1, <3>2, UpstreamSteps, AnswerDisciplined
  <2>5. CASE Promote(r) \/ Put404(r) \/ Fill(r)
    BY <2>5, AnswerDisciplined DEF Promote, Put404, Fill
  <2>6. CASE Respond(r)
    BY <2>6, ForgetDisciplined DEF Respond
  <2>7. QED
    BY <1>3, <2>1, <2>2, <2>3, <2>4, <2>5, <2>6 DEF Handle
<1>4. ASSUME NEW p \in Replicas, Crash(p) PROVE LockDiscipline'
  BY <1>4, ForgetDisciplined DEF Crash
<1>5. QED
  BY <1>1, <1>2, <1>3, <1>4, GetLockDisciplined DEF Next

LEMMA DisciplineAtFirst == Init => LockDiscipline
BY DEF Init, LockDiscipline, OneUnderLock, UnderLock, Disciplined, Converting, Upstream

LEMMA DisciplineHolds == Spec => [](IInv /\ LockDiscipline)
<1>1. Init => IInv /\ LockDiscipline
  BY InitEstablishes, DisciplineAtFirst
<1>2. IInv /\ LockDiscipline /\ [Next]_vars => IInv' /\ LockDiscipline'
  BY StepPreserves, DisciplineKept
<1>3. QED
  BY <1>1, <1>2, PTL DEF Spec

(* One request of a replica at a time is under the lock, and only there it  *)
(* goes upstream, on however many replicas.                                 *)
THEOREM OneUpstreamPerReplica ==
    Spec => [](\A q, r \in Requests :
        Home[q] = Home[r] /\ pc[q] \in Upstream /\ pc[r] \in Upstream => q = r)
<1>1. LockDiscipline => \A q, r \in Requests :
        Home[q] = Home[r] /\ pc[q] \in Upstream /\ pc[r] \in Upstream => q = r
  BY DEF LockDiscipline, OneUnderLock, UnderLock, Disciplined, Upstream
<1>2. QED
  BY <1>1, DisciplineHolds, PTL

------------------------------------------------------------------------------
(* The section of SingleFlight                                              *)

LEMMA SectionStays ==
    ASSUME \A r \in Requests :
               (pc'[r] = "queued" <=> pc[r] = "queued") /\ (UnderLock(r)' <=> UnderLock(r))
    PROVE  UNCHANGED <<Waiting, Inside>>
<1>1. ASSUME NEW p \in Replicas
      PROVE  {r \in Requests : Home[r] = p /\ pc'[r] = "queued"}
                = {r \in Requests : Home[r] = p /\ pc[r] = "queued"}
  OBVIOUS
<1>2. ASSUME NEW p \in Replicas
      PROVE  {r \in Requests : Home[r] = p /\ UnderLock(r)'}
                = {r \in Requests : Home[r] = p /\ UnderLock(r)}
  OBVIOUS
<1>3. Waiting' = Waiting
  BY <1>1 DEF Waiting
<1>4. Inside' = Inside
  BY <1>2 DEF Inside
<1>5. QED
  BY <1>3, <1>4

(* A step of the handler moves one request, and into the queue only if it   *)
(* is not under the lock.                                                   *)
Moves(r, next) ==
    /\ filling' = filling /\ pc' = [pc EXCEPT ![r] = next]
    /\ next = "queued" => ~filling[r]

LEMMA GoOnMoves ==
    ASSUME NEW r, NEW next, NEW locals, filling' = filling, GoOn(r, next, locals), next # "queued"
    PROVE  \E n : Moves(r, n)
BY DEF GoOn, Moves

LEMMA AnswerMoves ==
    ASSUME NEW r, NEW outcome, NEW b, filling' = filling, Answer(r, outcome, b)
    PROVE  \E n : Moves(r, n)
<1>1. Moves(r, "answer")
  BY DEF Answer, Moves
<1>2. QED
  BY <1>1

LEMMA NotServedMoves ==
    ASSUME NEW r, filling' = filling, NotServed(r)
    PROVE  \E n : Moves(r, n)
<1>1. Moves(r, IF filling[r] THEN "stale check" ELSE "queued")
  BY DEF NotServed, GoOn, Moves
<1>2. QED
  BY <1>1

LEMMA HandlerMoves ==
    ASSUME NEW r \in Requests, Handle(r), ~Respond(r)
    PROVE  pc[r] \notin {"idle", "queued", "answer"} /\ \E n : Moves(r, n)
<1>1. CASE Lookup(r)
  BY <1>1, GoOnMoves, AnswerMoves DEF Lookup
<1>2. CASE LookupOther(r)
  BY <1>2, GoOnMoves, AnswerMoves, NotServedMoves DEF LookupOther
<1>3. CASE SourceTtl(r)
  BY <1>3, GoOnMoves, NotServedMoves DEF SourceTtl
<1>4. CASE StaleTtl(r)
  BY <1>4, GoOnMoves DEF StaleTtl
<1>5. CASE Commit(r)
  BY <1>5, AnswerMoves, NotServedMoves DEF Commit, SynthesisWrites
<1>6. CASE StaleCheck(r)
  BY <1>6, GoOnMoves DEF StaleCheck
<1>7. CASE ReadValidators(r) \/ Restale(r)
  BY <1>7, GoOnMoves DEF ReadValidators, Restale
<1>8. CASE Fetch(r)
  <2>1. CASE FetchNotModified(r)
    BY <2>1, GoOnMoves, AnswerMoves DEF FetchNotModified
  <2>2. CASE FetchFails(r) \/ FetchNotFound(r)
    BY <2>2, GoOnMoves, AnswerMoves DEF FetchFails, FetchNotFound
  <2>3. CASE FetchOk(r)
    BY <2>3, GoOnMoves, AnswerMoves DEF FetchOk
  <2>4. QED
    BY <1>8, <2>1, <2>2, <2>3 DEF Fetch
<1>9. CASE StaleBodies(r)
  BY <1>9, GoOnMoves DEF StaleBodies
<1>10. CASE Promote(r) \/ Put404(r) \/ Fill(r)
  BY <1>10, AnswerMoves DEF Promote, Put404, Fill
<1>11. QED
  BY <1>1, <1>2, <1>3, <1>4, <1>5, <1>6, <1>7, <1>8, <1>9, <1>10 DEF Handle

(* One that moves joins the queue, or leaves the section, or does neither.  *)
LEMMA MovesInSection ==
    ASSUME IInv, LockDiscipline, NEW r \in Requests, pc[r] \notin {"idle", "queued", "answer"},
           NEW n, Moves(r, n)
    PROVE  [Section!Next]_<<Waiting, Inside>>
<1> DEFINE p == Home[r]
<1>1. /\ filling' = filling /\ p \in Replicas
      /\ \A q \in Requests : pc'[q] = IF q = r THEN n ELSE pc[q]
  BY HomeAssumption DEF Moves, IInv, TypeOK, RequestTypes
<1>2. CASE n = "queued"
  <2>1. ~filling[r]
    BY <1>2 DEF Moves
  <2>2. Section!Idle(r)
    BY <2>1 DEF Section!Idle, Waiting, Inside, UnderLock
  <2>3. Waiting' = [Waiting EXCEPT ![p] = @ \cup {r}]
    BY <1>1, <1>2 DEF Waiting
  <2>4. Inside' = Inside
    BY <1>1, <1>2, <2>1 DEF Inside, UnderLock
  <2>5. QED
    BY <1>1, <2>2, <2>3, <2>4 DEF Section!Next, Section!Ask
<1>3. CASE n = "answer" /\ filling[r]
  <2>1. r \in Inside[p]
    BY <1>1, <1>3 DEF Inside, UnderLock
  <2>2. Inside' = [Inside EXCEPT ![p] = @ \ {r}]
    BY <1>1, <1>3 DEF Inside, UnderLock
  <2>3. Waiting' = Waiting
    BY <1>1, <1>3 DEF Waiting
  <2>4. QED
    BY <1>1, <2>1, <2>2, <2>3 DEF Section!Next, Section!Release
<1>4. CASE n # "queued" /\ ~(n = "answer" /\ filling[r])
  BY <1>1, <1>4, SectionStays DEF UnderLock
<1>5. QED
  BY <1>2, <1>3, <1>4

LEMMA GetLockInSection ==
    ASSUME IInv, LockDiscipline, NEW r \in Requests, GetLock(r)
    PROVE  Section!Next
<1> DEFINE p == Home[r]
<1>1. /\ p \in Replicas /\ pc[r] = "queued" /\ LockIsFree(p)
      /\ \A q \in Requests : pc'[q] = IF q = r THEN "lookup" ELSE pc[q]
      /\ \A q \in Requests : filling'[q] = IF q = r THEN TRUE ELSE filling[q]
  BY HomeAssumption DEF GetLock, EnterSection, GoOn, IInv, TypeOK, RequestTypes
<1>2. r \in Waiting[p] /\ Inside[p] = {}
  BY <1>1 DEF Waiting, Inside, UnderLock, LockIsFree
<1>3. Waiting' = [Waiting EXCEPT ![p] = @ \ {r}]
  BY <1>1 DEF Waiting
<1>4. Inside' = [Inside EXCEPT ![p] = {r}]
  BY <1>1 DEF Inside, UnderLock, LockIsFree
<1>5. QED
  BY <1>1, <1>2, <1>3, <1>4 DEF Section!Next, Section!Get

(* The handler uses its lock as a section of SingleFlight, which is what    *)
(* KeyLocker implements: it asks before it gets in, never asks while it is  *)
(* waiting or inside, and lets go of what it has.                           *)
THEOREM LockIsSingleFlight ==
    ASSUME "crash" \notin World
    PROVE  Spec => UsesSingleFlight
<1>1. Init => Section!Init
  <2> SUFFICES ASSUME Init PROVE Section!Init
    OBVIOUS
  <2>1. \A r \in Requests : pc[r] = "idle" /\ ~filling[r]
    BY DEF Init
  <2>2. Waiting = [p \in Replicas |-> {}]
    BY <2>1 DEF Waiting
  <2>3. Inside = [p \in Replicas |-> {}]
    BY <2>1 DEF Inside, UnderLock
  <2>4. QED
    BY <2>2, <2>3 DEF Section!Init
<1>2. IInv /\ LockDiscipline /\ [Next]_vars => [Section!Next]_<<Waiting, Inside>>
  <2> SUFFICES ASSUME IInv, LockDiscipline, [Next]_vars PROVE [Section!Next]_<<Waiting, Inside>>
    OBVIOUS
  <2>1. CASE UNCHANGED vars \/ Publish \/ Remove \/ Expire
    BY <2>1, SectionStays DEF vars, Publish, Remove, Expire, UnderLock
  <2>2. ASSUME NEW r \in Requests, Arrive(r) PROVE UNCHANGED <<Waiting, Inside>>
    <3>1. \A q \in Requests : pc'[q] = IF q = r THEN "lookup" ELSE pc[q]
      BY <2>2 DEF Arrive, GoOn, IInv, TypeOK, RequestTypes
    <3>2. pc[r] = "idle" /\ filling' = filling /\ ~filling[r]
      BY <2>2 DEF Arrive, LockDiscipline, Disciplined
    <3>3. QED
      BY <3>1, <3>2, SectionStays DEF UnderLock
  <2>3. ASSUME NEW r \in Requests, Respond(r) PROVE UNCHANGED <<Waiting, Inside>>
    <3>1. pc[r] = "answer" /\ \A q \in Requests :
            /\ pc'[q] = IF q = r THEN "idle" ELSE pc[q]
            /\ filling'[q] = IF q = r THEN FALSE ELSE filling[q]
      BY <2>3 DEF Respond, Forget
    <3>2. QED
      BY <3>1, SectionStays DEF UnderLock
  <2>4. ASSUME NEW r \in Requests, Handle(r), ~Respond(r) PROVE [Section!Next]_<<Waiting, Inside>>
    BY <2>4, HandlerMoves, MovesInSection
  <2>5. QED
    BY <2>1, <2>2, <2>3, <2>4, GetLockInSection DEF Next, Crash
<1>3. QED
  BY <1>1, <1>2, DisciplineHolds, PTL DEF Spec, UsesSingleFlight, Section!Spec, Section!sfVars
==============================================================================
