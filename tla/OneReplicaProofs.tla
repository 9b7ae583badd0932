--------------------------- MODULE OneReplicaProofs ---------------------------
(* Proofs about SimpleProject on one replica: when a stampede collapses to    *)
(* one fetch, when a 304 only makes fresh what it confirmed, and when all     *)
(* that is cached is of one upload.                                           *)
EXTENDS SimpleProjectProofs

OneHome == \A q, r \in Requests : Home[q] = Home[r]

------------------------------------------------------------------------------
(* Stampedes                                                                *)

(* One replica, on which nothing expires and every body parses, and clients *)
(* that do not have pages converted in both directions.                     *)
Settled ==
    /\ "expire" \notin World
    /\ Malformed = {}
    /\ "json" \notin Kinds \/ "html" \notin Kinds
    /\ OneHome

------------------------------------------------------------------------------
(* Steps of one request, by what they change *)

(* A step that writes no fresh entry only matters to its own request. *)
LEMMA ReadingKeeps ==
    ASSUME IStampede, NEW r \in Requests, pc[r] # "answer", fresh' = fresh,
           filling' = filling,
           \A q \in Requests : q # r => pc'[q] = pc[q] /\ loc'[q] = loc[q] /\ kind'[q] = kind[q],
           Seen(r)'
    PROVE  SeenUnderLock'
<1>1. ASSUME NEW q \in Requests, q # r PROVE Seen(q)'
  <2>1. Want(q)' = Want(q) /\ Other(q)' = Other(q)
    BY <1>1 DEF Want, Other
  <2>2. QED
    BY <1>1, <2>1 DEF IStampede, SeenUnderLock, Seen
<1>2. QED
  BY <1>1 DEF SeenUnderLock

(* The two ways a step ends that only reads.                                *)
LEMMA GoOnReading ==
    ASSUME IStampede, NEW r \in Requests, NEW next, NEW locals,
           pc[r] \notin {"idle", "answer"}, fresh' = fresh, filling' = filling, kind' = kind,
           GoOn(r, next, locals),
           next \in Upstream => \A f \in Formats : fresh[f] = None,
           next = "lookup other" /\ filling[r] => fresh[Other(r)] # None \/ fresh[Want(r)] = None,
           next \in Converting /\ filling[r] => fresh[Other(r)] = locals.source
    PROVE  SeenUnderLock'
<1>1. /\ pc' = [pc EXCEPT ![r] = next] /\ loc' = [loc EXCEPT ![r] = locals]
      /\ pc'[r] = next /\ loc'[r] = locals
  BY DEF GoOn, IStampede, IInv, TypeOK, RequestTypes
<1>2. Want(r)' = Want(r) /\ Other(r)' = Other(r)
  BY DEF Want, Other
<1>3. Seen(r)'
  BY <1>1, <1>2 DEF Seen
<1>4. pc[r] # "answer"
  OBVIOUS
<1>5. \A q \in Requests : q # r => pc'[q] = pc[q] /\ loc'[q] = loc[q] /\ kind'[q] = kind[q]
  BY <1>1 DEF IStampede, IInv, TypeOK, RequestTypes
<1>6. QED
  BY <1>3, <1>4, <1>5, ReadingKeeps

LEMMA AnswerReading ==
    ASSUME IStampede, NEW r \in Requests, NEW outcome, NEW b,
           pc[r] # "answer", fresh' = fresh, filling' = filling, kind' = kind,
           Answer(r, outcome, b)
    PROVE  SeenUnderLock'
<1>1. pc' = [pc EXCEPT ![r] = "answer"] /\ loc' = [loc EXCEPT ![r] = NoLocals] /\ pc'[r] = "answer"
  BY DEF Answer, IStampede, IInv, TypeOK, RequestTypes
<1>2. Seen(r)'
  BY <1>1 DEF Seen, Converting, Upstream
<1>3. QED
  BY <1>1, <1>2, ReadingKeeps

(* Giving up a pass under the lock is sound when the cache holds nothing.   *)
LEMMA NotServedReading ==
    ASSUME IStampede, NEW r \in Requests, pc[r] \notin {"idle", "answer"},
           fresh' = fresh, filling' = filling, kind' = kind, NotServed(r),
           filling[r] => \A f \in Formats : fresh[f] = None
    PROVE  SeenUnderLock'
<1>1. CASE filling[r]
  <2>1. GoOn(r, "stale check", NoLocals)
    BY <1>1 DEF NotServed
  <2>2. QED
    BY <1>1, <2>1, GoOnReading DEF Converting
<1>2. CASE ~filling[r]
  <2>1. GoOn(r, "queued", NoLocals)
    BY <1>2 DEF NotServed
  <2>2. QED
    BY <1>2, <2>1, GoOnReading DEF Converting, Upstream
<1>3. QED
  BY <1>1, <1>2

(* Who stores a page is under the lock, and answers: nobody else is there.  *)
LEMMA WritingKeeps ==
    ASSUME IStampede, Settled, NEW r \in Requests, pc[r] \in Upstream, NEW outcome, NEW b,
           filling' = filling, kind' = kind, Answer(r, outcome, b)
    PROVE  SeenUnderLock'
<1>1. pc' = [pc EXCEPT ![r] = "answer"] /\ loc' = [loc EXCEPT ![r] = NoLocals]
      /\ pc \in [Requests -> Locations]
  BY DEF Answer, IStampede, IInv, TypeOK, RequestTypes
<1>2. filling[r] /\ pc[r] # "answer"
  BY DEF IStampede, LockDiscipline, Disciplined, Upstream
<1>3. ASSUME NEW q \in Requests PROVE Seen(q)'
  <2>1. CASE q = r
    BY <1>1, <2>1 DEF Seen, Converting, Upstream
  <2>2. CASE q # r
    <3>1. ~filling[q] \/ pc[q] = "answer"
      BY <1>2, <2>2 DEF IStampede, LockDiscipline, OneUnderLock, UnderLock, OneHome, Settled
    <3>2. pc'[q] = pc[q] /\ pc[q] \notin Upstream
      BY <1>1, <2>2, <3>1 DEF IStampede, LockDiscipline, Disciplined, Upstream
    <3>3. QED
      BY <3>1, <3>2 DEF IStampede, SeenUnderLock, Seen, Converting, Upstream
  <2>3. QED
    BY <2>1, <2>2
<1>4. QED
  BY <1>3 DEF SeenUnderLock

------------------------------------------------------------------------------
(* The steps of the handler that need more than these lemmas                *)

(* Under the lock, an absent page is absent in both formats from the second *)
(* look on; a page in the other format parses, and may be converted.        *)
LEMMA LookupOtherSees ==
    ASSUME IStampede, Settled, NEW r \in Requests, LookupOther(r)
    PROVE  SeenUnderLock'
<1> DEFINE b == fresh[Other(r)]
<1>1. pc[r] = "lookup other" /\ fresh' = fresh /\ filling' = filling /\ kind' = kind
  BY DEF LookupOther, cacheVars
<1>2. Usable(r, b) <=> b # None
  BY DEF Settled, Usable, Parses
<1>3. CASE ~Usable(r, b) /\ NotServed(r)
  <2>1. filling[r] => \A f \in Formats : fresh[f] = None
    BY <1>1, <1>2, <1>3, FormatFacts DEF IStampede, SeenUnderLock, Seen
  <2>2. QED
    BY <1>1, <1>3, <2>1, NotServedReading
<1>4. CASE Answer(r, "hit", b)
  BY <1>1, <1>4, AnswerReading
<1>5. CASE kind[r] # "both" /\ GoOn(r, "source ttl", [NoLocals EXCEPT !.source = b])
  <2>1. [NoLocals EXCEPT !.source = b].source = b
    BY DEF NoLocals
  <2>2. QED
    BY <1>1, <1>5, <2>1, GoOnReading DEF Converting, Upstream
<1>6. QED
  BY <1>3, <1>4, <1>5 DEF LookupOther

(* Under the lock, the source of a conversion is there when it is looked at *)
(* again.                                                                   *)
LEMMA SourceTtlSees ==
    ASSUME IStampede, Settled, NEW r \in Requests, SourceTtl(r)
    PROVE  SeenUnderLock'
<1>1. pc[r] = "source ttl" /\ fresh' = fresh /\ filling' = filling /\ kind' = kind
  BY DEF SourceTtl, cacheVars
<1>2. kind[r] # "both" /\ loc[r].source # None /\ (filling[r] => fresh[Other(r)] = loc[r].source)
  BY <1>1 DEF IStampede, LockDiscipline, Disciplined, SeenUnderLock, Seen, Converting,
                IInv, TypeOK, RequestTypes
<1>3. CASE fresh[Other(r)] = None /\ NotServed(r)
  BY <1>1, <1>2, <1>3, NotServedReading
<1>4. CASE GoOn(r, "stale ttl", loc[r])
  BY <1>1, <1>2, <1>4, GoOnReading DEF Converting, Upstream
<1>5. QED
  BY <1>3, <1>4 DEF SourceTtl, Settled

LEMMA StaleTtlSees ==
    ASSUME IStampede, NEW r \in Requests, StaleTtl(r)
    PROVE  SeenUnderLock'
<1>1. pc[r] = "stale ttl" /\ fresh' = fresh /\ filling' = filling /\ kind' = kind
  BY DEF StaleTtl, cacheVars
<1>2. filling[r] => fresh[Other(r)] = loc[r].source
  BY <1>1 DEF IStampede, SeenUnderLock, Seen, Converting
<1>3. PICK keep \in BOOLEAN : GoOn(r, "commit", [loc[r] EXCEPT !.keep = keep])
  BY DEF StaleTtl
<1>4. loc[r] \in Locals
  BY DEF IStampede, IInv, TypeOK, RequestTypes
<1>5. [loc[r] EXCEPT !.keep = keep].source = loc[r].source
  BY <1>4 DEF Locals
<1>6. QED
  BY <1>1, <1>2, <1>3, <1>5, GoOnReading DEF Converting, Upstream

(* A conversion finds its source in the cache, so nobody is upstream; and   *)
(* it writes the format that all conversions write, which is nobody's       *)
(* source.                                                                  *)
LEMMA CommitSees ==
    ASSUME IStampede, Settled, NEW r \in Requests, Commit(r)
    PROVE  SeenUnderLock'
<1>1. pc[r] = "commit" /\ filling' = filling /\ kind' = kind
  BY DEF Commit
<1>2. /\ kind[r] # "both" /\ kind[r] \in Kinds /\ loc[r].source \in Bodies
      /\ filling[r] => fresh[Other(r)] = loc[r].source
  BY <1>1 DEF IStampede, LockDiscipline, Disciplined, SeenUnderLock, Seen, Converting,
              IInv, TypeOK, RequestTypes, Locals, MaybeBody
<1>3. CASE fresh[Other(r)] # loc[r].source /\ NotServed(r) /\ fresh' = fresh
  BY <1>1, <1>2, <1>3, NotServedReading
<1>4. CASE fresh[Other(r)] = loc[r].source /\ SynthesisWrites(r)
  <2>1. /\ pc' = [pc EXCEPT ![r] = "answer"] /\ loc' = [loc EXCEPT ![r] = NoLocals]
        /\ fresh' = [fresh EXCEPT ![Want(r)] = Convert(loc[r].source)]
    BY <1>4 DEF SynthesisWrites, Answer
  <2>2. pc'[r] = "answer" /\ \A q \in Requests : q # r => pc'[q] = pc[q] /\ loc'[q] = loc[q]
    BY <2>1 DEF IStampede, IInv, TypeOK, RequestTypes
  <2>3. /\ fresh'[Want(r)] # None /\ fresh'[Other(r)] = fresh[Other(r)] /\ fresh[Other(r)] # None
    BY <1>2, <1>4, <2>1, FormatFacts, ConvertFacts, NoneIsNothingElse
       DEF IStampede, IInv, TypeOK, CacheTypes
  <2>4. ASSUME NEW q \in Requests PROVE Seen(q)'
    <3>1. CASE q = r
      BY <2>2, <3>1 DEF Seen, Converting, Upstream
    <3>2. CASE q # r
      <4>1. /\ Want(q)' = Want(q) /\ Other(q)' = Other(q) /\ Seen(q)
            /\ pc'[q] = pc[q] /\ loc'[q] = loc[q] /\ kind' = kind /\ filling' = filling
        BY <1>1, <2>2, <3>2 DEF Want, Other, IStampede, SeenUnderLock
      <4>2. pc[q] \notin Upstream
        BY <2>3, <4>1, FormatFacts DEF Seen
      <4>3. fresh'[Other(q)] # None
        BY <2>3, FormatFacts
      <4>4. ASSUME pc[q] \in Converting PROVE Other(q) = Other(r)
        <5>1. kind[q] \in {"json", "html"} /\ kind[q] \in Kinds
          BY <4>1, <4>4, KindsAssumption
             DEF Converting, IStampede, LockDiscipline, Disciplined, IInv, TypeOK, RequestTypes
        <5>2. kind[r] \in {"json", "html"}
          BY <1>2, KindsAssumption
        <5>3. kind[q] = kind[r]
          BY <1>2, <5>1, <5>2 DEF Settled
        <5>4. QED
          BY <5>3 DEF Other, Want
      <4>5. pc[q] \in Converting => fresh'[Other(q)] = fresh[Other(q)]
        BY <2>3, <4>4
      <4>6. QED
        BY <4>1, <4>2, <4>3, <4>5 DEF Seen
    <3>3. QED
      BY <3>1, <3>2
  <2>5. QED
    BY <2>4 DEF SeenUnderLock
<1>5. QED
  BY <1>3, <1>4 DEF Commit

LEMMA GetLockSees ==
    ASSUME IStampede, NEW r \in Requests, GetLock(r)
    PROVE  SeenUnderLock'
<1>1. /\ pc[r] = "queued" /\ pc' = [pc EXCEPT ![r] = "lookup"] /\ loc' = [loc EXCEPT ![r] = NoLocals]
      /\ filling' = [filling EXCEPT ![r] = TRUE] /\ kind' = kind /\ fresh' = fresh
  BY DEF GetLock, EnterSection, GoOn, cacheVars
<1>2. pc'[r] = "lookup"
      /\ \A q \in Requests : q # r =>
            pc'[q] = pc[q] /\ loc'[q] = loc[q] /\ filling'[q] = filling[q] /\ kind'[q] = kind[q]
  BY <1>1 DEF IStampede, IInv, TypeOK, RequestTypes
<1>3. ASSUME NEW q \in Requests PROVE Seen(q)'
  <2>1. CASE q = r
    BY <1>2, <2>1 DEF Seen, Converting, Upstream
  <2>2. CASE q # r
    <3>1. Want(q)' = Want(q) /\ Other(q)' = Other(q) /\ Seen(q)
      BY <1>1 DEF Want, Other, IStampede, SeenUnderLock
    <3>2. QED
      BY <1>1, <1>2, <2>2, <3>1 DEF Seen
  <2>3. QED
    BY <2>1, <2>2
<1>4. QED
  BY <1>3 DEF SeenUnderLock

(* A request arrives, or a request or a whole replica is forgotten.         *)
LEMMA ArriveSees ==
    ASSUME IStampede, NEW r \in Requests, Arrive(r)
    PROVE  SeenUnderLock'
<1>1. /\ pc[r] = "idle" /\ pc' = [pc EXCEPT ![r] = "lookup"] /\ loc' = [loc EXCEPT ![r] = NoLocals]
      /\ filling' = filling /\ fresh' = fresh
      /\ \E k \in Kinds : kind' = [kind EXCEPT ![r] = k]
  BY DEF Arrive, GoOn, cacheVars
<1>2. pc'[r] = "lookup"
      /\ \A q \in Requests : q # r => pc'[q] = pc[q] /\ loc'[q] = loc[q] /\ kind'[q] = kind[q]
  BY <1>1 DEF IStampede, IInv, TypeOK, RequestTypes
<1>3. Seen(r)'
  BY <1>2 DEF Seen, Converting, Upstream
<1>4. QED
  BY <1>1, <1>2, <1>3, ReadingKeeps

LEMMA ForgetSees ==
    ASSUME IStampede, NEW S \in SUBSET Requests, Forget(S)
    PROVE  SeenUnderLock'
<1>1. fresh' = fresh /\ \A q \in Requests :
        /\ q \in S => pc'[q] = "idle" /\ filling'[q] = FALSE
        /\ q \notin S => /\ pc'[q] = pc[q] /\ loc'[q] = loc[q]
                         /\ filling'[q] = filling[q] /\ kind'[q] = kind[q]
  BY DEF Forget, cacheVars
<1>2. ASSUME NEW q \in Requests PROVE Seen(q)'
  <2>1. CASE q \in S
    BY <1>1, <2>1 DEF Seen, Converting, Upstream
  <2>2. CASE q \notin S
    <3>1. Want(q)' = Want(q) /\ Other(q)' = Other(q) /\ Seen(q)
      BY <1>1, <2>2 DEF Want, Other, IStampede, SeenUnderLock
    <3>2. QED
      BY <1>1, <2>2, <3>1 DEF Seen
  <2>3. QED
    BY <2>1, <2>2
<1>3. QED
  BY <1>2 DEF SeenUnderLock

(* The answer of upstream, and a 304's look for a stale body: nothing is    *)
(* written, and the request stays under the lock.                           *)
LEMMA UpstreamSees ==
    ASSUME IStampede, NEW r \in Requests,
           StaleCheck(r) \/ ReadValidators(r) \/ Fetch(r) \/ StaleBodies(r) \/ Restale(r)
    PROVE  SeenUnderLock'
<1>1. pc[r] \in Upstream /\ pc[r] \notin {"idle", "answer"}
      /\ fresh' = fresh /\ filling' = filling /\ kind' = kind
  BY DEF StaleCheck, ReadValidators, Fetch, FetchNotModified, FetchFails, FetchNotFound, FetchOk,
         StaleBodies, Restale, Upstream, cacheVars
<1>2. \A f \in Formats : fresh[f] = None
  BY <1>1 DEF IStampede, SeenUnderLock, Seen
<1>3. ASSUME NEW next \in Upstream, NEW locals, GoOn(r, next, locals) PROVE SeenUnderLock'
  BY <1>1, <1>2, <1>3, GoOnReading DEF Converting, Upstream
<1>4. QED
  BY <1>1, <1>3, UpstreamSteps, AnswerReading

LEMMA LookupSees ==
    ASSUME IStampede, NEW r \in Requests, Lookup(r)
    PROVE  SeenUnderLock'
<1>1. pc[r] = "lookup" /\ fresh' = fresh /\ filling' = filling /\ kind' = kind
  BY DEF Lookup, cacheVars
<1>2. CASE fresh[Want(r)] = None /\ GoOn(r, "lookup other", NoLocals)
  BY <1>1, <1>2, GoOnReading DEF Converting, Upstream
<1>3. QED
  BY <1>1, <1>2, AnswerReading DEF Lookup

LEMMA StoreSees ==
    ASSUME IStampede, Settled, NEW r \in Requests, Promote(r) \/ Put404(r) \/ Fill(r)
    PROVE  SeenUnderLock'
<1>1. pc[r] \in Upstream /\ filling' = filling /\ kind' = kind
      /\ \E outcome, b : Answer(r, outcome, b)
  BY DEF Promote, Put404, Fill, Upstream
<1>2. QED
  BY <1>1, WritingKeeps

------------------------------------------------------------------------------

(* What was seen under the lock stays so.                                   *)
LEMMA SeenKept == ASSUME IStampede, Settled, [Next]_vars PROVE SeenUnderLock'
<1>1. CASE UNCHANGED vars
  BY <1>1 DEF vars, IStampede, SeenUnderLock, Seen, Want, Other
<1>2. ASSUME NEW r \in Requests, Arrive(r) \/ Handle(r) \/ GetLock(r) PROVE SeenUnderLock'
  <2>1. CASE Respond(r)
    BY <2>1, ForgetSees DEF Respond
  <2>2. QED
    BY <1>2, <2>1, ArriveSees, GetLockSees, LookupSees, LookupOtherSees, SourceTtlSees,
       StaleTtlSees, CommitSees, UpstreamSees, StoreSees DEF Handle
<1>3. ASSUME NEW p \in Replicas, Crash(p) PROVE SeenUnderLock'
  <2>1. Forget({r \in Requests : Home[r] = p})
    BY <1>3 DEF Crash
  <2>2. QED
    BY <2>1, ForgetSees
<1>4. CASE Publish \/ Remove
  <2>1. fresh' = fresh /\ pc' = pc /\ kind' = kind /\ filling' = filling /\ loc' = loc
    BY <1>4 DEF Publish, Remove, cacheVars
  <2>2. QED
    BY <2>1 DEF IStampede, SeenUnderLock, Seen, Want, Other
<1>5. ~Expire
  BY DEF Expire, Settled
<1>6. QED
  BY <1>1, <1>2, <1>3, <1>4, <1>5 DEF Next

(* On one replica where nothing expires, with conversions in one direction  *)
(* only, nobody fetches a page that is in the cache, whatever upstream      *)
(* answers, however often the replica dies and however many clients there   *)
(* are.                                                                     *)
THEOREM OneFetch == ASSUME Settled PROVE Spec => []StampedeCollapses
<1>1. Init => IStampede
  <2>1. Init => SeenUnderLock
    BY DEF Init, SeenUnderLock, Seen, Converting, Upstream
  <2>2. QED
    BY <2>1, InitEstablishes, DisciplineAtFirst DEF IStampede
<1>2. IStampede /\ [Next]_vars => IStampede'
  BY StepPreserves, DisciplineKept, SeenKept, Settled DEF IStampede, Settled
<1>3. IStampede => StampedeCollapses
  BY DEF IStampede, SeenUnderLock, Seen, StampedeCollapses, Upstream
<1>4. QED
  BY <1>1, <1>2, <1>3, PTL DEF Spec

------------------------------------------------------------------------------
(* Revalidation *)

(* One replica, upstream in one format, and clients that are either all      *)
(* served as it comes or all served a conversion.                            *)
Uniform ==
    /\ OneHome
    /\ \A f, g \in UpstreamFormats : f = g
    /\ \/ \A k \in Kinds, f \in UpstreamFormats : k \in {"both", f}
       \/ \A k \in Kinds, f \in UpstreamFormats : k \notin {"both", f}

AllCarry == \A r \in Requests : Carries(r)
Aged == CacheFollowsValidator /\ AllCarry

(* What Carries asks of a request with these locals at this line.           *)
Fine(next, l) ==
    /\ l.etag # None => l.etag.ver <= version
    /\ \A b \in {l.body, l.source} :
        /\ b # None => b.fmt \in KeptFormats
        /\ next \in {"restale", "promote"} => NoOlder(b, l.etag) /\ NoOlder(b, validator)
    /\ next \in {"fetch", "stale bodies", "restale", "promote"} => NothingOlder(l.etag)
    /\ next = "fill" => /\ NoOlder(l.body, validator) /\ l.etag \in {None, l.body}
                        /\ l.body.fmt \in UpstreamFormats

LEMMA CarriesIsFine == ASSUME NEW r \in Requests PROVE Carries(r) <=> Fine(pc[r], loc[r])
BY DEF Carries, Fine

------------------------------------------------------------------------------
(* Formats *)

LEMMA KeptFacts ==
    /\ KeptFormats \subseteq Formats
    /\ UpstreamFormats \subseteq KeptFormats
BY UpstreamAssumption DEF KeptFormats

(* Who reads the other format from the cache to convert it, wants a format  *)
(* that is kept as well.                                                    *)
LEMMA ConvertedIsKept ==
    ASSUME IInv, NEW r \in Requests, pc[r] # "idle", kind[r] # "both", Other(r) \in KeptFormats
    PROVE  Want(r) \in KeptFormats
<1>1. kind[r] \in Kinds /\ kind[r] \in {"json", "html"}
  BY KindsAssumption DEF IInv, TypeOK, RequestTypes
<1>2. Want(r) = kind[r] /\ Other(r) # kind[r] /\ Want(r) \in Formats
  BY <1>1, FormatFacts DEF Want
<1>3. CASE \A k \in Kinds, f \in UpstreamFormats : k \in {"both", f}
  <2>1. KeptFormats = UpstreamFormats
    BY <1>3 DEF KeptFormats
  <2>2. QED
    BY <1>1, <1>2, <1>3, <2>1
<1>4. CASE ~\A k \in Kinds, f \in UpstreamFormats : k \in {"both", f}
  <2>1. KeptFormats = Formats
    BY <1>4 DEF KeptFormats
  <2>2. QED
    BY <1>2, <2>1
<1>5. QED
  BY <1>3, <1>4

(* What is in the cache is in a format that is kept.                        *)
LEMMA CachedIsKept ==
    ASSUME IInv, CacheFollowsValidator, NEW f \in Formats
    PROVE  /\ fresh[f] # None => fresh[f].fmt = f /\ f \in KeptFormats
           /\ stale[f] # None => stale[f].fmt = f /\ f \in KeptFormats
BY DEF IInv, StoredAsNamed, CacheFollowsValidator

------------------------------------------------------------------------------
(* Steps that read *)

LEMMA ReadingAges ==
    ASSUME IRevalidation, NEW r \in Requests, UNCHANGED <<fresh, stale, validator, version>>,
           \A q \in Requests : q # r => pc'[q] = pc[q] /\ loc'[q] = loc[q],
           Fine(pc'[r], loc'[r])
    PROVE  Aged'
<1>1. CacheFollowsValidator'
  BY DEF IRevalidation, CacheFollowsValidator, NothingOlder
<1>2. Carries(r)'
  BY DEF Carries, Fine, NothingOlder
<1>3. ASSUME NEW q \in Requests, q # r PROVE Carries(q)'
  <2>1. Carries(q)
    BY DEF IRevalidation
  <2>2. QED
    BY <1>3, <2>1 DEF Carries, NothingOlder
<1>4. QED
  BY <1>1, <1>2, <1>3 DEF Aged, AllCarry

LEMMA GoOnAges ==
    ASSUME IRevalidation, NEW r \in Requests, UNCHANGED <<fresh, stale, validator, version>>,
           NEW next, NEW locals, GoOn(r, next, locals), Fine(next, locals)
    PROVE  Aged'
<1>1. pc'[r] = next /\ loc'[r] = locals
      /\ \A q \in Requests : q # r => pc'[q] = pc[q] /\ loc'[q] = loc[q]
  BY DEF GoOn, IRevalidation, IInv, TypeOK, RequestTypes
<1>2. QED
  BY <1>1, ReadingAges

(* Empty locals are fine wherever nothing is to be stored.                  *)
LEMMA NoLocalsFine ==
    ASSUME NEW next, next \notin {"restale", "promote", "fill"}
    PROVE  Fine(next, NoLocals)
BY DEF Fine, NoLocals, NoOlder, NothingOlder

LEMMA AnswerAges ==
    ASSUME IRevalidation, NEW r \in Requests, UNCHANGED <<fresh, stale, validator, version>>,
           NEW outcome, NEW b, Answer(r, outcome, b)
    PROVE  Aged'
<1>1. pc'[r] = "answer" /\ loc'[r] = NoLocals
      /\ \A q \in Requests : q # r => pc'[q] = pc[q] /\ loc'[q] = loc[q]
  BY DEF Answer, IRevalidation, IInv, TypeOK, RequestTypes
<1>2. QED
  BY <1>1, NoLocalsFine, ReadingAges

LEMMA NotServedAges ==
    ASSUME IRevalidation, NEW r \in Requests, UNCHANGED <<fresh, stale, validator, version>>,
           NotServed(r)
    PROVE  Aged'
<1>1. PICK next \in {"stale check", "queued"} : GoOn(r, next, NoLocals)
  BY DEF NotServed
<1>2. QED
  BY <1>1, NoLocalsFine, GoOnAges

------------------------------------------------------------------------------
(* Steps that write *)

(* Who is in the upstream part is alone there.                              *)
LEMMA AloneUpstream ==
    ASSUME LockDiscipline, Uniform, NEW q \in Requests, NEW r \in Requests, q # r, pc[r] \in Upstream
    PROVE  pc[q] \notin Upstream
BY DEF LockDiscipline, OneUnderLock, UnderLock, OneHome, Uniform, Disciplined, Upstream

(* A step of a request upstream that stores something and goes on or        *)
(* answers: only its own locals and the cache are to be looked at.          *)
LEMMA WritingAges ==
    ASSUME IRevalidation, Uniform, NEW r \in Requests, pc[r] \in Upstream, version' = version,
           \A q \in Requests : q # r => pc'[q] = pc[q] /\ loc'[q] = loc[q],
           CacheFollowsValidator', Carries(r)'
    PROVE  Aged'
<1>1. ASSUME NEW q \in Requests, q # r PROVE Carries(q)'
  <2>1. pc[q] \notin Upstream /\ Carries(q)
    BY <1>1, AloneUpstream DEF IRevalidation
  <2>2. QED
    BY <1>1, <2>1 DEF Carries, Upstream
<1>2. QED
  BY <1>1 DEF Aged, AllCarry

------------------------------------------------------------------------------
(* The first pass and the lock *)

LEMMA ReadStepsAge ==
    ASSUME IRevalidation, NEW r \in Requests,
           Lookup(r) \/ LookupOther(r) \/ SourceTtl(r) \/ StaleTtl(r) \/ Arrive(r) \/ GetLock(r)
    PROVE  Aged'
<1>1. UNCHANGED <<fresh, stale, validator, version>>
  BY DEF Lookup, LookupOther, SourceTtl, StaleTtl, Arrive, GetLock, EnterSection, cacheVars, upstreamVars
<1>2. CASE Lookup(r) \/ Arrive(r) \/ GetLock(r)
  <2>1. ASSUME NEW next \in {"lookup", "lookup other"}, GoOn(r, next, NoLocals) PROVE Aged'
    BY <1>1, <2>1, NoLocalsFine, GoOnAges
  <2>2. QED
    BY <1>1, <1>2, <2>1, AnswerAges DEF Lookup, Arrive, GetLock, EnterSection
<1>3. CASE LookupOther(r)
  <2> DEFINE b == fresh[Other(r)]
             l == [NoLocals EXCEPT !.source = b]
  <2>1. ASSUME b # None, GoOn(r, "source ttl", l) PROVE Aged'
    <3>1. b.fmt \in KeptFormats
      BY <2>1, FormatFacts, CachedIsKept DEF IRevalidation
    <3>2. l.etag = None /\ l.body = None /\ l.source = b
      BY DEF NoLocals
    <3> HIDE DEF l, b
    <3>3. Fine("source ttl", l)
      BY <3>1, <3>2 DEF Fine
    <3>4. QED
      BY <1>1, <2>1, <3>3, GoOnAges
  <2>2. QED
    BY <1>1, <1>3, <2>1, AnswerAges, NotServedAges DEF LookupOther, Usable
<1>4. CASE SourceTtl(r) \/ StaleTtl(r)
  <2>1. Fine(pc[r], loc[r]) /\ loc[r] \in Locals
    BY CarriesIsFine DEF IRevalidation, IInv, TypeOK, RequestTypes
  <2>2. ASSUME NEW next \in {"stale ttl", "commit"}, NEW l, GoOn(r, next, l),
               l.etag = loc[r].etag, l.body = loc[r].body, l.source = loc[r].source
        PROVE  Aged'
    <3>1. Fine(next, l)
      BY <2>1, <2>2 DEF Fine
    <3>2. QED
      BY <1>1, <2>2, <3>1, GoOnAges
  <2>3. CASE SourceTtl(r)
    BY <1>1, <2>2, <2>3, NotServedAges DEF SourceTtl
  <2>4. CASE StaleTtl(r)
    <3>1. PICK keep \in BOOLEAN : GoOn(r, "commit", [loc[r] EXCEPT !.keep = keep])
      BY <2>4 DEF StaleTtl
    <3> DEFINE l == [loc[r] EXCEPT !.keep = keep]
    <3>2. l.etag = loc[r].etag /\ l.body = loc[r].body /\ l.source = loc[r].source
      BY <2>1 DEF Locals
    <3>3. GoOn(r, "commit", l)
      BY <3>1
    <3> HIDE DEF l
    <3>4. QED
      BY <2>2, <3>2, <3>3
  <2>5. QED
    BY <1>4, <2>3, <2>4
<1>5. QED
  BY <1>2, <1>3, <1>4

(* Who has been answered carries nothing.                                   *)
LEMMA AnsweredCarries ==
    ASSUME NEW r \in Requests, pc'[r] \in {"idle", "answer"}, loc'[r] = NoLocals
    PROVE  Carries(r)'
<1>1. loc'[r].etag = None /\ loc'[r].body = None /\ loc'[r].source = None
  BY DEF NoLocals
<1>2. QED
  BY <1>1 DEF Carries

(* A conversion is as new as its source, which is in the cache.             *)
LEMMA CommitAges ==
    ASSUME IRevalidation, NEW r \in Requests, Commit(r)
    PROVE  Aged'
<1>1. pc[r] = "commit" /\ UNCHANGED <<validator, version>>
  BY DEF Commit, upstreamVars
<1>2. CASE NotServed(r) /\ UNCHANGED <<fresh, stale>>
  BY <1>1, <1>2, NotServedAges
<1>3. CASE fresh[Other(r)] = loc[r].source /\ SynthesisWrites(r)
  <2> DEFINE b == Convert(loc[r].source)
  <2>1. kind[r] # "both" /\ loc[r].source \in Bodies /\ loc[r].source # None
    BY <1>1, NoneIsNothingElse
       DEF IRevalidation, LockDiscipline, Disciplined, Converting, IInv, TypeOK, RequestTypes,
           Locals, MaybeBody
  <2>2. b.ver = fresh[Other(r)].ver /\ fresh[Other(r)] # None
    BY <1>3, <2>1 DEF Convert, Bodies
  <2>3. Want(r) \in KeptFormats
    BY <1>1, <1>3, <2>1, FormatFacts, CachedIsKept, ConvertedIsKept DEF IRevalidation
  <2>4. /\ fresh' = [fresh EXCEPT ![Want(r)] = b]
        /\ stale' = [stale EXCEPT ![Want(r)] = IF loc[r].keep THEN b ELSE @]
        /\ pc'[r] = "answer" /\ loc'[r] = NoLocals
        /\ \A q \in Requests : q # r => pc'[q] = pc[q] /\ loc'[q] = loc[q]
    BY <1>3 DEF SynthesisWrites, Answer, IRevalidation, IInv, TypeOK, RequestTypes
  <2> HIDE DEF b
  <2>5. fresh \in [Formats -> MaybeBody] /\ stale \in [Formats -> MaybeBody]
    BY DEF IRevalidation, IInv, TypeOK, CacheTypes
  <2>6. ASSUME NEW v, NothingOlder(v) PROVE NothingOlder(v)'
    <3>1. NoOlder(b, v)
      BY <2>2, <2>6, FormatFacts DEF NothingOlder, NoOlder
    <3>2. \A f \in Formats : fresh'[f] \in {b, fresh[f]} /\ stale'[f] \in {b, stale[f]}
      BY <2>4, <2>5
    <3>3. QED
      BY <2>6, <3>1, <3>2 DEF NothingOlder
  <2>7. CacheFollowsValidator'
    <3>1. NothingOlder(validator)'
      BY <1>1, <2>6 DEF IRevalidation, CacheFollowsValidator, NothingOlder
    <3>2. \A f \in Formats \ KeptFormats : fresh'[f] = None /\ stale'[f] = None
      BY <2>3, <2>4, <2>5 DEF IRevalidation, CacheFollowsValidator
    <3>3. QED
      BY <1>1, <3>1, <3>2 DEF IRevalidation, CacheFollowsValidator
  <2>8. ASSUME NEW q \in Requests PROVE Carries(q)'
    <3>1. CASE q = r
      BY <2>4, <3>1, AnsweredCarries
    <3>2. CASE q # r
      <4>1. Carries(q) /\ pc'[q] = pc[q] /\ loc'[q] = loc[q]
        BY <2>4, <3>2 DEF IRevalidation
      <4>2. NothingOlder(loc[q].etag) => NothingOlder(loc[q].etag)'
        BY <2>6, <4>1 DEF NothingOlder
      <4>3. QED
        BY <1>1, <4>1, <4>2 DEF Carries, NothingOlder
    <3>3. QED
      BY <3>1, <3>2
  <2>9. QED
    BY <2>7, <2>8 DEF Aged, AllCarry
<1>4. QED
  BY <1>2, <1>3 DEF Commit

------------------------------------------------------------------------------
(* The answer of upstream *)

LEMMA FetchAges ==
    ASSUME IRevalidation, NEW r \in Requests, StaleCheck(r) \/ ReadValidators(r) \/ Fetch(r)
    PROVE  Aged'
<1>1. UNCHANGED <<fresh, stale, validator, version>>
  BY DEF StaleCheck, ReadValidators, Fetch, FetchNotModified, FetchFails, FetchNotFound, FetchOk,
         cacheVars, upstreamVars
<1>2. CacheFollowsValidator /\ Fine(pc[r], loc[r])
  BY CarriesIsFine DEF IRevalidation
<1>3. CASE StaleCheck(r)
  <2>1. PICK next \in {"validators", "fetch"} : GoOn(r, next, NoLocals)
    BY <1>3 DEF StaleCheck
  <2>2. QED
    BY <1>1, <2>1, NoLocalsFine, GoOnAges
<1>4. CASE ReadValidators(r)
  <2> DEFINE l == [NoLocals EXCEPT !.etag = validator]
  <2>1. l.etag = validator /\ l.body = None /\ l.source = None
    BY DEF NoLocals
  <2>2. GoOn(r, "fetch", l)
    BY <1>4 DEF ReadValidators
  <2> HIDE DEF l
  <2>3. Fine("fetch", l)
    BY <1>2, <2>1 DEF Fine, CacheFollowsValidator
  <2>4. QED
    BY <1>1, <2>2, <2>3, GoOnAges
<1>5. CASE FetchNotModified(r)
  <2>1. ASSUME pc[r] = "fetch" PROVE Fine("stale bodies", loc[r])
    BY <1>2, <2>1 DEF Fine
  <2>2. QED
    BY <1>1, <1>5, <2>1, GoOnAges, AnswerAges DEF FetchNotModified
<1>6. CASE FetchFails(r) \/ FetchNotFound(r)
  <2>1. Fine("put 404", NoLocals)
    BY NoLocalsFine
  <2>2. QED
    BY <1>1, <1>6, <2>1, GoOnAges, AnswerAges DEF FetchFails, FetchNotFound
<1>7. CASE FetchOk(r)
  <2>1. PICK f \in UpstreamFormats :
          LET b == [ver |-> version, fmt |-> f, by |-> "upstream"] IN
          \/ Answer(r, "failed", None)
          \/ \E v \in {None, b} : GoOn(r, "fill", [NoLocals EXCEPT !.etag = v, !.body = b])
    BY <1>7 DEF FetchOk
  <2> DEFINE b == [ver |-> version, fmt |-> f, by |-> "upstream"]
  <2>2. ASSUME NEW v \in {None, b}, GoOn(r, "fill", [NoLocals EXCEPT !.etag = v, !.body = b])
        PROVE  Aged'
    <3> DEFINE l == [NoLocals EXCEPT !.etag = v, !.body = b]
    <3>1. l.etag = v /\ l.body = b /\ l.source = None
      BY DEF NoLocals
    <3>2. b.ver = version /\ b.fmt = f
      OBVIOUS
    <3>3. GoOn(r, "fill", l)
      BY <2>2
    <3> HIDE DEF l, b
    <3>4. version \in Nat
      BY UpstreamAssumption DEF IRevalidation, IInv, TypeOK, CacheTypes
    <3>5. NoOlder(b, validator)
      BY <1>2, <3>2, <3>4 DEF NoOlder, CacheFollowsValidator, IRevalidation, IInv, TypeOK, CacheTypes, MaybeBody, Bodies
    <3>6. Fine("fill", l)
      BY <2>2, <3>1, <3>2, <3>4, <3>5, KeptFacts DEF Fine
    <3>7. QED
      BY <1>1, <3>3, <3>6, GoOnAges
  <2>3. QED
    BY <1>1, <2>1, <2>2, AnswerAges
<1>8. QED
  BY <1>3, <1>4, <1>5, <1>6, <1>7 DEF Fetch

------------------------------------------------------------------------------
(* 304 *)

LEMMA StaleBodiesAges ==
    ASSUME IRevalidation, NEW r \in Requests, StaleBodies(r)
    PROVE  Aged'
<1> DEFINE mine == stale[Want(r)]
           theirs == stale[Other(r)]
<1>1. pc[r] = "stale bodies" /\ UNCHANGED <<fresh, stale, validator, version>>
  BY DEF StaleBodies, cacheVars, upstreamVars
<1>2. Fine(pc[r], loc[r]) /\ loc[r] \in Locals
  BY CarriesIsFine DEF IRevalidation, IInv, TypeOK, RequestTypes
<1>3. /\ NothingOlder(loc[r].etag) /\ NothingOlder(validator)
      /\ loc[r].etag # None => loc[r].etag.ver <= version
  BY <1>1, <1>2 DEF Fine, IRevalidation, CacheFollowsValidator
<1>4. /\ mine # None => mine.fmt \in KeptFormats
      /\ theirs # None => theirs.fmt \in KeptFormats /\ theirs.fmt = Other(r)
      /\ NoOlder(mine, loc[r].etag) /\ NoOlder(mine, validator)
      /\ NoOlder(theirs, loc[r].etag) /\ NoOlder(theirs, validator)
  BY <1>3, FormatFacts, CachedIsKept DEF IRevalidation, NothingOlder
<1> HIDE DEF mine, theirs
<1>5. ASSUME NEW next \in {"restale", "promote"}, NEW l, GoOn(r, next, l), l.etag = loc[r].etag,
             \A b \in {l.body, l.source} :
                /\ b # None => b.fmt \in KeptFormats
                /\ NoOlder(b, loc[r].etag) /\ NoOlder(b, validator)
      PROVE  Aged'
  <2>1. Fine(next, l)
    BY <1>3, <1>5 DEF Fine
  <2>2. QED
    BY <1>1, <1>5, <2>1, GoOnAges
<1>6. CASE GoOn(r, "promote", [loc[r] EXCEPT !.body = mine, !.source = theirs, !.key = Want(r)])
  <2> DEFINE l == [loc[r] EXCEPT !.body = mine, !.source = theirs, !.key = Want(r)]
  <2>1. l.etag = loc[r].etag /\ l.body = mine /\ l.source = theirs
    BY <1>2 DEF Locals
  <2>2. GoOn(r, "promote", l)
    BY <1>6
  <2> HIDE DEF l
  <2>3. QED
    BY <1>4, <1>5, <2>1, <2>2
<1>7. CASE GoOn(r, "promote",
                [loc[r] EXCEPT !.body = theirs, !.source = theirs, !.key = Other(r)])
  <2> DEFINE l == [loc[r] EXCEPT !.body = theirs, !.source = theirs, !.key = Other(r)]
  <2>1. l.etag = loc[r].etag /\ l.body = theirs /\ l.source = theirs
    BY <1>2 DEF Locals
  <2>2. GoOn(r, "promote", l)
    BY <1>7
  <2> HIDE DEF l
  <2>3. QED
    BY <1>4, <1>5, <2>1, <2>2
<1>8. CASE /\ theirs # None /\ kind[r] # "both"
           /\ GoOn(r, "restale",
                   [loc[r] EXCEPT !.body = Convert(theirs), !.source = theirs, !.key = Want(r)])
  <2> DEFINE l == [loc[r] EXCEPT !.body = Convert(theirs), !.source = theirs, !.key = Want(r)]
  <2>1. l.etag = loc[r].etag /\ l.body = Convert(theirs) /\ l.source = theirs
    BY <1>2 DEF Locals
  <2>2. GoOn(r, "restale", l)
    BY <1>8
  <2> HIDE DEF l
  <2>3. theirs \in Bodies
    BY <1>8, FormatFacts DEF IRevalidation, IInv, TypeOK, CacheTypes, MaybeBody, theirs
  <2>4. Convert(theirs).fmt = Want(r) /\ Convert(theirs).ver = theirs.ver /\ Convert(theirs) # None
    BY <1>4, <1>8, <2>3, FormatFacts, ConvertFacts DEF Convert, Bodies
  <2>5. Want(r) \in KeptFormats
    BY <1>1, <1>4, <1>8, ConvertedIsKept DEF IRevalidation
  <2>6. NoOlder(Convert(theirs), loc[r].etag) /\ NoOlder(Convert(theirs), validator)
    BY <1>4, <1>8, <2>4 DEF NoOlder
  <2>7. QED
    BY <1>4, <1>5, <2>1, <2>2, <2>4, <2>5, <2>6
<1>9. CASE GoOn(r, "refetch", NoLocals)
  BY <1>1, <1>9, NoLocalsFine, GoOnAges
<1>10. QED
  BY <1>6, <1>7, <1>8, <1>9 DEF StaleBodies, Usable, mine, theirs

(* What is written back was read under the lock, and is no older than the   *)
(* validator that is there or was sent.                                     *)
LEMMA RestaleAges ==
    ASSUME IRevalidation, Uniform, NEW r \in Requests, Restale(r)
    PROVE  Aged'
<1> DEFINE b == loc[r].source
<1>1. pc[r] = "restale" /\ UNCHANGED <<fresh, validator, version>>
      /\ stale' = [stale EXCEPT ![Other(r)] = b]
  BY DEF Restale, upstreamVars
<1>2. pc'[r] = "promote" /\ loc'[r] = loc[r]
      /\ \A q \in Requests : q # r => pc'[q] = pc[q] /\ loc'[q] = loc[q]
  BY DEF Restale, GoOn, IRevalidation, IInv, TypeOK, RequestTypes
<1>3. Fine("restale", loc[r])
  BY <1>1, CarriesIsFine DEF IRevalidation
<1>4. b # None /\ b.fmt = Other(r) /\ b.fmt \in KeptFormats
      /\ NoOlder(b, loc[r].etag) /\ NoOlder(b, validator)
  BY <1>1, <1>3 DEF Fine, IRevalidation, IInv, TypeOK, RequestTypes, LocalsFit
<1>5. \A f \in Formats : stale'[f] = IF f = Other(r) THEN b ELSE stale[f]
  BY <1>1 DEF IRevalidation, IInv, TypeOK, CacheTypes
<1> HIDE DEF b
<1>6. ASSUME NEW v, NothingOlder(v), NoOlder(b, v) PROVE NothingOlder(v)'
  BY <1>1, <1>5, <1>6 DEF NothingOlder
<1>7. CacheFollowsValidator'
  <2>1. NothingOlder(validator)'
    BY <1>1, <1>4, <1>6 DEF IRevalidation, CacheFollowsValidator, NothingOlder
  <2>2. \A f \in Formats \ KeptFormats : fresh'[f] = None /\ stale'[f] = None
    BY <1>1, <1>4, <1>5 DEF IRevalidation, CacheFollowsValidator
  <2>3. QED
    BY <1>1, <2>1, <2>2 DEF IRevalidation, CacheFollowsValidator
<1>8. Carries(r)'
  <2>1. NothingOlder(loc[r].etag)'
    <3>1. PICK v : v = loc[r].etag
      OBVIOUS
    <3>2. NothingOlder(v) /\ NoOlder(b, v) /\ loc'[r].etag = v
      BY <1>2, <1>3, <1>4, <3>1 DEF Fine
    <3>3. QED
      BY <1>6, <3>2 DEF NothingOlder
  <2>2. QED
    BY <1>1, <1>2, <1>3, <2>1 DEF Carries, Fine, NothingOlder
<1>9. QED
  BY <1>1, <1>2, <1>7, <1>8, WritingAges DEF Upstream

(* A 304 puts its validator next to bodies that are no older.               *)
LEMMA PromoteAges ==
    ASSUME IRevalidation, Uniform, NEW r \in Requests, Promote(r)
    PROVE  Aged'
<1> DEFINE b == loc[r].body
           other == loc[r].source
           etag == loc[r].etag
<1>1. pc[r] = "promote" /\ version' = version /\ stale' = stale
      /\ fresh' = [f \in Formats |-> IF f = loc[r].key THEN b
                                     ELSE IF f = Other(r) /\ other # None THEN other ELSE fresh[f]]
      /\ validator' = IF etag # None THEN etag ELSE validator
  BY DEF Promote, StoreValidator, upstreamVars
<1>2. pc'[r] = "answer" /\ loc'[r] = NoLocals
      /\ \A q \in Requests : q # r => pc'[q] = pc[q] /\ loc'[q] = loc[q]
  BY DEF Promote, Answer, IRevalidation, IInv, TypeOK, RequestTypes
<1>3. Fine("promote", loc[r])
  BY <1>1, CarriesIsFine DEF IRevalidation
<1>4. /\ b # None /\ b.fmt \in KeptFormats /\ (other # None => other.fmt \in KeptFormats)
      /\ NoOlder(b, etag) /\ NoOlder(b, validator) /\ NoOlder(other, etag) /\ NoOlder(other, validator)
      /\ NothingOlder(etag) /\ (etag # None => etag.ver <= version)
  BY <1>1, <1>3 DEF Fine, IRevalidation, IInv, TypeOK, RequestTypes
<1>5. b.fmt = loc[r].key /\ (other # None => other.fmt = Other(r))
  BY <1>1 DEF IRevalidation, IInv, LocalsFit
<1> HIDE DEF b, other, etag
<1>6. \A f \in Formats : fresh'[f] \in {b, fresh[f]} \cup ({other} \ {None})
  BY <1>1
<1>7. NothingOlder(validator)'
  <2>1. ASSUME NEW v, NothingOlder(v), NoOlder(b, v), NoOlder(other, v)
        PROVE  \A f \in Formats : NoOlder(fresh'[f], v) /\ NoOlder(stale'[f], v)
    BY <1>1, <1>6, <2>1 DEF NothingOlder
  <2>2. PICK v \in {etag, validator} : validator' = v
    BY <1>1
  <2>3. NothingOlder(v) /\ NoOlder(b, v) /\ NoOlder(other, v)
    BY <1>4, <2>2 DEF IRevalidation, CacheFollowsValidator
  <2>4. QED
    BY <2>1, <2>2, <2>3 DEF NothingOlder
<1>8. \A f \in Formats \ KeptFormats : fresh'[f] = None /\ stale'[f] = None
  BY <1>1, <1>4, <1>5, FormatFacts DEF IRevalidation, CacheFollowsValidator
<1>9. validator' # None => validator'.ver <= version'
  BY <1>1, <1>4 DEF IRevalidation, CacheFollowsValidator
<1>10. CacheFollowsValidator'
  BY <1>7, <1>8, <1>9 DEF CacheFollowsValidator
<1>11. Carries(r)'
  BY <1>2, AnsweredCarries
<1>12. QED
  BY <1>1, <1>2, <1>10, <1>11, WritingAges DEF Upstream

------------------------------------------------------------------------------
(* 404 and 200 *)

(* A 200 is stored for all clients: as it came when it serves them all, in  *)
(* both formats when it serves none of them.                                *)
LEMMA FilledWhole ==
    ASSUME IRevalidation, Uniform, NEW r \in Requests, pc[r] = "fill"
    PROVE  \/ Passthrough(r, loc[r].body) /\ \A f \in KeptFormats : f = loc[r].body.fmt
           \/ ~Passthrough(r, loc[r].body) /\ KeptFormats = Formats
<1> DEFINE b == loc[r].body
<1>1. b.fmt \in UpstreamFormats /\ b.fmt \in Formats
  BY CarriesIsFine, KeptFacts DEF IRevalidation, Fine
<1>2. kind[r] \in Kinds
  BY DEF IRevalidation, IInv, TypeOK, RequestTypes
<1>3. CASE \A k \in Kinds, f \in UpstreamFormats : k \in {"both", f}
  <2>1. KeptFormats = UpstreamFormats
    BY <1>3 DEF KeptFormats
  <2>2. \A f \in KeptFormats : f = b.fmt
    BY <1>1, <2>1 DEF Uniform
  <2>3. kind[r] \in {"both", b.fmt}
    BY <1>1, <1>2, <1>3
  <2>4. Passthrough(r, b)
    BY <1>1, <2>3 DEF Passthrough, Want, Formats
  <2>5. QED
    BY <2>2, <2>4
<1>4. CASE \A k \in Kinds, f \in UpstreamFormats : k \notin {"both", f}
  <2>1. kind[r] \notin {"both", b.fmt} /\ kind[r] \in {"json", "html"}
    BY <1>1, <1>2, <1>4, KindsAssumption
  <2>2. KeptFormats = Formats
    BY <1>1, <1>2, <1>4 DEF KeptFormats
  <2>3. ~Passthrough(r, b)
    BY <1>1, <2>1 DEF Passthrough, Want, Formats
  <2>4. QED
    BY <2>2, <2>3
<1>5. QED
  BY <1>3, <1>4 DEF Uniform

LEMMA FillAges ==
    ASSUME IRevalidation, Uniform, NEW r \in Requests, Fill(r)
    PROVE  Aged'
<1> DEFINE b == loc[r].body
           etag == loc[r].etag
<1>1. pc[r] = "fill" /\ version' = version
      /\ validator' = IF etag # None THEN etag ELSE validator
  BY DEF Fill, StoreValidator, upstreamVars
<1>2. pc'[r] = "answer" /\ loc'[r] = NoLocals
      /\ \A q \in Requests : q # r => pc'[q] = pc[q] /\ loc'[q] = loc[q]
  BY DEF Fill, Answer, IRevalidation, IInv, TypeOK, RequestTypes
<1>3. /\ b # None /\ b.fmt \in KeptFormats /\ NoOlder(b, validator)
      /\ etag \in {None, b} /\ (etag # None => etag.ver <= version)
  BY <1>1, CarriesIsFine, KeptFacts DEF Fine, IRevalidation, IInv, TypeOK, RequestTypes
<1>4. b \in Bodies /\ b.ver \in Nat
  <2>1. loc[r] \in Locals
    BY DEF IRevalidation, IInv, TypeOK, RequestTypes
  <2>2. b \in Bodies
    BY <1>3, <2>1 DEF Locals, MaybeBody
  <2> HIDE DEF b
  <2>3. QED
    BY <2>2, UpstreamAssumption DEF Bodies
<1>5. Convert(b).ver = b.ver
  BY <1>4 DEF Convert, Bodies
<1> DEFINE c == Convert(b)
<1>6. \A f \in Formats : fresh'[f] \in {b, c, None} /\ stale'[f] \in {b, c, None}
      /\ (f \notin KeptFormats => fresh'[f] = None /\ stale'[f] = None)
  <2>1. \A f \in Formats :
          /\ fresh'[f] = IF f = b.fmt THEN b ELSE IF Passthrough(r, b) THEN fresh[f] ELSE c
          /\ stale'[f] = IF f = b.fmt THEN b ELSE IF Passthrough(r, b) THEN stale[f] ELSE c
    BY DEF Fill
  <2>2. \A f \in Formats \ KeptFormats : fresh[f] = None /\ stale[f] = None
    BY DEF IRevalidation, CacheFollowsValidator
  <2>3. \/ Passthrough(r, b) /\ \A f \in KeptFormats : f = b.fmt
        \/ ~Passthrough(r, b) /\ KeptFormats = Formats
    BY <1>1, FilledWhole
  <2> HIDE DEF b, c
  <2>4. QED
    BY <1>3, <2>1, <2>2, <2>3
<1> HIDE DEF b, etag, c
<1>7. PICK v \in {validator, b} : validator' = v
  BY <1>1, <1>3
<1>8. NoOlder(b, v) /\ NoOlder(c, v)
  BY <1>3, <1>4, <1>5, <1>7 DEF NoOlder, c
<1>9. NothingOlder(validator)'
  BY <1>6, <1>7, <1>8 DEF NothingOlder, NoOlder
<1>10. validator' # None => validator'.ver <= version'
  BY <1>1, <1>3 DEF IRevalidation, CacheFollowsValidator
<1>11. CacheFollowsValidator'
  BY <1>6, <1>9, <1>10 DEF CacheFollowsValidator, KeptFormats
<1>12. QED
  BY <1>1, <1>2, <1>11, AnsweredCarries, WritingAges DEF Upstream

------------------------------------------------------------------------------
(* The end of a request, and the world around it *)

LEMMA ForgetAges ==
    ASSUME IRevalidation, NEW S, Forget(S)
    PROVE  Aged'
<1>1. UNCHANGED <<fresh, stale, validator, version>>
  BY DEF Forget, cacheVars, upstreamVars
<1>2. CacheFollowsValidator'
  BY <1>1 DEF IRevalidation, CacheFollowsValidator, NothingOlder
<1>3. ASSUME NEW q \in Requests PROVE Carries(q)'
  <2>1. CASE q \in S
    BY <2>1, AnsweredCarries DEF Forget
  <2>2. CASE q \notin S
    <3>1. pc'[q] = pc[q] /\ loc'[q] = loc[q] /\ Carries(q)
      BY <2>2 DEF Forget, IRevalidation
    <3>2. QED
      BY <1>1, <3>1 DEF Carries, NothingOlder
  <2>3. QED
    BY <2>1, <2>2
<1>4. QED
  BY <1>2, <1>3 DEF Aged, AllCarry

(* Entries that go, and versions that come, make nothing older.             *)
LEMMA WorldAges ==
    ASSUME IRevalidation, Publish \/ Remove \/ Expire \/ UNCHANGED vars
    PROVE  Aged'
<1>1. /\ \A f \in Formats : fresh'[f] \in {fresh[f], None} /\ stale'[f] \in {stale[f], None}
      /\ validator' \in {validator, None}
      /\ pc' = pc /\ loc' = loc
  BY DEF Publish, Remove, Expire, vars, cacheVars, IRevalidation, IInv, TypeOK, CacheTypes
<1>2. version \in Nat /\ version' \in {version, version + 1}
  BY UpstreamAssumption
     DEF Publish, Remove, Expire, vars, upstreamVars, IRevalidation, IInv, TypeOK, CacheTypes
<1>3. ASSUME NEW b, b \in MaybeBody, b # None, b.ver <= version PROVE b.ver <= version'
  BY <1>2, <1>3, UpstreamAssumption DEF MaybeBody, Bodies
<1>4. ASSUME NEW v, NothingOlder(v) PROVE NothingOlder(v)' /\ NothingOlder(None)'
  BY <1>1, <1>4 DEF NothingOlder, NoOlder
<1>5. CacheFollowsValidator'
  <2>1. PICK v \in {validator, None} : validator' = v
    BY <1>1
  <2>2. NothingOlder(v)'
    BY <1>4, <2>1 DEF IRevalidation, CacheFollowsValidator
  <2>3. NothingOlder(validator)'
    BY <2>1, <2>2 DEF NothingOlder
  <2>4. validator' # None => validator'.ver <= version'
    BY <1>3, <2>1 DEF IRevalidation, CacheFollowsValidator, IInv, TypeOK, CacheTypes
  <2>5. \A f \in Formats \ KeptFormats : fresh'[f] = None /\ stale'[f] = None
    BY <1>1 DEF IRevalidation, CacheFollowsValidator
  <2>6. QED
    BY <2>3, <2>4, <2>5 DEF CacheFollowsValidator, KeptFormats
<1>6. ASSUME NEW q \in Requests PROVE Carries(q)'
  <2>1. Fine(pc[q], loc[q]) /\ loc[q].etag \in MaybeBody
    BY CarriesIsFine DEF IRevalidation, IInv, TypeOK, RequestTypes, Locals
  <2>2. PICK l : l = loc[q]
    OBVIOUS
  <2>3. l.etag # None => l.etag.ver <= version'
    BY <1>3, <2>1, <2>2 DEF Fine
  <2>4. \A b \in {l.body, l.source} :
          /\ b # None => b.fmt \in KeptFormats
          /\ pc[q] \in {"restale", "promote"} => NoOlder(b, l.etag) /\ NoOlder(b, validator')
    BY <1>1, <2>1, <2>2 DEF Fine, NoOlder
  <2>5. pc[q] \in {"fetch", "stale bodies", "restale", "promote"} => NothingOlder(l.etag)'
    <3>1. PICK v : v = l.etag
      OBVIOUS
    <3>2. QED
      BY <1>4, <2>1, <2>2, <3>1 DEF Fine, NothingOlder
  <2>6. pc[q] = "fill" => /\ NoOlder(l.body, validator') /\ l.etag \in {None, l.body}
                          /\ l.body.fmt \in UpstreamFormats
    BY <1>1, <2>1, <2>2 DEF Fine, NoOlder
  <2>7. loc'[q] = l /\ pc'[q] = pc[q]
    BY <1>1, <2>2
  <2>8. QED
    BY <2>3, <2>4, <2>5, <2>6, <2>7 DEF Carries, NothingOlder
<1>7. QED
  BY <1>5, <1>6 DEF Aged, AllCarry

LEMMA StepAges == ASSUME IRevalidation, Uniform, [Next]_vars PROVE Aged'
<1>1. ASSUME NEW r \in Requests, Arrive(r) \/ Handle(r) \/ GetLock(r) PROVE Aged'
  <2>1. CASE Put404(r)
    <3>1. UNCHANGED <<fresh, stale, validator, version>> /\ Answer(r, "not found", None)
      BY <2>1 DEF Put404, upstreamVars
    <3>2. QED
      BY <3>1, AnswerAges
  <2>2. CASE Respond(r)
    BY <2>2, ForgetAges DEF Respond
  <2>3. QED
    BY <1>1, <2>1, <2>2, ReadStepsAge, CommitAges, FetchAges, StaleBodiesAges, RestaleAges,
       PromoteAges, FillAges DEF Handle
<1>2. ASSUME NEW p \in Replicas, Crash(p) PROVE Aged'
  <2>1. Forget({r \in Requests : Home[r] = p})
    BY <1>2 DEF Crash
  <2>2. QED
    BY <2>1, ForgetAges
<1>3. QED
  BY <1>1, <1>2, WorldAges DEF Next

LEMMA AgedAtFirst == Init => Aged
<1> SUFFICES ASSUME Init PROVE Aged
  OBVIOUS
<1>1. CacheFollowsValidator
  BY DEF Init, CacheFollowsValidator, NothingOlder, NoOlder
<1>2. ASSUME NEW r \in Requests PROVE Carries(r)
  <2>1. pc[r] = "idle" /\ loc[r] = NoLocals
    BY DEF Init
  <2>2. QED
    BY <2>1 DEF Carries, NoLocals
<1>3. QED
  BY <1>1, <1>2 DEF Aged, AllCarry

(* On one replica with one format upstream, and clients that are either all *)
(* served as it comes or all served a conversion, a 304 makes nothing fresh *)
(* that is older than the version it confirmed: whatever expires, whenever  *)
(* the replica dies, and also when upstream says 304 to a validator it no   *)
(* longer has.                                                              *)
THEOREM Revalidated == ASSUME Uniform PROVE Spec => RevalidationSound
<1>1. Init => IRevalidation
  BY InitEstablishes, DisciplineAtFirst, AgedAtFirst DEF Aged, AllCarry, IRevalidation
<1>2. IRevalidation /\ [Next]_vars => IRevalidation'
  BY StepPreserves, DisciplineKept, StepAges DEF Aged, AllCarry, IRevalidation, Uniform
<1>3. IRevalidation /\ [Next]_vars =>
        [\A r \in Requests : \A f \in Formats :
            pc[r] = "promote" /\ pc'[r] = "answer" /\ fresh'[f] # fresh[f] /\ loc[r].etag # None
                => fresh'[f].ver >= loc[r].etag.ver]_vars
  <2> SUFFICES ASSUME IRevalidation, Next, NEW r \in Requests, NEW f \in Formats,
                      pc[r] = "promote", pc'[r] = "answer", fresh'[f] # fresh[f],
                      loc[r].etag # None
               PROVE  fresh'[f].ver >= loc[r].etag.ver
    OBVIOUS
  <2>1. Promote(r)
    BY AnsweredByOwnStep DEF IRevalidation, Arrive, Handle, GetLock, EnterSection, Lookup,
       LookupOther, SourceTtl, StaleTtl, Commit, StaleCheck, ReadValidators, Fetch,
       FetchNotModified, FetchFails, FetchNotFound, FetchOk, StaleBodies, Restale, Put404, Fill,
       Respond
  <2>2. fresh'[f] \in {loc[r].body, loc[r].source} /\ fresh'[f] # None
    BY <2>1 DEF Promote, IRevalidation, IInv, TypeOK, RequestTypes
  <2>3. NoOlder(loc[r].body, loc[r].etag) /\ NoOlder(loc[r].source, loc[r].etag)
    BY DEF IRevalidation, Carries
  <2>4. QED
    BY <2>2, <2>3 DEF NoOlder
<1>4. QED
  BY <1>1, <1>2, <1>3, PTL DEF Spec, RevalidationSound

------------------------------------------------------------------------------
(* One upload *)

OfOne(v) == \A f \in Formats : \A b \in {fresh[f], stale[f]} : b # None => b.ver = v

(* A request that revalidates carries bodies of the version that is cached. *)
Bears(r, v) ==
    pc[r] \in {"restale", "promote"} =>
        \A b \in {loc[r].body, loc[r].source} : b # None => b.ver = v
AllOf(v) == OfOne(v) /\ \A r \in Requests : Bears(r, v)
IOneUpload == IRevalidation /\ \E v : AllOf(v)

(* A step of one request, by what it leaves in the cache and carries on.    *)
LEMMA StepOf ==
    ASSUME NEW v, AllOf(v), NEW r \in Requests,
           \A q \in Requests : q # r => pc'[q] = pc[q] /\ loc'[q] = loc[q],
           OfOne(v)', Bears(r, v)'
    PROVE  AllOf(v)'
<1>1. ASSUME NEW q \in Requests PROVE Bears(q, v)'
  BY DEF AllOf, Bears
<1>2. QED
  BY <1>1 DEF AllOf

(* The three ways a step goes on without writing.                           *)
LEMMA GoOnOf ==
    ASSUME IRevalidation, NEW v, AllOf(v), NEW r \in Requests, UNCHANGED <<fresh, stale>>,
           NEW next, NEW locals, GoOn(r, next, locals),
           next \in {"restale", "promote"} =>
                \A b \in {locals.body, locals.source} : b # None => b.ver = v
    PROVE  AllOf(v)'
<1>1. pc'[r] = next /\ loc'[r] = locals
      /\ \A q \in Requests : q # r => pc'[q] = pc[q] /\ loc'[q] = loc[q]
  BY DEF GoOn, IRevalidation, IInv, TypeOK, RequestTypes
<1>2. OfOne(v)' /\ Bears(r, v)'
  BY <1>1 DEF AllOf, OfOne, Bears
<1>3. QED
  BY <1>1, <1>2, StepOf

LEMMA AnswerOf ==
    ASSUME IRevalidation, NEW v, AllOf(v), NEW r \in Requests,
           NEW outcome, NEW b, Answer(r, outcome, b), OfOne(v)'
    PROVE  AllOf(v)'
<1>1. pc'[r] = "answer" /\ \A q \in Requests : q # r => pc'[q] = pc[q] /\ loc'[q] = loc[q]
  BY DEF Answer, IRevalidation, IInv, TypeOK, RequestTypes
<1>2. Bears(r, v)'
  BY <1>1 DEF Bears
<1>3. QED
  BY <1>1, <1>2, StepOf

LEMMA NotServedOf ==
    ASSUME IRevalidation, NEW v, AllOf(v), NEW r \in Requests, UNCHANGED <<fresh, stale>>,
           NotServed(r)
    PROVE  AllOf(v)'
<1>1. PICK next \in {"stale check", "queued"} : GoOn(r, next, NoLocals)
  BY DEF NotServed
<1>2. QED
  BY <1>1, GoOnOf

(* Where a request goes that takes no body to revalidate.                   *)
Elsewhere == {"lookup", "lookup other", "source ttl", "stale ttl", "commit", "stale check",
              "validators", "fetch", "stale bodies", "put 404", "fill"}

(* Steps that neither write a body nor take one to revalidate.              *)
LEMMA ReadStepsOf ==
    ASSUME IRevalidation, NEW v, AllOf(v), NEW r \in Requests,
           \/ Arrive(r) \/ Lookup(r) \/ LookupOther(r) \/ SourceTtl(r) \/ StaleTtl(r) \/ GetLock(r)
           \/ StaleCheck(r) \/ ReadValidators(r) \/ Fetch(r) \/ Put404(r)
    PROVE  AllOf(v)'
<1>1. UNCHANGED <<fresh, stale>> /\ OfOne(v)'
  BY DEF Arrive, Lookup, LookupOther, SourceTtl, StaleTtl, GetLock, EnterSection, StaleCheck,
         ReadValidators, Fetch, FetchNotModified, FetchFails, FetchNotFound, FetchOk, Put404,
         cacheVars, AllOf, OfOne
<1>2. ASSUME NEW next \in Elsewhere, NEW locals, GoOn(r, next, locals)
      PROVE  AllOf(v)'
  BY <1>1, <1>2, GoOnOf DEF Elsewhere
<1>3. ASSUME NEW outcome, NEW b, Answer(r, outcome, b) PROVE AllOf(v)'
  BY <1>1, <1>3, AnswerOf
<1>4. CASE Arrive(r) \/ Lookup(r) \/ GetLock(r)
  BY <1>2, <1>3, <1>4 DEF Arrive, Lookup, GetLock, EnterSection, Elsewhere
<1>5. CASE LookupOther(r)
  BY <1>1, <1>2, <1>3, <1>5, NotServedOf DEF LookupOther, Elsewhere
<1>6. CASE SourceTtl(r) \/ StaleTtl(r)
  BY <1>1, <1>2, <1>6, NotServedOf DEF SourceTtl, StaleTtl, Elsewhere
<1>7. CASE StaleCheck(r) \/ ReadValidators(r)
  BY <1>2, <1>7 DEF StaleCheck, ReadValidators, Elsewhere
<1>8. CASE FetchNotModified(r) \/ FetchFails(r) \/ FetchNotFound(r)
  BY <1>2, <1>3, <1>8 DEF FetchNotModified, FetchFails, FetchNotFound, Elsewhere
<1>9. CASE FetchOk(r) \/ Put404(r)
  BY <1>2, <1>3, <1>9 DEF FetchOk, Put404, Elsewhere
<1>10. QED
  BY <1>4, <1>5, <1>6, <1>7, <1>8, <1>9 DEF Fetch

(* A conversion is of the version of its source, which is in the cache.     *)
LEMMA CommitOf ==
    ASSUME IRevalidation, NEW v, AllOf(v), NEW r \in Requests, Commit(r)
    PROVE  AllOf(v)'
<1>1. CASE NotServed(r) /\ UNCHANGED <<fresh, stale>>
  BY <1>1, NotServedOf
<1>2. CASE fresh[Other(r)] = loc[r].source /\ SynthesisWrites(r)
  <2> DEFINE b == Convert(loc[r].source)
  <2>1. pc[r] = "commit" /\ loc[r].source \in Bodies /\ loc[r].source # None
    BY NoneIsNothingElse DEF Commit, IRevalidation, IInv, TypeOK, RequestTypes, Locals, MaybeBody
  <2>2. b.ver = v
    BY <1>2, <2>1, FormatFacts DEF Convert, Bodies, AllOf, OfOne
  <2>3. /\ fresh' = [fresh EXCEPT ![Want(r)] = b]
        /\ stale' = [stale EXCEPT ![Want(r)] = IF loc[r].keep THEN b ELSE @]
        /\ Answer(r, "synthesized", b)
    BY <1>2 DEF SynthesisWrites
  <2> HIDE DEF b
  <2>4. \A f \in Formats : fresh'[f] \in {b, fresh[f]} /\ stale'[f] \in {b, stale[f]}
    BY <2>3 DEF IRevalidation, IInv, TypeOK, CacheTypes
  <2>5. OfOne(v)'
    BY <2>2, <2>4 DEF AllOf, OfOne
  <2>6. QED
    BY <2>3, <2>5, AnswerOf
<1>3. QED
  BY <1>1, <1>2 DEF Commit

(* What a 304 is answered from is read from the cache, or converted from it. *)
LEMMA StaleBodiesOf ==
    ASSUME IRevalidation, NEW v, AllOf(v), NEW r \in Requests, StaleBodies(r)
    PROVE  AllOf(v)'
<1> DEFINE mine == stale[Want(r)]
           theirs == stale[Other(r)]
<1>1. UNCHANGED <<fresh, stale>> /\ loc[r] \in Locals
  BY DEF StaleBodies, cacheVars, IRevalidation, IInv, TypeOK, RequestTypes
<1>2. /\ mine # None => mine.ver = v
      /\ theirs # None => theirs.ver = v /\ theirs \in Bodies /\ Convert(theirs).ver = v
  BY FormatFacts
     DEF AllOf, OfOne, IRevalidation, IInv, TypeOK, CacheTypes, MaybeBody, Convert, Bodies
<1> HIDE DEF mine, theirs
<1>3. ASSUME NEW next, NEW b, NEW c, NEW k,
             GoOn(r, next, [loc[r] EXCEPT !.body = b, !.source = c, !.key = k]),
             \A d \in {b, c} : d # None => d.ver = v
      PROVE  AllOf(v)'
  <2> DEFINE l == [loc[r] EXCEPT !.body = b, !.source = c, !.key = k]
  <2>1. l.body = b /\ l.source = c
    BY <1>1 DEF Locals
  <2>2. GoOn(r, next, l)
    BY <1>3
  <2> HIDE DEF l
  <2>3. QED
    BY <1>1, <1>3, <2>1, <2>2, GoOnOf
<1>4. CASE GoOn(r, "promote", [loc[r] EXCEPT !.body = mine, !.source = theirs, !.key = Want(r)])
  BY <1>2, <1>3, <1>4
<1>5. CASE GoOn(r, "promote",
                [loc[r] EXCEPT !.body = theirs, !.source = theirs, !.key = Other(r)])
  BY <1>2, <1>3, <1>5
<1>6. CASE /\ theirs # None
           /\ GoOn(r, "restale",
                   [loc[r] EXCEPT !.body = Convert(theirs), !.source = theirs, !.key = Want(r)])
  BY <1>2, <1>3, <1>6
<1>7. CASE GoOn(r, "refetch", NoLocals)
  BY <1>1, <1>7, GoOnOf
<1>8. QED
  BY <1>4, <1>5, <1>6, <1>7 DEF StaleBodies, Usable, mine, theirs

(* What a request carries since the 304 is still of the version cached.     *)
LEMMA RevalidatedOf ==
    ASSUME IRevalidation, NEW v, AllOf(v), NEW r \in Requests, Restale(r) \/ Promote(r)
    PROVE  AllOf(v)'
<1> DEFINE b == loc[r].body
           other == loc[r].source
<1>1. /\ b # None => b.ver = v
      /\ other # None => other.ver = v
  BY DEF Restale, Promote, AllOf, Bears
<1> HIDE DEF b, other
<1>2. CASE Restale(r)
  <2>1. fresh' = fresh /\ stale' = [stale EXCEPT ![Other(r)] = other]
        /\ GoOn(r, "promote", loc[r])
    BY <1>2 DEF Restale, other
  <2>2. \A f \in Formats : stale'[f] \in {other, stale[f]}
    BY <2>1 DEF IRevalidation, IInv, TypeOK, CacheTypes
  <2>3. OfOne(v)'
    BY <1>1, <2>1, <2>2 DEF AllOf, OfOne
  <2>4. pc'[r] = "promote" /\ loc'[r] = loc[r]
        /\ \A q \in Requests : q # r => pc'[q] = pc[q] /\ loc'[q] = loc[q]
    BY <2>1 DEF GoOn, IRevalidation, IInv, TypeOK, RequestTypes
  <2>5. Bears(r, v)'
    BY <1>1, <2>4 DEF Bears, b, other
  <2>6. QED
    BY <2>3, <2>4, <2>5, StepOf
<1>3. CASE Promote(r)
  <2>1. stale' = stale /\ Answer(r, "revalidated", b)
        /\ \A f \in Formats : fresh'[f] \in {b, fresh[f]} \cup ({other} \ {None})
    BY <1>3 DEF Promote, b, other
  <2>2. OfOne(v)'
    BY <1>1, <2>1 DEF AllOf, OfOne
  <2>3. QED
    BY <2>1, <2>2, AnswerOf
<1>4. QED
  BY <1>2, <1>3

(* A fill replaces every copy that is kept, while nobody else revalidates.  *)
LEMMA FillOf ==
    ASSUME IRevalidation, Uniform, NEW r \in Requests, Fill(r)
    PROVE  \E v : AllOf(v)'
<1> DEFINE b == loc[r].body
           c == Convert(b)
<1>1. pc[r] = "fill" /\ b \in Bodies
  BY DEF Fill, IRevalidation, IInv, TypeOK, RequestTypes, Locals, MaybeBody
<1>2. c.ver = b.ver
  BY <1>1 DEF Convert, Bodies
<1>3. \A f \in Formats : fresh'[f] \in {b, c, None} /\ stale'[f] \in {b, c, None}
  <2>1. \A f \in Formats :
          /\ fresh'[f] = IF f = b.fmt THEN b ELSE IF Passthrough(r, b) THEN fresh[f] ELSE c
          /\ stale'[f] = IF f = b.fmt THEN b ELSE IF Passthrough(r, b) THEN stale[f] ELSE c
    BY DEF Fill
  <2>2. \A f \in Formats \ KeptFormats : fresh[f] = None /\ stale[f] = None
    BY DEF IRevalidation, CacheFollowsValidator
  <2>3. \/ Passthrough(r, b) /\ \A f \in KeptFormats : f = b.fmt
        \/ ~Passthrough(r, b) /\ KeptFormats = Formats
    BY <1>1, FilledWhole
  <2> HIDE DEF b, c
  <2>4. QED
    BY <2>1, <2>2, <2>3
<1>4. ASSUME NEW q \in Requests PROVE pc'[q] \notin {"restale", "promote"}
  <2>1. pc' = [pc EXCEPT ![r] = "answer"]
    BY DEF Fill, Answer
  <2>2. CASE q = r
    BY <2>1, <2>2 DEF IRevalidation, IInv, TypeOK, RequestTypes
  <2>3. CASE q # r
    <3>1. pc[q] \notin Upstream /\ pc'[q] = pc[q]
      BY <1>1, <2>1, <2>3, AloneUpstream
         DEF Upstream, IRevalidation, IInv, TypeOK, RequestTypes
    <3>2. QED
      BY <3>1 DEF Upstream
  <2>4. QED
    BY <2>2, <2>3
<1>5. loc' = [loc EXCEPT ![r] = NoLocals]
  BY DEF Fill, Answer
<1>6. PICK v : v = b.ver
  OBVIOUS
<1> HIDE DEF b, c
<1>7. OfOne(v)'
  BY <1>2, <1>3, <1>6 DEF OfOne
<1>8. AllOf(v)'
  BY <1>4, <1>7 DEF AllOf, Bears
<1>9. QED
  BY <1>8

(* Entries that go, and requests that end, leave what is left of one upload. *)
LEMMA GoneOf ==
    ASSUME IRevalidation, NEW v, AllOf(v),
           \/ \E S \in SUBSET Requests : Forget(S)
           \/ Publish \/ Remove \/ Expire \/ UNCHANGED vars
    PROVE  AllOf(v)'
<1>1. /\ \A f \in Formats : fresh'[f] \in {fresh[f], None} /\ stale'[f] \in {stale[f], None}
      /\ \A q \in Requests : pc'[q] = "idle" \/ (pc'[q] = pc[q] /\ loc'[q] = loc[q])
  BY DEF Forget, Publish, Remove, Expire, vars, cacheVars, IRevalidation, IInv, TypeOK, CacheTypes
<1>2. OfOne(v)'
  BY <1>1 DEF AllOf, OfOne
<1>3. ASSUME NEW q \in Requests PROVE Bears(q, v)'
  BY <1>1 DEF AllOf, Bears
<1>4. QED
  BY <1>2, <1>3 DEF AllOf

(* Every step leaves the cache, and what is revalidated, of one upload.     *)
LEMMA StepOfOne == ASSUME IOneUpload, Uniform, [Next]_vars PROVE (\E v : AllOf(v))'
<1>1. PICK v : AllOf(v)
  BY DEF IOneUpload
<1>2. IRevalidation
  BY DEF IOneUpload
<1>3. ASSUME NEW r \in Requests, Arrive(r) \/ Handle(r) \/ GetLock(r) PROVE \E w : AllOf(w)'
  <2>1. CASE Fill(r)
    BY <1>2, <2>1, FillOf
  <2>2. CASE Respond(r)
    BY <1>1, <1>2, <2>2, GoneOf DEF Respond
  <2>3. QED
    BY <1>1, <1>2, <1>3, <2>1, <2>2, ReadStepsOf, CommitOf, StaleBodiesOf, RevalidatedOf DEF Handle
<1>4. ASSUME NEW p \in Replicas, Crash(p) PROVE AllOf(v)'
  <2>1. Forget({r \in Requests : Home[r] = p})
    BY <1>4 DEF Crash
  <2>2. QED
    BY <1>1, <1>2, <2>1, GoneOf
<1>5. CASE Publish \/ Remove \/ Expire \/ UNCHANGED vars
  BY <1>1, <1>2, <1>5, GoneOf
<1>6. QED
  BY <1>3, <1>4, <1>5 DEF Next

(* On one replica with one format upstream, and clients that are either all *)
(* served as it comes or all served a conversion, all that is cached of a   *)
(* project is of one upload, in both formats, fresh and stale, at all times. *)
THEOREM OneUploadKept == ASSUME Uniform PROVE Spec => []OneUpload
<1>1. Init => IOneUpload
  <2>1. ASSUME Init PROVE AllOf(1)
    BY <2>1 DEF Init, AllOf, OfOne, Bears
  <2>2. QED
    BY <2>1, InitEstablishes, DisciplineAtFirst, AgedAtFirst
       DEF Aged, AllCarry, IRevalidation, IOneUpload
<1>2. IOneUpload /\ [Next]_vars => IOneUpload'
  BY StepPreserves, DisciplineKept, StepAges, StepOfOne, Uniform
     DEF Aged, AllCarry, IRevalidation, IOneUpload, Uniform
<1>3. IOneUpload => OneUpload
  <2> SUFFICES ASSUME IOneUpload, NEW f \in Formats, NEW g \in Formats,
                      NEW a \in {fresh[f], stale[f]}, NEW b \in {fresh[g], stale[g]},
                      a # None, b # None
               PROVE  a.ver = b.ver
    BY DEF OneUpload
  <2>1. PICK v : AllOf(v)
    BY DEF IOneUpload
  <2>2. a.ver = v /\ b.ver = v
    BY <2>1 DEF AllOf, OfOne
  <2>3. QED
    BY <2>2
<1>4. QED
  BY <1>1, <1>2, <1>3, PTL DEF Spec
==============================================================================
