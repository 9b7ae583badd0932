---------------------------- MODULE SimpleProject ----------------------------
(***************************************************************************)
(* app/simple_project.py: GET /simple/{project}/ for one project, served   *)
(* by several replicas that share one cache, with background metadata off  *)
(* (its default).                                                          *)
(*                                                                         *)
(* The code between two awaits is one action, together with the cache      *)
(* operation or the upstream request it awaits; everything else that       *)
(* happens in the world may come in between: other requests, entries that  *)
(* expire or are evicted, uploads to the index, the death of a replica.    *)
(*                                                                         *)
(* A body is the version of the project it shows, the format it is written *)
(* in, and who wrote it: converted back and forth it says the same as the  *)
(* original in other bytes.  ETag and Last-Modified are one validator,     *)
(* which names the body they came with.  The per-key lock is the section   *)
(* that SingleFlight specifies and KeyLocker implements: a request is in   *)
(* it while it is in its second pass.                                      *)
(***************************************************************************)
EXTENDS Naturals

CONSTANTS
    Requests,               \* slots for requests in flight
    Replicas,               \* processes of the proxy
    Home,                   \* Home[r]: the replica that serves request r
    Kinds,                  \* what clients accept: "json", "html" or "both"
    UpstreamFormats,        \* the formats upstream answers in
    MaxVersion,             \* bound: versions of the project upstream shows
    Malformed,              \* versions whose JSON body is not a project
    RewriteArtifactUrls,    \* settings.rewrite_artifact_urls
    World,                  \* what else may happen, a subset of WorldMoves
    None

Formats == {"json", "html"}
WorldMoves == {"expire", "remove", "crash", "no validator", "stray 304"}

ASSUME HomeAssumption == Home \in [Requests -> Replicas]
ASSUME KindsAssumption == Kinds \subseteq {"json", "html", "both"}
ASSUME UpstreamAssumption ==
    /\ UpstreamFormats \subseteq Formats
    /\ MaxVersion \in Nat \ {0}
ASSUME SettingAssumption == RewriteArtifactUrls \in BOOLEAN

Bodies == [ver : 1..MaxVersion, fmt : Formats, by : {"upstream", "proxy"}]
MaybeBody == Bodies \cup {None}
Outcomes == {"hit", "synthesized", "revalidated", "miss", "not found",
             "upstream error", "no stale", "failed"}
Replies == [outcome : Outcomes, body : MaybeBody]
ASSUME NoneIsNothingElse == None \notin Bodies /\ None \notin Replies /\ None \notin Kinds

VARIABLES
    fresh,      \* simple:{project}:{format}
    stale,      \* simple:{project}:{format}:stale
    validator,  \* simple:{project}:etag and :lastmod
    notFound,   \* simple:{project}:404
    version,    \* the version upstream has
    listed,     \* whether upstream has the project
    pc,         \* what a request does next, "idle" for a free slot
    kind,       \* what its client accepts
    filling,    \* TRUE in the second pass, under the lock
    loc,        \* the locals of its handler that are still of use
    reply       \* what its client gets

cacheVars == <<fresh, stale, validator, notFound>>
upstreamVars == <<version, listed>>
vars == <<fresh, stale, validator, notFound, version, listed, pc, kind, filling, loc, reply>>

Locations == {"idle", "lookup", "lookup other", "source ttl", "stale ttl", "commit",
              "queued", "stale check", "validators", "fetch", "stale bodies", "refetch",
              "restale", "promote", "put 404", "fill", "answer"}

(* etag: the validator sent, then the one upstream answered with; body: the *)
(* body about to be written or sent; source: the body in the other format   *)
(* that was read; keep: whether synthesis also writes the stale copy; key:  *)
(* the format of response_cache_key, under which a 304 makes body fresh.    *)
NoLocals == [etag |-> None, body |-> None, source |-> None, keep |-> FALSE, key |-> None]

Init ==
    /\ fresh = [f \in Formats |-> None]
    /\ stale = [f \in Formats |-> None]
    /\ validator = None
    /\ notFound = FALSE
    /\ version = 1
    /\ listed = TRUE
    /\ pc = [r \in Requests |-> "idle"]
    /\ kind = [r \in Requests |-> None]
    /\ filling = [r \in Requests |-> FALSE]
    /\ loc = [r \in Requests |-> NoLocals]
    /\ reply = [r \in Requests |-> None]

------------------------------------------------------------------------------
(* What a request wants, and the conversions between formats. *)

Opposite(f) == IF f = "json" THEN "html" ELSE "json"
Want(r)  == IF kind[r] = "html" THEN "html" ELSE "json"
Other(r) == Opposite(Want(r))

(* parse_simple_html takes any text, parse_simple_json raises on some.     *)
Parses(b) == ~(b.fmt = "json" /\ b.ver \in Malformed)
Convert(b) == [b EXCEPT !.fmt = Opposite(@), !.by = "proxy"]

(* A body in the other format serves as it is, or once it is converted.    *)
Usable(r, b) == b # None /\ (kind[r] = "both" \/ Parses(b))

GoOn(r, next, locals) ==
    /\ pc' = [pc EXCEPT ![r] = next]
    /\ loc' = [loc EXCEPT ![r] = locals]
    /\ UNCHANGED reply

(* The request has its answer, and with it left the lock. *)
Answer(r, outcome, b) ==
    /\ pc' = [pc EXCEPT ![r] = "answer"]
    /\ loc' = [loc EXCEPT ![r] = NoLocals]
    /\ reply' = [reply EXCEPT ![r] = [outcome |-> outcome, body |-> b]]

(* _try_serve_from_cache returned None: wait for the lock, or, under it,   *)
(* turn to upstream.                                                       *)
NotServed(r) == GoOn(r, IF filling[r] THEN "stale check" ELSE "queued", NoLocals)

------------------------------------------------------------------------------
(* _try_serve_from_cache *)

Arrive(r) ==
    /\ pc[r] = "idle"
    /\ \E k \in Kinds : kind' = [kind EXCEPT ![r] = k]
    /\ GoOn(r, "lookup", NoLocals)
    /\ UNCHANGED <<cacheVars, upstreamVars, filling>>

(* get_many([404, cache_key]): one round trip, the negative entry first. *)
Lookup(r) ==
    /\ pc[r] = "lookup"
    /\ \/ notFound /\ Answer(r, "not found", None)
       \/ ~notFound /\ fresh[Want(r)] # None /\ Answer(r, "hit", fresh[Want(r)])
       \/ ~notFound /\ fresh[Want(r)] = None /\ GoOn(r, "lookup other", NoLocals)
    /\ UNCHANGED <<cacheVars, upstreamVars, kind, filling>>

(* The opposite format: good enough as it is, or to be converted. *)
LookupOther(r) ==
    LET b == fresh[Other(r)] IN
    /\ pc[r] = "lookup other"
    /\ \/ ~Usable(r, b) /\ NotServed(r)
       \/ Usable(r, b) /\ kind[r] = "both" /\ Answer(r, "hit", b)
       \/ /\ Usable(r, b) /\ kind[r] # "both"
          /\ GoOn(r, "source ttl", [NoLocals EXCEPT !.source = b])
    /\ UNCHANGED <<cacheVars, upstreamVars, kind, filling>>

(* ttl() is None for a missing key and for one in its last second. *)
SourceTtl(r) ==
    /\ pc[r] = "source ttl"
    /\ \/ (fresh[Other(r)] = None \/ "expire" \in World) /\ NotServed(r)
       \/ fresh[Other(r)] # None /\ GoOn(r, "stale ttl", loc[r])
    /\ UNCHANGED <<cacheVars, upstreamVars, kind, filling>>

StaleTtl(r) ==
    /\ pc[r] = "stale ttl"
    /\ \E keep \in {FALSE, stale[Other(r)] # None} :
        GoOn(r, "commit", [loc[r] EXCEPT !.keep = keep])
    /\ UNCHANGED <<cacheVars, upstreamVars, kind, filling>>

(* setex_many_if_unchanged({other_key: other_cached}, ...) *)
SynthesisWrites(r) ==
    /\ fresh' = [fresh EXCEPT ![Want(r)] = Convert(loc[r].source)]
    /\ stale' = [stale EXCEPT ![Want(r)] = IF loc[r].keep THEN Convert(loc[r].source) ELSE @]
    /\ Answer(r, "synthesized", Convert(loc[r].source))

(* Variant: a plain setex_many, whatever became of the source meanwhile.   *)
CommitBlindly(r) ==
    /\ pc[r] = "commit"
    /\ SynthesisWrites(r)
    /\ UNCHANGED <<validator, notFound, upstreamVars, kind, filling>>

Commit(r) ==
    /\ pc[r] = "commit"
    /\ \/ fresh[Other(r)] = loc[r].source /\ SynthesisWrites(r)
       \/ fresh[Other(r)] # loc[r].source /\ NotServed(r) /\ UNCHANGED <<fresh, stale>>
    /\ UNCHANGED <<validator, notFound, upstreamVars, kind, filling>>

------------------------------------------------------------------------------
(* miss_locks.hold(...): the second pass, one request of a replica at a time *)

LockIsFree(p) == \A q \in Requests : ~(Home[q] = p /\ filling[q] /\ pc[q] # "answer")

EnterSection(r, next) ==
    /\ pc[r] = "queued"
    /\ LockIsFree(Home[r])
    /\ filling' = [filling EXCEPT ![r] = TRUE]
    /\ GoOn(r, next, NoLocals)
    /\ UNCHANGED <<cacheVars, upstreamVars, kind>>

(* Variant: no second look at the cache under the lock. *)
GetLockAndFetch(r) == EnterSection(r, "stale check")

GetLock(r) == EnterSection(r, "lookup")

------------------------------------------------------------------------------
(* The upstream request *)

(* exists_any: validators are of use only while a stale body survives. *)
StaleCheck(r) ==
    /\ pc[r] = "stale check"
    /\ GoOn(r, IF \E f \in Formats : stale[f] # None THEN "validators" ELSE "fetch", NoLocals)
    /\ UNCHANGED <<cacheVars, upstreamVars, kind, filling>>

ReadValidators(r) ==
    /\ pc[r] = "validators"
    /\ GoOn(r, "fetch", [NoLocals EXCEPT !.etag = validator])
    /\ UNCHANGED <<cacheVars, upstreamVars, kind, filling>>

(* An upstream that follows HTTP answers 304 only to the validator of the  *)
(* very representation it would send now.                                  *)
Matches(v) == listed /\ v # None /\ v.ver = version /\ v.fmt \in UpstreamFormats

(* 304 to the conditional request; to the unconditional one it is an error. *)
FetchNotModified(r) ==
    /\ \/ /\ pc[r] = "fetch"
          /\ Matches(loc[r].etag) \/ "stray 304" \in World
          /\ GoOn(r, "stale bodies", loc[r])
       \/ /\ pc[r] = "refetch"
          /\ "stray 304" \in World
          /\ Answer(r, "no stale", None)
    /\ UNCHANGED <<cacheVars, upstreamVars, kind, filling>>

(* httpx.HTTPError, or a status that is passed on as it is. *)
FetchFails(r) ==
    /\ pc[r] \in {"fetch", "refetch"}
    /\ Answer(r, "upstream error", None)
    /\ UNCHANGED <<cacheVars, upstreamVars, kind, filling>>

FetchNotFound(r) ==
    /\ pc[r] \in {"fetch", "refetch"}
    /\ ~listed
    /\ GoOn(r, "put 404", NoLocals)
    /\ UNCHANGED <<cacheVars, upstreamVars, kind, filling>>

(* Whether the answer can be stored and sent as it is. *)
Passthrough(r, b) == b.fmt = Want(r) \/ (b.fmt = "html" /\ kind[r] # "json")

(* A passthrough only parses JSON to rewrite its URLs, a conversion always  *)
(* does, and neither catches the ValueError.                                *)
Raises(r, b) == ~Parses(b) /\ (RewriteArtifactUrls \/ ~Passthrough(r, b))

FetchOk(r) ==
    /\ pc[r] \in {"fetch", "refetch"}
    /\ listed
    /\ \E f \in UpstreamFormats :
        LET b == [ver |-> version, fmt |-> f, by |-> "upstream"]
            validators == IF "no validator" \in World THEN {None, b} ELSE {b}
        IN
        \/ Raises(r, b) /\ Answer(r, "failed", None)
        \/ /\ ~Raises(r, b)
           /\ \E v \in validators :
                GoOn(r, "fill", [NoLocals EXCEPT !.etag = v, !.body = b])
    /\ UNCHANGED <<cacheVars, upstreamVars, kind, filling>>

------------------------------------------------------------------------------
(* 304: revalidate the stale body *)

(* Variant: the conditional request is repeated as it was.                  *)
StaleBodiesOrAgain(r) ==
    LET mine == stale[Want(r)] theirs == stale[Other(r)] IN
    /\ pc[r] = "stale bodies"
    /\ \/ /\ mine # None
          /\ GoOn(r, "promote", [loc[r] EXCEPT !.body = mine, !.source = theirs, !.key = Want(r)])
       \/ mine = None /\ GoOn(r, "fetch", loc[r])
    /\ UNCHANGED <<cacheVars, upstreamVars, kind, filling>>

(* Variant: response_cache_key stays what the client asked for.             *)
StaleBodiesUnderWanted(r) ==
    LET mine == stale[Want(r)] theirs == stale[Other(r)] IN
    /\ pc[r] = "stale bodies"
    /\ \/ /\ mine # None
          /\ GoOn(r, "promote", [loc[r] EXCEPT !.body = mine, !.source = theirs, !.key = Want(r)])
       \/ /\ mine = None /\ Usable(r, theirs) /\ kind[r] = "both"
          /\ GoOn(r, "promote",
                  [loc[r] EXCEPT !.body = theirs, !.source = theirs, !.key = Want(r)])
       \/ /\ mine = None /\ Usable(r, theirs) /\ kind[r] # "both"
          /\ GoOn(r, "restale",
                  [loc[r] EXCEPT !.body = Convert(theirs), !.source = theirs, !.key = Want(r)])
       \/ /\ mine = None /\ ~Usable(r, theirs)
          /\ GoOn(r, "refetch", NoLocals)
    /\ UNCHANGED <<cacheVars, upstreamVars, kind, filling>>

StaleBodies(r) ==
    LET mine == stale[Want(r)] theirs == stale[Other(r)] IN
    /\ pc[r] = "stale bodies"
    /\ \/ /\ mine # None
          /\ GoOn(r, "promote", [loc[r] EXCEPT !.body = mine, !.source = theirs, !.key = Want(r)])
       \/ /\ mine = None /\ Usable(r, theirs) /\ kind[r] = "both"
          /\ GoOn(r, "promote",
                  [loc[r] EXCEPT !.body = theirs, !.source = theirs, !.key = Other(r)])
       \/ /\ mine = None /\ Usable(r, theirs) /\ kind[r] # "both"
          /\ GoOn(r, "restale",
                  [loc[r] EXCEPT !.body = Convert(theirs), !.source = theirs, !.key = Want(r)])
       \/ /\ mine = None /\ ~Usable(r, theirs)
          /\ GoOn(r, "refetch", NoLocals)
    /\ UNCHANGED <<cacheVars, upstreamVars, kind, filling>>

(* setex(other_key:stale, other_stale): writes back what it read. *)
Restale(r) ==
    /\ pc[r] = "restale"
    /\ stale' = [stale EXCEPT ![Other(r)] = loc[r].source]
    /\ GoOn(r, "promote", loc[r])
    /\ UNCHANGED <<fresh, validator, notFound, upstreamVars, kind, filling>>

StoreValidator(v) == validator' = IF v # None THEN v ELSE validator

(* setex_many(refreshed_values): the body answered with under its key, the *)
(* validator sent, and the other format's stale body when there was one,   *)
(* unless that is the body answered with.                                  *)
Promote(r) ==
    LET l == loc[r] IN
    /\ pc[r] = "promote"
    /\ fresh' = [f \in Formats |-> IF f = l.key THEN l.body
                                   ELSE IF f = Other(r) /\ l.source # None THEN l.source
                                   ELSE fresh[f]]
    /\ StoreValidator(l.etag)
    /\ Answer(r, "revalidated", l.body)
    /\ UNCHANGED <<stale, notFound, upstreamVars, kind, filling>>

------------------------------------------------------------------------------
(* 404 and 200: store what upstream said *)

Put404(r) ==
    /\ pc[r] = "put 404"
    /\ notFound' = TRUE
    /\ Answer(r, "not found", None)
    /\ UNCHANGED <<fresh, stale, validator, upstreamVars, kind, filling>>

(* Variant: a stale copy that is there stays, next to the new validator. *)
FillKeepingStale(r) ==
    LET b == loc[r].body
        asItCame == Passthrough(r, b)
        put(entries) == [f \in Formats |-> IF f = b.fmt THEN b
                                           ELSE IF asItCame THEN entries[f] ELSE Convert(b)]
    IN
    /\ pc[r] = "fill"
    /\ StoreValidator(loc[r].etag)
    /\ fresh' = put(fresh)
    /\ stale' = [f \in Formats |-> IF stale[f] # None THEN stale[f] ELSE put(stale)[f]]
    /\ Answer(r, "miss", IF asItCame THEN b ELSE Convert(b))
    /\ UNCHANGED <<notFound, upstreamVars, kind, filling>>

(* Variant: the answer is stored under the key the client asked for. *)
FillUnderWanted(r) ==
    LET b == loc[r].body IN
    /\ pc[r] = "fill"
    /\ StoreValidator(loc[r].etag)
    /\ fresh' = [fresh EXCEPT ![Want(r)] = b]
    /\ stale' = [stale EXCEPT ![Want(r)] = b]
    /\ Answer(r, "miss", b)
    /\ UNCHANGED <<notFound, upstreamVars, kind, filling>>

(* One setex_many: the validators, and fresh and stale copies of the body  *)
(* as it came or in both formats.                                          *)
Fill(r) ==
    LET b == loc[r].body
        asItCame == Passthrough(r, b)
        put(entries) == [f \in Formats |-> IF f = b.fmt THEN b
                                           ELSE IF asItCame THEN entries[f] ELSE Convert(b)]
    IN
    /\ pc[r] = "fill"
    /\ StoreValidator(loc[r].etag)
    /\ fresh' = put(fresh)
    /\ stale' = put(stale)
    /\ Answer(r, "miss", IF asItCame THEN b ELSE Convert(b))
    /\ UNCHANGED <<notFound, upstreamVars, kind, filling>>

------------------------------------------------------------------------------
(* The end of a request, and the world around it *)

Forget(S) ==
    /\ pc' = [r \in Requests |-> IF r \in S THEN "idle" ELSE pc[r]]
    /\ kind' = [r \in Requests |-> IF r \in S THEN None ELSE kind[r]]
    /\ filling' = [r \in Requests |-> IF r \in S THEN FALSE ELSE filling[r]]
    /\ loc' = [r \in Requests |-> IF r \in S THEN NoLocals ELSE loc[r]]
    /\ reply' = [r \in Requests |-> IF r \in S THEN None ELSE reply[r]]
    /\ UNCHANGED <<cacheVars, upstreamVars>>

Respond(r) == pc[r] = "answer" /\ Forget({r})

(* A replica dies and is started again: its requests are gone, the shared  *)
(* cache is as they left it.                                               *)
Crash(p) ==
    /\ "crash" \in World
    /\ \E r \in Requests : Home[r] = p /\ pc[r] # "idle"
    /\ Forget({r \in Requests : Home[r] = p})

Publish ==
    /\ version < MaxVersion
    /\ version' = version + 1
    /\ UNCHANGED <<cacheVars, listed, pc, kind, filling, loc, reply>>

Remove ==
    /\ "remove" \in World
    /\ listed' = ~listed
    /\ UNCHANGED <<cacheVars, version, pc, kind, filling, loc, reply>>

(* A TTL runs out, or Redis evicts: one entry at a time, in any order. *)
Expire ==
    /\ "expire" \in World
    /\ \/ \E f \in Formats :
            \/ /\ fresh[f] # None
               /\ fresh' = [fresh EXCEPT ![f] = None]
               /\ UNCHANGED <<stale, validator, notFound>>
            \/ /\ stale[f] # None
               /\ stale' = [stale EXCEPT ![f] = None]
               /\ UNCHANGED <<fresh, validator, notFound>>
       \/ /\ validator # None
          /\ validator' = None
          /\ UNCHANGED <<fresh, stale, notFound>>
       \/ /\ notFound
          /\ notFound' = FALSE
          /\ UNCHANGED <<fresh, stale, validator>>
    /\ UNCHANGED <<upstreamVars, pc, kind, filling, loc, reply>>

------------------------------------------------------------------------------

Fetch(r) == FetchNotModified(r) \/ FetchFails(r) \/ FetchNotFound(r) \/ FetchOk(r)

Handle(r) ==
    \/ Lookup(r) \/ LookupOther(r) \/ SourceTtl(r) \/ StaleTtl(r) \/ Commit(r)
    \/ StaleCheck(r) \/ ReadValidators(r) \/ Fetch(r)
    \/ StaleBodies(r) \/ Restale(r) \/ Promote(r)
    \/ Put404(r) \/ Fill(r) \/ Respond(r)

Next ==
    \/ \E r \in Requests : Arrive(r) \/ Handle(r) \/ GetLock(r)
    \/ \E p \in Replicas : Crash(p)
    \/ Publish
    \/ Remove
    \/ Expire

(* Every await of the handler ends, by an answer or by a timeout.  The     *)
(* lock is handed on in the order of arrival (KeyLocker's NoOvertaking and *)
(* EveryWaiterMovesOn), so a waiter is not passed over for ever.           *)
Fairness == \A r \in Requests : WF_vars(Handle(r)) /\ SF_vars(GetLock(r))

Spec == Init /\ [][Next]_vars
FairSpec == Spec /\ Fairness

------------------------------------------------------------------------------
(* Properties *)

Locals == [etag : MaybeBody, body : MaybeBody, source : MaybeBody, keep : BOOLEAN,
           key : Formats \cup {None}]

CacheTypes ==
    /\ fresh \in [Formats -> MaybeBody]
    /\ stale \in [Formats -> MaybeBody]
    /\ validator \in MaybeBody
    /\ notFound \in BOOLEAN
    /\ version \in 1..MaxVersion
    /\ listed \in BOOLEAN

RequestTypes ==
    /\ pc \in [Requests -> Locations]
    /\ kind \in [Requests -> Kinds \cup {None}]
    /\ filling \in [Requests -> BOOLEAN]
    /\ loc \in [Requests -> Locals]
    /\ reply \in [Requests -> Replies \cup {None}]
    /\ \A r \in Requests :
        /\ kind[r] = None <=> pc[r] = "idle"
        /\ reply[r] = None <=> pc[r] # "answer"
        /\ pc[r] \in {"source ttl", "stale ttl", "commit", "restale"} => loc[r].source # None
        /\ pc[r] \in {"restale", "promote", "fill"} => loc[r].body # None
        /\ pc[r] \in {"restale", "promote"} => loc[r].key \in Formats

TypeOK == CacheTypes /\ RequestTypes

(* Nobody gets a representation the Accept header rules out: a client that  *)
(* takes only JSON never gets HTML, however the entry under a key came to   *)
(* be there (fill, conversion, promotion of the other format).              *)
AcceptableReply ==
    \A r \in Requests : reply[r] # None /\ reply[r].body # None =>
        reply[r].body.fmt = Want(r) \/ kind[r] = "both"

(* The format a key names is the format of what is stored under it.         *)
StoredAsNamed ==
    \A f \in Formats :
        /\ fresh[f] # None => fresh[f].fmt = f
        /\ stale[f] # None => stale[f].fmt = f

(* Why it holds: what a handler carries from one await to the next is in    *)
(* the format its next step takes it for.                                   *)
LocalsFit ==
    \A r \in Requests :
        /\ loc[r].source # None => loc[r].source.fmt = Other(r)
        /\ pc[r] \in {"restale", "promote"} =>
            loc[r].body.fmt = loc[r].key /\ (loc[r].key = Want(r) \/ kind[r] = "both")
IInv == TypeOK /\ StoredAsNamed /\ LocalsFit /\ AcceptableReply

(* A conversion is only published next to the entry it was made from: when  *)
(* the source was refilled or lost in between, the result is dropped        *)
(* ("Commit only if it is still the exact body we converted").              *)
NoOutdatedSynthesis ==
    [][\A r \in Requests : \A f \in Formats :
        pc[r] = "commit" /\ pc'[r] = "answer" /\ fresh'[f] # fresh[f] =>
            fresh[Opposite(f)] # None /\ fresh'[f].ver = fresh[Opposite(f)].ver]_vars

(* What a 304 makes fresh again is no older than the version the 304        *)
(* confirmed, in both formats.                                              *)
RevalidationSound ==
    [][\A r \in Requests : \A f \in Formats :
        pc[r] = "promote" /\ pc'[r] = "answer" /\ fresh'[f] # fresh[f] /\ loc[r].etag # None
            => fresh'[f].ver >= loc[r].etag.ver]_vars

(* All that is cached of a project is of one upload, in either format,      *)
(* fresh or stale: so a 304 may speak for both formats, and nobody is sent  *)
(* back to an older page, whatever was converted, promoted, stored again or *)
(* cut short by a crash.  It takes one replica, whose lock orders fills,    *)
(* and fills that replace every copy that is kept.                          *)
OneUpload ==
    \A f, g \in Formats : \A a \in {fresh[f], stale[f]}, b \in {fresh[g], stale[g]} :
        a # None /\ b # None => a.ver = b.ver

(* While entries live, nobody goes upstream past one: requests that missed  *)
(* before the first fill look again under the lock, so a stampede on one    *)
(* replica is one fetch ("so a stampede collapses to a single upstream       *)
(* fetch").  It takes that conversions go in one direction only.            *)
StampedeCollapses ==
    \A r \in Requests : pc[r] \in {"fetch", "fill"} => \A f \in Formats : fresh[f] = None

(* Why it holds while nothing expires: one request of a replica is under    *)
(* the lock, and what it has seen in the cache, or not seen, is still so.   *)
UnderLock(r) == filling[r] /\ pc[r] # "answer"
OneUnderLock ==
    \A q, r \in Requests : Home[q] = Home[r] /\ UnderLock(q) /\ UnderLock(r) => q = r
Converting == {"source ttl", "stale ttl", "commit"}
Upstream == {"stale check", "validators", "fetch", "stale bodies", "refetch", "restale",
             "promote", "put 404", "fill"}
Disciplined(r) ==
    /\ pc[r] \in {"idle", "queued"} => ~filling[r]
    /\ pc[r] \in Converting => kind[r] # "both"
    /\ pc[r] \in Upstream => filling[r]
LockDiscipline == OneUnderLock /\ \A r \in Requests : Disciplined(r)
Seen(r) ==
    /\ pc[r] \in Upstream => \A f \in Formats : fresh[f] = None
    /\ pc[r] = "lookup other" /\ filling[r] => fresh[Other(r)] # None \/ fresh[Want(r)] = None
    /\ pc[r] \in Converting /\ filling[r] => fresh[Other(r)] = loc[r].source
SeenUnderLock == \A r \in Requests : Seen(r)
IStampede == IInv /\ LockDiscipline /\ SeenUnderLock

(* Why a 304 is sound on one replica, for clients of one kind and upstream  *)
(* in one format: nothing in the cache is older than the validator, or than *)
(* the one a request under the lock has sent, and pages are either kept in  *)
(* one format or filled in both.                                            *)
KeptFormats ==
    IF \A k \in Kinds, f \in UpstreamFormats : k \in {"both", f} THEN UpstreamFormats ELSE Formats
NoOlder(b, v) == b # None /\ v # None => b.ver >= v.ver
NothingOlder(v) == \A f \in Formats : NoOlder(fresh[f], v) /\ NoOlder(stale[f], v)
CacheFollowsValidator ==
    /\ NothingOlder(validator)
    /\ validator # None => validator.ver <= version
    /\ \A f \in Formats \ KeptFormats : fresh[f] = None /\ stale[f] = None
Carries(r) ==
    LET l == loc[r] IN
    /\ l.etag # None => l.etag.ver <= version
    /\ \A b \in {l.body, l.source} :
        /\ b # None => b.fmt \in KeptFormats
        /\ pc[r] \in {"restale", "promote"} => NoOlder(b, l.etag) /\ NoOlder(b, validator)
    /\ pc[r] \in {"fetch", "stale bodies", "restale", "promote"} => NothingOlder(l.etag)
    /\ pc[r] = "fill" => /\ NoOlder(l.body, validator) /\ l.etag \in {None, l.body}
                         /\ l.body.fmt \in UpstreamFormats
IRevalidation ==
    /\ IInv
    /\ LockDiscipline
    /\ CacheFollowsValidator
    /\ \A r \in Requests : Carries(r)

(* Every request is answered, and with that the lock is released on every   *)
(* way out of the handler.                                                  *)
EveryRequestAnswered == \A r \in Requests : pc[r] # "idle" ~> pc[r] = "idle"

(* The lock as the handler uses it, one section on each replica: a request  *)
(* asks when it was not served, and lets go when it has its answer.  This   *)
(* is SingleFlight as long as no process dies with requests in it.          *)
Waiting == [p \in Replicas |-> {r \in Requests : Home[r] = p /\ pc[r] = "queued"}]
Inside == [p \in Replicas |-> {r \in Requests : Home[r] = p /\ UnderLock(r)}]
Section == INSTANCE SingleFlight WITH
    Tasks <- Requests, Keys <- Replicas, asking <- Waiting, holding <- Inside
UsesSingleFlight == Section!Spec
==============================================================================
