------------------------------ MODULE Enrichment ------------------------------
(***************************************************************************)
(* app/metadata.py: what background enrichment does to the cached page of  *)
(* one project in one format, against the requests that fill, convert,     *)
(* revalidate and serve that page (app/simple_project.py), on several      *)
(* processes that share the cache.                                         *)
(*                                                                         *)
(* A body is the version of the project it shows and the wheels it         *)
(* advertises metadata for; its digest is the body itself.  Jobs are       *)
(* started by requests, read the cache, spend a while on probes, and       *)
(* commit with a compare-and-set: the body that was enriched may have      *)
(* expired, been refilled or been enriched by another process meanwhile.   *)
(* Idle gates, permits and shutdown are the subject of BackgroundTasks;    *)
(* here a job may simply take its time.                                    *)
(***************************************************************************)
EXTENDS Naturals, FiniteSets

CONSTANTS
    Requests,       \* slots for requests in flight
    Jobs,           \* slots for background tasks
    Processes,      \* replicas of the proxy
    Home,           \* Home[x]: the process a request or a job runs in
    MaxVersion,     \* bound: versions of the project upstream shows
    WheelsOf,       \* WheelsOf[v]: the wheels of version v, a larger one newer
    Extractable,    \* wheels listed with a sha256 (_can_extract)
    Limit,          \* settings.metadata_max_extract_files_per_project
    World,          \* what else may happen, a subset of WorldMoves
    None

Versions == 1..MaxVersion
Wheels == UNION {WheelsOf[v] : v \in Versions}
WorldMoves == {"expire", "crash", "job fails", "conversion", "upload", "calm"}

ASSUME HomeAssumption == Home \in [Requests \cup Jobs -> Processes]
ASSUME VersionsAssumption ==
    /\ MaxVersion \in Nat \ {0}
    /\ WheelsOf \in [Versions -> SUBSET Nat]
    /\ \A v \in Versions : IsFiniteSet(WheelsOf[v])
ASSUME LimitAssumption == Limit \in Nat
ASSUME SlotsAssumption == Requests \cap Jobs = {}

Bodies == {b \in [ver : Versions, adv : SUBSET Wheels] : b.adv \subseteq WheelsOf[b.ver]}
MaybeBody == Bodies \cup {None}
ASSUME NoneAssumption == None \notin Bodies

VARIABLES
    fresh,      \* simple:{project}:{format}
    stale,      \* simple:{project}:{format}:stale
    discovered, \* ...:metadata-discovered, the digest of a body
    ready,      \* ...:metadata-ready, the digest of a body
    version,    \* the version upstream shows
    calm,       \* nothing gets lost or fails any more
    pc,         \* what a request or a job does next, "free" for a free slot
    held,       \* the body it works on
    phase,      \* of a job: "discovery" or "extraction"
    found,      \* of a job: the wheels its result advertises
    bound,      \* of a job: the key its commit is bound to
    tried       \* history: wheels whose extraction was attempted

cacheVars == <<fresh, stale, discovered, ready>>
worldVars == <<version, calm>>
taskVars == <<pc, held, phase, found, bound>>
vars == <<fresh, stale, discovered, ready, version, calm, pc, held, phase, found,
          bound, tried>>

Slots == Requests \cup Jobs

Init ==
    /\ fresh = None /\ stale = None /\ discovered = None /\ ready = None
    /\ version = 1 /\ calm = FALSE
    /\ pc = [x \in Slots |-> "free"]
    /\ held = [x \in Slots |-> None]
    /\ phase = [j \in Jobs |-> None]
    /\ found = [j \in Jobs |-> {}]
    /\ bound = [j \in Jobs |-> None]
    /\ tried = {}

------------------------------------------------------------------------------
(* Bodies *)

Plain(v) == [ver |-> v, adv |-> {}]
Missing(b) == WheelsOf[b.ver] \ b.adv

(* Variant: chosen from what upstream lists by now, not from the body.      *)
CandidatesNow(b) ==
    LET missing == WheelsOf[version] \ b.adv IN
    {f \in missing : Cardinality({g \in missing : g > f}) < Limit}

(* _extraction_candidate_indexes: the newest wheels missing metadata.      *)
Candidates(b) == {f \in Missing(b) : Cardinality({g \in Missing(b) : g > f}) < Limit}

(* _advertise_metadata *)
Advertise(b, wheels) == [b EXCEPT !.adv = @ \cup wheels]

------------------------------------------------------------------------------
(* Scheduling.  A request or a job that schedules ends with it, as slot x.  *)

LiveJob(p, kind) == {j \in Jobs : Home[j] = p /\ pc[j] # "free" /\ phase[j] = kind}

Ends(x) ==
    /\ pc' = [pc EXCEPT ![x] = "free"]
    /\ held' = [held EXCEPT ![x] = None]

EndsJob(j) ==
    /\ Ends(j)
    /\ phase' = [phase EXCEPT ![j] = None]
    /\ found' = [found EXCEPT ![j] = {}]
    /\ bound' = [bound EXCEPT ![j] = None]

EndsRequest(r) == Ends(r) /\ UNCHANGED <<phase, found, bound>>

EndsSlot(x) == IF x \in Jobs THEN EndsJob(x) ELSE EndsRequest(x)

(* The new task takes a free slot of the process; the queue is full when    *)
(* there is none, and the work is dropped.                                  *)
Spawn(x, kind, b) ==
    LET slots == {j \in Jobs : Home[j] = Home[x] /\ pc[j] = "free"} IN
    IF slots = {} THEN EndsSlot(x)
    ELSE \E j \in slots :
        /\ pc' = [pc EXCEPT ![x] = "free", ![j] = "start"]
        /\ held' = [held EXCEPT ![x] = None, ![j] = b]
        /\ phase' = [i \in Jobs |-> IF i = j THEN kind ELSE IF i = x THEN None ELSE phase[i]]
        /\ found' = [i \in Jobs |-> IF i = x THEN {} ELSE found[i]]
        /\ bound' = [i \in Jobs |-> IF i = x THEN None ELSE bound[i]]

(* schedule_metadata_enrichment: one discovery per project and process.     *)
ScheduleDiscovery(x, b) ==
    IF LiveJob(Home[x], "discovery") # {} THEN EndsSlot(x) ELSE Spawn(x, "discovery", b)

(* _schedule_project_extraction: one extraction per body and process.       *)
ScheduleExtraction(x, b) ==
    IF \E j \in LiveJob(Home[x], "extraction") : held[j] = b
    THEN EndsSlot(x) ELSE Spawn(x, "extraction", b)

------------------------------------------------------------------------------
(* miss_locks.hold(simple:{project}:fill): requests that fill and jobs that *)
(* commit, one at a time in a process.                                      *)

InSection == {"fetch", "fill", "restale", "promote", "bound ttl", "commit"}
LockIsFree(p) == \A x \in Slots : Home[x] = p => pc[x] \notin InSection

------------------------------------------------------------------------------
(* Requests *)

Expiring == "expire" \in World /\ ~calm

Goes(x, next, b) ==
    /\ pc' = [pc EXCEPT ![x] = next]
    /\ held' = [held EXCEPT ![x] = b]
    /\ UNCHANGED <<phase, found, bound>>

(* A body is found in the cache, and _cached_response is about to send it.  *)
Hit(r) ==
    /\ pc[r] = "free" /\ fresh # None
    /\ Goes(r, "check", fresh)
    /\ UNCHANGED <<cacheVars, worldVars, tried>>

(* metadata_response_cache_ttl, then the part of                           *)
(* ensure_metadata_background_work that awaits nothing.                    *)
CheckReady(r) ==
    /\ pc[r] = "check"
    /\ IF \/ ready = held[r] /\ fresh = held[r]
          \/ LiveJob(Home[r], "discovery") # {}
          \/ \E j \in LiveJob(Home[r], "extraction") : held[j] = held[r]
       THEN EndsRequest(r)
       ELSE Goes(r, "marker", held[r])
    /\ UNCHANGED <<cacheVars, worldVars, tried>>

(* Variant: a discovered body is left to the job that discovered it.        *)
ReadMarkerOnly(r) ==
    /\ pc[r] = "marker"
    /\ IF discovered = held[r] THEN EndsRequest(r) ELSE Goes(r, "body ttl", held[r])
    /\ UNCHANGED <<cacheVars, worldVars, tried>>

ReadMarker(r) ==
    /\ pc[r] = "marker"
    /\ IF discovered = held[r] THEN ScheduleExtraction(r, held[r])
                               ELSE Goes(r, "body ttl", held[r])
    /\ UNCHANGED <<cacheVars, worldVars, tried>>

(* ttl() is None for a missing key and for one in its last second.         *)
ReadBodyTtl(r) ==
    /\ pc[r] = "body ttl"
    /\ \/ fresh # None /\ ScheduleDiscovery(r, held[r])
       \/ (fresh = None \/ Expiring) /\ EndsRequest(r)
    /\ UNCHANGED <<cacheVars, worldVars, tried>>

(* The second lookup found nothing either: go upstream, under the lock.     *)
Miss(r) ==
    /\ pc[r] = "free" /\ fresh = None /\ LockIsFree(Home[r])
    /\ Goes(r, "fetch", None)
    /\ UNCHANGED <<cacheVars, worldVars, tried>>

(* The project is also cached in the other format, enriched on its own, and *)
(* a request may be for that one: then it leaves this page unlooked at.     *)
Converts == "conversion" \in World

(* A new page, a 304 for the stale one, or a failure; the page comes        *)
(* without advertisements, or there would be nothing to enrich.  A 304 is   *)
(* also answered from the other format's stale body, with whatever that     *)
(* advertises; whose fallback is this page stores its stale copy again.     *)
Fetch(r) ==
    /\ pc[r] = "fetch"
    /\ \/ Goes(r, "fill", Plain(version))
       \/ stale # None /\ stale.ver = version /\ Goes(r, "promote", stale)
       \/ Converts /\ stale # None /\ stale.ver = version /\ Goes(r, "restale", stale)
       \/ Converts /\ stale = None /\ \E b \in Bodies : b.ver = version /\ Goes(r, "promote", b)
       \/ EndsRequest(r)
    /\ UNCHANGED <<cacheVars, worldVars, tried>>

(* setex_many of the fresh and the stale copy, and the discovery of it.     *)
Fill(r) ==
    /\ pc[r] = "fill"
    /\ fresh' = held[r] /\ stale' = held[r]
    /\ ScheduleDiscovery(r, held[r]) \/ (Converts /\ EndsRequest(r))
    /\ UNCHANGED <<discovered, ready, worldVars, tried>>

(* setex of what was read before, whatever is there by now.                 *)
Restale(r) ==
    /\ pc[r] = "restale"
    /\ stale' = held[r]
    /\ Goes(r, "promote", held[r])
    /\ UNCHANGED <<fresh, discovered, ready, worldVars, tried>>

(* A revalidated body is current again; refreshing the lifetime of its      *)
(* marker changes no value.  It is sent as a hit is.                        *)
Promote(r) ==
    /\ pc[r] = "promote"
    /\ fresh' = held[r]
    /\ Goes(r, "check", held[r]) \/ (Converts /\ EndsRequest(r))
    /\ UNCHANGED <<stale, discovered, ready, worldVars, tried>>

(* This page is not there, the other format's is, and is converted: with    *)
(* whatever it advertises, which takes its time.                            *)
StartConversion(r) ==
    /\ Converts /\ pc[r] = "free" /\ fresh = None
    /\ \E b \in Bodies : b.ver <= version /\ Goes(r, "convert", b)
    /\ UNCHANGED <<cacheVars, worldVars, tried>>

(* setex_many_if_unchanged compares the source alone: the page may have     *)
(* been filled or enriched meanwhile.  The stale copy is written when the   *)
(* other format has one.  Refused, it is a miss.                            *)
Convert(r) ==
    /\ pc[r] = "convert"
    /\ \/ /\ fresh' = held[r] /\ stale' \in {stale, held[r]}
          /\ ScheduleDiscovery(r, held[r])
       \/ EndsRequest(r) /\ UNCHANGED <<fresh, stale>>
    /\ UNCHANGED <<discovered, ready, worldVars, tried>>

------------------------------------------------------------------------------
(* Background tasks *)

(* Variant: extraction only when no candidate got anything.                 *)
NeedsExtractionIfAll(b, wheels) ==
    Candidates(b) # {} /\ Candidates(b) \subseteq Extractable \ wheels

(* Candidates that discovery leaves to extraction. *)
NeedsExtraction(b, wheels) == (Candidates(b) \ wheels) \cap Extractable # {}

Probed(j, wheels) ==
    /\ found' = [found EXCEPT ![j] = wheels]
    /\ pc' = [pc EXCEPT ![j] = "lock"]
    /\ UNCHANGED <<held, phase, bound>>

(* _enrich: the marker says whether another process was here before.        *)
StartDiscovery(j) ==
    /\ pc[j] = "start" /\ phase[j] = "discovery"
    /\ IF discovered # held[j] THEN Goes(j, "probe", held[j])
       ELSE IF NeedsExtraction(held[j], {}) THEN ScheduleExtraction(j, held[j])
       ELSE Probed(j, {})
    /\ UNCHANGED <<cacheVars, worldVars, tried>>

(* Every candidate is looked for in the store and by a HEAD upstream; any   *)
(* of them may turn out to have metadata, and any look may fail.            *)
Probe(j) ==
    /\ pc[j] = "probe"
    /\ \E wheels \in SUBSET Candidates(held[j]) : Probed(j, wheels)
    /\ UNCHANGED <<cacheVars, worldVars, tried>>

(* _extract_project_after_idle keeps the digest and reads the body again.   *)
Reload(j) ==
    /\ pc[j] = "start" /\ phase[j] = "extraction"
    /\ IF held[j] \in {fresh, stale} THEN Goes(j, "extract", held[j]) ELSE EndsJob(j)
    /\ UNCHANGED <<cacheVars, worldVars, tried>>

(* Every extraction may fail on its own, and what was stored meanwhile is   *)
(* found without one; batches are one step.                                 *)
Extract(j) ==
    /\ pc[j] = "extract"
    /\ \E wheels \in SUBSET Candidates(held[j]) : Probed(j, wheels)
    /\ tried' = tried \cup (Candidates(held[j]) \cap Extractable)
    /\ UNCHANGED <<cacheVars, worldVars>>

(* _commit_project_enrichment: current and stale in one read, under the     *)
(* lock; the commit is bound to the copy that still is the body.            *)
ReadUnderLock(j) ==
    /\ pc[j] = "lock" /\ LockIsFree(Home[j])
    /\ LET key == IF fresh = held[j] THEN "fresh" ELSE "stale" IN
       IF fresh = held[j] \/ (fresh = None /\ stale = held[j])
       THEN /\ bound' = [bound EXCEPT ![j] = key]
            /\ pc' = [pc EXCEPT ![j] = "bound ttl"]
            /\ UNCHANGED <<held, phase, found>>
       ELSE EndsJob(j)
    /\ UNCHANGED <<cacheVars, worldVars, tried>>

ReadBoundTtl(j) ==
    LET entry == IF bound[j] = "fresh" THEN fresh ELSE stale IN
    /\ pc[j] = "bound ttl"
    /\ \/ entry # None /\ pc' = [pc EXCEPT ![j] = "commit"] /\ UNCHANGED <<held, phase, found, bound>>
       \/ (entry = None \/ Expiring) /\ EndsJob(j)
    /\ UNCHANGED <<cacheVars, worldVars, tried>>

(* Variant: a commit to the stale copy does not look at the current one.    *)
ExpectedStaleOnly(j) == IF bound[j] = "fresh" THEN fresh = held[j] ELSE stale = held[j]

(* Variant: a plain write.                                                  *)
ExpectedNothing(j) == TRUE

(* expected: what the conditional write compares.                           *)
Expected(j) == IF bound[j] = "fresh" THEN fresh = held[j] ELSE fresh = None /\ stale = held[j]

(* setex_many_if_unchanged(expected, writes), and what follows it.          *)
Commit(j) ==
    LET completed == Advertise(held[j], found[j])
        more == phase[j] = "discovery" /\ NeedsExtraction(held[j], found[j])
        changed == found[j] # {}
    IN
    /\ pc[j] = "commit"
    /\ IF Expected(j)
       THEN /\ fresh' = IF changed /\ bound[j] = "fresh" THEN completed ELSE fresh
            /\ stale' = IF changed THEN completed ELSE stale
            /\ discovered' = completed
            /\ ready' = IF more THEN ready ELSE completed
            /\ IF more THEN ScheduleExtraction(j, completed) ELSE EndsJob(j)
       ELSE EndsJob(j) /\ UNCHANGED cacheVars
    /\ UNCHANGED <<worldVars, tried>>

------------------------------------------------------------------------------
(* What else happens *)

(* An entry reaches its end of life or is evicted. *)
Expire ==
    /\ Expiring
    /\ \/ fresh # None /\ fresh' = None /\ UNCHANGED <<stale, discovered, ready>>
       \/ stale # None /\ stale' = None /\ UNCHANGED <<fresh, discovered, ready>>
       \/ discovered # None /\ discovered' = None /\ UNCHANGED <<fresh, stale, ready>>
       \/ ready # None /\ ready' = None /\ UNCHANGED <<fresh, stale, discovered>>
    /\ UNCHANGED <<worldVars, taskVars, tried>>

(* A process dies, and every task of it.                                    *)
Crash(p) ==
    LET gone == {x \in Slots : Home[x] = p} IN
    /\ "crash" \in World /\ ~calm /\ \E x \in gone : pc[x] # "free"
    /\ pc' = [x \in Slots |-> IF x \in gone THEN "free" ELSE pc[x]]
    /\ held' = [x \in Slots |-> IF x \in gone THEN None ELSE held[x]]
    /\ phase' = [j \in Jobs |-> IF j \in gone THEN None ELSE phase[j]]
    /\ found' = [j \in Jobs |-> IF j \in gone THEN {} ELSE found[j]]
    /\ bound' = [j \in Jobs |-> IF j \in gone THEN None ELSE bound[j]]
    /\ UNCHANGED <<cacheVars, worldVars, tried>>

(* An exception ends a job, as does a cancellation: it is logged, and no    *)
(* more.                                                                    *)
JobFails(j) ==
    /\ "job fails" \in World /\ ~calm /\ pc[j] # "free"
    /\ EndsJob(j)
    /\ UNCHANGED <<cacheVars, worldVars, tried>>

Upload ==
    /\ "upload" \in World /\ ~calm /\ version < MaxVersion
    /\ version' = version + 1
    /\ UNCHANGED <<calm, cacheVars, taskVars, tried>>

CalmDown ==
    /\ "calm" \in World /\ ~calm
    /\ calm' = TRUE
    /\ UNCHANGED <<version, cacheVars, taskVars, tried>>

RequestStep(r) ==
    \/ Hit(r) \/ CheckReady(r) \/ ReadMarker(r) \/ ReadBodyTtl(r)
    \/ Miss(r) \/ Fetch(r) \/ Fill(r) \/ Restale(r) \/ Promote(r) \/ Convert(r)

JobStep(j) ==
    \/ StartDiscovery(j) \/ Probe(j) \/ Reload(j) \/ Extract(j)
    \/ ReadUnderLock(j) \/ ReadBoundTtl(j) \/ Commit(j)

Mishap == Expire \/ (\E p \in Processes : Crash(p)) \/ (\E j \in Jobs : JobFails(j)) \/ Upload \/ CalmDown

Next ==
    \/ \E r \in Requests : RequestStep(r) \/ StartConversion(r)
    \/ \E j \in Jobs : JobStep(j)
    \/ Mishap

(* Requests keep coming, and each await ends.  A job gets the lock because  *)
(* the real lock is fair (KeyLocker).  The idle windows the gates of a job  *)
(* wait for are assumed to come (BackgroundTasks).                          *)
Fairness ==
    /\ \A r \in Requests : WF_vars(RequestStep(r))
    /\ \A j \in Jobs : WF_vars(JobStep(j)) /\ SF_vars(ReadUnderLock(j))

Spec == Init /\ [][Next]_vars
FairSpec == Spec /\ Fairness

------------------------------------------------------------------------------
(* Properties *)

(* The variables have their types, and a slot without a task holds nothing. *)
TypeOK ==
    /\ {fresh, stale, discovered, ready} \subseteq MaybeBody
    /\ version \in Versions /\ calm \in BOOLEAN
    /\ pc \in [Slots -> {"free", "check", "marker", "body ttl", "fetch", "fill", "restale", "promote",
                         "convert", "start", "probe", "extract", "lock", "bound ttl", "commit"}]
    /\ held \in [Slots -> MaybeBody]
    /\ phase \in [Jobs -> {"discovery", "extraction", None}]
    /\ found \in [Jobs -> SUBSET Wheels]
    /\ bound \in [Jobs -> {"fresh", "stale", None}]
    /\ tried \subseteq Wheels
    /\ \A x \in Slots : pc[x] = "free" => held[x] = None

(* A response gets its full lifetime in outer caches "only when enrichment  *)
(* completed for this exact body": a body marked ready advertises each of   *)
(* the newest wheels that can be extracted, unless that was tried.          *)
ReadyMeansTried ==
    ready # None => Candidates(Plain(ready.ver)) \cap Extractable \subseteq ready.adv \cup tried

(* A marker is set for the body that is current at that moment, or for the  *)
(* stale copy when there is no current one ("do not race a request which    *)
(* refills current").                                                       *)
MarkersFollowBodies ==
    [][/\ discovered' \notin {discovered, None} => discovered' = (IF fresh' # None THEN fresh' ELSE stale')
       /\ ready' \notin {ready, None} => ready' = discovered']_vars

(* What background work writes is the current body with more advertised: it *)
(* never revives an expired body ("without republishing it as current"),    *)
(* never replaces one version by another and loses nothing that another     *)
(* process has advertised in the meantime.                                  *)
OnlyAdds(old, new) == old # None /\ new.ver = old.ver /\ old.adv \subseteq new.adv
CommitsOnlyAdd ==
    [][\A j \in Jobs : pc[j] = "commit" /\ pc'[j] # "commit" =>
        /\ fresh' # fresh /\ fresh' # None => OnlyAdds(fresh, fresh')
        /\ stale' # stale /\ stale' # None /\ bound[j] = "stale" => OnlyAdds(stale, stale')]_vars

(* Once nothing gets lost any more, a project that is asked for ends up     *)
(* with a current body that is marked ready, whatever was lost before: jobs, *)
(* markers, bodies or places in the queue.                                  *)
EventuallyReady == calm ~> [](fresh # None => ready = fresh)

(* Together inductive: who has a body in hand has one, a task has a purpose, *)
(* what a task found belongs to its body, and what an extraction did not    *)
(* find it has tried.                                                       *)
BodiesInHand == \A x \in Slots : pc[x] \notin {"free", "fetch"} => held[x] \in Bodies
JobsHavePhase ==
    \A j \in Jobs :
        /\ pc[j] # "free" => phase[j] \in {"discovery", "extraction"}
        /\ pc[j] = "probe" => phase[j] = "discovery"
FindingsFit ==
    \A j \in Jobs : pc[j] \in {"lock", "bound ttl", "commit"} =>
        /\ found[j] \subseteq WheelsOf[held[j].ver]
        /\ phase[j] = "extraction" => Candidates(held[j]) \cap Extractable \subseteq tried
IInv ==
    /\ TypeOK
    /\ BodiesInHand
    /\ JobsHavePhase
    /\ FindingsFit
    /\ ReadyMeansTried
==============================================================================
