---------------------------- MODULE MetadataStore ----------------------------
(***************************************************************************)
(* app/metadata.py: how the metadata of a wheel URL is looked up, probed   *)
(* for, extracted and stored, in one process.  Callers are the probes of   *)
(* background discovery, those of background extraction, and requests for  *)
(* wheel-url.metadata, which recover what the cache has lost               *)
(* (app/metadata_route.py).                                                *)
(*                                                                         *)
(* Wheels do not change, so a URL stands for its wheel and for the digest  *)
(* of its metadata.  A pointer is "hashed" (written with the wheel's hash), *)
(* "bare" (written by recovery) or "legacy" (written by an older release). *)
(* Every cache call is a step of its own, and goes to the backend in use.  *)
(***************************************************************************)
EXTENDS Naturals, FiniteSets

CONSTANTS
    Callers,        \* probes and requests in flight
    Role,           \* Role[c]: "discovery", "extraction" or "recovery"
    Urls,           \* wheel URLs
    Allowed,        \* those on a host of the allowlist
    Digest,         \* Digest[u]: the digest of the metadata in the wheel at u
    Permits,        \* sizes of the four semaphores
    World,          \* what else may happen, a subset of WorldMoves
    None

Roles == {"discovery", "extraction", "recovery"}
Semaphores == {"cache", "probe", "extract", "recover"}
WorldMoves == {"evict", "failover", "legacy", "cancel"}
Backends == {"redis", "memory"}
Digests == {Digest[u] : u \in Urls}

ASSUME CallersAssumption ==
    Role \in [Callers -> Roles] /\ None \notin Callers \cup Urls \cup {"hashed", "bare", "legacy"}
ASSUME UrlsAssumption == Allowed \subseteq Urls /\ DOMAIN Digest = Urls
ASSUME PermitsAssumption == Permits \in [Semaphores -> Nat \ {0}]

VARIABLES
    contents,   \* contents[b]: digests whose text backend b has
    blobs,      \* blobs[b]: URLs whose text it has under the wheel's hash
    pointers,   \* pointers[b][u]: metadata:url:...:current
    failures,   \* failures[b]: pairs of a URL and "wheel" or "recovery"
    using,      \* the backend that answers
    pc,         \* what a caller does next
    url,        \* the URL it asks for
    hashed,     \* whether it knows the wheel's hash
    lock,       \* lock[u]: who holds the fill lock of u
    kept,       \* history: URLs stored in one backend since anything was lost
    failed,     \* history: URLs that could not be recovered
    refused     \* history: URLs that clients were refused the metadata of

storeVars == <<contents, blobs, pointers, failures>>
callVars == <<url, hashed, lock, failed, refused>>
vars == <<contents, blobs, pointers, failures, using, pc, url, hashed, lock, kept, failed, refused>>

Init ==
    /\ contents = [b \in Backends |-> {}]
    /\ blobs = [b \in Backends |-> {}]
    /\ pointers = [b \in Backends |-> [u \in Urls |-> None]]
    /\ failures = [b \in Backends |-> {}]
    /\ using = "redis"
    /\ pc = [c \in Callers |-> "free"]
    /\ url = [c \in Callers |-> None]
    /\ hashed = [c \in Callers |-> FALSE]
    /\ lock = [u \in Urls |-> None]
    /\ kept = {} /\ failed = {} /\ refused = {}

Holding(sem) ==
    CASE sem = "cache"   -> {c \in Callers : pc[c] \in {"body", "bare body", "blob"}}
      [] sem = "probe"   -> {c \in Callers : pc[c] = "heading"}
      [] sem = "extract" -> {c \in Callers : pc[c] = "extracting" /\ Role[c] # "recovery"}
      [] sem = "recover" -> {c \in Callers : pc[c] = "extracting" /\ Role[c] = "recovery"}
Free(sem) == Cardinality(Holding(sem)) < Permits[sem]

Inside(c) == lock[url[c]] = c

Goes(c, next) ==
    /\ pc' = [pc EXCEPT ![c] = next]
    /\ UNCHANGED <<url, hashed, lock, refused>>

(* Variant: a call that finds nothing does not leave the lock.              *)
ReturnsInside(c, result) ==
    /\ pc' = [pc EXCEPT ![c] = "free"]
    /\ refused' = IF result = "nothing" /\ Role[c] = "recovery"
                  THEN refused \cup {url[c]} ELSE refused
    /\ lock' = [u \in Urls |-> IF lock[u] = c /\ result # "nothing" THEN None ELSE lock[u]]
    /\ url' = [url EXCEPT ![c] = None]
    /\ hashed' = [hashed EXCEPT ![c] = FALSE]

(* The call returns, and leaves the fill lock if it has got that far.       *)
Returns(c, result) ==
    /\ pc' = [pc EXCEPT ![c] = "free"]
    /\ refused' = IF result = "nothing" /\ Role[c] = "recovery"
                  THEN refused \cup {url[c]} ELSE refused
    /\ lock' = [u \in Urls |-> IF lock[u] = c THEN None ELSE lock[u]]
    /\ url' = [url EXCEPT ![c] = None]
    /\ hashed' = [hashed EXCEPT ![c] = FALSE]

------------------------------------------------------------------------------
(* load_metadata_for_url, before the lock and again under it *)

(* _probe and load_or_recover_metadata_for_url: extraction is given the     *)
(* hash it needs, discovery one if the page lists it, recovery none.        *)
Ask(c) ==
    /\ pc[c] = "free"
    /\ \E u \in Urls, h \in BOOLEAN :
        /\ Role[c] = "extraction" => h
        /\ Role[c] = "recovery" => ~h /\ u \in Allowed
        /\ url' = [url EXCEPT ![c] = u]
        /\ hashed' = [hashed EXCEPT ![c] = h]
    /\ pc' = [pc EXCEPT ![c] = "load"]
    /\ UNCHANGED <<storeVars, using, lock, kept, failed, refused>>

(* Which question comes next under the lock. *)
Missed(c) ==
    IF ~Inside(c) THEN Goes(c, "lock")
    ELSE IF Role[c] = "extraction" THEN Goes(c, "failure?")
    ELSE IF url[c] \notin Allowed THEN Returns(c, "nothing")
    ELSE Goes(c, "head")

(* A bare pointer does not say which wheel it is for.                       *)
LoadPointer(c) ==
    LET pointer == pointers[using][url[c]] IN
    /\ pc[c] = "load" /\ Free("cache")
    /\ IF pointer = None \/ (pointer = "bare" /\ hashed[c]) THEN Missed(c)
       ELSE Goes(c, CASE pointer = "hashed" -> "body"
                      [] pointer = "bare"   -> "bare body"
                      [] pointer = "legacy" -> "blob")
    /\ UNCHANGED <<storeVars, using, kept, failed>>

(* The text under its own digest, or else under the hash of the wheel.      *)
LoadBody(c) ==
    /\ pc[c] \in {"body", "bare body"}
    /\ IF Digest[url[c]] \in contents[using] THEN Returns(c, "body")
       ELSE IF pc[c] = "body" THEN Goes(c, "blob")
       ELSE Missed(c)
    /\ UNCHANGED <<storeVars, using, kept, failed>>

LoadBlob(c) ==
    /\ pc[c] = "blob"
    /\ IF url[c] \in blobs[using] THEN Returns(c, "body") ELSE Missed(c)
    /\ UNCHANGED <<storeVars, using, kept, failed>>

(* Variant: whoever waited for the lock does not look again.                *)
GetLockAndGo(c) ==
    /\ pc[c] = "lock" /\ lock[url[c]] = None
    /\ lock' = [lock EXCEPT ![url[c]] = c]
    /\ pc' = [pc EXCEPT ![c] = IF Role[c] = "extraction" THEN "failure?" ELSE "head"]
    /\ UNCHANGED <<storeVars, using, url, hashed, kept, failed, refused>>

(* miss_locks.hold(_metadata_fill_lock_key(file_url)), and look again.      *)
GetLock(c) ==
    /\ pc[c] = "lock" /\ lock[url[c]] = None
    /\ lock' = [lock EXCEPT ![url[c]] = c]
    /\ pc' = [pc EXCEPT ![c] = "load"]
    /\ UNCHANGED <<storeVars, using, url, hashed, kept, failed, refused>>

------------------------------------------------------------------------------
(* Native metadata *)

StartHead(c) ==
    /\ pc[c] = "head" /\ Free("probe")
    /\ Goes(c, "heading")
    /\ UNCHANGED <<storeVars, using, kept, failed>>

(* Upstream has it, or has not, or did not answer in time.                  *)
EndHead(c) ==
    /\ pc[c] = "heading"
    /\ \/ Returns(c, "native")
       \/ IF Role[c] = "discovery" THEN Returns(c, "nothing") ELSE Goes(c, "failure?")
    /\ UNCHANGED <<storeVars, using, kept, failed>>

------------------------------------------------------------------------------
(* Extraction *)

(* Variant: one failure entry for a URL, whoever failed.                    *)
FailureKeyShared(c) == <<url[c], "wheel">>

(* _metadata_failure_key *)
FailureKey(c) == <<url[c], IF hashed[c] THEN "wheel" ELSE "recovery">>

(* It failed a while ago, or it is not on an allowed host.                  *)
CheckFailure(c) ==
    /\ pc[c] = "failure?"
    /\ IF FailureKey(c) \in failures[using] \/ url[c] \notin Allowed
       THEN Returns(c, "nothing")
       ELSE Goes(c, "permit")
    /\ UNCHANGED <<storeVars, using, kept, failed>>

SemaphoreOf(c) == IF Role[c] = "recovery" THEN "recover" ELSE "extract"

StartExtraction(c) ==
    /\ pc[c] = "permit" /\ Free(SemaphoreOf(c))
    /\ Goes(c, "extracting")
    /\ UNCHANGED <<storeVars, using, kept, failed>>

(* The archive was read (WheelReader), or the text in it is not UTF-8, or   *)
(* reading failed.                                                          *)
EndExtraction(c) ==
    /\ pc[c] = "extracting"
    /\ \/ Goes(c, "store content") /\ UNCHANGED failed
       \/ /\ Goes(c, "note failure")
          /\ failed' = IF Role[c] = "recovery" THEN failed \cup {url[c]} ELSE failed
    /\ UNCHANGED <<storeVars, using, kept>>

(* _store_metadata_content: one setex after the other.                      *)
StoreContent(c) ==
    /\ pc[c] = "store content"
    /\ contents' = [contents EXCEPT ![using] = @ \cup {Digest[url[c]]}]
    /\ Goes(c, IF hashed[c] THEN "store blob" ELSE "store pointer")
    /\ UNCHANGED <<blobs, pointers, failures, using, kept, failed>>

StoreBlob(c) ==
    /\ pc[c] = "store blob"
    /\ blobs' = [blobs EXCEPT ![using] = @ \cup {url[c]}]
    /\ Goes(c, "store pointer")
    /\ UNCHANGED <<contents, pointers, failures, using, kept, failed>>

StorePointer(c) ==
    /\ pc[c] = "store pointer"
    /\ pointers' = [pointers EXCEPT ![using][url[c]] = IF hashed[c] THEN "hashed" ELSE "bare"]
    /\ kept' = IF Digest[url[c]] \in contents[using] THEN kept \cup {url[c]} ELSE kept
    /\ Returns(c, "body")
    /\ UNCHANGED <<contents, blobs, failures, using, failed>>

NoteFailure(c) ==
    /\ pc[c] = "note failure"
    /\ failures' = [failures EXCEPT ![using] = @ \cup {FailureKey(c)}]
    /\ Returns(c, "nothing")
    /\ UNCHANGED <<contents, blobs, pointers, using, kept, failed>>

------------------------------------------------------------------------------
(* What else happens *)

(* An entry reaches its end of life, or Redis needs the room: nobody can    *)
(* tell whether the backend that is not in use loses it now or later.       *)
Evict ==
    /\ "evict" \in World
    /\ \/ \E d \in contents[using] :
            /\ contents' = [contents EXCEPT ![using] = @ \ {d}]
            /\ UNCHANGED <<blobs, pointers, failures>>
       \/ \E u \in blobs[using] :
            /\ blobs' = [blobs EXCEPT ![using] = @ \ {u}]
            /\ UNCHANGED <<contents, pointers, failures>>
       \/ \E u \in Urls :
            /\ pointers[using][u] # None
            /\ pointers' = [pointers EXCEPT ![using][u] = None]
            /\ UNCHANGED <<contents, blobs, failures>>
       \/ \E f \in failures[using] :
            /\ failures' = [failures EXCEPT ![using] = @ \ {f}]
            /\ UNCHANGED <<contents, blobs, pointers>>
    /\ kept' = {}
    /\ UNCHANGED <<using, pc, callVars>>

(* The cache loses Redis, or finds it again (Cache).                        *)
Failover ==
    /\ "failover" \in World
    /\ using' \in Backends \ {using}
    /\ kept' = {}
    /\ UNCHANGED <<storeVars, pc, callVars>>

(* A replica of an older release stores what it has extracted.              *)
LegacyStore(u) ==
    /\ "legacy" \in World
    /\ blobs' = [blobs EXCEPT !["redis"] = @ \cup {u}]
    /\ pointers' = [pointers EXCEPT !["redis"][u] = "legacy"]
    /\ kept' = {}
    /\ UNCHANGED <<contents, failures, using, pc, callVars>>

(* Background work is cancelled at shutdown, wherever it is.                *)
Cancel(c) ==
    /\ "cancel" \in World /\ pc[c] # "free" /\ Role[c] # "recovery"
    /\ Returns(c, None)
    /\ UNCHANGED <<storeVars, using, kept, failed>>

Step(c) ==
    \/ LoadPointer(c) \/ LoadBody(c) \/ LoadBlob(c) \/ GetLock(c)
    \/ StartHead(c) \/ EndHead(c) \/ CheckFailure(c) \/ StartExtraction(c)
    \/ EndExtraction(c) \/ StoreContent(c) \/ StoreBlob(c) \/ StorePointer(c)
    \/ NoteFailure(c)

Next ==
    \/ \E c \in Callers : Ask(c) \/ Step(c) \/ Cancel(c)
    \/ \E u \in Urls : LegacyStore(u)
    \/ Evict \/ Failover

Requests == {c \in Callers : Role[c] = "recovery"}

(* Reads and cache calls end, and locks and semaphores serve in turn: what  *)
(* serves a request in turn need only serve background work eventually.     *)
Fairness == \A c \in Callers : IF c \in Requests THEN SF_vars(Step(c)) ELSE WF_vars(Step(c))

Spec == Init /\ [][Next]_vars
FairSpec == Spec /\ Fairness

------------------------------------------------------------------------------
(* Properties *)

(* The variables have their types, who holds a lock asks for its URL, and   *)
(* who is past the lock holds it.                                           *)
TypeOK ==
    /\ contents \in [Backends -> SUBSET Digests]
    /\ blobs \in [Backends -> SUBSET Urls]
    /\ pointers \in [Backends -> [Urls -> {"hashed", "bare", "legacy", None}]]
    /\ failures \in [Backends -> SUBSET (Urls \X {"wheel", "recovery"})]
    /\ using \in Backends
    /\ pc \in [Callers -> {"free", "load", "body", "bare body", "blob", "lock", "head", "heading",
                            "failure?", "permit", "extracting", "store content", "store blob",
                            "store pointer", "note failure"}]
    /\ url \in [Callers -> Urls \cup {None}] /\ hashed \in [Callers -> BOOLEAN]
    /\ lock \in [Urls -> Callers \cup {None}]
    /\ \A u \in Urls : lock[u] # None => url[lock[u]] = u
    /\ \A c \in Callers : pc[c] \notin {"free", "load", "body", "bare body", "blob", "lock"} => Inside(c)
    /\ kept \subseteq Urls /\ failed \subseteq Urls /\ refused \subseteq Urls

(* While nothing is lost, what is stored is not extracted again: of callers *)
(* that miss together only one reads the wheel.  Recovery leaves a pointer  *)
(* that does not satisfy a caller with a hash, which may read it once more. *)
ExtractedOnce ==
    [][\A c \in Callers : pc[c] # "extracting" /\ pc'[c] = "extracting" =>
        url[c] \notin kept \/ (pointers[using][url[c]] = "bare" /\ hashed[c])]_vars

(* A client that asks for advertised metadata is refused only when upstream *)
(* serves it itself or recovery of it has failed: a failure or success of   *)
(* background work never is the reason.                                     *)
RefusedForCause == refused \subseteq failed

(* Every request is answered, however locks and permits are shared with     *)
(* background work, wherever that is cancelled.                             *)
RequestsAreAnswered == \A c \in Requests : pc[c] # "free" ~> pc[c] = "free"

(* Together inductive: what a caller knows when it asks, that discovery     *)
(* extracts nothing, that a recovery notes no failure before it has failed  *)
(* and finds only noted failures of recoveries, that what is kept can be    *)
(* loaded, and that whoever missed under the lock asks for nothing kept.    *)
CallersKnow ==
    \A c \in Callers :
        /\ url[c] = None <=> pc[c] = "free"
        /\ pc[c] # "free" /\ Role[c] = "extraction" => hashed[c]
        /\ pc[c] # "free" /\ Role[c] = "recovery" => ~hashed[c] /\ url[c] \in Allowed
DiscoveryOnlyProbes ==
    \A c \in Callers : Role[c] = "discovery" =>
        pc[c] \in {"free", "load", "body", "bare body", "blob", "lock", "head", "heading"}
FailuresHappened ==
    /\ \A c \in Callers : pc[c] = "note failure" /\ Role[c] = "recovery" => url[c] \in failed
    /\ \A b \in Backends, u \in Urls : <<u, "recovery">> \in failures[b] => u \in failed
KeptCanBeLoaded ==
    \A u \in kept : Digest[u] \in contents[using] /\ pointers[using][u] \in {"hashed", "bare"}
MissedIsNotKept ==
    \A c \in Callers : pc[c] \notin {"free", "load", "body", "bare body", "lock"} /\ Inside(c) =>
        url[c] \notin kept \/ (pointers[using][url[c]] = "bare" /\ hashed[c])
IInv ==
    /\ TypeOK
    /\ CallersKnow
    /\ DiscoveryOnlyProbes
    /\ FailuresHappened
    /\ KeptCanBeLoaded
    /\ MissedIsNotKept
    /\ RefusedForCause
==============================================================================
