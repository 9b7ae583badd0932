--------------------------- MODULE MetadataProofs ---------------------------
(***************************************************************************)
(* Proofs about MetadataStore: for any callers, wheels, permits and moves  *)
(* of the world, what is stored is not extracted again while nothing is    *)
(* lost, and no client is refused metadata because of background work.     *)
(***************************************************************************)
EXTENDS MetadataStore, TLAPS

Asking == {"load", "body", "bare body", "lock"}
OutsideToo == Asking \cup {"blob"}
Probing == OutsideToo \cup {"head", "heading"}
Busy == Probing \cup {"failure?", "permit", "extracting", "store content", "store blob",
                      "store pointer", "note failure"}

(* What was looked up under the lock is not in the store, or needs a hash.  *)
NotKept(c) == url[c] \notin kept \/ (pointers[using][url[c]] = "bare" /\ hashed[c])

LEMMA StateTypes ==
    ASSUME IInv
    PROVE /\ pc \in [Callers -> Busy \cup {"free"}] /\ url \in [Callers -> Urls \cup {None}]
          /\ lock \in [Urls -> Callers \cup {None}]
          /\ pointers \in [Backends -> [Urls -> {"hashed", "bare", "legacy", None}]]
          /\ using \in Backends /\ failed \subseteq Urls
BY DEF IInv, TypeOK, Busy, Probing, OutsideToo, Asking

LEMMA InitIInv == Init => IInv
<1> SUFFICES ASSUME Init PROVE IInv
  OBVIOUS
<1> USE DEF Init
<1>1. TypeOK
  BY CallersAssumption DEF TypeOK, Backends
<1>2. CallersKnow /\ DiscoveryOnlyProbes
  BY CallersAssumption DEF CallersKnow, DiscoveryOnlyProbes
<1>3. FailuresHappened /\ KeptCanBeLoaded /\ MissedIsNotKept /\ RefusedForCause
  BY DEF FailuresHappened, KeptCanBeLoaded, MissedIsNotKept, RefusedForCause
<1>4. QED
  BY <1>1, <1>2, <1>3 DEF IInv

------------------------------------------------------------------------------
(* The two ways in which a step of a caller ends *)

(* A caller goes on, and texts are only added. *)
LEMMA GoesIInv ==
    ASSUME IInv, NEW c \in Callers, pc[c] # "free", NEW next \in Busy, Goes(c, next),
           UNCHANGED <<pointers, failures, using, kept>>,
           contents' \in [Backends -> SUBSET Digests], blobs' \in [Backends -> SUBSET Urls],
           \A b \in Backends : contents[b] \subseteq contents'[b],
           failed \subseteq failed', failed' \subseteq Urls,
           next \notin OutsideToo => Inside(c),
           Role[c] = "discovery" => next \in Probing,
           next = "note failure" /\ Role[c] = "recovery" => url[c] \in failed',
           next \notin Asking /\ Inside(c) => NotKept(c)
    PROVE IInv'
<1> USE DEF Goes, Inside
<1>1. TypeOK'
  BY DEF IInv, TypeOK, Busy, Probing, OutsideToo, Asking
<1>2. CallersKnow'
  BY DEF IInv, TypeOK, CallersKnow, Busy, Probing, OutsideToo, Asking
<1>3. DiscoveryOnlyProbes'
  BY DEF IInv, TypeOK, DiscoveryOnlyProbes, Probing, OutsideToo, Asking
<1>4. FailuresHappened'
  BY DEF IInv, TypeOK, FailuresHappened
<1>5. KeptCanBeLoaded'
  BY DEF IInv, TypeOK, KeptCanBeLoaded
<1>6. MissedIsNotKept'
  BY DEF IInv, TypeOK, MissedIsNotKept, NotKept, Asking
<1>7. RefusedForCause'
  BY DEF IInv, RefusedForCause
<1>8. QED
  BY <1>1, <1>2, <1>3, <1>4, <1>5, <1>6, <1>7 DEF IInv

(* What a call that returns leaves behind, whatever it has stored. *)
LEMMA ReturnsClean ==
    ASSUME IInv, NEW c \in Callers, NEW result, Returns(c, result)
    PROVE /\ pc'[c] = "free" /\ url'[c] = None
          /\ pc' \in [Callers -> Busy \cup {"free"}] /\ url' \in [Callers -> Urls \cup {None}]
          /\ hashed' \in [Callers -> BOOLEAN] /\ lock' \in [Urls -> Callers \cup {None}]
          /\ \A d \in Callers \ {c} : pc'[d] = pc[d] /\ url'[d] = url[d] /\ hashed'[d] = hashed[d]
          /\ \A u \in Urls : lock'[u] # c /\ (lock'[u] = lock[u] \/ (lock[u] = c /\ lock'[u] = None))
<1> USE DEF Returns
<1>1. /\ pc'[c] = "free" /\ url'[c] = None
      /\ \A d \in Callers \ {c} : pc'[d] = pc[d] /\ url'[d] = url[d] /\ hashed'[d] = hashed[d]
  BY DEF IInv, TypeOK
<1>2. pc' \in [Callers -> Busy \cup {"free"}]
  BY DEF IInv, TypeOK, Busy, Probing, OutsideToo, Asking
<1>3. url' \in [Callers -> Urls \cup {None}] /\ hashed' \in [Callers -> BOOLEAN]
  BY DEF IInv, TypeOK
<1>4. /\ lock' \in [Urls -> Callers \cup {None}]
      /\ \A u \in Urls : lock'[u] # c /\ (lock'[u] = lock[u] \/ (lock[u] = c /\ lock'[u] = None))
  BY CallersAssumption DEF IInv, TypeOK
<1>5. QED
  BY <1>1, <1>2, <1>3, <1>4

LEMMA ReturnsCallers ==
    ASSUME IInv, NEW c \in Callers, NEW result, Returns(c, result)
    PROVE /\ \A u \in Urls : lock'[u] # None => url'[lock'[u]] = u
          /\ \A d \in Callers : pc'[d] \notin OutsideToo \cup {"free"} => Inside(d)'
          /\ \A d \in Callers : Inside(d)' => Inside(d) \/ url'[d] = None
          /\ CallersKnow' /\ DiscoveryOnlyProbes'
<1>1. \A u \in Urls : lock'[u] # None => url'[lock'[u]] = u
  <2>1. \A u \in Urls : lock[u] # None => url[lock[u]] = u
    BY DEF IInv, TypeOK
  <2>2. \A u \in Urls : lock'[u] # None => lock'[u] = lock[u] /\ lock'[u] \in Callers \ {c}
    BY ReturnsClean
  <2>3. QED
    BY <2>1, <2>2, ReturnsClean
<1>2. \A d \in Callers : pc'[d] \notin OutsideToo \cup {"free"} => Inside(d)'
  <2> SUFFICES ASSUME NEW d \in Callers, pc'[d] \notin OutsideToo \cup {"free"} PROVE Inside(d)'
    OBVIOUS
  <2>1. d # c /\ pc[d] = pc'[d] /\ url'[d] = url[d]
    BY ReturnsClean
  <2>2. Inside(d) /\ url[d] \in Urls
    BY <2>1 DEF IInv, TypeOK, CallersKnow, OutsideToo, Asking
  <2>3. QED
    BY <2>1, <2>2, ReturnsClean, CallersAssumption DEF Inside
<1>3. \A d \in Callers : Inside(d)' => Inside(d) \/ url'[d] = None
  <2> SUFFICES ASSUME NEW d \in Callers, Inside(d)', url'[d] # None PROVE Inside(d)
    OBVIOUS
  <2>1. d # c /\ url'[d] = url[d] /\ url[d] \in Urls
    BY ReturnsClean
  <2>2. QED
    BY <2>1, ReturnsClean, CallersAssumption DEF Inside
<1>4. CallersKnow'
  BY ReturnsClean DEF IInv, CallersKnow
<1>5. DiscoveryOnlyProbes'
  BY ReturnsClean DEF IInv, DiscoveryOnlyProbes
<1>6. QED
  BY <1>1, <1>2, <1>3, <1>4, <1>5

(* A call returns, and a request that gets nothing has a cause.  It may     *)
(* have noted a failure, or stored a pointer, before it leaves the lock.    *)
LEMMA ReturnsIInv ==
    ASSUME IInv, NEW c \in Callers, pc[c] # "free", NEW result, Returns(c, result),
           UNCHANGED <<contents, blobs, using, failed>>,
           pointers' \in [Backends -> [Urls -> {"hashed", "bare", "legacy", None}]],
           failures' \in [Backends -> SUBSET (Urls \X {"wheel", "recovery"})],
           kept' \subseteq Urls,
           \A b \in Backends, u \in Urls : <<u, "recovery">> \in failures'[b] => u \in failed,
           KeptCanBeLoaded',
           UNCHANGED <<pointers, kept>> \/
                /\ Inside(c) /\ kept' \subseteq kept \cup {url[c]}
                /\ \A u \in Urls \ {url[c]} : pointers'[using][u] = pointers[using][u],
           result = "nothing" /\ Role[c] = "recovery" => url[c] \in failed
    PROVE IInv'
<1>1. refused' \subseteq refused \cup {url[c]} /\ url[c] \in Urls
  BY DEF Returns, IInv, TypeOK, CallersKnow
<1>2. TypeOK'
  <2>1. \A d \in Callers : pc'[d] \notin {"free", "load", "body", "bare body", "blob", "lock"} => Inside(d)'
    BY ReturnsCallers DEF OutsideToo, Asking
  <2>2. pc' \in [Callers -> {"free", "load", "body", "bare body", "blob", "lock", "head", "heading",
                            "failure?", "permit", "extracting", "store content", "store blob",
                            "store pointer", "note failure"}]
    BY ReturnsClean DEF Busy, Probing, OutsideToo, Asking
  <2>3. url' \in [Callers -> Urls \cup {None}] /\ hashed' \in [Callers -> BOOLEAN]
        /\ lock' \in [Urls -> Callers \cup {None}]
    BY ReturnsClean
  <2>4. \A u \in Urls : lock'[u] # None => url'[lock'[u]] = u
    BY ReturnsCallers
  <2>5. QED
    BY <1>1, <2>1, <2>2, <2>3, <2>4 DEF IInv, TypeOK
<1>3. FailuresHappened'
  BY ReturnsClean DEF IInv, FailuresHappened
<1>4. MissedIsNotKept'
  <2> SUFFICES ASSUME NEW d \in Callers, pc'[d] \notin {"free", "load", "body", "bare body", "lock"},
                      Inside(d)'
               PROVE NotKept(d)'
    BY DEF MissedIsNotKept, NotKept
  <2>0. url[d] \in Urls \cup {None} /\ (url[d] = None <=> pc[d] = "free")
    BY DEF IInv, TypeOK, CallersKnow
  <2>1. d # c /\ pc[d] = pc'[d] /\ url'[d] = url[d] /\ hashed'[d] = hashed[d] /\ url[d] \in Urls
    BY <2>0, ReturnsClean
  <2>2. Inside(d) /\ NotKept(d)
    BY <2>1, ReturnsCallers, CallersAssumption DEF IInv, MissedIsNotKept, NotKept
  <2>3. Inside(c) => url[d] # url[c]
    BY <2>1, <2>2 DEF Inside
  <2>4. url[d] \notin kept' \/ (pointers'[using][url[d]] = "bare" /\ hashed[d])
    BY <2>1, <2>2, <2>3 DEF NotKept
  <2>5. QED
    BY <2>1, <2>4 DEF NotKept
<1>5. RefusedForCause'
  BY <1>1 DEF Returns, IInv, RefusedForCause
<1>6. QED
  BY <1>2, <1>3, <1>4, <1>5, ReturnsCallers DEF IInv

(* The common case: nothing is stored. *)
LEMMA ReturnsOnlyIInv ==
    ASSUME IInv, NEW c \in Callers, pc[c] # "free", NEW result, Returns(c, result),
           UNCHANGED <<storeVars, using, kept, failed>>,
           result = "nothing" /\ Role[c] = "recovery" => url[c] \in failed
    PROVE IInv'
<1>1. KeptCanBeLoaded'
  BY DEF IInv, KeptCanBeLoaded, storeVars
<1>2. QED
  BY <1>1, ReturnsIInv DEF IInv, TypeOK, FailuresHappened, storeVars

------------------------------------------------------------------------------
(* The steps of a caller *)

(* What the invariant tells of a caller that is asking. *)
LEMMA CallerFacts ==
    ASSUME IInv, NEW c \in Callers, pc[c] # "free"
    PROVE /\ url[c] \in Urls /\ pc[c] \in Busy /\ Role[c] \in Roles /\ hashed[c] \in BOOLEAN
          /\ Role[c] = "extraction" => hashed[c]
          /\ Role[c] = "recovery" => ~hashed[c] /\ url[c] \in Allowed
          /\ Role[c] = "discovery" => pc[c] \in Probing
          /\ pc[c] \notin OutsideToo => Inside(c)
          /\ pc[c] \notin Asking /\ Inside(c) => NotKept(c)
          /\ pc[c] = "note failure" /\ Role[c] = "recovery" => url[c] \in failed
<1>1. /\ url[c] \in Urls \cup {None} /\ pc[c] \in Busy /\ hashed[c] \in BOOLEAN
      /\ pc[c] \notin OutsideToo => Inside(c)
  BY DEF IInv, TypeOK, Busy, Probing, OutsideToo, Asking
<1>2. /\ url[c] # None
      /\ Role[c] = "extraction" => hashed[c]
      /\ Role[c] = "recovery" => ~hashed[c] /\ url[c] \in Allowed
  BY DEF IInv, CallersKnow
<1>3. Role[c] = "discovery" => pc[c] \in Probing
  BY DEF IInv, DiscoveryOnlyProbes, Probing, OutsideToo, Asking
<1>4. pc[c] \notin Asking /\ Inside(c) => NotKept(c)
  BY DEF IInv, MissedIsNotKept, Asking, NotKept
<1>5. pc[c] = "note failure" /\ Role[c] = "recovery" => url[c] \in failed
  BY DEF IInv, FailuresHappened
<1>6. QED
  BY <1>1, <1>2, <1>3, <1>4, <1>5, CallersAssumption

(* A step that stores nothing and goes on. *)
LEMMA GoesOnlyIInv ==
    ASSUME IInv, NEW c \in Callers, pc[c] # "free", NEW next \in Busy, Goes(c, next),
           UNCHANGED <<storeVars, using, kept>>,
           failed \subseteq failed', failed' \subseteq Urls,
           next \notin OutsideToo => Inside(c),
           Role[c] = "discovery" => next \in Probing,
           next = "note failure" /\ Role[c] = "recovery" => url[c] \in failed',
           next \notin Asking /\ Inside(c) => NotKept(c)
    PROVE IInv'
BY GoesIInv DEF IInv, TypeOK, storeVars

LEMMA AskIInv ==
    ASSUME IInv, NEW c \in Callers, Ask(c)
    PROVE IInv'
<1> USE DEF Ask, storeVars
<1>1. PICK u \in Urls, h \in BOOLEAN :
        /\ Role[c] = "extraction" => h
        /\ Role[c] = "recovery" => ~h /\ u \in Allowed
        /\ url' = [url EXCEPT ![c] = u]
        /\ hashed' = [hashed EXCEPT ![c] = h]
  OBVIOUS
<1>2. \A v \in Urls : lock[v] # c
  <2>1. \A v \in Urls : lock[v] # None => url[lock[v]] = v
    BY DEF IInv, TypeOK
  <2>2. url[c] = None
    BY DEF IInv, CallersKnow
  <2>3. QED
    BY <2>1, <2>2, CallersAssumption
<1>3. \A d \in Callers : Inside(d)' => d # c /\ Inside(d)
  BY <1>1, <1>2, StateTypes DEF Inside
<1>4. TypeOK'
  <2>1. /\ pc' \in [Callers -> {"free", "load", "body", "bare body", "blob", "lock", "head", "heading",
                            "failure?", "permit", "extracting", "store content", "store blob",
                            "store pointer", "note failure"}]
        /\ url' \in [Callers -> Urls \cup {None}] /\ hashed' \in [Callers -> BOOLEAN]
    BY <1>1 DEF IInv, TypeOK
  <2>2. \A v \in Urls : lock'[v] # None => url'[lock'[v]] = v
    BY <1>1, <1>2 DEF IInv, TypeOK
  <2>3. \A d \in Callers : pc'[d] \notin {"free", "load", "body", "bare body", "blob", "lock"} => Inside(d)'
    BY <1>1 DEF IInv, TypeOK, Inside
  <2>4. QED
    BY <2>1, <2>2, <2>3 DEF IInv, TypeOK
<1>5. CallersKnow'
  BY <1>1, CallersAssumption DEF IInv, TypeOK, CallersKnow
<1>6. DiscoveryOnlyProbes'
  BY DEF IInv, TypeOK, DiscoveryOnlyProbes
<1>7. FailuresHappened' /\ KeptCanBeLoaded' /\ RefusedForCause'
  BY <1>1 DEF IInv, TypeOK, FailuresHappened, KeptCanBeLoaded, RefusedForCause
<1>8. MissedIsNotKept'
  BY <1>1, <1>3 DEF IInv, TypeOK, MissedIsNotKept
<1>9. QED
  BY <1>4, <1>5, <1>6, <1>7, <1>8 DEF IInv

(* A look at the store that finds nothing. *)
LEMMA MissedIInv ==
    ASSUME IInv, NEW c \in Callers, pc[c] # "free", Missed(c), UNCHANGED <<storeVars, using, kept, failed>>,
           Inside(c) => NotKept(c)
    PROVE IInv'
<1>1. failed \subseteq failed' /\ failed' \subseteq Urls
  BY DEF IInv, TypeOK
<1>2. CASE ~Inside(c)
  BY <1>1, <1>2, GoesOnlyIInv DEF Missed, Busy, Probing, OutsideToo, Asking
<1>3. CASE Inside(c) /\ Role[c] = "extraction"
  BY <1>1, <1>3, GoesOnlyIInv DEF Missed, Busy
<1>4. CASE Inside(c) /\ Role[c] # "extraction" /\ url[c] \notin Allowed
  BY <1>4, CallerFacts, ReturnsOnlyIInv DEF Missed
<1>5. CASE Inside(c) /\ Role[c] # "extraction" /\ url[c] \in Allowed
  BY <1>1, <1>5, GoesOnlyIInv DEF Missed, Busy, Probing
<1>6. QED
  BY <1>2, <1>3, <1>4, <1>5

LEMMA LoadIInv ==
    ASSUME IInv, NEW c \in Callers, LoadPointer(c) \/ LoadBody(c) \/ LoadBlob(c)
    PROVE IInv'
<1>1. pc[c] # "free"
  BY DEF LoadPointer, LoadBody, LoadBlob
<1>2. /\ url[c] \in kept => /\ Digest[url[c]] \in contents[using]
                            /\ pointers[using][url[c]] \in {"hashed", "bare"}
      /\ pointers[using][url[c]] \in {"hashed", "bare", "legacy", None}
      /\ failed \subseteq Urls
  BY <1>1, CallerFacts, StateTypes DEF IInv, KeptCanBeLoaded
<1>3. CASE LoadPointer(c)
  <2> DEFINE pointer == pointers[using][url[c]]
  <2>1. CASE pointer = None \/ (pointer = "bare" /\ hashed[c])
    <3>1. NotKept(c)
      BY <1>2, <2>1, CallersAssumption DEF NotKept
    <3>2. Missed(c) /\ UNCHANGED <<storeVars, using, kept, failed>>
      BY <1>3, <2>1 DEF LoadPointer
    <3>3. QED
      BY <1>1, <3>1, <3>2, MissedIInv
  <2>2. CASE pointer # None /\ ~(pointer = "bare" /\ hashed[c])
    <3>1. PICK next \in {"body", "bare body", "blob"} :
            /\ Goes(c, next) /\ UNCHANGED <<storeVars, using, kept, failed>>
            /\ next = "blob" => pointer = "legacy"
      BY <1>2, <1>3, <2>2 DEF LoadPointer
    <3>2. next = "blob" => NotKept(c)
      BY <1>2, <3>1 DEF NotKept
    <3>3. next \in Busy /\ next \in Probing /\ next \in OutsideToo /\ next # "note failure"
          /\ (next \notin Asking => next = "blob")
      BY DEF Busy, Probing, OutsideToo, Asking
    <3>4. QED
      BY <1>1, <1>2, <3>1, <3>2, <3>3, GoesOnlyIInv
  <2>3. QED
    BY <2>1, <2>2
<1>4. CASE LoadBody(c)
  <2>1. CASE Digest[url[c]] \in contents[using]
    BY <1>1, <1>4, <2>1, ReturnsOnlyIInv DEF LoadBody
  <2>2. CASE Digest[url[c]] \notin contents[using]
    <3>1. NotKept(c)
      BY <1>2, <2>2 DEF NotKept
    <3>2. CASE pc[c] = "body"
      BY <1>1, <1>2, <1>4, <2>2, <3>1, <3>2, GoesOnlyIInv
         DEF LoadBody, Busy, Probing, OutsideToo
    <3>3. CASE pc[c] # "body"
      BY <1>1, <1>4, <2>2, <3>1, <3>3, MissedIInv DEF LoadBody
    <3>4. QED
      BY <3>2, <3>3
  <2>3. QED
    BY <2>1, <2>2
<1>5. CASE LoadBlob(c)
  <2>1. Inside(c) => NotKept(c)
    BY <1>5, CallerFacts DEF LoadBlob, Asking
  <2>2. CASE url[c] \in blobs[using]
    BY <1>1, <1>5, <2>2, ReturnsOnlyIInv DEF LoadBlob
  <2>3. CASE url[c] \notin blobs[using]
    BY <1>1, <1>5, <2>1, <2>3, MissedIInv DEF LoadBlob
  <2>4. QED
    BY <2>2, <2>3
<1>6. QED
  BY <1>3, <1>4, <1>5

LEMMA GetLockIInv ==
    ASSUME IInv, NEW c \in Callers, GetLock(c)
    PROVE IInv'
<1> USE DEF GetLock, storeVars
<1>1. url[c] \in Urls /\ pc[c] = "lock" /\ lock[url[c]] = None
  BY CallerFacts
<1>2. \A d \in Callers : Inside(d) => Inside(d)'
  BY <1>1, StateTypes, CallersAssumption DEF Inside
<1>3. \A d \in Callers \ {c} : Inside(d)' => Inside(d)
  BY <1>1, StateTypes DEF Inside
<1>4. TypeOK'
  <2>1. \A u \in Urls : lock'[u] # None => url'[lock'[u]] = u
    BY <1>1 DEF IInv, TypeOK
  <2>2. \A d \in Callers : pc'[d] \notin {"free", "load", "body", "bare body", "blob", "lock"} => Inside(d)'
    BY <1>2 DEF IInv, TypeOK
  <2>3. QED
    BY <2>1, <2>2 DEF IInv, TypeOK
<1>5. CallersKnow' /\ DiscoveryOnlyProbes' /\ FailuresHappened' /\ KeptCanBeLoaded' /\ RefusedForCause'
  BY DEF IInv, TypeOK, CallersKnow, DiscoveryOnlyProbes, FailuresHappened, KeptCanBeLoaded, RefusedForCause
<1>6. MissedIsNotKept'
  BY <1>3 DEF IInv, TypeOK, MissedIsNotKept
<1>7. QED
  BY <1>4, <1>5, <1>6 DEF IInv

(* From the HEAD to the end of the extraction nothing is stored. *)
LEMMA ExtractIInv ==
    ASSUME IInv, NEW c \in Callers,
           StartHead(c) \/ EndHead(c) \/ CheckFailure(c) \/ StartExtraction(c) \/ EndExtraction(c)
    PROVE IInv'
<1>1. /\ pc[c] \in {"head", "heading", "failure?", "permit", "extracting"}
      /\ pc[c] # "free" /\ pc[c] \notin OutsideToo /\ pc[c] \notin Asking
  BY DEF StartHead, EndHead, CheckFailure, StartExtraction, EndExtraction, OutsideToo, Asking
<1>2. /\ url[c] \in Urls /\ Inside(c) /\ NotKept(c) /\ Role[c] \in Roles
      /\ Role[c] = "recovery" => ~hashed[c] /\ url[c] \in Allowed
      /\ Role[c] = "discovery" => pc[c] \in Probing
  BY <1>1, CallerFacts
<1>3. failed \subseteq Urls
  BY DEF IInv, TypeOK
<1>4. CASE StartHead(c)
  BY <1>1, <1>2, <1>3, <1>4, GoesOnlyIInv DEF StartHead, Busy, Probing
<1>5. CASE EndHead(c)
  <2>1. CASE Returns(c, "native")
    BY <1>1, <1>5, <2>1, ReturnsOnlyIInv DEF EndHead
  <2>2. CASE Role[c] = "discovery" /\ Returns(c, "nothing")
    BY <1>1, <1>5, <2>2, ReturnsOnlyIInv DEF EndHead
  <2>3. CASE Role[c] # "discovery" /\ Goes(c, "failure?")
    BY <1>1, <1>2, <1>3, <1>5, <2>3, GoesOnlyIInv DEF EndHead, Busy
  <2>4. QED
    BY <1>5, <2>1, <2>2, <2>3 DEF EndHead
<1>6. CASE CheckFailure(c)
  <2>1. CASE FailureKey(c) \in failures[using] \/ url[c] \notin Allowed
    <3>1. Role[c] = "recovery" => url[c] \in failed
      BY <1>2, <2>1 DEF FailureKey, IInv, TypeOK, FailuresHappened
    <3>2. QED
      BY <1>1, <1>6, <2>1, <3>1, ReturnsOnlyIInv DEF CheckFailure
  <2>2. CASE ~(FailureKey(c) \in failures[using] \/ url[c] \notin Allowed)
    BY <1>1, <1>2, <1>3, <1>6, <2>2, GoesOnlyIInv DEF CheckFailure, Busy, Probing, OutsideToo, Asking
  <2>3. QED
    BY <2>1, <2>2
<1>7. CASE StartExtraction(c)
  BY <1>1, <1>2, <1>3, <1>7, GoesOnlyIInv DEF StartExtraction, Busy, Probing, OutsideToo, Asking
<1>8. CASE EndExtraction(c)
  <2>1. failed \subseteq failed' /\ failed' \subseteq Urls
    BY <1>2, <1>3, <1>8 DEF EndExtraction
  <2>2. CASE Goes(c, "store content")
    BY <1>1, <1>2, <1>8, <2>1, <2>2, GoesOnlyIInv DEF EndExtraction, Busy, Probing, OutsideToo, Asking
  <2>3. CASE Goes(c, "note failure") /\ (Role[c] = "recovery" => url[c] \in failed')
    BY <1>1, <1>2, <1>8, <2>1, <2>3, GoesOnlyIInv DEF EndExtraction, Busy, Probing, OutsideToo, Asking
  <2>4. QED
    BY <1>8, <2>2, <2>3 DEF EndExtraction
<1>9. QED
  BY <1>4, <1>5, <1>6, <1>7, <1>8

(* Storing adds texts first and the pointer last; whatever the backend is   *)
(* by then, what is kept can be loaded from it.                             *)
LEMMA StoreIInv ==
    ASSUME IInv, NEW c \in Callers,
           StoreContent(c) \/ StoreBlob(c) \/ StorePointer(c) \/ NoteFailure(c)
    PROVE IInv'
<1>1. /\ pc[c] \in {"store content", "store blob", "store pointer", "note failure"}
      /\ pc[c] # "free" /\ pc[c] \notin Probing /\ pc[c] \notin OutsideToo /\ pc[c] \notin Asking
  BY DEF StoreContent, StoreBlob, StorePointer, NoteFailure, Probing, OutsideToo, Asking
<1>2. /\ url[c] \in Urls /\ Inside(c) /\ NotKept(c)
      /\ Role[c] # "discovery" /\ Role[c] \in Roles
      /\ Role[c] = "extraction" => hashed[c]
      /\ Role[c] = "recovery" => ~hashed[c]
      /\ pc[c] = "note failure" /\ Role[c] = "recovery" => url[c] \in failed
  BY <1>1, CallerFacts
<1>3. /\ contents \in [Backends -> SUBSET Digests] /\ blobs \in [Backends -> SUBSET Urls]
      /\ failures \in [Backends -> SUBSET (Urls \X {"wheel", "recovery"})]
      /\ failed \subseteq Urls /\ using \in Backends /\ kept \subseteq Urls
  BY DEF IInv, TypeOK
<1>4. ASSUME NEW next \in {"store blob", "store pointer"}, Goes(c, next),
             UNCHANGED <<pointers, failures, using, kept, failed>>,
             contents' \in [Backends -> SUBSET Digests], blobs' \in [Backends -> SUBSET Urls],
             \A b \in Backends : contents[b] \subseteq contents'[b]
      PROVE IInv'
  <2>1. next \in Busy /\ next # "note failure"
    BY DEF Busy
  <2>2. QED
    BY <1>1, <1>2, <1>3, <1>4, <2>1, GoesIInv
<1>5. CASE StoreContent(c)
  <2>1. Digest[url[c]] \in Digests
    BY <1>2 DEF Digests
  <2>2. /\ contents' \in [Backends -> SUBSET Digests]
        /\ \A b \in Backends : contents[b] \subseteq contents'[b]
    BY <1>3, <1>5, <2>1 DEF StoreContent
  <2>3. QED
    BY <1>3, <1>4, <1>5, <2>2 DEF StoreContent
<1>6. CASE StoreBlob(c)
  <2>1. blobs' \in [Backends -> SUBSET Urls]
    BY <1>2, <1>3, <1>6 DEF StoreBlob
  <2>2. QED
    BY <1>3, <1>4, <1>6, <2>1 DEF StoreBlob
<1>7. CASE StorePointer(c)
  <2>1. /\ pointers' \in [Backends -> [Urls -> {"hashed", "bare", "legacy", None}]]
        /\ pointers'[using][url[c]] \in {"hashed", "bare"}
        /\ \A u \in Urls \ {url[c]} : pointers'[using][u] = pointers[using][u]
    BY <1>2, <1>7, StateTypes DEF StorePointer
  <2>2. kept' \subseteq Urls /\ kept' \subseteq kept \cup {url[c]}
        /\ \A u \in kept' : u \in kept \/ (u = url[c] /\ Digest[u] \in contents[using])
    BY <1>2, <1>3, <1>7 DEF StorePointer
  <2>3. KeptCanBeLoaded'
    BY <1>3, <1>7, <2>1, <2>2 DEF StorePointer, IInv, KeptCanBeLoaded
  <2>4. Returns(c, "body") /\ UNCHANGED <<contents, blobs, using, failed, failures>>
    BY <1>7 DEF StorePointer
  <2>5. \A b \in Backends, u \in Urls : <<u, "recovery">> \in failures'[b] => u \in failed
    BY <2>4 DEF IInv, FailuresHappened
  <2>6. QED
    BY <1>1, <1>2, <1>3, <2>1, <2>2, <2>3, <2>4, <2>5, ReturnsIInv
<1>8. CASE NoteFailure(c)
  <2>1. Returns(c, "nothing") /\ UNCHANGED <<contents, blobs, pointers, using, kept, failed>>
    BY <1>8 DEF NoteFailure
  <2>2. FailureKey(c) \in Urls \X {"wheel", "recovery"}
        /\ \A u : <<u, "recovery">> = FailureKey(c) => u \in failed
    BY <1>1, <1>2, <1>8 DEF FailureKey, NoteFailure, Roles
  <2>3. failures' \in [Backends -> SUBSET (Urls \X {"wheel", "recovery"})]
    BY <1>3, <1>8, <2>2 DEF NoteFailure
  <2>4. \A b \in Backends, u \in Urls : <<u, "recovery">> \in failures'[b] => u \in failed
    BY <1>3, <1>8, <2>2 DEF NoteFailure, IInv, FailuresHappened
  <2>5. KeptCanBeLoaded'
    BY <2>1 DEF IInv, KeptCanBeLoaded
  <2>6. QED
    BY <1>1, <1>2, <1>3, <1>8, <2>1, <2>3, <2>4, <2>5, ReturnsIInv, StateTypes DEF NoteFailure
<1>9. QED
  BY <1>5, <1>6, <1>7, <1>8

------------------------------------------------------------------------------
(* The steps of the world: nothing is kept after them. *)

LEMMA WorldIInv ==
    ASSUME IInv, Evict \/ Failover \/ \E u \in Urls : LegacyStore(u)
    PROVE IInv'
<1> USE DEF storeVars, callVars
<1>1. kept' = {} /\ UNCHANGED <<pc, url, hashed, lock, failed, refused>>
  BY DEF Evict, Failover, LegacyStore
<1>2. /\ contents' \in [Backends -> SUBSET Digests] /\ blobs' \in [Backends -> SUBSET Urls]
      /\ pointers' \in [Backends -> [Urls -> {"hashed", "bare", "legacy", None}]]
      /\ failures' \in [Backends -> SUBSET (Urls \X {"wheel", "recovery"})]
      /\ \A b \in Backends : failures'[b] \subseteq failures[b]
      /\ using' \in Backends
  <2>1. /\ contents \in [Backends -> SUBSET Digests] /\ blobs \in [Backends -> SUBSET Urls]
        /\ pointers \in [Backends -> [Urls -> {"hashed", "bare", "legacy", None}]]
        /\ failures \in [Backends -> SUBSET (Urls \X {"wheel", "recovery"})]
        /\ using \in Backends /\ "redis" \in Backends
    BY DEF IInv, TypeOK, Backends
  <2>2. CASE Evict
    <3>1. CASE \E d \in contents[using] :
            /\ contents' = [contents EXCEPT ![using] = @ \ {d}]
            /\ UNCHANGED <<blobs, pointers, failures, using>>
      BY <2>1, <3>1
    <3>2. CASE \E u \in blobs[using] :
            /\ blobs' = [blobs EXCEPT ![using] = @ \ {u}]
            /\ UNCHANGED <<contents, pointers, failures, using>>
      BY <2>1, <3>2
    <3>3. CASE \E u \in Urls :
            /\ pointers' = [pointers EXCEPT ![using][u] = None]
            /\ UNCHANGED <<contents, blobs, failures, using>>
      BY <2>1, <3>3
    <3>4. CASE \E f \in failures[using] :
            /\ failures' = [failures EXCEPT ![using] = @ \ {f}]
            /\ UNCHANGED <<contents, blobs, pointers, using>>
      BY <2>1, <3>4
    <3>5. QED
      BY <2>2, <3>1, <3>2, <3>3, <3>4 DEF Evict
  <2>3. CASE Failover
    BY <2>1, <2>3 DEF Failover
  <2>4. CASE \E u \in Urls : LegacyStore(u)
    BY <2>1, <2>4 DEF LegacyStore
  <2>5. QED
    BY <2>2, <2>3, <2>4
<1>3. TypeOK'
  BY <1>1, <1>2 DEF IInv, TypeOK, Inside
<1>4. CallersKnow' /\ DiscoveryOnlyProbes' /\ RefusedForCause'
  BY <1>1 DEF IInv, CallersKnow, DiscoveryOnlyProbes, RefusedForCause
<1>5. FailuresHappened' /\ KeptCanBeLoaded' /\ MissedIsNotKept'
  BY <1>1, <1>2 DEF IInv, FailuresHappened, KeptCanBeLoaded, MissedIsNotKept
<1>6. QED
  BY <1>3, <1>4, <1>5 DEF IInv

LEMMA NextIInv == IInv /\ [Next]_vars => IInv'
<1> SUFFICES ASSUME IInv, [Next]_vars PROVE IInv'
  OBVIOUS
<1>1. ASSUME NEW c \in Callers, Ask(c) \/ Step(c) \/ Cancel(c) PROVE IInv'
  <2>1. CASE Ask(c)
    BY <2>1, AskIInv
  <2>2. CASE Step(c)
    BY <2>2, LoadIInv, GetLockIInv, ExtractIInv, StoreIInv DEF Step
  <2>3. CASE Cancel(c)
    BY <2>3, ReturnsOnlyIInv DEF Cancel
  <2>4. QED
    BY <1>1, <2>1, <2>2, <2>3
<1>2. CASE Evict \/ Failover \/ \E u \in Urls : LegacyStore(u)
  BY <1>2, WorldIInv
<1>3. CASE UNCHANGED vars
  <2>1. TypeOK'
    BY <1>3 DEF vars, IInv, TypeOK, Inside
  <2>2. QED
    BY <1>3, <2>1 DEF vars, IInv, CallersKnow, DiscoveryOnlyProbes, FailuresHappened,
         KeptCanBeLoaded, MissedIsNotKept, RefusedForCause, Inside
<1>4. QED
  BY <1>1, <1>2, <1>3 DEF Next

------------------------------------------------------------------------------

(* The inductive invariant holds, whatever the limits and the world are.    *)
THEOREM Invariance == Spec => []IInv
<1>1. Init => IInv
  BY InitIInv
<1>2. IInv /\ [Next]_vars => IInv'
  BY NextIInv
<1>3. QED
  BY <1>1, <1>2, PTL DEF Spec

(* The state is well-typed, and callers past the fill lock hold it. *)
THEOREM TypeCorrect == Spec => []TypeOK
<1>1. IInv => TypeOK
  BY DEF IInv
<1>2. QED
  BY <1>1, Invariance, PTL

(* A request for metadata is refused only after a recovery of it failed,    *)
(* never because background work failed or was cancelled.                   *)
THEOREM Refusals == Spec => []RefusedForCause
<1>1. IInv => RefusedForCause
  BY DEF IInv
<1>2. QED
  BY <1>1, Invariance, PTL

(* Only StartExtraction begins to read a wheel. *)
LEMMA OnlyByStarting ==
    ASSUME IInv, Next, NEW c \in Callers, pc[c] # "extracting", pc'[c] = "extracting"
    PROVE StartExtraction(c)
<1>1. pc \in [Callers -> Busy \cup {"free"}]
  BY StateTypes
<1>2. ASSUME NEW d \in Callers, NEW next, next # "extracting", Goes(d, next) PROVE FALSE
  BY <1>1, <1>2 DEF Goes
<1>3. ASSUME NEW d \in Callers, NEW result, Returns(d, result) PROVE FALSE
  BY <1>1, <1>3 DEF Returns
<1>4. ASSUME NEW d \in Callers, Missed(d) PROVE FALSE
  BY <1>2, <1>3, <1>4 DEF Missed
<1>5. ASSUME NEW d \in Callers, Ask(d) \/ Step(d) \/ Cancel(d) PROVE StartExtraction(c)
  <2>1. CASE StartExtraction(d)
    BY <1>1, <2>1 DEF StartExtraction, Goes
  <2>2. CASE Ask(d) \/ GetLock(d)
    BY <1>1, <2>2 DEF Ask, GetLock
  <2>3. CASE Cancel(d)
    BY <1>3, <2>3 DEF Cancel
  <2>4. CASE LoadPointer(d)
    <3>1. pointers[using][url[d]] \in {"hashed", "bare", "legacy", None}
      BY <2>4, CallerFacts, StateTypes DEF LoadPointer
    <3>2. QED
      BY <1>2, <1>4, <2>4, <3>1 DEF LoadPointer
  <2>5. CASE LoadBody(d) \/ LoadBlob(d)
    BY <1>2, <1>3, <1>4, <2>5 DEF LoadBody, LoadBlob
  <2>6. CASE StartHead(d) \/ EndHead(d) \/ CheckFailure(d) \/ EndExtraction(d)
    BY <1>2, <1>3, <2>6 DEF StartHead, EndHead, CheckFailure, EndExtraction
  <2>7. CASE StoreContent(d) \/ StoreBlob(d) \/ StorePointer(d) \/ NoteFailure(d)
    BY <1>2, <1>3, <2>7 DEF StoreContent, StoreBlob, StorePointer, NoteFailure
  <2>8. QED
    BY <1>5, <2>1, <2>2, <2>3, <2>4, <2>5, <2>6, <2>7 DEF Step
<1>6. CASE pc' = pc
  BY <1>6
<1>7. QED
  BY <1>5, <1>6 DEF Next, Evict, Failover, LegacyStore

(* "one extraction per wheel": what is stored is not extracted again while  *)
(* nothing is lost, however many callers missed it together.                *)
THEOREM NoSecondExtraction == Spec => ExtractedOnce
<1>1. IInv /\ [Next]_vars =>
        [\A c \in Callers : pc[c] # "extracting" /\ pc'[c] = "extracting" =>
            url[c] \notin kept \/ (pointers[using][url[c]] = "bare" /\ hashed[c])]_vars
  <2> SUFFICES ASSUME IInv, Next, NEW c \in Callers, pc[c] # "extracting", pc'[c] = "extracting"
               PROVE url[c] \notin kept \/ (pointers[using][url[c]] = "bare" /\ hashed[c])
    OBVIOUS
  <2>1. StartExtraction(c)
    BY OnlyByStarting
  <2>2. NotKept(c)
    BY <2>1, CallerFacts DEF StartExtraction, OutsideToo, Asking
  <2>3. QED
    BY <2>2 DEF NotKept
<1>2. QED
  BY <1>1, Invariance, PTL DEF Spec, ExtractedOnce
=============================================================================
