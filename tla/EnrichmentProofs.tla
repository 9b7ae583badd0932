-------------------------- MODULE EnrichmentProofs --------------------------
(***************************************************************************)
(* Proofs about Enrichment: for any processes, requests, jobs, wheels and  *)
(* moves of the world, what background work commits only adds to the       *)
(* current body, its markers are for the body that is there, and a body    *)
(* that is marked ready was tried in full.                                 *)
(***************************************************************************)
EXTENDS Enrichment, FiniteSetTheorems, TLAPS

Pcs == {"free", "check", "marker", "body ttl", "fetch", "fill", "restale", "promote", "convert",
        "start", "probe", "extract", "lock", "bound ttl", "commit"}
Late == {"lock", "bound ttl", "commit"}
Kinds == {"discovery", "extraction"}

------------------------------------------------------------------------------
(* Bodies *)

(* The candidates are among the wheels that the body does not advertise.    *)
LEMMA CandidatesFit ==
    ASSUME NEW b \in Bodies
    PROVE /\ b.ver \in Versions /\ b.adv \subseteq WheelsOf[b.ver]
          /\ WheelsOf[b.ver] \subseteq Wheels
          /\ Candidates(b) \subseteq WheelsOf[b.ver] \ b.adv
BY DEF Bodies, Candidates, Missing, Wheels

LEMMA PlainFits ==
    ASSUME NEW v \in Versions
    PROVE Plain(v) \in Bodies /\ Plain(v).ver = v /\ Plain(v).adv = {}
BY DEF Plain, Bodies

LEMMA AdvertiseFits ==
    ASSUME NEW b \in Bodies, NEW wheels, wheels \subseteq WheelsOf[b.ver]
    PROVE /\ Advertise(b, wheels) \in Bodies
          /\ Advertise(b, wheels).ver = b.ver
          /\ Advertise(b, wheels).adv = b.adv \cup wheels
<1>1. b \in [ver : Versions, adv : SUBSET Wheels] /\ b.adv \subseteq WheelsOf[b.ver]
  BY DEF Bodies
<1>2. wheels \subseteq Wheels
  BY CandidatesFit
<1>3. QED
  BY <1>1, <1>2 DEF Advertise, Bodies

LEMMA AdvertiseNothing == ASSUME NEW b \in Bodies PROVE Advertise(b, {}) = b
<1>1. b \in [ver : Versions, adv : SUBSET Wheels]
  BY DEF Bodies
<1>2. QED
  BY <1>1 DEF Advertise

(* A candidate of the page as upstream serves it is still one after others  *)
(* have been advertised: fewer wheels are missing.                          *)
LEMMA CandidatesStay ==
    ASSUME NEW b \in Bodies
    PROVE Candidates(Plain(b.ver)) \subseteq Candidates(b) \cup b.adv
<1> SUFFICES ASSUME NEW f \in Candidates(Plain(b.ver)), f \notin b.adv
             PROVE f \in Candidates(b)
  OBVIOUS
<1> DEFINE all == {g \in WheelsOf[b.ver] : g > f}
           few == {g \in Missing(b) : g > f}
<1>1. b.ver \in Versions
  BY CandidatesFit
<1>2. f \in WheelsOf[b.ver] /\ Cardinality(all) < Limit
  BY <1>1 DEF Candidates, Missing, Plain
<1>3. IsFiniteSet(all) /\ few \subseteq all
  BY <1>1, VersionsAssumption, FS_Subset DEF Missing
<1>4. Cardinality(few) <= Cardinality(all) /\ IsFiniteSet(few)
  BY <1>3, FS_Subset
<1>5. Cardinality(few) \in Nat /\ Cardinality(all) \in Nat
  BY <1>3, <1>4, FS_CardinalityType
<1>6. Cardinality(few) < Limit
  BY <1>2, <1>4, <1>5, LimitAssumption
<1>7. QED
  BY <1>2, <1>6 DEF Candidates, Missing

------------------------------------------------------------------------------
(* How a step changes the slots *)

Same(y) == /\ pc'[y] = pc[y] /\ held'[y] = held[y]
           /\ y \in Jobs => phase'[y] = phase[y] /\ found'[y] = found[y] /\ bound'[y] = bound[y]
Gone(y) == pc'[y] = "free" /\ held'[y] = None
Begun(y) == /\ y \in Jobs /\ pc[y] = "free" /\ pc'[y] = "start" /\ held'[y] \in Bodies
            /\ phase'[y] \in Kinds
At(y) == /\ pc'[y] # "free" /\ (pc'[y] # "fetch" => held'[y] \in Bodies)
         /\ y \in Jobs => phase'[y] \in Kinds /\ (pc'[y] = "probe" => phase'[y] = "discovery")
         /\ y \in Jobs /\ pc'[y] \in Late =>
              /\ found'[y] \subseteq WheelsOf[held'[y].ver]
              /\ phase'[y] = "extraction" => Candidates(held'[y]) \cap Extractable \subseteq tried'

TasksTyped ==
    /\ pc \in [Slots -> Pcs] /\ held \in [Slots -> MaybeBody]
    /\ phase \in [Jobs -> Kinds \cup {None}]
    /\ found \in [Jobs -> SUBSET Wheels]
    /\ bound \in [Jobs -> {"fresh", "stale", None}]
CacheTyped == {fresh, stale, discovered, ready} \subseteq MaybeBody

LEMMA StateTypes ==
    ASSUME IInv
    PROVE /\ TasksTyped /\ CacheTyped
          /\ version \in Versions /\ calm \in BOOLEAN /\ tried \subseteq Wheels
BY DEF IInv, TypeOK, TasksTyped, CacheTyped, Pcs, Kinds

(* The slots are in order after a step that does this to each of them.      *)
LEMMA SlotsIInv ==
    ASSUME IInv, TasksTyped', CacheTyped', version' \in Versions, calm' \in BOOLEAN,
           tried \subseteq tried', tried' \subseteq Wheels, ReadyMeansTried',
           \A y \in Slots : Same(y) \/ Gone(y) \/ Begun(y) \/ At(y)
    PROVE IInv'
<1>1. \A x \in Slots : pc'[x] = "free" => held'[x] = None
  BY DEF IInv, TypeOK, Same, Gone, Begun, At
<1>2. TypeOK'
  BY <1>1 DEF TypeOK, TasksTyped, CacheTyped, Pcs, Kinds
<1>3. BodiesInHand'
  BY DEF IInv, BodiesInHand, Same, Gone, Begun, At
<1>4. JobsHavePhase'
  BY DEF IInv, JobsHavePhase, Same, Gone, Begun, At, Slots, Kinds
<1>5. FindingsFit'
  <2> SUFFICES ASSUME NEW j \in Jobs, pc'[j] \in Late
               PROVE /\ found'[j] \subseteq WheelsOf[held'[j].ver]
                     /\ phase'[j] = "extraction" =>
                          Candidates(held'[j]) \cap Extractable \subseteq tried'
    BY DEF FindingsFit, Late, Candidates, Missing
  <2>1. CASE Same(j)
    BY <2>1 DEF IInv, FindingsFit, Same, Late
  <2>2. CASE At(j)
    BY <2>2 DEF At
  <2>3. QED
    BY <2>1, <2>2 DEF Gone, Begun, Late, Slots
<1>6. QED
  BY <1>2, <1>3, <1>4, <1>5 DEF IInv

LEMMA InitIInv == Init => IInv
<1> SUFFICES ASSUME Init PROVE IInv
  OBVIOUS
<1> USE DEF Init
<1>1. 1 \in Versions
  BY VersionsAssumption DEF Versions
<1>2. TypeOK
  BY <1>1 DEF TypeOK, MaybeBody
<1>3. BodiesInHand /\ JobsHavePhase /\ FindingsFit /\ ReadyMeansTried
  BY DEF BodiesInHand, JobsHavePhase, FindingsFit, ReadyMeansTried, Slots
<1>4. QED
  BY <1>2, <1>3 DEF IInv

(* A slot goes on with a body. *)
LEMMA GoesFrame ==
    ASSUME IInv, NEW x \in Slots, NEW next \in Pcs, NEW b \in MaybeBody, Goes(x, next, b)
    PROVE /\ TasksTyped' /\ \A y \in Slots \ {x} : Same(y)
          /\ pc'[x] = next /\ held'[x] = b
          /\ UNCHANGED <<phase, found, bound>>
<1>1. TasksTyped
  BY StateTypes
<1>2. QED
  BY <1>1 DEF Goes, TasksTyped, Same

(* A slot is given up. *)
LEMMA EndsFrame ==
    ASSUME IInv, NEW x \in Slots, EndsSlot(x)
    PROVE TasksTyped' /\ Gone(x) /\ \A y \in Slots \ {x} : Same(y)
<1>1. TasksTyped
  BY StateTypes
<1>2. /\ pc' = [pc EXCEPT ![x] = "free"] /\ held' = [held EXCEPT ![x] = None]
      /\ UNCHANGED <<phase, found, bound>> \/
            /\ x \in Jobs
            /\ phase' = [phase EXCEPT ![x] = None] /\ found' = [found EXCEPT ![x] = {}]
            /\ bound' = [bound EXCEPT ![x] = None]
  BY DEF EndsSlot, EndsJob, EndsRequest, Ends
<1>3. TasksTyped'
  BY <1>1, <1>2 DEF TasksTyped, Pcs, MaybeBody
<1>4. Gone(x)
  BY <1>1, <1>2 DEF TasksTyped, Gone
<1>5. \A y \in Slots \ {x} : Same(y)
  BY <1>1, <1>2 DEF TasksTyped, Same
<1>6. QED
  BY <1>3, <1>4, <1>5

(* A slot is given up, and another one may be started in its place. *)
LEMMA SpawnFrame ==
    ASSUME IInv, NEW x \in Slots, NEW kind \in Kinds, NEW b \in Bodies, Spawn(x, kind, b)
    PROVE TasksTyped' /\ (Gone(x) \/ Begun(x)) /\ \A y \in Slots \ {x} : Same(y) \/ Begun(y)
<1> DEFINE slots == {j \in Jobs : Home[j] = Home[x] /\ pc[j] = "free"}
<1>1. TasksTyped
  BY StateTypes
<1>2. CASE slots = {}
  BY <1>2, EndsFrame DEF Spawn
<1>3. ASSUME NEW j \in slots,
             pc' = [pc EXCEPT ![x] = "free", ![j] = "start"],
             held' = [held EXCEPT ![x] = None, ![j] = b],
             phase' = [i \in Jobs |-> IF i = j THEN kind ELSE IF i = x THEN None ELSE phase[i]],
             found' = [i \in Jobs |-> IF i = x THEN {} ELSE found[i]],
             bound' = [i \in Jobs |-> IF i = x THEN None ELSE bound[i]]
      PROVE TasksTyped' /\ (Gone(x) \/ Begun(x)) /\ \A y \in Slots \ {x} : Same(y) \/ Begun(y)
  <2>1. j \in Jobs /\ j \in Slots /\ pc[j] = "free"
    BY DEF Slots
  <2>2. TasksTyped'
    BY <1>1, <1>3, <2>1 DEF TasksTyped, Pcs, Kinds, MaybeBody
  <2>3. Begun(j)
    BY <1>1, <1>3, <2>1 DEF TasksTyped, Begun
  <2>4. x # j => Gone(x)
    BY <1>1, <1>3, <2>1 DEF TasksTyped, Gone
  <2>5. \A y \in Slots \ {x, j} : Same(y)
    BY <1>1, <1>3, <2>1 DEF TasksTyped, Same
  <2>6. QED
    BY <2>2, <2>3, <2>4, <2>5
<1>4. QED
  BY <1>2, <1>3 DEF Spawn

LEMMA ScheduleFrame ==
    ASSUME IInv, NEW x \in Slots, NEW b \in Bodies,
           ScheduleDiscovery(x, b) \/ ScheduleExtraction(x, b)
    PROVE TasksTyped' /\ (Gone(x) \/ Begun(x)) /\ \A y \in Slots \ {x} : Same(y) \/ Begun(y)
BY EndsFrame, SpawnFrame DEF ScheduleDiscovery, ScheduleExtraction, Kinds

LEMMA EndsRequestFrame ==
    ASSUME IInv, NEW r \in Requests, EndsRequest(r)
    PROVE TasksTyped' /\ Gone(r) /\ \A y \in Slots \ {r} : Same(y)
<1>1. r \in Slots /\ EndsSlot(r)
  BY SlotsAssumption DEF Slots, EndsSlot
<1>2. QED
  BY <1>1, EndsFrame

LEMMA EndsJobFrame ==
    ASSUME IInv, NEW j \in Jobs, EndsJob(j)
    PROVE TasksTyped' /\ Gone(j) /\ \A y \in Slots \ {j} : Same(y)
<1>1. j \in Slots /\ EndsSlot(j)
  BY DEF Slots, EndsSlot
<1>2. QED
  BY <1>1, EndsFrame

(* A step that writes nothing. *)
LEMMA ReadsIInv ==
    ASSUME IInv, TasksTyped', UNCHANGED <<cacheVars, worldVars>>, tried \subseteq tried', tried' \subseteq Wheels,
           \A y \in Slots : Same(y) \/ Gone(y) \/ Begun(y) \/ At(y)
    PROVE IInv'
<1>1. CacheTyped' /\ version' \in Versions /\ calm' \in BOOLEAN
  BY StateTypes DEF CacheTyped, cacheVars, worldVars
<1>2. ReadyMeansTried'
  BY DEF IInv, ReadyMeansTried, cacheVars, Candidates, Missing
<1>3. QED
  BY <1>1, <1>2, SlotsIInv

------------------------------------------------------------------------------
(* Requests *)

(* A request goes on with a body. *)
LEMMA RequestGoes ==
    ASSUME IInv, NEW r \in Requests, NEW next \in Pcs, next # "free", NEW b \in MaybeBody, Goes(r, next, b),
           b \in Bodies \/ next = "fetch"
    PROVE TasksTyped' /\ \A y \in Slots : Same(y) \/ At(y)
<1>1. r \in Slots /\ r \notin Jobs
  BY SlotsAssumption DEF Slots
<1>2. QED
  BY <1>1, GoesFrame DEF At

LEMMA InHand ==
    ASSUME IInv, NEW x \in Slots, pc[x] \notin {"free", "fetch"}
    PROVE held[x] \in Bodies
BY DEF IInv, BodiesInHand

LEMMA RequestReadsIInv ==
    ASSUME IInv, NEW r \in Requests,
           \/ Hit(r) \/ CheckReady(r) \/ ReadMarker(r) \/ ReadBodyTtl(r) \/ Miss(r) \/ Fetch(r)
           \/ StartConversion(r)
    PROVE IInv'
<1>1. r \in Slots
  BY DEF Slots
<1>2. tried \subseteq Wheels /\ CacheTyped
  BY StateTypes
<1>3. UNCHANGED <<cacheVars, worldVars>> /\ tried' = tried
  BY DEF Hit, CheckReady, ReadMarker, ReadBodyTtl, Miss, Fetch, StartConversion
<1>4. ASSUME EndsRequest(r) PROVE IInv'
  BY <1>2, <1>3, <1>4, EndsRequestFrame, ReadsIInv
<1>5. ASSUME NEW b \in Bodies, ScheduleDiscovery(r, b) \/ ScheduleExtraction(r, b) PROVE IInv'
  BY <1>1, <1>2, <1>3, <1>5, ScheduleFrame, ReadsIInv
<1>6. ASSUME NEW next \in Pcs, next # "free", NEW b \in MaybeBody, Goes(r, next, b),
             b \in Bodies \/ next = "fetch"
      PROVE IInv'
  BY <1>2, <1>3, <1>6, RequestGoes, ReadsIInv
<1>7. {"check", "marker", "body ttl", "fetch", "fill", "restale", "promote", "convert"} \subseteq Pcs
      /\ Bodies \subseteq MaybeBody /\ None \in MaybeBody
  BY DEF Pcs, MaybeBody
<1>8. CASE Hit(r)
  <2>1. fresh \in Bodies
    BY <1>2, <1>8 DEF Hit, CacheTyped, MaybeBody
  <2>2. QED
    BY <1>6, <1>7, <1>8, <2>1 DEF Hit
<1>9. CASE CheckReady(r)
  <2>1. held[r] \in Bodies
    BY <1>1, <1>9, InHand DEF CheckReady
  <2>2. QED
    BY <1>4, <1>6, <1>7, <1>9, <2>1 DEF CheckReady
<1>10. CASE ReadMarker(r)
  <2>1. held[r] \in Bodies
    BY <1>1, <1>10, InHand DEF ReadMarker
  <2>2. QED
    BY <1>5, <1>6, <1>7, <1>10, <2>1 DEF ReadMarker
<1>11. CASE ReadBodyTtl(r)
  <2>1. held[r] \in Bodies
    BY <1>1, <1>11, InHand DEF ReadBodyTtl
  <2>2. QED
    BY <1>4, <1>5, <1>11, <2>1 DEF ReadBodyTtl
<1>12. CASE Miss(r)
  BY <1>6, <1>7, <1>12 DEF Miss
<1>13. CASE Fetch(r)
  <2>1. Plain(version) \in Bodies
    BY StateTypes, PlainFits
  <2>2. stale # None => stale \in Bodies
    BY <1>2 DEF CacheTyped, MaybeBody
  <2>3. QED
    BY <1>4, <1>6, <1>7, <1>13, <2>1, <2>2 DEF Fetch
<1>14. CASE StartConversion(r)
  BY <1>6, <1>7, <1>14 DEF StartConversion
<1>15. QED
  BY <1>8, <1>9, <1>10, <1>11, <1>12, <1>13, <1>14

(* Requests write bodies, never markers. *)
LEMMA RequestWritesIInv ==
    ASSUME IInv, NEW r \in Requests, Fill(r) \/ Restale(r) \/ Promote(r) \/ Convert(r)
    PROVE IInv'
<1>1. r \in Slots
  BY DEF Slots
<1>2. tried \subseteq Wheels /\ CacheTyped /\ version \in Versions /\ calm \in BOOLEAN
  BY StateTypes
<1>3. UNCHANGED <<discovered, ready, version, calm, tried>>
  BY DEF Fill, Restale, Promote, Convert, worldVars
<1>4. ReadyMeansTried'
  BY <1>3 DEF IInv, ReadyMeansTried, Candidates, Missing
<1>5. ASSUME NEW b \in Bodies, fresh' \in {fresh, b}, stale' \in {stale, b}, TasksTyped',
             \A y \in Slots : Same(y) \/ Gone(y) \/ Begun(y) \/ At(y)
      PROVE IInv'
  <2>1. CacheTyped'
    BY <1>2, <1>3, <1>5 DEF CacheTyped, MaybeBody
  <2>2. QED
    BY <1>2, <1>3, <1>4, <1>5, <2>1, SlotsIInv
<1>6. held[r] \in Bodies /\ held[r] \in MaybeBody /\ {"check", "promote"} \subseteq Pcs
  BY <1>1, InHand DEF Fill, Restale, Promote, Convert, MaybeBody, Pcs
<1>7. CASE Fill(r)
  BY <1>1, <1>5, <1>6, <1>7, ScheduleFrame, EndsRequestFrame DEF Fill
<1>8. CASE Restale(r)
  BY <1>5, <1>6, <1>8, RequestGoes DEF Restale
<1>9. CASE Promote(r)
  BY <1>5, <1>6, <1>9, RequestGoes, EndsRequestFrame DEF Promote
<1>10. CASE Convert(r)
  BY <1>1, <1>5, <1>6, <1>10, ScheduleFrame, EndsRequestFrame DEF Convert
<1>11. QED
  BY <1>7, <1>8, <1>9, <1>10

------------------------------------------------------------------------------
(* Background tasks *)

LEMMA JobFacts ==
    ASSUME IInv, NEW j \in Jobs, pc[j] \notin {"free", "fetch"}
    PROVE /\ j \in Slots /\ held[j] \in Bodies /\ phase[j] \in Kinds
          /\ Candidates(held[j]) \subseteq WheelsOf[held[j].ver]
          /\ WheelsOf[held[j].ver] \subseteq Wheels
          /\ pc[j] = "probe" => phase[j] = "discovery"
          /\ pc[j] \in Late =>
                /\ found[j] \subseteq WheelsOf[held[j].ver]
                /\ phase[j] = "extraction" => Candidates(held[j]) \cap Extractable \subseteq tried
<1>1. j \in Slots /\ held[j] \in Bodies
  BY InHand DEF Slots
<1>2. phase[j] \in Kinds /\ (pc[j] = "probe" => phase[j] = "discovery")
  BY DEF IInv, JobsHavePhase, Kinds
<1>3. QED
  BY <1>1, <1>2, CandidatesFit DEF IInv, FindingsFit, Late

(* A task goes on to probe or extract, with its body. *)
LEMMA JobGoes ==
    ASSUME IInv, NEW j \in Jobs, pc[j] \notin {"free", "fetch"}, NEW next \in {"probe", "extract"},
           Goes(j, next, held[j]), UNCHANGED <<cacheVars, worldVars, tried>>,
           next = "probe" => phase[j] = "discovery"
    PROVE IInv'
<1>1. j \in Slots /\ held[j] \in Bodies /\ held[j] \in MaybeBody /\ phase[j] \in Kinds
  BY JobFacts DEF MaybeBody
<1>2. next \in Pcs /\ next # "free" /\ next \notin Late
  BY DEF Pcs, Late
<1>3. TasksTyped' /\ At(j) /\ \A y \in Slots \ {j} : Same(y)
  BY <1>1, <1>2, GoesFrame DEF At
<1>4. QED
  BY <1>3, StateTypes, ReadsIInv

(* A task has its findings. *)
LEMMA ProbedIInv ==
    ASSUME IInv, NEW j \in Jobs, pc[j] \notin {"free", "fetch"}, NEW wheels,
           wheels \subseteq WheelsOf[held[j].ver], Probed(j, wheels),
           UNCHANGED <<cacheVars, worldVars>>, tried \subseteq tried', tried' \subseteq Wheels,
           phase[j] = "extraction" => Candidates(held[j]) \cap Extractable \subseteq tried'
    PROVE IInv'
<1>1. j \in Slots /\ held[j] \in Bodies /\ phase[j] \in Kinds /\ wheels \subseteq Wheels /\ TasksTyped
  BY JobFacts, StateTypes
<1>2. TasksTyped' /\ \A y \in Slots \ {j} : Same(y)
  BY <1>1 DEF Probed, TasksTyped, Same, Pcs
<1>3. pc'[j] = "lock" /\ held'[j] = held[j] /\ phase'[j] = phase[j] /\ found'[j] = wheels
  BY <1>1 DEF Probed, TasksTyped
<1>4. At(j)
  BY <1>1, <1>3 DEF At
<1>5. QED
  BY <1>2, <1>4, ReadsIInv

(* A task gives up. *)
LEMMA EndsJobIInv ==
    ASSUME IInv, NEW j \in Jobs, EndsJob(j), UNCHANGED <<cacheVars, worldVars, tried>>
    PROVE IInv'
BY EndsJobFrame, StateTypes, ReadsIInv

LEMMA JobReadsIInv ==
    ASSUME IInv, NEW j \in Jobs,
           \/ StartDiscovery(j) \/ Probe(j) \/ Reload(j) \/ Extract(j)
           \/ ReadUnderLock(j) \/ ReadBoundTtl(j)
    PROVE IInv'
<1>1. pc[j] \notin {"free", "fetch"}
  BY DEF StartDiscovery, Probe, Reload, Extract, ReadUnderLock, ReadBoundTtl
<1>2. /\ j \in Slots /\ held[j] \in Bodies /\ phase[j] \in Kinds
      /\ Candidates(held[j]) \subseteq WheelsOf[held[j].ver]
      /\ WheelsOf[held[j].ver] \subseteq Wheels
      /\ tried \subseteq Wheels /\ TasksTyped
  BY <1>1, JobFacts, StateTypes
<1>3. CASE StartDiscovery(j)
  <2>1. UNCHANGED <<cacheVars, worldVars, tried>> /\ phase[j] = "discovery"
    BY <1>3 DEF StartDiscovery
  <2>2. CASE Goes(j, "probe", held[j])
    BY <1>1, <2>1, <2>2, JobGoes
  <2>3. CASE ScheduleExtraction(j, held[j])
    BY <1>2, <2>1, <2>3, ScheduleFrame, ReadsIInv
  <2>4. CASE Probed(j, {})
    BY <1>1, <1>2, <2>1, <2>4, ProbedIInv
  <2>5. QED
    BY <1>3, <2>2, <2>3, <2>4 DEF StartDiscovery
<1>4. CASE Probe(j)
  <2>1. PICK wheels \in SUBSET Candidates(held[j]) : Probed(j, wheels)
    BY <1>4 DEF Probe
  <2>2. phase[j] = "discovery"
    BY <1>1, <1>4, JobFacts DEF Probe
  <2>3. QED
    BY <1>1, <1>2, <1>4, <2>1, <2>2, ProbedIInv DEF Probe
<1>5. CASE Reload(j)
  BY <1>1, <1>5, JobGoes, EndsJobIInv DEF Reload
<1>6. CASE Extract(j)
  <2>1. PICK wheels \in SUBSET Candidates(held[j]) : Probed(j, wheels)
    BY <1>6 DEF Extract
  <2>2. /\ UNCHANGED <<cacheVars, worldVars>>
        /\ tried' = tried \cup (Candidates(held[j]) \cap Extractable)
    BY <1>6 DEF Extract
  <2>3. QED
    BY <1>1, <1>2, <2>1, <2>2, ProbedIInv
<1>7. ASSUME pc[j] \in Late, pc' = [pc EXCEPT ![j] = pc'[j]], pc'[j] \in Late,
             UNCHANGED <<held, phase, found, cacheVars, worldVars, tried>>,
             bound' \in [Jobs -> {"fresh", "stale", None}],
             \A i \in Jobs \ {j} : bound'[i] = bound[i]
      PROVE IInv'
  <2>1. TasksTyped' /\ \A y \in Slots \ {j} : Same(y)
    BY <1>2, <1>7 DEF TasksTyped, Same, Pcs, Late
  <2>2. At(j)
    BY <1>1, <1>2, <1>7, JobFacts DEF At, Late
  <2>3. QED
    BY <1>2, <1>7, <2>1, <2>2, ReadsIInv
<1>8. CASE ReadUnderLock(j)
  <2>1. CASE EndsJob(j)
    BY <1>8, <2>1, EndsJobIInv DEF ReadUnderLock
  <2>2. CASE /\ \E key \in {"fresh", "stale"} : bound' = [bound EXCEPT ![j] = key]
             /\ pc' = [pc EXCEPT ![j] = "bound ttl"]
             /\ UNCHANGED <<held, phase, found>>
    BY <1>2, <1>7, <1>8, <2>2 DEF ReadUnderLock, TasksTyped, Late
  <2>3. QED
    BY <1>8, <2>1, <2>2 DEF ReadUnderLock
<1>9. CASE ReadBoundTtl(j)
  <2>1. CASE EndsJob(j)
    BY <1>9, <2>1, EndsJobIInv DEF ReadBoundTtl
  <2>2. CASE pc' = [pc EXCEPT ![j] = "commit"] /\ UNCHANGED <<held, phase, found, bound>>
    BY <1>2, <1>7, <1>9, <2>2 DEF ReadBoundTtl, TasksTyped, Late
  <2>3. QED
    BY <1>9, <2>1, <2>2 DEF ReadBoundTtl
<1>10. QED
  BY <1>3, <1>4, <1>5, <1>6, <1>8, <1>9

(* A commit marks as ready only what it has found or tried. *)
LEMMA CommitIInv ==
    ASSUME IInv, NEW j \in Jobs, Commit(j)
    PROVE IInv'
<1> DEFINE completed == Advertise(held[j], found[j])
           more == phase[j] = "discovery" /\ NeedsExtraction(held[j], found[j])
<1>1. pc[j] = "commit" /\ "commit" \notin {"free", "fetch"} /\ "commit" \in Late
  BY DEF Commit, Late
<1>2. /\ j \in Slots /\ held[j] \in Bodies /\ phase[j] \in Kinds
      /\ found[j] \subseteq WheelsOf[held[j].ver]
      /\ phase[j] = "extraction" => Candidates(held[j]) \cap Extractable \subseteq tried
  BY <1>1, JobFacts
<1>3. completed \in Bodies /\ completed.ver = held[j].ver /\ completed.adv = held[j].adv \cup found[j]
  BY <1>2, AdvertiseFits
<1>4. CacheTyped /\ version \in Versions /\ calm \in BOOLEAN /\ tried \subseteq Wheels
      /\ UNCHANGED <<version, calm, tried>>
  BY StateTypes DEF Commit, worldVars
<1>5. CASE ~Expected(j)
  BY <1>5, EndsJobIInv DEF Commit
<1>6. CASE Expected(j)
  <2>1. CacheTyped'
    BY <1>3, <1>4, <1>6 DEF Commit, CacheTyped, MaybeBody
  <2>2. ReadyMeansTried'
    <3>1. CASE more
      BY <1>4, <1>6, <3>1 DEF Commit, IInv, ReadyMeansTried, Candidates, Missing
    <3>2. CASE ~more
      <4>1. Candidates(held[j]) \cap Extractable \subseteq found[j] \cup tried
        BY <1>2, <3>2 DEF NeedsExtraction, Kinds
      <4>2. Candidates(Plain(held[j].ver)) \subseteq Candidates(held[j]) \cup held[j].adv
        BY <1>2, CandidatesStay
      <4>3. Candidates(Plain(completed.ver)) \cap Extractable \subseteq completed.adv \cup tried
        BY <1>3, <4>1, <4>2
      <4>4. ready' = completed
        BY <1>6, <3>2 DEF Commit
      <4>5. QED
        BY <1>4, <4>3, <4>4 DEF ReadyMeansTried, Candidates, Missing
    <3>3. QED
      BY <3>1, <3>2
  <2>3. TasksTyped' /\ \A y \in Slots : Same(y) \/ Gone(y) \/ Begun(y) \/ At(y)
    <3>1. CASE more
      BY <1>2, <1>3, <1>6, <3>1, ScheduleFrame DEF Commit
    <3>2. CASE ~more
      BY <1>6, <3>2, EndsJobFrame DEF Commit
    <3>3. QED
      BY <3>1, <3>2
  <2>4. QED
    BY <1>4, <2>1, <2>2, <2>3, SlotsIInv
<1>7. QED
  BY <1>5, <1>6

------------------------------------------------------------------------------
(* What else happens *)

LEMMA CrashFrame ==
    ASSUME IInv, NEW p \in Processes, Crash(p)
    PROVE TasksTyped' /\ \A y \in Slots : Same(y) \/ Gone(y)
<1>1. TasksTyped
  BY StateTypes
<1>2. TasksTyped'
  BY <1>1 DEF Crash, TasksTyped, Pcs, MaybeBody
<1>3. \A y \in Slots : Same(y) \/ Gone(y)
  BY <1>1 DEF Crash, TasksTyped, Same, Gone, Slots
<1>4. QED
  BY <1>2, <1>3

LEMMA MishapIInv ==
    ASSUME IInv, Mishap
    PROVE IInv'
<1>1. TasksTyped /\ CacheTyped /\ version \in Versions /\ calm \in BOOLEAN /\ tried \subseteq Wheels
  BY StateTypes
<1>2. ASSUME UNCHANGED taskVars, UNCHANGED tried, CacheTyped', version' \in Versions, calm' \in BOOLEAN,
             ready' \in {ready, None}
      PROVE IInv'
  <2>1. ReadyMeansTried'
    BY <1>2 DEF IInv, ReadyMeansTried, Candidates, Missing
  <2>2. TasksTyped' /\ \A y \in Slots : Same(y)
    BY <1>1, <1>2 DEF taskVars, TasksTyped, Same
  <2>3. QED
    BY <1>1, <1>2, <2>1, <2>2, SlotsIInv
<1>3. CASE Expire
  <2>1. CacheTyped' /\ ready' \in {ready, None}
    BY <1>1, <1>3 DEF Expire, CacheTyped, MaybeBody
  <2>2. QED
    BY <1>1, <1>2, <1>3, <2>1 DEF Expire, worldVars
<1>4. CASE \E p \in Processes : Crash(p)
  BY <1>1, <1>4, CrashFrame, ReadsIInv DEF Crash
<1>5. CASE \E j \in Jobs : JobFails(j)
  BY <1>5, EndsJobIInv DEF JobFails
<1>6. CASE Upload
  <2>1. version' \in Versions
    BY <1>1, <1>6, VersionsAssumption DEF Upload, Versions
  <2>2. QED
    BY <1>1, <1>2, <1>6, <2>1 DEF Upload, cacheVars, CacheTyped
<1>7. CASE CalmDown
  BY <1>1, <1>2, <1>7 DEF CalmDown, cacheVars, CacheTyped
<1>8. QED
  BY <1>3, <1>4, <1>5, <1>6, <1>7 DEF Mishap

LEMMA NextIInv == IInv /\ [Next]_vars => IInv'
<1> SUFFICES ASSUME IInv, [Next]_vars PROVE IInv'
  OBVIOUS
<1>1. CASE \E r \in Requests : RequestStep(r) \/ StartConversion(r)
  BY <1>1, RequestReadsIInv, RequestWritesIInv DEF RequestStep
<1>2. CASE \E j \in Jobs : JobStep(j)
  BY <1>2, JobReadsIInv, CommitIInv DEF JobStep
<1>3. CASE Mishap
  BY <1>3, MishapIInv
<1>4. CASE UNCHANGED vars
  <2>1. TasksTyped' /\ \A y \in Slots : Same(y)
    BY <1>4, StateTypes DEF vars, TasksTyped, Same
  <2>2. UNCHANGED <<cacheVars, worldVars, tried>>
    BY <1>4 DEF vars, cacheVars, worldVars
  <2>3. QED
    BY <2>1, <2>2, StateTypes, ReadsIInv
<1>5. QED
  BY <1>1, <1>2, <1>3, <1>4 DEF Next

------------------------------------------------------------------------------

(* The inductive invariant holds, whatever the wheels and processes are.    *)
THEOREM Invariance == Spec => []IInv
<1>1. Init => IInv
  BY InitIInv
<1>2. IInv /\ [Next]_vars => IInv'
  BY NextIInv
<1>3. QED
  BY <1>1, <1>2, PTL DEF Spec

(* The cache, the requests and the background tasks are well-typed. *)
THEOREM TypeCorrect == Spec => []TypeOK
<1>1. IInv => TypeOK
  BY DEF IInv
<1>2. QED
  BY <1>1, Invariance, PTL

(* A body gets the full lifetime in outer caches only when each of its      *)
(* newest wheels is advertised or was tried.                                *)
THEOREM ReadyIsEarned == Spec => []ReadyMeansTried
<1>1. IInv => ReadyMeansTried
  BY DEF IInv
<1>2. QED
  BY <1>1, Invariance, PTL

(* Only commits set markers, and those are for the body that is there. *)
LEMMA MarkersByCommit ==
    ASSUME IInv, Next,
           discovered' \notin {discovered, None} \/ ready' \notin {ready, None}
    PROVE \E j \in Jobs : Commit(j) /\ Expected(j)
<1> USE DEF cacheVars
<1>1. CASE \E r \in Requests : RequestStep(r) \/ StartConversion(r)
  BY <1>1 DEF RequestStep, Hit, CheckReady, ReadMarker, ReadBodyTtl, Miss, Fetch, Fill, Restale,
              Promote, StartConversion, Convert
<1>2. CASE \E j \in Jobs : JobStep(j)
  BY <1>2 DEF JobStep, StartDiscovery, Probe, Reload, Extract, ReadUnderLock, ReadBoundTtl, Commit
<1>3. CASE Mishap
  BY <1>3 DEF Mishap, Expire, Crash, JobFails, Upload, CalmDown
<1>4. QED
  BY <1>1, <1>2, <1>3 DEF Next

(* What a commit writes: the body it is bound to, with more advertised. *)
LEMMA WhatCommitsWrite ==
    ASSUME IInv, NEW j \in Jobs, Commit(j), Expected(j)
    PROVE LET completed == Advertise(held[j], found[j]) IN
          /\ held[j] \in Bodies /\ completed \in Bodies
          /\ completed.ver = held[j].ver /\ held[j].adv \subseteq completed.adv
          /\ fresh' = IF fresh # None THEN completed ELSE None
          /\ fresh # None => fresh = held[j]
          /\ stale' \in {stale, completed}
          /\ fresh = None => stale = held[j] /\ stale' = completed
          /\ discovered' = completed /\ ready' \in {ready, completed}
<1> DEFINE completed == Advertise(held[j], found[j])
<1>1. pc[j] = "commit" /\ "commit" \notin {"free", "fetch"} /\ "commit" \in Late
  BY DEF Commit, Late
<1>2. held[j] \in Bodies /\ found[j] \subseteq WheelsOf[held[j].ver]
  BY <1>1, JobFacts
<1>3. completed \in Bodies /\ completed.ver = held[j].ver /\ held[j].adv \subseteq completed.adv
  BY <1>2, AdvertiseFits
<1>4. held[j] # None
  BY <1>2, NoneAssumption
<1>5. found[j] = {} => completed = held[j]
  BY <1>2, AdvertiseNothing
<1>6. /\ discovered' = completed /\ ready' \in {ready, completed}
      /\ stale' = IF found[j] # {} THEN completed ELSE stale
      /\ fresh' = IF found[j] # {} /\ bound[j] = "fresh" THEN completed ELSE fresh
  BY DEF Commit
<1>7. CASE bound[j] = "fresh"
  <2>1. fresh = held[j]
    BY <1>7 DEF Expected
  <2>2. QED
    BY <1>2, <1>3, <1>4, <1>5, <1>6, <1>7, <2>1
<1>8. CASE bound[j] # "fresh"
  <2>1. fresh = None /\ stale = held[j]
    BY <1>8 DEF Expected
  <2>2. QED
    BY <1>2, <1>3, <1>4, <1>5, <1>6, <1>8, <2>1
<1>9. QED
  BY <1>7, <1>8

(* A marker names the body that is there when it is set, the stale copy     *)
(* only when there is no current one.                                       *)
THEOREM MarkersAreBound == Spec => MarkersFollowBodies
<1>1. IInv /\ [Next]_vars =>
        [/\ discovered' \notin {discovered, None} =>
                discovered' = (IF fresh' # None THEN fresh' ELSE stale')
         /\ ready' \notin {ready, None} => ready' = discovered']_vars
  <2> SUFFICES ASSUME IInv, Next,
                      discovered' \notin {discovered, None} \/ ready' \notin {ready, None}
               PROVE /\ discovered' = (IF fresh' # None THEN fresh' ELSE stale')
                     /\ ready' \notin {ready, None} => ready' = discovered'
    OBVIOUS
  <2>1. PICK j \in Jobs : Commit(j) /\ Expected(j)
    BY MarkersByCommit
  <2>2. QED
    BY <2>1, WhatCommitsWrite, NoneAssumption
<1>2. QED
  BY <1>1, Invariance, PTL DEF Spec, MarkersFollowBodies

(* Nobody takes a commit out of a task's hands but the task, unless the     *)
(* step writes nothing.                                                     *)
LEMMA OthersLeaveCommits ==
    ASSUME IInv, Next, NEW j \in Jobs, pc[j] = "commit", pc'[j] # "commit"
    PROVE Commit(j) \/ UNCHANGED <<fresh, stale>> \/ Expire
<1>1. j \in Slots
  BY DEF Slots
<1>2. ASSUME NEW x \in Slots \ {j}, NEW b \in Bodies, ScheduleDiscovery(x, b) \/ ScheduleExtraction(x, b)
      PROVE FALSE
  <2>1. x \in Slots /\ j \in Slots \ {x}
    BY <1>1, <1>2
  <2>2. Same(j) \/ Begun(j)
    BY <1>2, <2>1, ScheduleFrame
  <2>3. QED
    BY <2>2 DEF Same, Begun
<1>3. ASSUME NEW r \in Requests, RequestStep(r) \/ StartConversion(r) PROVE UNCHANGED <<fresh, stale>>
  <2>1. r \in Slots \ {j} /\ j \in Slots \ {r} /\ r \in Slots
    BY SlotsAssumption DEF Slots
  <2>2. ~EndsRequest(r)
    BY <2>1, EndsRequestFrame DEF Same
  <2>3. ASSUME NEW next, NEW b, Goes(r, next, b) PROVE FALSE
    BY <2>1, <2>3, StateTypes DEF Goes, TasksTyped
  <2>4. CASE Fill(r) \/ Convert(r)
    <3>1. held[r] \in Bodies
      BY <2>1, <2>4, InHand DEF Fill, Convert
    <3>2. QED
      BY <1>2, <2>1, <2>2, <2>4, <3>1 DEF Fill, Convert
  <2>5. CASE Restale(r) \/ Promote(r)
    BY <2>2, <2>3, <2>5 DEF Restale, Promote
  <2>6. QED
    BY <1>3, <2>4, <2>5
       DEF RequestStep, Hit, CheckReady, ReadMarker, ReadBodyTtl, Miss, Fetch, StartConversion,
           cacheVars
<1>4. ASSUME NEW i \in Jobs, JobStep(i) PROVE Commit(j) \/ UNCHANGED <<fresh, stale>>
  <2>1. CASE Commit(i) /\ i # j
    <3>1. i \in Slots \ {j} /\ j \in Slots \ {i} /\ i \in Slots
      BY <1>1, <2>1 DEF Slots
    <3>2. EndsJob(i) => Same(j)
      BY <3>1, EndsJobFrame
    <3>3. ~EndsJob(i)
      BY <3>2 DEF Same
    <3>4. Expected(i)
      BY <2>1, <3>3 DEF Commit
    <3>5. Advertise(held[i], found[i]) \in Bodies
      BY <2>1, <3>4, WhatCommitsWrite
    <3>6. QED
      BY <1>2, <2>1, <3>1, <3>3, <3>4, <3>5 DEF Commit
  <2>2. QED
    BY <1>4, <2>1
       DEF JobStep, StartDiscovery, Probe, Reload, Extract, ReadUnderLock, ReadBoundTtl, cacheVars
<1>5. CASE Mishap
  BY <1>5 DEF Mishap, Crash, JobFails, Upload, CalmDown, cacheVars
<1>6. QED
  BY <1>3, <1>4, <1>5 DEF Next

(* Background work never revives an expired body, never puts one version in *)
(* place of another, and loses nothing that was advertised meanwhile.       *)
THEOREM CommitsAreSafe == Spec => CommitsOnlyAdd
<1>1. IInv /\ [Next]_vars =>
        [\A j \in Jobs : pc[j] = "commit" /\ pc'[j] # "commit" =>
            /\ fresh' # fresh /\ fresh' # None => OnlyAdds(fresh, fresh')
            /\ stale' # stale /\ stale' # None /\ bound[j] = "stale" => OnlyAdds(stale, stale')]_vars
  <2> SUFFICES ASSUME IInv, Next, NEW j \in Jobs, pc[j] = "commit", pc'[j] # "commit"
               PROVE /\ fresh' # fresh /\ fresh' # None => OnlyAdds(fresh, fresh')
                     /\ stale' # stale /\ stale' # None /\ bound[j] = "stale" => OnlyAdds(stale, stale')
    OBVIOUS
  <2>1. CASE Commit(j) /\ Expected(j)
    BY <2>1, WhatCommitsWrite, NoneAssumption DEF OnlyAdds, Expected
  <2>2. CASE Commit(j) /\ ~Expected(j)
    BY <2>2 DEF Commit, cacheVars
  <2>3. CASE UNCHANGED <<fresh, stale>>
    BY <2>3
  <2>4. CASE Expire
    BY <2>4 DEF Expire
  <2>5. QED
    BY <2>1, <2>2, <2>3, <2>4, OthersLeaveCommits
<1>2. QED
  BY <1>1, Invariance, PTL DEF Spec, CommitsOnlyAdd
=============================================================================
