----------------------------- MODULE CacheProofs -----------------------------
(***************************************************************************)
(* Proofs about Cache: whatever keys, values, operations, callers and      *)
(* probes there are, a batch is never seen in two versions.                *)
(***************************************************************************)
EXTENDS Cache, TLAPS

Entries == [val : Values, live : BOOLEAN] \cup {None}

(* An entry of the dictionary is not None, a record of an operation either. *)
LEMMA OpsFacts ==
    ASSUME NEW o \in Ops
    PROVE /\ o # None
          /\ o.name \in Reads \cup {"write", "cas"}
          /\ o.keys \subseteq Keys
          /\ \A k \in DOMAIN o.values : o.values[k] \in Values
          /\ DOMAIN o.values \cap Batch # {} =>
                Batch \subseteq DOMAIN o.values /\ \A k, m \in Batch : o.values[k] = o.values[m]
  BY OpsAssumption, BatchAssumption, NoneIsNothingElse

(* A command leaves Redis well-typed and whole. *)
LEMMA AfterIsWhole ==
    ASSUME NEW o \in Ops, redis \in [Keys -> MaybeValue], Uniform(redis, Batch)
    PROVE After(o, redis) \in [Keys -> MaybeValue] /\ Uniform(After(o, redis), Batch)
<1>1. After(o, redis) \in [Keys -> MaybeValue]
  BY OpsFacts DEF After, MaybeValue
<1>2. Uniform(After(o, redis), Batch)
  BY OpsFacts, BatchAssumption DEF After, Uniform
<1>3. QED
  BY <1>1, <1>2

(* What an operation returns from a whole backend is well-typed and whole. *)
LEMMA ResultsAreWhole ==
    ASSUME NEW o \in Ops, NEW store \in [Keys -> MaybeValue], Uniform(store, Batch),
           NEW r \in Results(o, store)
    PROVE /\ r \in Answers
          /\ o.name = "read" => Uniform(r.values, Batch \cap o.keys)
<1>1. CASE o.name = "read"
  <2>1. r = [ok |-> TRUE, values |-> [k \in o.keys |-> store[k]]]
    BY <1>1 DEF Results
  <2>2. r.values \in [o.keys -> MaybeValue] /\ o.keys \in SUBSET Keys
    BY <2>1, OpsFacts
  <2>3. r \in Answers
    BY <2>1, <2>2 DEF Answers
  <2>4. Uniform(r.values, Batch \cap o.keys)
    BY <2>1 DEF Uniform
  <2>5. QED
    BY <2>3, <2>4
<1>2. ASSUME NEW b \in BOOLEAN PROVE Said(b) \in Answers
  <2>1. [k \in {} |-> None] \in [{} -> MaybeValue]
    OBVIOUS
  <2>2. {} \in SUBSET Keys
    OBVIOUS
  <2>3. QED
    BY <2>1, <2>2 DEF Answers, Said
<1>3. CASE o.name # "read"
  <2> DEFINE some == \E k \in o.keys : store[k] # None
             all  == \A k \in o.keys : store[k] # None
             same == \A k \in DOMAIN o.expect : store[k] = o.expect[k]
             v    == [exists |-> {some}, ttl |-> {FALSE, all}, check |-> {FALSE, same},
                      cas |-> {same}, write |-> {TRUE}]
  <2>1. Verdicts(o, store) = v[o.name]
    BY DEF Verdicts, Holds
  <2>2. /\ {some} \subseteq BOOLEAN
        /\ {FALSE, all} \subseteq BOOLEAN
        /\ {FALSE, same} \subseteq BOOLEAN
        /\ {same} \subseteq BOOLEAN
        /\ {TRUE} \subseteq BOOLEAN
    OBVIOUS
  <2>3. o.name \in {"exists", "ttl", "check", "cas", "write"}
    BY <1>3, OpsFacts DEF Reads
  <2> HIDE DEF some, all, same
  <2>4. v[o.name] \subseteq BOOLEAN
    <3>1. v["exists"] = {some} /\ v["ttl"] = {FALSE, all} /\ v["check"] = {FALSE, same}
      OBVIOUS
    <3>2. v["cas"] = {same} /\ v["write"] = {TRUE}
      OBVIOUS
    <3> HIDE DEF v
    <3>3. QED
      BY <2>2, <2>3, <3>1, <3>2, Zenon
  <2>5. Verdicts(o, store) \subseteq BOOLEAN
    BY <2>1, <2>4
  <2>6. QED
    BY <1>2, <1>3, <2>5 DEF Results
<1>4. QED
  BY <1>1, <1>3

(* The view of the dictionary is as whole as the dictionary. *)
LEMMA LiveIsWhole ==
    ASSUME mem \in [Keys -> Entries],
           \A k, m \in Batch : mem[k] # None /\ mem[m] # None => mem[k].val = mem[m].val
    PROVE Live \in [Keys -> MaybeValue] /\ Uniform(Live, Batch)
<1>1. Live \in [Keys -> MaybeValue]
  BY DEF Live, Entries, MaybeValue
<1>2. Uniform(Live, Batch)
  BY BatchAssumption DEF Live, Uniform
<1>3. QED
  BY <1>1, <1>2

------------------------------------------------------------------------------
(* The invariant in three parts: the process, the backends, the callers. *)

SelfOK ==
    /\ backend \in Backends
    /\ client \in BOOLEAN
    /\ state \in {"memory", "disconnected", "connected", "degraded"}
    /\ up \in BOOLEAN
    /\ boot \in {"starting", "serving", "exited"}
    /\ tries \in 0..MaxAttempts
    /\ probe \in [Probes -> {"idle", "ping", "reconnect", "cut ping", "cut reconnect"}]
    /\ MemoryIsEnough
    /\ AttemptsLeft
BackendsOK ==
    /\ mem \in [Keys -> Entries]
    /\ redis \in [Keys -> MaybeValue]
    /\ BackendsAreWhole
CallsOK ==
    /\ step \in [Callers -> {"idle", "sent", "ran", "cut", "done"}]
    /\ op \in [Callers -> Ops \cup {None}]
    /\ answer \in [Callers -> Answers \cup {None}]
    /\ \A t \in Callers : step[t] = "idle" <=> op[t] = None
    /\ BatchesAreWhole

(* IInv, read as the three named parts the step lemmas re-establish. *)
LEMMA InvariantParts == IInv <=> SelfOK /\ BackendsOK /\ CallsOK
  BY DEF IInv, TypeOK, SelfOK, BackendsOK, CallsOK, Entries

(* What RunLocally does: it leaves the dictionary well-typed and whole, and *)
(* its result is of the dictionary alone.                                   *)
LEMMA LocalRun ==
    ASSUME BackendsOK, CallsOK, NEW t \in Callers, NEW o \in Ops,
           RunLocally(t, o), op' = [op EXCEPT ![t] = o], UNCHANGED redis
    PROVE BackendsOK' /\ CallsOK'
<1>1. Live \in [Keys -> MaybeValue] /\ Uniform(Live, Batch)
  BY LiveIsWhole DEF BackendsOK, BackendsAreWhole
<1>2. PICK r \in Results(o, Live) : answer' = [answer EXCEPT ![t] = r]
  BY DEF RunLocally
<1>3. r \in Answers /\ (o.name = "read" => Uniform(r.values, Batch \cap o.keys))
  BY <1>1, <1>2, ResultsAreWhole
<1>4. CallsOK'
  <2>1. step' = [step EXCEPT ![t] = "done"]
    BY DEF RunLocally
  <2>2. /\ step' \in [Callers -> {"idle", "sent", "ran", "cut", "done"}]
        /\ op' \in [Callers -> Ops \cup {None}]
        /\ answer' \in [Callers -> Answers \cup {None}]
    BY <1>2, <1>3, <2>1 DEF CallsOK
  <2>3. \A u \in Callers : step'[u] = "idle" <=> op'[u] = None
    BY <2>1, OpsFacts DEF CallsOK
  <2>4. BatchesAreWhole'
    BY <1>2, <1>3, <2>1 DEF CallsOK, BatchesAreWhole
  <2>5. QED
    BY <2>2, <2>3, <2>4 DEF CallsOK
<1>5. BackendsOK'
  <2>1. mem' = [k \in Keys |-> IF k \in Written(o) THEN [val |-> o.values[k], live |-> TRUE]
                               ELSE IF k \in Swept(o) THEN None
                               ELSE mem[k]]
    BY DEF RunLocally
  <2>2. Written(o) \subseteq DOMAIN o.values
    BY DEF Written
  <2>3. Batch \cap Written(o) # {} => Batch \subseteq Written(o)
    BY OpsFacts DEF Written
  <2>4. \A k \in Written(o) : [val |-> o.values[k], live |-> TRUE] \in Entries
    BY <2>2, OpsFacts DEF Entries
  <2>5. mem' \in [Keys -> Entries]
    BY <2>1, <2>4 DEF BackendsOK, Entries
  <2>6. \A k, m \in Batch : mem'[k] # None /\ mem'[m] # None => mem'[k].val = mem'[m].val
    <3>1. CASE Batch \cap Written(o) = {}
      BY <2>1, <3>1, BatchAssumption DEF BackendsOK, BackendsAreWhole
    <3>2. CASE Batch \cap Written(o) # {}
      <4>1. Batch \subseteq Written(o)
        BY <2>3, <3>2
      <4>2. \A k, m \in Batch : o.values[k] = o.values[m]
        BY <2>2, <4>1, <3>2, OpsFacts
      <4>3. \A k \in Batch : mem'[k].val = o.values[k]
        BY <2>1, <4>1, BatchAssumption
      <4>4. QED
        BY <4>2, <4>3
    <3>3. QED
      BY <3>1, <3>2
  <2>7. QED
    BY <2>5, <2>6 DEF BackendsOK, BackendsAreWhole
<1>6. QED
  BY <1>4, <1>5

------------------------------------------------------------------------------
(* The steps of an operation *)

(* An operation begins, at Redis or on the dictionary. *)
LEMMA BeginStep == ASSUME IInv, NEW t \in Callers, Begin(t) PROVE IInv'
<1>1. SelfOK /\ BackendsOK /\ CallsOK
  BY InvariantParts
<1>2. PICK o \in Ops :
        /\ op' = [op EXCEPT ![t] = o]
        /\ IF client
           THEN /\ step' = [step EXCEPT ![t] = IF up THEN "sent" ELSE "cut"]
                /\ UNCHANGED <<mem, answer>>
           ELSE RunLocally(t, o)
  BY DEF Begin
<1>3. UNCHANGED <<backend, boot, tries, client, state, redis, up, probe>>
  BY DEF Begin, bootVars
<1>4. CASE client
  <2>1. step' = [step EXCEPT ![t] = IF up THEN "sent" ELSE "cut"] /\ UNCHANGED <<mem, answer>>
    BY <1>2, <1>4
  <2>2. SelfOK'
    BY <1>1, <1>3, <1>4 DEF SelfOK, MemoryIsEnough, AttemptsLeft, Attempts
  <2>3. BackendsOK'
    BY <1>1, <1>3, <2>1 DEF BackendsOK, BackendsAreWhole, Uniform
  <2>4. CallsOK'
    BY <1>1, <1>2, <2>1, OpsFacts DEF CallsOK, BatchesAreWhole
  <2>5. QED
    BY <2>2, <2>3, <2>4, InvariantParts DEF IInv, TypeOK, SelfOK, BackendsOK, CallsOK, Entries
<1>5. CASE ~client
  <2>1. RunLocally(t, o)
    BY <1>2, <1>5
  <2>2. BackendsOK' /\ CallsOK'
    BY <1>1, <1>2, <1>3, <2>1, LocalRun
  <2>3. step' = [step EXCEPT ![t] = "done"]
    BY <2>1 DEF RunLocally
  <2>4. SelfOK'
    BY <1>1, <1>3, <2>3 DEF SelfOK, CallsOK, MemoryIsEnough, AttemptsLeft, Attempts
  <2>5. QED
    BY <2>2, <2>4 DEF IInv, TypeOK, SelfOK, BackendsOK, CallsOK, Entries
<1>6. QED
  BY <1>4, <1>5

(* Redis runs a command. *)
LEMMA ServeStep == ASSUME IInv, NEW t \in Callers, Serve(t) PROVE IInv'
<1>1. SelfOK /\ BackendsOK /\ CallsOK
  BY InvariantParts
<1>2. op[t] \in Ops
  BY <1>1 DEF Serve, CallsOK
<1>3. PICK r \in Results(op[t], redis) : answer' = [answer EXCEPT ![t] = r]
  BY DEF Serve
<1>4. /\ step' = [step EXCEPT ![t] = "ran"]
      /\ redis' = After(op[t], redis)
      /\ UNCHANGED <<backend, boot, tries, client, state, mem, up, op, probe>>
  BY DEF Serve, bootVars
<1>5. r \in Answers /\ (op[t].name = "read" => Uniform(r.values, Batch \cap op[t].keys))
  BY <1>1, <1>2, <1>3, ResultsAreWhole DEF BackendsOK, BackendsAreWhole
<1>6. SelfOK'
  BY <1>1, <1>4 DEF Serve, SelfOK, CallsOK, MemoryIsEnough, AttemptsLeft, Attempts
<1>7. BackendsOK'
  BY <1>1, <1>2, <1>4, AfterIsWhole DEF BackendsOK, BackendsAreWhole
<1>8. CallsOK'
  <2>1. /\ step' \in [Callers -> {"idle", "sent", "ran", "cut", "done"}]
        /\ op' \in [Callers -> Ops \cup {None}]
        /\ answer' \in [Callers -> Answers \cup {None}]
    BY <1>1, <1>3, <1>4, <1>5 DEF CallsOK
  <2>2. \A u \in Callers : step'[u] = "idle" <=> op'[u] = None
    BY <1>1, <1>4 DEF CallsOK, Serve
  <2>3. BatchesAreWhole'
    BY <1>1, <1>3, <1>4, <1>5 DEF CallsOK, BatchesAreWhole
  <2>4. QED
    BY <2>1, <2>2, <2>3 DEF CallsOK
<1>9. QED
  BY <1>6, <1>7, <1>8 DEF IInv, TypeOK, SelfOK, BackendsOK, CallsOK, Entries

(* A reply arrives, a command is repeated, an operation returns. *)
LEMMA WireStep == ASSUME IInv, NEW t \in Callers, Reply(t) \/ Resend(t) \/ Return(t) PROVE IInv'
<1>1. SelfOK /\ BackendsOK /\ CallsOK
  BY InvariantParts
<1>2. UNCHANGED <<backend, boot, tries, client, state, mem, redis, up, probe>>
  BY DEF Reply, Resend, Return, bootVars
<1>3. BackendsOK'
  BY <1>1, <1>2 DEF BackendsOK, BackendsAreWhole, Uniform
<1>4. SelfOK'
  BY <1>1, <1>2 DEF Reply, Resend, Return, SelfOK, CallsOK, MemoryIsEnough, AttemptsLeft, Attempts
<1>5. CallsOK'
  <2>1. CASE Reply(t)
    BY <1>1, <2>1 DEF Reply, CallsOK, BatchesAreWhole
  <2>2. CASE Resend(t)
    BY <1>1, <2>2 DEF Resend, CallsOK, BatchesAreWhole
  <2>3. CASE Return(t)
    BY <1>1, <2>3 DEF Return, CallsOK, BatchesAreWhole
  <2>4. QED
    BY <2>1, <2>2, <2>3
<1>6. QED
  BY <1>3, <1>4, <1>5 DEF IInv, TypeOK, SelfOK, BackendsOK, CallsOK, Entries

(* An operation fails and is run on the dictionary. *)
LEMMA FailStep == ASSUME IInv, NEW t \in Callers, Fail(t) PROVE IInv'
<1>1. SelfOK /\ BackendsOK /\ CallsOK
  BY InvariantParts
<1>2. op[t] \in Ops
  BY <1>1 DEF Fail, CallsOK
<1>3. /\ client' = FALSE /\ state' = "degraded"
      /\ RunLocally(t, op[t])
      /\ UNCHANGED <<backend, boot, tries, redis, up, op, probe>>
  BY DEF Fail, bootVars
<1>4. op' = [op EXCEPT ![t] = op[t]]
  BY <1>1, <1>3 DEF CallsOK
<1>5. BackendsOK' /\ CallsOK'
  BY <1>1, <1>2, <1>3, <1>4, LocalRun
<1>6. backend # "memory"
  BY <1>1 DEF Fail, SelfOK, MemoryIsEnough
<1>7. SelfOK'
  BY <1>1, <1>3, <1>6 DEF SelfOK, MemoryIsEnough, AttemptsLeft, Attempts
<1>8. QED
  BY <1>5, <1>7 DEF IInv, TypeOK, SelfOK, BackendsOK, CallsOK, Entries

------------------------------------------------------------------------------
(* The steps of a probe and of the world *)

(* Probes touch neither the backends nor the callers. *)
LEMMA ProbeStep == ASSUME IInv, NEW p \in Probes, StartProbe(p) \/ EndProbe(p) PROVE IInv'
<1>1. SelfOK /\ BackendsOK /\ CallsOK
  BY InvariantParts
<1>2. UNCHANGED <<backend, mem, redis, up, step, op, answer>>
  BY DEF StartProbe, EndProbe, ProbeSucceeds, PingFails, ReconnectFails, bootVars
<1>3. BackendsOK' /\ CallsOK'
  BY <1>1, <1>2 DEF BackendsOK, BackendsAreWhole, Uniform, CallsOK, BatchesAreWhole
<1>4. backend # "memory"
  BY <1>1 DEF StartProbe, EndProbe, ProbeSucceeds, PingFails, ReconnectFails, SelfOK, MemoryIsEnough
<1>5. SelfOK'
  <2>1. MemoryIsEnough'
    BY <1>2, <1>4 DEF MemoryIsEnough
  <2>2. CASE StartProbe(p)
    BY <1>1, <2>1, <2>2 DEF StartProbe, SelfOK, AttemptsLeft, Attempts, CutProbe, bootVars
  <2>3. CASE ProbeSucceeds(p)
    BY <1>1, <2>1, <2>3 DEF ProbeSucceeds, SelfOK, AttemptsLeft, Attempts
  <2>4. CASE PingFails(p)
    BY <1>1, <2>1, <2>4 DEF PingFails, SelfOK, AttemptsLeft, Attempts, bootVars
  <2>5. CASE ReconnectFails(p)
    <3>1. Attempts \in 1..MaxAttempts /\ Attempts' = Attempts
      BY <1>2, AttemptsAssumption DEF Attempts
    <3>2. tries' \in 0..MaxAttempts /\ (boot' = "starting" => tries' < Attempts)
      <4>1. tries \in 0..MaxAttempts /\ MaxAttempts \in Nat
        BY <1>1, AttemptsAssumption DEF SelfOK
      <4>2. CASE boot = "starting"
        <5>1. tries < Attempts
          BY <1>1, <4>2 DEF SelfOK, AttemptsLeft
        <5>2. tries' = tries + 1 /\ boot' = AfterFailedAttempt
          BY <2>5, <4>2 DEF ReconnectFails
        <5>3. boot' = "starting" => tries + 1 < Attempts
          BY <5>2 DEF AfterFailedAttempt
        <5>4. QED
          BY <3>1, <4>1, <5>1, <5>2, <5>3
      <4>3. CASE boot # "starting"
        BY <2>5, <4>1, <4>3 DEF ReconnectFails
      <4>4. QED
        BY <4>2, <4>3
    <3>3. QED
      BY <1>1, <2>1, <2>5, <3>1, <3>2
         DEF ReconnectFails, SelfOK, AttemptsLeft, AfterFailedAttempt
  <2>6. QED
    BY <2>2, <2>3, <2>4, <2>5 DEF EndProbe
<1>6. QED
  BY <1>3, <1>5 DEF IInv, TypeOK, SelfOK, BackendsOK, CallsOK, Entries

(* Redis goes away, with or without its contents, and comes back. *)
LEMMA OutageStep == ASSUME IInv, Outage \/ Recovery PROVE IInv'
<1>1. SelfOK /\ BackendsOK /\ CallsOK
  BY InvariantParts
<1>2. UNCHANGED <<backend, boot, tries, client, state, mem, op, answer>>
  BY DEF Outage, Recovery, bootVars
<1>3. SelfOK'
  BY <1>1, <1>2
     DEF Outage, Recovery, SelfOK, MemoryIsEnough, AttemptsLeft, Attempts, CutProbe, Broken
<1>4. BackendsOK'
  BY <1>1, <1>2, BatchAssumption
     DEF Outage, Recovery, BackendsOK, BackendsAreWhole, Uniform, MaybeValue
<1>5. CallsOK'
  BY <1>1, <1>2 DEF Outage, Recovery, CallsOK, BatchesAreWhole, Broken
<1>6. QED
  BY <1>3, <1>4, <1>5 DEF IInv, TypeOK, SelfOK, BackendsOK, CallsOK, Entries

(* Entries expire, and other replicas write. *)
LEMMA StoreStep == ASSUME IInv, (\E k \in Keys : Expire(k)) \/ Elsewhere PROVE IInv'
<1>1. SelfOK /\ BackendsOK /\ CallsOK
  BY InvariantParts
<1>2. UNCHANGED <<backend, boot, tries, client, state, up, step, op, answer, probe>>
  BY DEF Expire, Elsewhere, bootVars
<1>3. SelfOK' /\ CallsOK'
  BY <1>1, <1>2 DEF SelfOK, MemoryIsEnough, AttemptsLeft, Attempts, CallsOK, BatchesAreWhole
<1>4. BackendsOK'
  <2>1. CASE Elsewhere
    <3>1. PICK o \in Ops : redis' = After(o, redis)
      BY <2>1 DEF Elsewhere
    <3>2. QED
      BY <1>1, <2>1, <3>1, AfterIsWhole DEF Elsewhere, BackendsOK, BackendsAreWhole
  <2>2. ASSUME NEW k \in Keys, redis[k] # None, redis' = [redis EXCEPT ![k] = None], UNCHANGED mem
        PROVE BackendsOK'
    BY <1>1, <2>2, BatchAssumption DEF BackendsOK, BackendsAreWhole, Uniform, MaybeValue
  <2>3. ASSUME NEW k \in Keys, Live[k] # None, mem' = [mem EXCEPT ![k].live = FALSE],
               UNCHANGED redis
        PROVE BackendsOK'
    <3>1. mem[k] \in [val : Values, live : BOOLEAN]
      BY <1>1, <2>3 DEF BackendsOK, Entries, Live
    <3>2. mem' = [mem EXCEPT ![k] = [mem[k] EXCEPT !.live = FALSE]]
      BY <2>3
    <3>3. [mem[k] EXCEPT !.live = FALSE] \in Entries /\ [mem[k] EXCEPT !.live = FALSE].val = mem[k].val
      BY <3>1 DEF Entries
    <3>4. mem' \in [Keys -> Entries]
      BY <1>1, <3>2, <3>3 DEF BackendsOK
    <3>5. mem[k] # None
      BY <2>3 DEF Live
    <3>6. \A j \in Keys : mem'[j] # None => mem[j] # None /\ mem'[j].val = mem[j].val
      BY <1>1, <3>2, <3>3, <3>5 DEF BackendsOK
    <3>7. QED
      BY <1>1, <2>3, <3>4, <3>6, BatchAssumption DEF BackendsOK, BackendsAreWhole, Uniform
  <2>4. QED
    BY <2>1, <2>2, <2>3 DEF Expire
<1>5. QED
  BY <1>3, <1>4 DEF IInv, TypeOK, SelfOK, BackendsOK, CallsOK, Entries

------------------------------------------------------------------------------

(* A cache just made, with empty backends and no call under way,
   satisfies the invariant. *)
LEMMA InitEstablishes == Init => IInv
<1>1. SUFFICES ASSUME Init PROVE IInv
  OBVIOUS
<1>2. SelfOK
  <2>1. tries = 0 /\ 0 \in 0..MaxAttempts /\ Attempts \in 1..MaxAttempts
    BY <1>1, AttemptsAssumption DEF Init, Attempts
  <2>2. AttemptsLeft
    BY <2>1, AttemptsAssumption DEF AttemptsLeft
  <2>3. MemoryIsEnough
    BY <1>1 DEF Init, MemoryIsEnough
  <2>4. /\ backend \in Backends /\ up \in BOOLEAN /\ client \in BOOLEAN
        /\ state \in {"memory", "disconnected", "connected", "degraded"}
        /\ boot \in {"starting", "serving", "exited"}
        /\ probe \in [Probes -> {"idle", "ping", "reconnect", "cut ping", "cut reconnect"}]
    BY <1>1 DEF Init
  <2>5. QED
    BY <2>1, <2>2, <2>3, <2>4 DEF SelfOK
<1>3. BackendsOK
  BY <1>1, BatchAssumption DEF Init, BackendsOK, BackendsAreWhole, Uniform, Entries, MaybeValue
<1>4. CallsOK
  BY <1>1 DEF Init, CallsOK, BatchesAreWhole
<1>5. QED
  BY <1>2, <1>3, <1>4, InvariantParts

(* Every step of a call, of the probe, or of the server keeps the invariant. *)
LEMMA StepPreserves == IInv /\ [Next]_vars => IInv'
<1>1. SUFFICES ASSUME IInv, [Next]_vars PROVE IInv'
  OBVIOUS
<1>2. CASE UNCHANGED vars
  <2>1. SelfOK'
    BY <1>1, <1>2, InvariantParts DEF vars, SelfOK, MemoryIsEnough, AttemptsLeft, Attempts
  <2>2. BackendsOK'
    BY <1>1, <1>2, InvariantParts DEF vars, BackendsOK, BackendsAreWhole, Uniform
  <2>3. CallsOK'
    BY <1>1, <1>2, InvariantParts DEF vars, CallsOK, BatchesAreWhole
  <2>4. QED
    BY <2>1, <2>2, <2>3 DEF IInv, TypeOK, SelfOK, BackendsOK, CallsOK, Entries
<1>3. CASE Next
  BY <1>1, <1>3, BeginStep, ServeStep, WireStep, FailStep, ProbeStep, OutageStep, StoreStep
     DEF Next, Proceed
<1>4. QED
  BY <1>1, <1>2, <1>3

(* The inductive invariant of the cache.                                    *)
THEOREM Invariance == Spec => []IInv
<1>1. QED
  BY InitEstablishes, StepPreserves, PTL DEF Spec

(* The cache's state is well-typed, whatever fails in what order.           *)
THEOREM TypeCorrect == Spec => []TypeOK
<1>1. IInv => TypeOK
  BY DEF IInv
<1>2. QED
  BY <1>1, Invariance, PTL

(* "One batch cannot mix values from two cache backends": no read of        *)
(* entries that are written together shows two versions.                    *)
THEOREM BatchesDoNotMix == Spec => []BatchesAreWhole
<1>1. IInv => BatchesAreWhole
  BY DEF IInv
<1>2. QED
  BY <1>1, Invariance, PTL
==============================================================================
