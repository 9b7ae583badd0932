-------------------------- MODULE BackgroundProofs --------------------------
(***************************************************************************)
(* Proofs about BackgroundTasks: for any projects, bodies, limits, delays  *)
(* and requests, tasks stay known and bounded, work starts in idle windows *)
(* and nothing outlives a shutdown.                                        *)
(***************************************************************************)
EXTENDS BackgroundTasks, FiniteSetTheorems, TLAPS

AnyPc == LivePc \cup {"done", "free"}

(* The keys of either map are finitely many, and so are its entries.        *)
LEMMA EntriesAreFinite ==
    ASSUME NEW k \in Kinds
    PROVE IsFiniteSet(Entries(k)) /\ Cardinality(Entries(k)) \in Nat
<1>1. Entries(k) \in SUBSET Work
  BY DEF Entries, WorkOf
<1>2. IsFiniteSet(Entries(k))
  BY <1>1, FS_Subset, WorkAssumption
<1>3. QED
  BY <1>2, FS_CardinalityType

(* Fewer entries stay within the bounds. *)
LEMMA FewerEntries ==
    ASSUME EntriesAreBounded, NEW k \in Kinds, Entries(k)' \subseteq Entries(k)
    PROVE Cardinality(Entries(k)') <= MaxPending[k]
<1>1. Entries(k)' \in SUBSET Entries(k) /\ IsFiniteSet(Entries(k))
  BY EntriesAreFinite
<1>2. Cardinality(Entries(k)') <= Cardinality(Entries(k)) /\ IsFiniteSet(Entries(k)')
  BY <1>1, FS_Subset
<1>3. Cardinality(Entries(k)') \in Nat /\ Cardinality(Entries(k)) \in Nat
  BY <1>2, EntriesAreFinite, FS_CardinalityType
<1>4. QED
  BY <1>2, <1>3, SettingsAssumption DEF EntriesAreBounded

(* The initial state satisfies the invariant. *)
LEMMA InitIInv == Init => IInv
<1> SUFFICES ASSUME Init PROVE IInv
  OBVIOUS
<1> USE DEF Init
<1>1. Longest \in Nat
  BY SettingsAssumption DEF Longest, Kinds
<1>2. TypeOK
  <2>1. 0 \in 0..Longest
    BY <1>1
  <2>2. Idle \in [at : {"idle", "marker", "ttl"}, find : Work \cup {None}, extract : Work \cup {None}]
    BY DEF Idle
  <2>3. QED
    BY <2>1, <2>2 DEF TypeOK, Idle
<1>3. LiveTasksAreKnown /\ FreeTasksAreClear /\ NobodyOversleeps
  BY DEF LiveTasksAreKnown, FreeTasksAreClear, NobodyOversleeps, Live, LivePc
<1>4. ASSUME NEW k \in Kinds PROVE Cardinality(Entries(k)) <= MaxPending[k]
  <2>1. Entries(k) = {}
    BY DEF Entries, WorkOf
  <2>2. QED
    BY <2>1, FS_EmptySet, SettingsAssumption
<1>5. ShutdownFindsAll
  BY DEF ShutdownFindsAll, NothingOutlivesShutdown, Live, LivePc
<1>6. QED
  BY <1>2, <1>3, <1>4, <1>5 DEF IInv, EntriesAreBounded

------------------------------------------------------------------------------
(* Scheduling *)

(* What a step does to tasks and maps when it may schedule something.       *)
Schedules(w, pcs) ==
    /\ pcs \in [Tasks -> AnyPc]
    /\ \A t \in Tasks : pcs[t] = pc[t] \/ (Live(t) /\ pcs[t] = "done")
    /\ Schedule(w, pcs, work)
    /\ UNCHANGED <<wake, closing, shutdown, gathered>>

(* Either the task was refused or a free one became the entry of its key.   *)
LEMMA ScheduleCases ==
    ASSUME TypeOK, NEW w \in Work, NEW pcs, Schedules(w, pcs)
    PROVE \/ pending' = pending /\ pc' = pcs /\ work' = work
          \/ /\ ~closing /\ Accepts(w)
             /\ \E t \in Tasks :
                 /\ pc[t] = "free"
                 /\ pending' = [pending EXCEPT ![w] = t]
                 /\ pc' = [pcs EXCEPT ![t] = "idle"]
                 /\ work' = [work EXCEPT ![t] = w]
  BY DEF Schedules, Schedule, Schedulable

(* Scheduling keeps the tasks well-typed, and every live one known.         *)
LEMMA ScheduleKnows ==
    ASSUME TypeOK, FreeTasksAreClear, LiveTasksAreKnown, NEW w \in Work, NEW pcs, Schedules(w, pcs)
    PROVE /\ pending' \in [Work -> Tasks \cup {None}]
          /\ pc' \in [Tasks -> AnyPc]
          /\ work' \in [Tasks -> Work \cup {None}]
          /\ \A t \in Tasks : pc'[t] # "free" => work'[t] \in Work
          /\ FreeTasksAreClear'
          /\ LiveTasksAreKnown'
<1>1. CASE pending' = pending /\ pc' = pcs /\ work' = work
  BY <1>1 DEF Schedules, TypeOK, FreeTasksAreClear, LiveTasksAreKnown, Live, LivePc, AnyPc
<1>2. ASSUME Accepts(w), NEW t \in Tasks, pc[t] = "free",
             pending' = [pending EXCEPT ![w] = t],
             pc' = [pcs EXCEPT ![t] = "idle"],
             work' = [work EXCEPT ![t] = w]
      PROVE /\ pending' \in [Work -> Tasks \cup {None}]
            /\ pc' \in [Tasks -> AnyPc]
            /\ work' \in [Tasks -> Work \cup {None}]
            /\ \A u \in Tasks : pc'[u] # "free" => work'[u] \in Work
            /\ FreeTasksAreClear'
            /\ LiveTasksAreKnown'
  <2>1. pending' \in [Work -> Tasks \cup {None}] /\ work' \in [Tasks -> Work \cup {None}]
    BY <1>2 DEF TypeOK
  <2>2. pc' \in [Tasks -> AnyPc]
    BY <1>2 DEF Schedules, AnyPc, LivePc
  <2>3. \A u \in Tasks : u # t => pc'[u] = pcs[u] /\ work'[u] = work[u]
    BY <1>2 DEF Schedules, TypeOK
  <2>4. pc'[t] = "idle" /\ work'[t] = w /\ pending'[w] = t
    BY <1>2 DEF Schedules, TypeOK
  <2>5. \A u \in Tasks : pc'[u] # "free" => work'[u] \in Work
    BY <2>3, <2>4 DEF Schedules, TypeOK, Live, LivePc
  <2>6. FreeTasksAreClear'
    BY <2>3, <2>4 DEF FreeTasksAreClear, Schedules, TypeOK, Live, LivePc
  <2>7. ASSUME NEW u \in Tasks, Live(u)' PROVE pending'[work'[u]] = u
    <3>1. CASE u = t
      BY <3>1, <2>4
    <3>2. CASE u # t
      <4>1. Live(u) /\ work'[u] = work[u] /\ work[u] \in Work
        BY <3>2, <2>3, <2>7 DEF Schedules, Live, LivePc, TypeOK
      <4>2. pending[work[u]] = u
        BY <4>1 DEF LiveTasksAreKnown
      <4>3. work[u] # w
        BY <4>1, <4>2, <1>2, NoneAssumption DEF Accepts
      <4>4. QED
        BY <4>1, <4>2, <4>3, <1>2 DEF TypeOK
    <3>3. QED
      BY <3>1, <3>2
  <2>8. QED
    BY <2>1, <2>2, <2>5, <2>6, <2>7 DEF LiveTasksAreKnown
<1>3. QED
  BY <1>1, <1>2, ScheduleCases

(* Scheduling stays within the bounds of the maps. *)
LEMMA ScheduleBounded ==
    ASSUME TypeOK, EntriesAreBounded, NEW w \in Work, NEW pcs, Schedules(w, pcs)
    PROVE EntriesAreBounded'
<1> SUFFICES ASSUME NEW k \in Kinds PROVE Cardinality(Entries(k)') <= MaxPending[k]
  BY DEF EntriesAreBounded
<1>1. CASE pending' = pending
  BY <1>1 DEF EntriesAreBounded, Entries
<1>2. ASSUME Accepts(w), NEW t \in Tasks, pending' = [pending EXCEPT ![w] = t]
      PROVE Cardinality(Entries(k)') <= MaxPending[k]
  <2>1. CASE Kind[w] # k
    <3>1. Entries(k)' \subseteq Entries(k)
      BY <2>1, <1>2 DEF Entries, WorkOf, TypeOK
    <3>2. QED
      BY <3>1, FewerEntries
  <2>2. CASE Kind[w] = k
    <3>1. Entries(k)' \in SUBSET (Entries(k) \cup {w})
      BY <1>2 DEF Entries, WorkOf, TypeOK
    <3>2. IsFiniteSet(Entries(k)) /\ Cardinality(Entries(k)) \in Nat
      BY EntriesAreFinite
    <3>a. /\ IsFiniteSet(Entries(k) \cup {w})
          /\ Cardinality(Entries(k) \cup {w}) =
                IF w \in Entries(k) THEN Cardinality(Entries(k)) ELSE Cardinality(Entries(k)) + 1
      BY <3>2, FS_AddElement, Zenon
    <3>3. /\ IsFiniteSet(Entries(k) \cup {w})
          /\ Cardinality(Entries(k) \cup {w}) <= Cardinality(Entries(k)) + 1
      BY <3>2, <3>a
    <3>4. /\ Cardinality(Entries(k)') <= Cardinality(Entries(k) \cup {w})
          /\ IsFiniteSet(Entries(k)')
      BY <3>1, <3>3, FS_Subset
    <3>5. Cardinality(Entries(k)') \in Nat /\ Cardinality(Entries(k) \cup {w}) \in Nat
      BY <3>3, <3>4, FS_CardinalityType
    <3>6. Cardinality(Entries(k)) < MaxPending[k] /\ MaxPending[k] \in Nat
      BY <2>2, <1>2, SettingsAssumption DEF Accepts
    <3>7. QED
      BY <3>2, <3>3, <3>4, <3>5, <3>6
  <2>3. QED
    BY <2>1, <2>2
<1>3. QED
  BY <1>1, <1>2, ScheduleCases

(* Nothing is scheduled any more once a shutdown has begun. *)
LEMMA ScheduleHeedsShutdown ==
    ASSUME TypeOK, ShutdownFindsAll, NEW w \in Work, NEW pcs, Schedules(w, pcs)
    PROVE ShutdownFindsAll'
<1>1. CASE pending' = pending /\ pc' = pcs /\ work' = work
  BY <1>1 DEF Schedules, ShutdownFindsAll, NothingOutlivesShutdown, Live, LivePc
<1>2. CASE ~closing
  BY <1>2 DEF Schedules, ShutdownFindsAll, NothingOutlivesShutdown
<1>3. QED
  BY <1>1, <1>2, ScheduleCases

(* A new task starts awake, and the others sleep as before. *)
LEMMA ScheduleSleeps ==
    ASSUME TypeOK, FreeTasksAreClear, NobodyOversleeps, NEW w \in Work, NEW pcs,
           Schedules(w, pcs), quiet' \in {0, quiet}
    PROVE NobodyOversleeps'
<1> SUFFICES ASSUME NEW u \in Tasks, Live(u)', wake'[u] > 0
             PROVE quiet' + wake'[u] <= Delay[KindOf(u)']
  BY DEF NobodyOversleeps
<1>1. quiet \in Nat /\ wake[u] \in Nat /\ wake'[u] = wake[u]
  BY DEF TypeOK, Schedules
<1>2. Live(u) /\ work'[u] = work[u]
  <2>1. CASE pending' = pending /\ pc' = pcs /\ work' = work
    BY <2>1 DEF Schedules, Live, LivePc
  <2>2. ASSUME NEW t \in Tasks, pc[t] = "free",
               pc' = [pcs EXCEPT ![t] = "idle"], work' = [work EXCEPT ![t] = w]
        PROVE Live(u) /\ work'[u] = work[u]
    <3>1. u # t
      BY <2>2, <1>1 DEF FreeTasksAreClear
    <3>2. QED
      BY <2>2, <3>1 DEF Schedules, Live, LivePc, TypeOK
  <2>3. QED
    BY <2>1, <2>2, ScheduleCases
<1>3. quiet + wake[u] <= Delay[Kind[work[u]]] /\ Kind[work[u]] \in Kinds
  BY <1>1, <1>2, WorkAssumption DEF NobodyOversleeps, KindOf, TypeOK, Live, LivePc
<1>4. QED
  BY <1>1, <1>2, <1>3, SettingsAssumption DEF KindOf

(* All of it. *)
LEMMA ScheduleIInv ==
    ASSUME IInv, NEW w \in Work, NEW pcs, Schedules(w, pcs), quiet' \in {0, quiet},
           UNCHANGED <<batches, doomed, calm>>,
           request' \in [Requests -> [at : {"idle", "marker", "ttl"}, find : Work \cup {None},
                                      extract : Work \cup {None}]],
           \A r \in Requests : request'[r].at # "idle" =>
                request'[r].find \in Work /\ request'[r].extract \in Work
    PROVE IInv'
<1>1. TypeOK /\ FreeTasksAreClear /\ LiveTasksAreKnown /\ EntriesAreBounded
      /\ ShutdownFindsAll /\ NobodyOversleeps
  BY DEF IInv
<1>2. quiet' \in 0..Longest
  BY <1>1, SettingsAssumption DEF TypeOK, Longest, Kinds
<1>3. TypeOK'
  BY <1>1, <1>2, ScheduleKnows DEF TypeOK, Schedules, AnyPc
<1>4. QED
  BY <1>1, <1>3, ScheduleKnows, ScheduleBounded, ScheduleHeedsShutdown, ScheduleSleeps DEF IInv

------------------------------------------------------------------------------
(* Steps that schedule nothing *)

(* Tasks only end, and only entries of ended ones go.                       *)
LEMMA OthersIInv ==
    ASSUME IInv, TypeOK', FreeTasksAreClear', ShutdownFindsAll', NobodyOversleeps',
           \A t \in Tasks : Live(t)' =>
                Live(t) /\ work'[t] = work[t] /\ pending'[work[t]] = pending[work[t]],
           \A w \in Work : pending'[w] \in {pending[w], None}
    PROVE IInv'
<1>1. LiveTasksAreKnown'
  BY DEF IInv, LiveTasksAreKnown
<1>2. EntriesAreBounded'
  <2> SUFFICES ASSUME NEW k \in Kinds PROVE Cardinality(Entries(k)') <= MaxPending[k]
    BY DEF EntriesAreBounded
  <2>1. Entries(k)' \subseteq Entries(k)
    BY DEF Entries, WorkOf
  <2>2. QED
    BY <2>1, FewerEntries DEF IInv
<1>3. QED
  BY <1>1, <1>2 DEF IInv

(* The steps of a task between its awaits: it goes on, sleeps or ends.      *)
Moves(t) ==
    /\ Live(t)
    /\ pc' \in [Tasks -> AnyPc] /\ wake' \in [Tasks -> Nat]
    /\ \A u \in Tasks : u # t => pc'[u] = pc[u] /\ wake'[u] = wake[u]
    /\ pc'[t] # "free"
    /\ wake'[t] = wake[t] \/ quiet + wake'[t] <= Delay[KindOf(t)]
    /\ batches' \in [Tasks -> Nat]
    /\ UNCHANGED <<pending, work, doomed, request, quiet, closing, shutdown, gathered, calm>>

LEMMA MovesIInv ==
    ASSUME IInv, NEW t \in Tasks, Moves(t)
    PROVE IInv'
<1> USE DEF Live, LivePc, AnyPc
<1>1. TypeOK'
  BY DEF IInv, TypeOK, Moves
<1>2. FreeTasksAreClear'
  BY DEF IInv, FreeTasksAreClear, Moves
<1>3. ShutdownFindsAll'
  BY DEF IInv, ShutdownFindsAll, NothingOutlivesShutdown, Moves
<1>4. NobodyOversleeps'
  BY DEF IInv, NobodyOversleeps, Moves, KindOf
<1>5. QED
  BY <1>1, <1>2, <1>3, <1>4, OthersIInv DEF Moves

(* Waiting for an idle window is such a step. *)
LEMMA GateMoves ==
    ASSUME IInv, NEW t \in Tasks, Live(t), NEW next \in LivePc, Gate(t, next),
           UNCHANGED <<pending, work, batches, doomed, request, quiet, lifeVars, calm>>
    PROVE Moves(t)
<1>1. /\ pc \in [Tasks -> AnyPc] /\ wake \in [Tasks -> Nat] /\ batches \in [Tasks -> Nat]
      /\ quiet \in Nat
  BY DEF IInv, TypeOK, AnyPc
<1>2. Delay[KindOf(t)] \in Nat
  BY SettingsAssumption, WorkAssumption DEF KindOf, IInv, TypeOK, Live, LivePc
<1>3. CASE quiet >= Delay[KindOf(t)]
  BY <1>1, <1>3 DEF Gate, Passes, Moves, AnyPc, LivePc, lifeVars
<1>4. CASE ~(quiet >= Delay[KindOf(t)])
  <2>1. /\ wake' = [wake EXCEPT ![t] = Delay[KindOf(t)] - quiet] /\ pc' = pc
    BY <1>4 DEF Gate, Waiting
  <2>2. Delay[KindOf(t)] - quiet \in Nat /\ quiet + (Delay[KindOf(t)] - quiet) <= Delay[KindOf(t)]
    BY <1>1, <1>2, <1>4
  <2>3. QED
    BY <1>1, <2>1, <2>2 DEF Moves, Live, LivePc, lifeVars
<1>5. QED
  BY <1>3, <1>4

(* A finished task is forgotten by its callback, whatever else is entered   *)
(* for its key.                                                             *)
LEMMA CallbackIInv ==
    ASSUME IInv, NEW t \in Tasks, Callback(t)
    PROVE IInv'
<1> USE DEF Callback, Released, lifeVars
<1>1. /\ pc[t] = "done" /\ work[t] \in Work
      /\ pc' = [pc EXCEPT ![t] = "free"] /\ work' = [work EXCEPT ![t] = None]
      /\ wake' = [wake EXCEPT ![t] = 0]
  BY DEF IInv, TypeOK
<1>2. pending' \in [Work -> Tasks \cup {None}]
      /\ \A w \in Work : pending'[w] = IF w = work[t] /\ pending[w] = t THEN None ELSE pending[w]
  BY <1>1 DEF IInv, TypeOK
<1>3. TypeOK'
  BY <1>1, <1>2 DEF IInv, TypeOK
<1>4. FreeTasksAreClear'
  BY <1>1 DEF IInv, TypeOK, FreeTasksAreClear
<1>5. \A u \in Tasks : Live(u)' => u # t /\ Live(u) /\ work'[u] = work[u] /\ wake'[u] = wake[u]
  BY <1>1 DEF Live, LivePc, IInv, TypeOK
<1>6. ShutdownFindsAll'
  BY <1>2, <1>5 DEF IInv, ShutdownFindsAll, NothingOutlivesShutdown
<1>7. NobodyOversleeps'
  BY <1>5 DEF IInv, NobodyOversleeps, KindOf
<1>8. \A u \in Tasks : Live(u)' => pending'[work[u]] = pending[work[u]]
  BY <1>2, <1>5 DEF IInv, LiveTasksAreKnown, TypeOK, Live, LivePc
<1>9. \A w \in Work : pending'[w] \in {pending[w], None}
  BY <1>2
<1>10. QED
  BY <1>3, <1>4, <1>5, <1>6, <1>7, <1>8, <1>9, OthersIInv

(* One round of cancel_metadata_tasks, for maps from which entries of ended *)
(* tasks may have been taken.                                               *)
LEMMA RoundIInv ==
    ASSUME IInv, NEW p \in [Work -> Tasks \cup {None}], Round(p), closing',
           \A w \in Work : p[w] = pending[w] \/ (p[w] = None /\ ~Live(pending[w])),
           UNCHANGED <<pc, work, wake, batches, request, quiet, calm>>
    PROVE IInv'
<1> USE DEF Round
<1>1. EntryTasks(p) \subseteq Tasks
  BY DEF EntryTasks
<1>2. TypeOK'
  BY <1>1 DEF IInv, TypeOK, Doom
<1>3. \A t \in Tasks : Live(t)' <=> Live(t)
  BY DEF Live
<1>4. \A t \in Tasks : Live(t) => work[t] \in Work /\ pending[work[t]] = t
  BY DEF IInv, LiveTasksAreKnown, TypeOK, Live, LivePc
<1>5. \A t \in Tasks : Live(t) => p[work[t]] = t /\ t \in EntryTasks(p)
  BY <1>4, NoneAssumption DEF EntryTasks
<1>6. FreeTasksAreClear' /\ NobodyOversleeps'
  BY <1>3 DEF IInv, FreeTasksAreClear, NobodyOversleeps, KindOf
<1>7. EntryTasks(p) = {} => \A w \in Work : p[w] = None
  BY DEF EntryTasks
<1>8. ShutdownFindsAll'
  BY <1>3, <1>5, <1>7 DEF ShutdownFindsAll, NothingOutlivesShutdown
<1>9. /\ \A t \in Tasks : Live(t)' =>
            Live(t) /\ work'[t] = work[t] /\ pending'[work[t]] = pending[work[t]]
      /\ \A w \in Work : pending'[w] \in {pending[w], None}
  BY <1>3, <1>4, <1>5
<1>10. QED
  BY <1>2, <1>6, <1>8, <1>9, OthersIInv

(* A tick lets a sleep run out no later than the window it waits for.       *)
LEMMA TickIInv ==
    ASSUME IInv, Tick
    PROVE IInv'
<1> USE DEF Tick, lifeVars
<1>1. Longest \in Nat /\ quiet \in 0..Longest /\ wake \in [Tasks -> Nat]
  BY SettingsAssumption DEF Longest, Kinds, IInv, TypeOK
<1>2. quiet' \in 0..Longest /\ quiet' <= quiet + 1
  BY <1>1
<1>3. wake' \in [Tasks -> Nat] /\ \A t \in Tasks : wake'[t] > 0 => wake[t] > 0 /\ wake'[t] + 1 = wake[t]
  BY <1>1
<1>4. TypeOK'
  BY <1>2, <1>3 DEF IInv, TypeOK
<1>5. FreeTasksAreClear'
  BY <1>1 DEF IInv, FreeTasksAreClear
<1>6. \A t \in Tasks : Live(t)' <=> Live(t)
  BY DEF Live
<1>7. ASSUME NEW t \in Tasks, Live(t)', wake'[t] > 0
      PROVE quiet' + wake'[t] <= Delay[KindOf(t)']
  <2>1. quiet + wake[t] <= Delay[KindOf(t)]
    BY <1>3, <1>6, <1>7 DEF IInv, NobodyOversleeps
  <2>2. Delay[KindOf(t)] \in Nat /\ KindOf(t)' = KindOf(t)
    BY <1>6, <1>7, SettingsAssumption, WorkAssumption DEF KindOf, IInv, TypeOK, Live, LivePc
  <2>3. quiet \in Nat /\ quiet' \in Nat /\ wake[t] \in Nat /\ wake'[t] \in Nat
    BY <1>1, <1>2, <1>3
  <2>4. QED
    BY <1>2, <1>3, <1>7, <2>1, <2>2, <2>3
<1>8. ShutdownFindsAll'
  BY <1>6 DEF IInv, ShutdownFindsAll, NothingOutlivesShutdown
<1>9. QED
  BY <1>4, <1>5, <1>6, <1>7, <1>8, OthersIInv DEF NobodyOversleeps

(* What remains touches neither tasks nor maps. *)
LEMMA BystandersIInv ==
    ASSUME IInv, TypeOK', ShutdownFindsAll', UNCHANGED <<pending, pc, work, wake>>, quiet' \in {0, quiet}
    PROVE IInv'
<1>1. \A t \in Tasks : (Live(t)' <=> Live(t)) /\ KindOf(t)' = KindOf(t)
  BY DEF Live, KindOf
<1>2. FreeTasksAreClear'
  BY DEF IInv, FreeTasksAreClear
<1>3. ASSUME NEW t \in Tasks, Live(t)', wake'[t] > 0
      PROVE quiet' + wake'[t] <= Delay[KindOf(t)']
  <2>1. quiet + wake[t] <= Delay[KindOf(t)]
    BY <1>1, <1>3 DEF IInv, NobodyOversleeps
  <2>2. Delay[KindOf(t)] \in Nat
    BY <1>1, <1>3, SettingsAssumption, WorkAssumption DEF KindOf, IInv, TypeOK, Live, LivePc
  <2>3. quiet \in Nat /\ wake[t] \in Nat
    BY DEF IInv, TypeOK
  <2>4. QED
    BY <1>1, <2>1, <2>2, <2>3
<1>4. QED
  BY <1>1, <1>2, <1>3, OthersIInv DEF NobodyOversleeps

------------------------------------------------------------------------------
(* The invariant *)

(* Steps of requests and of the world around the tasks. *)
LEMMA RequestsIInv ==
    ASSUME IInv, NEW r \in Requests, RequestStep(r)
    PROVE IInv'
<1>1. request[r].at \in {"marker", "ttl"} /\ request[r].find \in Work /\ request[r].extract \in Work
  BY DEF RequestStep, ReadMarker, ReadTtl, IInv, TypeOK
<1>2. /\ pc \in [Tasks -> AnyPc]
      /\ request \in [Requests -> [at : {"idle", "marker", "ttl"}, find : Work \cup {None},
                                   extract : Work \cup {None}]]
      /\ Idle \in [at : {"idle", "marker", "ttl"}, find : Work \cup {None}, extract : Work \cup {None}]
      /\ Idle.at = "idle"
  BY DEF IInv, TypeOK, AnyPc, Idle
<1>3. \A x \in Requests : request[x].at # "idle" =>
            request[x].find \in Work /\ request[x].extract \in Work
  BY DEF IInv, TypeOK
<1>4. ASSUME request' = [request EXCEPT ![r] = Idle]
      PROVE /\ request' \in [Requests -> [at : {"idle", "marker", "ttl"}, find : Work \cup {None},
                                          extract : Work \cup {None}]]
            /\ \A x \in Requests : request'[x].at # "idle" =>
                    request'[x].find \in Work /\ request'[x].extract \in Work
  BY <1>2, <1>3, <1>4
<1>5. ASSUME request' = [request EXCEPT ![r].at = "ttl"]
      PROVE /\ request' \in [Requests -> [at : {"idle", "marker", "ttl"}, find : Work \cup {None},
                                          extract : Work \cup {None}]]
            /\ \A x \in Requests : request'[x].at # "idle" =>
                    request'[x].find \in Work /\ request'[x].extract \in Work
  BY <1>1, <1>2, <1>3, <1>5
<1>6. CASE request' = [request EXCEPT ![r] = Idle] /\ Schedule(request[r].extract, pc, work)
            /\ ReadMarker(r)
  <2>1. Schedules(request[r].extract, pc)
    BY <1>2, <1>6 DEF Schedules, ReadMarker, lifeVars
  <2>2. QED
    BY <1>1, <1>4, <1>6, <2>1, ScheduleIInv DEF ReadMarker
<1>7. CASE ReadTtl(r) /\ Schedule(request[r].find, pc, work)
            /\ quiet' = IF closing THEN quiet ELSE 0
  <2>1. Schedules(request[r].find, pc)
    BY <1>2, <1>7 DEF Schedules, ReadTtl, lifeVars
  <2>2. QED
    BY <1>1, <1>4, <1>7, <2>1, ScheduleIInv DEF ReadTtl
<1>8. CASE /\ UNCHANGED <<pending, pc, work, wake, quiet, batches, doomed, lifeVars, calm>>
           /\ request' \in {[request EXCEPT ![r] = Idle], [request EXCEPT ![r].at = "ttl"]}
  <2>1. TypeOK'
    BY <1>4, <1>5, <1>8 DEF IInv, TypeOK, lifeVars
  <2>2. ShutdownFindsAll'
    BY <1>8 DEF IInv, ShutdownFindsAll, NothingOutlivesShutdown, Live, lifeVars
  <2>3. QED
    BY <1>8, <2>1, <2>2, BystandersIInv
<1>9. QED
  BY <1>6, <1>7, <1>8 DEF RequestStep, ReadMarker, ReadTtl

(* A job that ends may leave work, which finds its own end already written. *)
LEMMA FinishIInv ==
    ASSUME IInv, NEW t \in Tasks, Finish(t)
    PROVE IInv'
<1>1. Live(t) /\ work[t] \in Work /\ pc \in [Tasks -> AnyPc]
  BY DEF Finish, Runs, Live, LivePc, IInv, TypeOK, AnyPc
<1>2. CASE pc' = Ended(t) /\ UNCHANGED <<pending, work>>
  <2>1. Moves(t)
    BY <1>1, <1>2 DEF Finish, Moves, Ended, AnyPc, IInv, TypeOK, lifeVars
  <2>2. QED
    BY <2>1, MovesIInv
<1>3. ASSUME KindOf(t) = "discovery", NEW e \in After[work[t]], Schedule(e, Ended(t), work)
      PROVE IInv'
  <2>1. e \in Work
    BY <1>1, <1>3, WorkAssumption DEF KindOf, WorkOf
  <2>2. Schedules(e, Ended(t))
    BY <1>1, <1>3 DEF Schedules, Finish, Ended, AnyPc, lifeVars
  <2>3. QED
    BY <2>1, <2>2, ScheduleIInv DEF Finish, lifeVars, IInv, TypeOK
<1>4. QED
  BY <1>2, <1>3 DEF Finish

(* Steps of a task, up to its callback. *)
LEMMA TasksIInv ==
    ASSUME IInv, NEW t \in Tasks, TaskStep(t)
    PROVE IInv'
<1>1. CASE FirstGate(t)
  BY <1>1, GateMoves, MovesIInv DEF FirstGate, Runs, Live, LivePc
<1>2. CASE GetPermit(t)
  <2>1. Moves(t)
    BY <1>2 DEF GetPermit, Moves, Runs, Live, LivePc, AnyPc, IInv, TypeOK, lifeVars
  <2>2. QED
    BY <2>1, MovesIInv
<1>3. CASE SecondGate(t)
  BY <1>3, GateMoves, MovesIInv DEF SecondGate, Runs, Live, LivePc
<1>4. CASE NextBatch(t)
  <2>1. Moves(t)
    BY <1>4 DEF NextBatch, Moves, Runs, Live, LivePc, AnyPc, IInv, TypeOK, lifeVars
  <2>2. QED
    BY <2>1, MovesIInv
<1>5. CASE Finish(t)
  BY <1>5, FinishIInv
<1>6. CASE Die(t)
  <2>1. Moves(t)
    BY <1>6 DEF Die, Ended, Moves, Live, LivePc, AnyPc, IInv, TypeOK, lifeVars
  <2>2. QED
    BY <2>1, MovesIInv
<1>7. CASE Callback(t)
  BY <1>7, CallbackIInv
<1>8. QED
  BY <1>1, <1>2, <1>3, <1>4, <1>5, <1>6, <1>7 DEF TaskStep

(* Rounds of cancel_metadata_tasks: the tasks gathered are all there are. *)
LEMMA ShutdownIInv ==
    ASSUME IInv, StartShutdown \/ EndRound \/ Restart
    PROVE IInv'
<1>1. CASE StartShutdown
  <2>1. pending \in [Work -> Tasks \cup {None}]
    BY DEF IInv, TypeOK
  <2>2. QED
    BY <1>1, <2>1, RoundIInv DEF StartShutdown
<1>2. CASE EndRound
  <2> DEFINE p == [w \in Work |-> IF pending[w] # None /\ ~Live(pending[w]) THEN None ELSE pending[w]]
  <2>1. /\ p \in [Work -> Tasks \cup {None}]
        /\ \A w \in Work : p[w] = pending[w] \/ (p[w] = None /\ ~Live(pending[w]))
    BY DEF IInv, TypeOK
  <2>2. closing'
    BY <1>2 DEF EndRound, IInv, ShutdownFindsAll
  <2>3. Round(p) /\ UNCHANGED <<pc, work, wake, batches, request, quiet, calm>>
    BY <1>2 DEF EndRound
  <2> HIDE DEF p
  <2>4. QED
    BY <2>1, <2>2, <2>3, RoundIInv
<1>3. CASE Restart
  <2>1. TypeOK'
    BY <1>3 DEF Restart, IInv, TypeOK, taskVars
  <2>2. ShutdownFindsAll'
    BY <1>3 DEF Restart, ShutdownFindsAll, NothingOutlivesShutdown
  <2>3. QED
    BY <1>3, <2>1, <2>2, BystandersIInv DEF Restart, taskVars
<1>4. QED
  BY <1>1, <1>2, <1>3

(* A page is filled, or served from the cache. *)
LEMMA TrafficIInv ==
    ASSUME IInv, NEW d \in Work, Filled(d) \/ \E r \in Requests, e \in Work : Ensure(r, d, e)
    PROVE IInv'
<1>1. CASE Filled(d)
  <2>1. Schedules(d, pc)
    BY <1>1 DEF Schedules, Filled, lifeVars, IInv, TypeOK, AnyPc
  <2>2. QED
    BY <1>1, <2>1, ScheduleIInv DEF Filled, IInv, TypeOK
<1>2. ASSUME NEW r \in Requests, NEW e \in Work, Ensure(r, d, e) PROVE IInv'
  <2>1. [at |-> "marker", find |-> d, extract |-> e]
            \in [at : {"idle", "marker", "ttl"}, find : Work \cup {None}, extract : Work \cup {None}]
    OBVIOUS
  <2>2. quiet' \in 0..Longest
    BY <1>2, SettingsAssumption DEF Ensure, Longest, Kinds
  <2>3. TypeOK'
    BY <1>2, <2>1, <2>2 DEF Ensure, IInv, TypeOK, taskVars, lifeVars
  <2>4. ShutdownFindsAll'
    BY <1>2 DEF Ensure, IInv, ShutdownFindsAll, NothingOutlivesShutdown, Live, taskVars, lifeVars
  <2>5. QED
    BY <1>2, <2>3, <2>4, BystandersIInv DEF Ensure, taskVars
<1>3. QED
  BY <1>1, <1>2

(* Every step preserves the invariant. *)
LEMMA NextIInv == IInv /\ [Next]_vars => IInv'
<1> SUFFICES ASSUME IInv, [Next]_vars PROVE IInv'
  OBVIOUS
<1>1. CASE \E d \in Work : Filled(d) \/ \E r \in Requests, e \in Work : Ensure(r, d, e)
  BY <1>1, TrafficIInv
<1>2. CASE \E r \in Requests : RequestStep(r)
  BY <1>2, RequestsIInv
<1>3. CASE \E t \in Tasks : TaskStep(t)
  BY <1>3, TasksIInv
<1>4. CASE StartShutdown \/ EndRound \/ Restart
  BY <1>4, ShutdownIInv
<1>5. CASE Tick
  BY <1>5, TickIInv
<1>6. CASE CalmDown \/ UNCHANGED vars
  <2>1. TypeOK'
    BY <1>6 DEF CalmDown, vars, IInv, TypeOK, taskVars, lifeVars
  <2>2. ShutdownFindsAll'
    BY <1>6 DEF CalmDown, vars, IInv, ShutdownFindsAll, NothingOutlivesShutdown, Live, taskVars, lifeVars
  <2>3. QED
    BY <1>6, <2>1, <2>2, BystandersIInv DEF CalmDown, vars, taskVars
<1>7. QED
  BY <1>1, <1>2, <1>3, <1>4, <1>5, <1>6 DEF Next

(* The inductive invariant holds, whatever the limits and delays are.       *)
THEOREM Invariance == Spec => []IInv
<1>1. Init => IInv
  BY InitIInv
<1>2. IInv /\ [Next]_vars => IInv'
  BY NextIInv
<1>3. QED
  BY <1>1, <1>2, PTL DEF Spec

(* The state of the task queues is well-typed. *)
THEOREM TypeCorrect == Spec => []TypeOK
<1>1. IInv => TypeOK
  BY DEF IInv
<1>2. QED
  BY <1>1, Invariance, PTL

(* remove_if_current never takes a running task out of its map, so that     *)
(* there is one per key and shutdown can find it.                           *)
THEOREM TasksAreFound == Spec => []LiveTasksAreKnown
<1>1. IInv => LiveTasksAreKnown
  BY DEF IInv
<1>2. QED
  BY <1>1, Invariance, PTL

(* The settings that bound the maps bound the tasks as well. *)
LEMMA BoundedByEntries ==
    ASSUME IInv, NEW k \in Kinds
    PROVE Cardinality(LiveOf(k)) <= MaxPending[k]
<1> DEFINE key == [t \in LiveOf(k) |-> work[t]]
<1>1. key \in Injection(LiveOf(k), Entries(k))
  <2>1. \A t \in LiveOf(k) : work[t] \in Entries(k) /\ pending[work[t]] = t
    BY NoneAssumption
       DEF IInv, TypeOK, LiveTasksAreKnown, LiveOf, Entries, WorkOf, KindOf, Live, LivePc
  <2>2. \A t, u \in LiveOf(k) : work[t] = work[u] => t = u
    BY <2>1
  <2>3. QED
    BY <2>1, <2>2 DEF Injection, IsInjective
<1>2. IsFiniteSet(Entries(k)) /\ Cardinality(Entries(k)) \in Nat
  BY EntriesAreFinite
<1> HIDE DEF key
<1>3. IsFiniteSet(LiveOf(k)) /\ Cardinality(LiveOf(k)) <= Cardinality(Entries(k))
  BY <1>1, <1>2, FS_Injection
<1>4. Cardinality(LiveOf(k)) \in Nat
  BY <1>3, FS_CardinalityType
<1>5. Cardinality(Entries(k)) <= MaxPending[k] /\ MaxPending[k] \in Nat
  BY SettingsAssumption DEF IInv, EntriesAreBounded
<1>6. QED
  BY <1>2, <1>3, <1>4, <1>5

(* "Hard bound on scheduled enrichment tasks". *)
THEOREM Bounded == Spec => []TasksAreBounded
<1>1. IInv => TasksAreBounded
  BY BoundedByEntries DEF TasksAreBounded
<1>2. QED
  BY <1>1, Invariance, PTL

(* cancel_metadata_tasks leaves nothing behind. *)
THEOREM CleanShutdown == Spec => []NothingOutlivesShutdown
<1>1. IInv => NothingOutlivesShutdown
  BY DEF IInv, ShutdownFindsAll
<1>2. QED
  BY <1>1, Invariance, PTL

(* No sleep is longer than what is left of the idle window. *)
THEOREM Punctual == Spec => []NobodyOversleeps
<1>1. IInv => NobodyOversleeps
  BY DEF IInv
<1>2. QED
  BY <1>1, Invariance, PTL

(* Only SecondGate lets a task go to work. *)
LEMMA OnlyThroughTheGate ==
    ASSUME IInv, Next, NEW t \in Tasks, pc[t] # "work", pc'[t] = "work"
    PROVE quiet >= Delay[KindOf(t)]
<1>1. pc \in [Tasks -> AnyPc]
  BY DEF IInv, TypeOK, AnyPc
<1>2. ASSUME NEW w, NEW pcs \in [Tasks -> AnyPc], pcs[t] # "work", Schedule(w, pcs, work)
      PROVE FALSE
  BY <1>2 DEF Schedule
<1>3. CASE \E d \in Work : Filled(d)
  BY <1>1, <1>2, <1>3 DEF Filled
<1>4. CASE \E r \in Requests : RequestStep(r)
  BY <1>1, <1>2, <1>4 DEF RequestStep, ReadMarker, ReadTtl
<1>5. ASSUME NEW u \in Tasks, TaskStep(u) PROVE quiet >= Delay[KindOf(t)]
  <2>1. CASE SecondGate(u)
    BY <1>1, <2>1 DEF SecondGate, Gate, Passes, Waiting
  <2>2. CASE FirstGate(u)
    BY <1>1, <2>2 DEF FirstGate, Gate, Passes, Waiting
  <2>3. CASE Finish(u)
    <3>1. Ended(u) \in [Tasks -> AnyPc] /\ Ended(u)[t] # "work"
      BY <1>1 DEF Ended, AnyPc
    <3>2. QED
      BY <1>2, <3>1, <2>3 DEF Finish
  <2>4. CASE GetPermit(u) \/ NextBatch(u) \/ Die(u) \/ Callback(u)
    BY <1>1, <2>4 DEF GetPermit, NextBatch, Die, Ended, Callback, Released
  <2>5. QED
    BY <1>5, <2>1, <2>2, <2>3, <2>4 DEF TaskStep
<1>6. CASE pc' = pc
  BY <1>6
<1>7. QED
  BY <1>3, <1>4, <1>5, <1>6
     DEF Next, Ensure, StartShutdown, EndRound, Restart, Tick, CalmDown, taskVars

(* Speculative work starts in idle windows only. *)
THEOREM OnlyWhenIdle == Spec => StartsWhenIdle
<1>1. IInv /\ [Next]_vars =>
        [\A t \in Tasks : pc[t] # "work" /\ pc'[t] = "work" => quiet >= Delay[KindOf(t)]]_vars
  BY OnlyThroughTheGate
<1>2. QED
  BY <1>1, Invariance, PTL DEF Spec, StartsWhenIdle
==============================================================================
