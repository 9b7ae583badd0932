--------------------------- MODULE BackgroundTasks ---------------------------
(***************************************************************************)
(* app/metadata.py: the life of background tasks in one process: how       *)
(* requests and jobs schedule them, the two maps of pending work, the idle *)
(* windows and worker permits a task waits for, and shutdown.              *)
(*                                                                         *)
(* Code between two awaits is one step.  What a task works on is the       *)
(* subject of Enrichment; here work is a key of one of the two maps: a     *)
(* project for discovery, an exact body for extraction.  Time is counted   *)
(* in ticks: quiet is the time since the last project request, and a task  *)
(* that waits for an idle window sleeps for as long as it computed when it *)
(* fell asleep, whatever requests come meanwhile.                          *)
(***************************************************************************)
EXTENDS Naturals, FiniteSets

CONSTANTS
    Work,           \* keys of _pending and _extraction_pending
    Kind,           \* Kind[w]: which of the two
    After,          \* After[d]: the bodies that discovery of d may leave to extraction
    Tasks,          \* asyncio tasks, used again once their callbacks ran
    Requests,       \* requests inside ensure_metadata_background_work
    MaxPending,     \* settings.metadata_max_pending_[extraction_]projects
    Permits,        \* settings.metadata_max_inflight_[extraction_]projects
    Delay,          \* settings.metadata_background_*_idle_seconds
    MaxBatches,     \* bound: idle windows one extraction waits for
    World,          \* whether the process may stop and traffic may end
    None

Kinds == {"discovery", "extraction"}
WorkOf(k) == {w \in Work : Kind[w] = k}

ASSUME WorkAssumption ==
    /\ IsFiniteSet(Work) /\ Kind \in [Work -> Kinds]
    /\ After \in [WorkOf("discovery") -> SUBSET WorkOf("extraction")]
ASSUME SettingsAssumption ==
    /\ MaxPending \in [Kinds -> Nat]
    /\ Permits \in [Kinds -> Nat \ {0}]
    /\ Delay \in [Kinds -> Nat]
    /\ MaxBatches \in Nat
ASSUME NoneAssumption == None \notin Tasks \cup Work
ASSUME WorldAssumption == World \subseteq {"stop", "calm"}

VARIABLES
    pending,    \* pending[w]: the task under key w in its map, or None
    pc,         \* pc[t]: what task t waits for
    work,       \* work[t]: the key it was created for
    wake,       \* wake[t]: ticks until its sleep is over
    batches,    \* batches[t]: how often it has waited for a batch
    doomed,     \* tasks with a cancellation to be delivered
    request,    \* request[r]: which await of ensure r is at, and what for
    quiet,      \* ticks since _last_project_activity, up to the longest delay
    closing,    \* _closing
    shutdown,   \* "no", "gather" while cancel_metadata_tasks waits, "done"
    gathered,   \* the tasks it waits for
    calm        \* project requests have ceased

taskVars == <<pc, work, wake, batches, doomed>>
lifeVars == <<closing, shutdown, gathered>>
vars == <<pending, pc, work, wake, batches, doomed, request, quiet, closing,
          shutdown, gathered, calm>>

Idle == [at |-> "idle", find |-> None, extract |-> None]

Init ==
    /\ pending = [w \in Work |-> None]
    /\ pc = [t \in Tasks |-> "free"]
    /\ work = [t \in Tasks |-> None]
    /\ wake = [t \in Tasks |-> 0]
    /\ batches = [t \in Tasks |-> 0]
    /\ doomed = {}
    /\ request = [r \in Requests |-> Idle]
    /\ quiet = 0
    /\ closing = FALSE /\ shutdown = "no" /\ gathered = {}
    /\ calm = FALSE

------------------------------------------------------------------------------
(* Scheduling *)

LivePc == {"idle", "permit", "ready", "work"}
Live(t) == pc[t] \in LivePc          \* not task.done()

Longest == IF Delay["discovery"] > Delay["extraction"]
           THEN Delay["discovery"] ELSE Delay["extraction"]

Entries(k) == {w \in WorkOf(k) : pending[w] # None}

(* An entry of a finished task counts until its callback has run, and may   *)
(* be replaced before.                                                      *)
Accepts(w) ==
    /\ pending[w] = None \/ ~Live(pending[w])
    /\ Cardinality(Entries(Kind[w])) < MaxPending[Kind[w]]

(* Variant: whoever got as far as this may still schedule.                  *)
SchedulableAnyway(w) == Accepts(w)

(* The checks of schedule_metadata_enrichment, _schedule_project_extraction *)
Schedulable(w) == ~closing /\ Accepts(w)

(* create_task, for the pcs that result from the rest of the step.          *)
Schedule(w, pcs, works) ==
    IF Schedulable(w)
    THEN \E t \in Tasks :
        /\ pc[t] = "free"
        /\ pending' = [pending EXCEPT ![w] = t]
        /\ pc' = [pcs EXCEPT ![t] = "idle"]
        /\ work' = [works EXCEPT ![t] = w]
    ELSE pending' = pending /\ pc' = pcs /\ work' = works

(* A page was filled or converted: note_project_request and schedule.       *)
Filled(d) ==
    /\ Kind[d] = "discovery" /\ ~calm
    /\ quiet' = IF closing THEN quiet ELSE 0
    /\ Schedule(d, pc, work)
    /\ UNCHANGED <<wake, batches, doomed, request, lifeVars, calm>>

(* A cached page is served: the request is noted, and unless work for it is *)
(* under way its markers are looked up.                                     *)
Ensure(r, d, e) ==
    /\ request[r] = Idle /\ ~calm
    /\ Kind[d] = "discovery" /\ e \in After[d]
    /\ quiet' = 0
    /\ request' = IF closing \/ \E w \in {d, e} : pending[w] # None /\ Live(pending[w])
                  THEN request
                  ELSE [request EXCEPT ![r] = [at |-> "marker", find |-> d, extract |-> e]]
    /\ UNCHANGED <<pending, taskVars, lifeVars, calm>>

(* The body was discovered before: go on with its extraction.               *)
ReadMarker(r) ==
    /\ request[r].at = "marker"
    /\ \/ /\ Schedule(request[r].extract, pc, work)
          /\ request' = [request EXCEPT ![r] = Idle]
       \/ /\ request' = [request EXCEPT ![r].at = "ttl"]
          /\ UNCHANGED <<pending, pc, work>>
    /\ UNCHANGED <<wake, batches, doomed, quiet, lifeVars, calm>>

(* It is still cached: discover it.  Scheduling counts as traffic again.    *)
ReadTtl(r) ==
    /\ request[r].at = "ttl"
    /\ request' = [request EXCEPT ![r] = Idle]
    /\ \/ /\ Schedule(request[r].find, pc, work)
          /\ quiet' = IF closing THEN quiet ELSE 0
       \/ UNCHANGED <<pending, pc, work, quiet>>
    /\ UNCHANGED <<wake, batches, doomed, lifeVars, calm>>

------------------------------------------------------------------------------
(* Tasks *)

KindOf(t) == Kind[work[t]]
Runs(t, at) == pc[t] = at /\ t \notin doomed

Waiting(t, remaining) ==
    /\ wake' = [wake EXCEPT ![t] = remaining]
    /\ UNCHANGED pc

Passes(t, next) ==
    /\ pc' = [pc EXCEPT ![t] = next]
    /\ UNCHANGED wake

(* Variant: every sleep is as long as the whole window.                     *)
GateFromNow(t, next) ==
    IF quiet >= Delay[KindOf(t)] THEN Passes(t, next) ELSE Waiting(t, Delay[KindOf(t)])

(* _wait_for_project_idle: look again after every sleep.                    *)
Gate(t, next) ==
    IF quiet >= Delay[KindOf(t)] THEN Passes(t, next)
    ELSE Waiting(t, Delay[KindOf(t)] - quiet)

FirstGate(t) ==
    /\ Runs(t, "idle") /\ wake[t] = 0
    /\ Gate(t, "permit")
    /\ UNCHANGED <<pending, work, batches, doomed, request, quiet, lifeVars, calm>>

(* async with _task_semaphore, _extraction_project_semaphore *)
Permitted(k) == {t \in Tasks : pc[t] \in {"ready", "work"} /\ KindOf(t) = k}

(* Variant: the idle window is not awaited again. *)
GetPermitAndStart(t) ==
    /\ Runs(t, "permit") /\ Cardinality(Permitted(KindOf(t))) < Permits[KindOf(t)]
    /\ pc' = [pc EXCEPT ![t] = "work"]
    /\ UNCHANGED <<pending, work, wake, batches, doomed, request, quiet, lifeVars, calm>>

GetPermit(t) ==
    /\ Runs(t, "permit") /\ Cardinality(Permitted(KindOf(t))) < Permits[KindOf(t)]
    /\ pc' = [pc EXCEPT ![t] = "ready"]
    /\ UNCHANGED <<pending, work, wake, batches, doomed, request, quiet, lifeVars, calm>>

(* The second wait, "activity may have resumed", and one before each batch  *)
(* of an extraction.                                                        *)
SecondGate(t) ==
    /\ Runs(t, "ready") /\ wake[t] = 0
    /\ Gate(t, "work")
    /\ UNCHANGED <<pending, work, batches, doomed, request, quiet, lifeVars, calm>>

(* Variant: a batch in which an extraction failed is repeated.              *)
NextBatchOrAgain(t) ==
    /\ Runs(t, "work") /\ KindOf(t) = "extraction" /\ batches[t] < MaxBatches
    /\ pc' = [pc EXCEPT ![t] = "ready"]
    /\ batches' \in {batches, [batches EXCEPT ![t] = @ + 1]}
    /\ UNCHANGED <<pending, work, wake, doomed, request, quiet, lifeVars, calm>>

(* The loop over batches goes on.                                           *)
NextBatch(t) ==
    /\ Runs(t, "work") /\ KindOf(t) = "extraction" /\ batches[t] < MaxBatches
    /\ pc' = [pc EXCEPT ![t] = "ready"]
    /\ batches' = [batches EXCEPT ![t] = @ + 1]
    /\ UNCHANGED <<pending, work, wake, doomed, request, quiet, lifeVars, calm>>

Ended(t) == [pc EXCEPT ![t] = "done"]

(* The end of a job, in success or with the exception it logs; a discovery  *)
(* may leave wheels to an extraction.                                       *)
Finish(t) ==
    /\ Runs(t, "work")
    /\ \/ /\ pc' = Ended(t)
          /\ UNCHANGED <<pending, work>>
       \/ /\ KindOf(t) = "discovery"
          /\ \E e \in After[work[t]] : Schedule(e, Ended(t), work)
    /\ UNCHANGED <<wake, batches, doomed, request, quiet, lifeVars, calm>>

(* CancelledError is raised wherever the task is, even before its first     *)
(* line, and no handler of it goes on.                                      *)
Die(t) ==
    /\ t \in doomed /\ Live(t)
    /\ pc' = Ended(t)
    /\ UNCHANGED <<pending, work, wake, batches, doomed, request, quiet, lifeVars, calm>>

Released(t) ==
    /\ pc[t] = "done"
    /\ pc' = [pc EXCEPT ![t] = "free"]
    /\ work' = [work EXCEPT ![t] = None]
    /\ wake' = [wake EXCEPT ![t] = 0]
    /\ batches' = [batches EXCEPT ![t] = 0]
    /\ doomed' = doomed \ {t}
    /\ UNCHANGED <<request, quiet, lifeVars, calm>>

(* Variant: whatever is under the key is removed.                           *)
CallbackAlways(t) ==
    /\ Released(t)
    /\ pending' = [pending EXCEPT ![work[t]] = None]

(* remove_if_current, called by the event loop some time after the end.     *)
Callback(t) ==
    /\ Released(t)
    /\ pending' = [pending EXCEPT ![work[t]] = IF @ = t THEN None ELSE @]

------------------------------------------------------------------------------
(* Shutdown: cancel_metadata_tasks and start_metadata_tasks *)

EntryTasks(p) == {p[w] : w \in Work} \ {None}

(* Variant: only discovery is cancelled. *)
DoomDiscovery(tasks) == doomed \cup {t \in tasks : Live(t) /\ KindOf(t) = "discovery"}

(* task.cancel() for each; it does nothing to a finished task.              *)
Doom(tasks) == doomed \cup {t \in tasks : Live(t)}

(* One round of the loop, for the maps as they are now.                     *)
Round(p) ==
    LET tasks == EntryTasks(p) IN
    /\ pending' = p
    /\ doomed' = Doom(tasks)
    /\ gathered' = tasks
    /\ shutdown' = IF tasks = {} THEN "done" ELSE "gather"

StartShutdown ==
    /\ "stop" \in World /\ ~closing
    /\ closing' = TRUE
    /\ Round(pending)
    /\ UNCHANGED <<pc, work, wake, batches, request, quiet, calm>>

EndRound ==
    /\ shutdown = "gather" /\ \A t \in gathered : ~Live(t)
    /\ Round([w \in Work |-> IF pending[w] # None /\ ~Live(pending[w]) THEN None ELSE pending[w]])
    /\ UNCHANGED <<pc, work, wake, batches, request, quiet, closing, calm>>

Restart ==
    /\ shutdown = "done"
    /\ closing' = FALSE /\ shutdown' = "no"
    /\ UNCHANGED <<pending, taskVars, request, quiet, gathered, calm>>

------------------------------------------------------------------------------
(* Time and traffic *)

Tick ==
    /\ quiet < Longest \/ \E t \in Tasks : wake[t] > 0
    /\ quiet' = IF quiet < Longest THEN quiet + 1 ELSE quiet
    /\ wake' = [t \in Tasks |-> IF wake[t] > 0 THEN wake[t] - 1 ELSE 0]
    /\ UNCHANGED <<pending, pc, work, batches, doomed, request, lifeVars, calm>>

CalmDown ==
    /\ "calm" \in World /\ ~calm
    /\ calm' = TRUE
    /\ UNCHANGED <<pending, taskVars, request, quiet, lifeVars>>

RequestStep(r) == ReadMarker(r) \/ ReadTtl(r)

TaskStep(t) ==
    \/ FirstGate(t) \/ GetPermit(t) \/ SecondGate(t)
    \/ NextBatch(t) \/ Finish(t) \/ Die(t) \/ Callback(t)

Next ==
    \/ \E d \in Work : Filled(d)
    \/ \E r \in Requests : RequestStep(r) \/ \E d, e \in Work : Ensure(r, d, e)
    \/ \E t \in Tasks : TaskStep(t)
    \/ StartShutdown \/ EndRound \/ Restart
    \/ Tick \/ CalmDown

(* The event loop runs what is ready, and clocks advance.  A semaphore      *)
(* serves its waiters in turn.                                              *)
Fairness ==
    /\ \A r \in Requests : WF_vars(RequestStep(r))
    /\ \A t \in Tasks : WF_vars(TaskStep(t)) /\ SF_vars(GetPermit(t))
    /\ WF_vars(EndRound) /\ WF_vars(Tick)

Spec == Init /\ [][Next]_vars
FairSpec == Spec /\ Fairness

------------------------------------------------------------------------------
(* Properties *)

(* The variables have their types, and a task has a key until its callback. *)
TypeOK ==
    /\ pending \in [Work -> Tasks \cup {None}]
    /\ pc \in [Tasks -> LivePc \cup {"done", "free"}]
    /\ work \in [Tasks -> Work \cup {None}]
    /\ \A t \in Tasks : pc[t] # "free" => work[t] \in Work
    /\ wake \in [Tasks -> Nat] /\ batches \in [Tasks -> Nat]
    /\ doomed \subseteq Tasks /\ gathered \subseteq Tasks
    /\ request \in [Requests -> [at : {"idle", "marker", "ttl"}, find : Work \cup {None},
                                 extract : Work \cup {None}]]
    /\ \A r \in Requests :
        request[r].at # "idle" => request[r].find \in Work /\ request[r].extract \in Work
    /\ quiet \in 0..Longest
    /\ closing \in BOOLEAN /\ calm \in BOOLEAN
    /\ shutdown \in {"no", "gather", "done"}

(* A task that has not ended is the entry of its key, so that shutdown can  *)
(* find it and no second one is started for the key: the callback of an     *)
(* earlier task for the key, run late, must not take it out.                *)
LiveTasksAreKnown == \A t \in Tasks : Live(t) => pending[work[t]] = t

(* "Hard bound on scheduled enrichment tasks (running plus queued)", for    *)
(* either kind.                                                             *)
LiveOf(k) == {t \in Tasks : Live(t) /\ KindOf(t) = k}
TasksAreBounded == \A k \in Kinds : Cardinality(LiveOf(k)) <= MaxPending[k]

(* When cancel_metadata_tasks has returned, and the lifespan goes on to     *)
(* close the HTTP client, no background task is left and none comes.        *)
NothingOutlivesShutdown ==
    shutdown = "done" => (\A t \in Tasks : ~Live(t)) /\ (\A w \in Work : pending[w] = None)

(* Speculative work, and each batch of it, starts in an idle window, even   *)
(* when the permit for it took longer to get than the window lasted.        *)
StartsWhenIdle ==
    [][\A t \in Tasks : pc[t] # "work" /\ pc'[t] = "work" => quiet >= Delay[KindOf(t)]]_vars

(* No task sleeps past the moment its idle window is complete, whenever the *)
(* requests came that it waits out.                                         *)
NobodyOversleeps ==
    \A t \in Tasks : Live(t) /\ wake[t] > 0 => quiet + wake[t] <= Delay[KindOf(t)]

(* Together inductive: an unused task does not sleep, the maps and not only  *)
(* the live tasks are within their bounds, and a shutdown waits for every   *)
(* task there is.                                                           *)
FreeTasksAreClear == \A t \in Tasks : pc[t] = "free" => wake[t] = 0
EntriesAreBounded == \A k \in Kinds : Cardinality(Entries(k)) <= MaxPending[k]
ShutdownFindsAll ==
    /\ closing <=> shutdown # "no"
    /\ shutdown = "gather" => \A t \in Tasks : Live(t) => t \in gathered
    /\ NothingOutlivesShutdown
IInv ==
    /\ TypeOK
    /\ FreeTasksAreClear
    /\ LiveTasksAreKnown
    /\ EntriesAreBounded
    /\ ShutdownFindsAll
    /\ NobodyOversleeps

(* When requests cease, every task ends, and those it leaves work to.       *)
EverythingEnds == calm ~> [](\A t \in Tasks : ~Live(t))

(* cancel_metadata_tasks returns, however busy the process is.              *)
ShutdownEnds == shutdown = "gather" ~> shutdown = "done"
==============================================================================
