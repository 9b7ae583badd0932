-------------------------------- MODULE Cache --------------------------------
(***************************************************************************)
(* app/cache.py: Cache, the Redis client of one process with its fallback  *)
(* to a dictionary in memory.                                              *)
(*                                                                         *)
(* An operation that finds a client sends one command (an MGET, a MULTI    *)
(* pipeline or a Lua script is one command to Redis) and awaits the reply. *)
(* It may fail before Redis runs it or after; either way the operation     *)
(* drops the client the process has by then, whichever that is, and runs   *)
(* on the dictionary instead.  /health probes reconnect concurrently.      *)
(*                                                                         *)
(* Client objects are not told apart, since the code only asks whether     *)
(* there is one.  The error counters are left out.                         *)
(***************************************************************************)
EXTENDS Naturals

CONSTANTS
    Callers,        \* tasks that use the cache
    Probes,         \* /health requests that may run at a time
    Keys,
    Batch,          \* keys that are only ever written together, with one value
    Values,
    Ops,            \* the operations the callers perform
    Backends,       \* settings.cache_backend of the processes looked at
    MaxAttempts,    \* settings.redis_startup_max_attempts
    None

MaybeValue == Values \cup {None}
Reads == {"read", "exists", "ttl", "check"}

(* keys: what a read asks for; expect: what check and cas compare with;    *)
(* values: what write and cas store.                                       *)
ASSUME OpsAssumption ==
    \A o \in Ops :
        /\ o.name \in Reads \cup {"write", "cas"}
        /\ o.keys \subseteq Keys
        /\ DOMAIN o.expect \subseteq Keys /\ \A k \in DOMAIN o.expect : o.expect[k] \in MaybeValue
        /\ DOMAIN o.values \subseteq Keys /\ \A k \in DOMAIN o.values : o.values[k] \in Values
ASSUME BatchAssumption ==
    /\ Batch \subseteq Keys
    /\ \A o \in Ops : Batch \cap DOMAIN o.values # {} =>
        /\ Batch \subseteq DOMAIN o.values
        /\ \A k, m \in Batch : o.values[k] = o.values[m]
ASSUME BackendsAssumption == Backends \subseteq {"memory", "redis", "redis_required"}
ASSUME AttemptsAssumption == MaxAttempts \in Nat \ {0}
ASSUME NoneIsNothingElse == None \notin Values /\ None \notin Ops

VARIABLES
    backend,    \* self.backend
    client,     \* self._redis is not None
    state,      \* self.state
    mem,        \* self._mem
    redis,      \* the contents of Redis
    up,         \* whether Redis can be reached
    boot,       \* "starting" until connect() is over, or "exited"
    tries,      \* failed attempts of connect()
    step,       \* where a caller is in its operation
    op,         \* its operation
    answer,     \* what the operation returned, or what Redis replied
    probe       \* where a /health request is

bootVars == <<backend, boot, tries>>
vars == <<backend, client, state, mem, redis, up, boot, tries, step, op, answer, probe>>

Init ==
    /\ backend \in Backends
    /\ client = (backend # "memory")
    /\ state = IF backend = "memory" THEN "memory" ELSE "disconnected"
    /\ mem = [k \in Keys |-> None]
    /\ redis = [k \in Keys |-> None]
    /\ up \in BOOLEAN
    /\ boot = IF backend = "memory" THEN "serving" ELSE "starting"
    /\ tries = 0
    /\ step = [t \in Callers |-> "idle"]
    /\ op = [t \in Callers |-> None]
    /\ answer = [t \in Callers |-> None]
    /\ probe = [p \in Probes |-> "idle"]

------------------------------------------------------------------------------
(* The operations, on Redis or on the dictionary *)

Holds(o, store) == \A k \in DOMAIN o.expect : store[k] = o.expect[k]

Stores(o, store) == o.name = "write" \/ (o.name = "cas" /\ Holds(o, store))

After(o, store) ==
    IF Stores(o, store)
    THEN [k \in Keys |-> IF k \in DOMAIN o.values THEN o.values[k] ELSE store[k]]
    ELSE store

Said(b) == [ok |-> b, values |-> [k \in {} |-> None]]

(* A lifetime of less than a second counts as none. *)
Verdicts(o, store) ==
    [exists |-> {\E k \in o.keys : store[k] # None},
     ttl    |-> {FALSE, \A k \in o.keys : store[k] # None},
     check  |-> {FALSE, Holds(o, store)},
     cas    |-> {Holds(o, store)},
     write  |-> {TRUE}][o.name]

Results(o, store) ==
    IF o.name = "read"
    THEN {[ok |-> TRUE, values |-> [k \in o.keys |-> store[k]]]}
    ELSE {Said(b) : b \in Verdicts(o, store)}

(* What an entry of the dictionary still counts for. *)
Live == [k \in Keys |-> IF mem[k] # None /\ mem[k].live THEN mem[k].val ELSE None]

(* get, get_many, exists_any and ttl delete the expired entries they meet. *)
Swept(o) == IF o.name \in {"read", "exists", "ttl"} THEN {k \in o.keys : Live[k] = None} ELSE {}

Written(o) == IF Stores(o, Live) THEN DOMAIN o.values ELSE {}

RunLocally(t, o) ==
    /\ \E r \in Results(o, Live) : answer' = [answer EXCEPT ![t] = r]
    /\ mem' = [k \in Keys |-> IF k \in Written(o) THEN [val |-> o.values[k], live |-> TRUE]
                              ELSE IF k \in Swept(o) THEN None
                              ELSE mem[k]]
    /\ step' = [step EXCEPT ![t] = "done"]

------------------------------------------------------------------------------
(* An operation *)

Begin(t) ==
    /\ boot = "serving"
    /\ step[t] = "idle"
    /\ \E o \in Ops :
        /\ op' = [op EXCEPT ![t] = o]
        /\ IF client
           THEN /\ step' = [step EXCEPT ![t] = IF up THEN "sent" ELSE "cut"]
                /\ UNCHANGED <<mem, answer>>
           ELSE RunLocally(t, o)
    /\ UNCHANGED <<bootVars, client, state, redis, up, probe>>

(* Variant: what Redis does not have is looked for in the dictionary. *)
ServeOrFallBack(t) ==
    /\ step[t] = "sent"
    /\ redis' = After(op[t], redis)
    /\ \E r \in Results(op[t], [k \in Keys |-> IF redis[k] # None THEN redis[k] ELSE Live[k]]) :
        answer' = [answer EXCEPT ![t] = r]
    /\ step' = [step EXCEPT ![t] = "ran"]
    /\ UNCHANGED <<bootVars, client, state, mem, up, op, probe>>

(* Redis runs the command, all of it at once. *)
Serve(t) ==
    /\ step[t] = "sent"
    /\ redis' = After(op[t], redis)
    /\ \E r \in Results(op[t], redis) : answer' = [answer EXCEPT ![t] = r]
    /\ step' = [step EXCEPT ![t] = "ran"]
    /\ UNCHANGED <<bootVars, client, state, mem, up, op, probe>>

(* A live Redis answers for itself: the dictionary is not consulted. *)
Reply(t) ==
    /\ step[t] = "ran"
    /\ step' = [step EXCEPT ![t] = "done"]
    /\ UNCHANGED <<bootVars, client, state, mem, redis, up, op, answer, probe>>

(* redis-py may repeat a command on a new connection, whether or not Redis *)
(* had already run it.                                                     *)
Resend(t) ==
    /\ step[t] = "cut"
    /\ up
    /\ step' = [step EXCEPT ![t] = "sent"]
    /\ answer' = [answer EXCEPT ![t] = None]
    /\ UNCHANGED <<bootVars, client, state, mem, redis, up, op, probe>>

(* _degrade, then the same operation on the dictionary. *)
Fail(t) ==
    /\ step[t] = "cut"
    /\ client' = FALSE
    /\ state' = "degraded"
    /\ RunLocally(t, op[t])
    /\ UNCHANGED <<bootVars, redis, up, op, probe>>

Return(t) ==
    /\ step[t] = "done"
    /\ step' = [step EXCEPT ![t] = "idle"]
    /\ op' = [op EXCEPT ![t] = None]
    /\ answer' = [answer EXCEPT ![t] = None]
    /\ UNCHANGED <<bootVars, client, state, mem, redis, up, probe>>

------------------------------------------------------------------------------
(* connect(), health_ping() and reconnect() *)

CutProbe(s) == IF s = "ping" THEN "cut ping" ELSE IF s = "reconnect" THEN "cut reconnect" ELSE s

(* Variant: the state alone decides. *)
MustReconnectByState == state = "degraded"

MustReconnect == state = "degraded" \/ ~client

(* A client is built before it is known to work, and others may use it.    *)
StartProbe(p) ==
    /\ probe[p] = "idle"
    /\ \/ boot = "starting" /\ \A q \in Probes : probe[q] = "idle"
       \/ boot = "serving" /\ backend # "memory"
    /\ LET how == IF boot = "starting" \/ MustReconnect THEN "reconnect" ELSE "ping" IN
        /\ client' = (client \/ how = "reconnect")
        /\ probe' = [probe EXCEPT ![p] = IF up THEN how ELSE CutProbe(how)]
    /\ UNCHANGED <<bootVars, state, mem, redis, up, step, op, answer>>

(* Neither way back looks at whether the client is still there. *)
ProbeSucceeds(p) ==
    /\ probe[p] \in {"ping", "reconnect"}
    /\ state' = "connected"
    /\ boot' = "serving"
    /\ probe' = [probe EXCEPT ![p] = "idle"]
    /\ UNCHANGED <<backend, tries, client, mem, redis, up, step, op, answer>>

(* health_ping leaves a client that does not answer in place. *)
PingFails(p) ==
    /\ probe[p] = "cut ping"
    /\ probe' = [probe EXCEPT ![p] = "idle"]
    /\ UNCHANGED <<bootVars, client, state, mem, redis, up, step, op, answer>>

Attempts == IF backend = "redis_required" THEN MaxAttempts ELSE 1

AfterFailedAttempt ==
    IF tries + 1 < Attempts THEN "starting"
    ELSE IF backend = "redis_required" THEN "exited" ELSE "serving"

ReconnectFails(p) ==
    /\ probe[p] = "cut reconnect"
    /\ client' = FALSE
    /\ state' = "degraded"
    /\ boot' = IF boot = "starting" THEN AfterFailedAttempt ELSE boot
    /\ tries' = IF boot = "starting" THEN tries + 1 ELSE tries
    /\ probe' = [probe EXCEPT ![p] = "idle"]
    /\ UNCHANGED <<backend, mem, redis, up, step, op, answer>>

------------------------------------------------------------------------------
(* Redis and time *)

Broken(s) == IF s \in {"sent", "ran"} THEN "cut" ELSE s

(* Redis cannot be reached any more: whatever was under way is lost, and,  *)
(* if it was restarted, its contents too (it runs without persistence).    *)
Outage ==
    /\ up
    /\ up' = FALSE
    /\ redis' \in {redis, [k \in Keys |-> None]}
    /\ step' = [t \in Callers |-> Broken(step[t])]
    /\ probe' = [p \in Probes |-> CutProbe(probe[p])]
    /\ UNCHANGED <<bootVars, client, state, mem, op, answer>>

Recovery ==
    /\ ~up
    /\ up' = TRUE
    /\ UNCHANGED <<bootVars, client, state, mem, redis, step, op, answer, probe>>

(* An entry expires, in Redis or in the dictionary, or is evicted. *)
Expire(k) ==
    /\ \/ /\ redis[k] # None
          /\ redis' = [redis EXCEPT ![k] = None]
          /\ UNCHANGED mem
       \/ /\ Live[k] # None
          /\ mem' = [mem EXCEPT ![k].live = FALSE]
          /\ UNCHANGED redis
    /\ UNCHANGED <<bootVars, client, state, up, step, op, answer, probe>>

(* Another replica runs an operation on the same Redis. *)
Elsewhere ==
    /\ \E o \in Ops : redis' = After(o, redis)
    /\ UNCHANGED <<bootVars, client, state, mem, up, step, op, answer, probe>>

------------------------------------------------------------------------------

Proceed(t) == Serve(t) \/ Reply(t) \/ Resend(t) \/ Fail(t) \/ Return(t)
EndProbe(p) == ProbeSucceeds(p) \/ PingFails(p) \/ ReconnectFails(p)

Next ==
    \/ \E t \in Callers : Begin(t) \/ Proceed(t)
    \/ \E p \in Probes : StartProbe(p) \/ EndProbe(p)
    \/ Outage
    \/ Recovery
    \/ \E k \in Keys : Expire(k)
    \/ Elsewhere

(* Awaited commands end, and /health is polled (every ten seconds by the   *)
(* container's healthcheck); nobody has to use the cache.                  *)
Fairness ==
    /\ \A t \in Callers : WF_vars(Proceed(t))
    /\ \A p \in Probes : WF_vars(StartProbe(p)) /\ WF_vars(EndProbe(p))

Spec == Init /\ [][Next]_vars
FairSpec == Spec /\ Fairness

------------------------------------------------------------------------------
(* Properties *)

Answers == [ok : BOOLEAN, values : UNION {[S -> MaybeValue] : S \in SUBSET Keys}]

TypeOK ==
    /\ backend \in Backends
    /\ client \in BOOLEAN
    /\ state \in {"memory", "disconnected", "connected", "degraded"}
    /\ mem \in [Keys -> [val : Values, live : BOOLEAN] \cup {None}]
    /\ redis \in [Keys -> MaybeValue]
    /\ up \in BOOLEAN
    /\ boot \in {"starting", "serving", "exited"}
    /\ tries \in 0..MaxAttempts
    /\ step \in [Callers -> {"idle", "sent", "ran", "cut", "done"}]
    /\ op \in [Callers -> Ops \cup {None}]
    /\ answer \in [Callers -> Answers \cup {None}]
    /\ probe \in [Probes -> {"idle", "ping", "reconnect", "cut ping", "cut reconnect"}]
    /\ \A t \in Callers : step[t] = "idle" <=> op[t] = None

(* "One batch cannot mix values from two cache backends" (get_many), and    *)
(* batches are stored atomically (setex_many): entries that are only ever   *)
(* written together are never seen in two versions, through any outage,     *)
(* expiry, repeated or lost command.                                        *)
Uniform(store, S) ==
    \A k, m \in S : store[k] # None /\ store[m] # None => store[k] = store[m]
BatchesAreWhole ==
    \A t \in Callers :
        step[t] \in {"ran", "done"} /\ op[t].name = "read" =>
            Uniform(answer[t].values, Batch \cap op[t].keys)

(* Why it holds: neither backend ever has the batch in two versions.        *)
BackendsAreWhole ==
    /\ Uniform(redis, Batch)
    /\ \A k, m \in Batch : mem[k] # None /\ mem[m] # None => mem[k].val = mem[m].val

(* A process without Redis never gets to talk to it, and connect() stops    *)
(* at its last attempt.                                                     *)
MemoryIsEnough ==
    backend = "memory" =>
        /\ ~client /\ state = "memory" /\ boot = "serving"
        /\ \A t \in Callers : step[t] \in {"idle", "done"}
        /\ \A p \in Probes : probe[p] = "idle"
AttemptsLeft == boot = "starting" => tries < Attempts

IInv ==
    /\ TypeOK
    /\ BackendsAreWhole
    /\ MemoryIsEnough
    /\ AttemptsLeft
    /\ BatchesAreWhole

(* Once Redis can be reached for good, the process uses it for good and     *)
(* says so, whatever failures and probes were still under way.              *)
Recovers ==
    <>[]up /\ backend # "memory" => <>[](boot = "exited" \/ (client /\ state = "connected"))

(* The comments on CacheState: "connected", and for "degraded" "redis was   *)
(* configured but failed; may reconnect".  A process that dropped its       *)
(* client after a failure and works from memory does not say "connected".   *)
ConnectedHasClient == state = "connected" => client
==============================================================================

