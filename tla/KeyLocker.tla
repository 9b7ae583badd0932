------------------------------ MODULE KeyLocker ------------------------------
(***************************************************************************)
(* app/singleflight.py: KeyLocker.hold(key), the in-process lock per key   *)
(* under which a cache miss is filled.                                     *)
(*                                                                         *)
(* A key has an entry in _locks (an asyncio.Lock object) and in _waiters   *)
(* (how many tasks are in hold() for it); the last task to leave removes   *)
(* both.  _meta is never contended: nothing is awaited while it is held,   *)
(* so its two uses are atomic.  What is left of the event loop is that a   *)
(* task which found the lock taken runs again some steps after its future  *)
(* was resolved or cancelled, and other tasks run in between.              *)
(*                                                                         *)
(* asyncio.Lock is not part of this repository.  It is modelled as CPython *)
(* implements it: a flag, a deque of futures, a fast path taken when every *)
(* queued future is cancelled, and a release that resolves the first       *)
(* future only if nobody has resolved or cancelled it.                     *)
(***************************************************************************)
EXTENDS Naturals, Sequences, FiniteSets
LOCAL INSTANCE SequencesExt

CONSTANTS
    Tasks,      \* tasks of one process that call hold()
    Keys,       \* keys they call it with
    LockIds,    \* identities of asyncio.Lock objects
    None        \* absence of a lock

ASSUME TasksAreFinite == IsFiniteSet(Tasks)
ASSUME NoneIsNoLock == None \notin LockIds

VARIABLES
    locks,      \* _locks: a lock per key, None where the dict has no entry
    waiters,    \* _waiters: a count per key, 0 where the dict has no entry
    locked,     \* the flag of each asyncio.Lock
    queue,      \* the waiting tasks of each asyncio.Lock, oldest first
    pc,         \* where a task is: out of hold, waiting in it, inside the body
    key,        \* the key a task called hold() with
    lock,       \* the lock object a task got from the map
    fut         \* the future a waiting task is suspended on

lockVars == <<locked, queue>>
mapVars  == <<locks, waiters>>
taskVars == <<pc, key, lock, fut>>
vars     == <<locks, waiters, locked, queue, pc, key, lock, fut>>

(* "doomed" is a resolved future whose task was cancelled before it ran.   *)
FutureStates == {"pending", "woken", "cancelled", "doomed"}

Init ==
    /\ locks = [k \in Keys |-> None]
    /\ waiters = [k \in Keys |-> 0]
    /\ locked = [l \in LockIds |-> FALSE]
    /\ queue = [l \in LockIds |-> <<>>]
    /\ pc = [t \in Tasks |-> "out"]
    /\ key = [t \in Tasks |-> None]
    /\ lock = [t \in Tasks |-> None]
    /\ fut = [t \in Tasks |-> "none"]

------------------------------------------------------------------------------
(* asyncio.Lock *)

(* Variant: the fast path does not look at the deque. *)
FreeToTakeUnfair(l) == ~locked[l]

FreeToTake(l) ==
    /\ ~locked[l]
    /\ \A i \in 1..Len(queue[l]) : fut[queue[l][i]] = "cancelled"

(* _wake_up_first on the queue q: resolves the first future if it is still *)
(* unresolved, and does not look further.                                  *)
WakeFirst(futures, q) ==
    IF q # <<>> /\ futures[Head(q)] = "pending"
    THEN [futures EXCEPT ![Head(q)] = "woken"]
    ELSE futures

Position(t, q) == CHOOSE i \in 1..Len(q) : q[i] = t

Without(t, q) == RemoveAt(q, Position(t, q))

------------------------------------------------------------------------------
(* hold(), entry: setdefault, count, then try the lock. *)

(* A lock object no dictionary and no task refers to. *)
Unused(l) ==
    /\ \A k \in Keys : locks[k] # l
    /\ \A t \in Tasks : lock[t] # l

Register(t, k, l) ==
    /\ pc[t] = "out"
    /\ locks' = [locks EXCEPT ![k] = l]
    /\ waiters' = [waiters EXCEPT ![k] = @ + 1]
    /\ key' = [key EXCEPT ![t] = k]
    /\ lock' = [lock EXCEPT ![t] = l]

(* The key has no entry: a new lock, which nobody can hold. *)
EnterNew(t, k) ==
    /\ locks[k] = None
    /\ \E l \in LockIds :
        /\ Unused(l)
        /\ Register(t, k, l)
        /\ locked' = [locked EXCEPT ![l] = TRUE]
        /\ queue' = [queue EXCEPT ![l] = <<>>]
        /\ pc' = [pc EXCEPT ![t] = "inside"]
        /\ UNCHANGED fut

EnterFree(t, k) ==
    /\ locks[k] # None
    /\ FreeToTake(locks[k])
    /\ Register(t, k, locks[k])
    /\ locked' = [locked EXCEPT ![locks[k]] = TRUE]
    /\ pc' = [pc EXCEPT ![t] = "inside"]
    /\ UNCHANGED <<queue, fut>>

EnterQueued(t, k) ==
    /\ locks[k] # None
    /\ ~FreeToTake(locks[k])
    /\ Register(t, k, locks[k])
    /\ queue' = [queue EXCEPT ![locks[k]] = Append(@, t)]
    /\ pc' = [pc EXCEPT ![t] = "waiting"]
    /\ fut' = [fut EXCEPT ![t] = "pending"]
    /\ UNCHANGED locked

------------------------------------------------------------------------------
(* hold(), exit: the finally block, on every way out. *)

(* Variant: the entry goes when one other task still counts on it. *)
UnregisterTooEarly(t) ==
    LET k == key[t] left == waiters[key[t]] - 1 IN
    /\ waiters' = [waiters EXCEPT ![k] = IF left <= 1 THEN 0 ELSE left]
    /\ locks' = [locks EXCEPT ![k] = IF left <= 1 THEN None ELSE @]
    /\ pc' = [pc EXCEPT ![t] = "out"]
    /\ key' = [key EXCEPT ![t] = None]
    /\ lock' = [lock EXCEPT ![t] = None]

Unregister(t) ==
    LET k == key[t] left == waiters[key[t]] - 1 IN
    /\ waiters' = [waiters EXCEPT ![k] = IF left <= 0 THEN 0 ELSE left]
    /\ locks' = [locks EXCEPT ![k] = IF left <= 0 THEN None ELSE @]
    /\ pc' = [pc EXCEPT ![t] = "out"]
    /\ key' = [key EXCEPT ![t] = None]
    /\ lock' = [lock EXCEPT ![t] = None]

(* A resolved waiter runs, leaves the deque and has the lock. *)
Acquire(t) ==
    /\ fut[t] = "woken"
    /\ queue' = [queue EXCEPT ![lock[t]] = Without(t, @)]
    /\ locked' = [locked EXCEPT ![lock[t]] = TRUE]
    /\ pc' = [pc EXCEPT ![t] = "inside"]
    /\ fut' = [fut EXCEPT ![t] = "none"]
    /\ UNCHANGED <<locks, waiters, key, lock>>

(* The body ends, by a return or by an exception. *)
Leave(t) ==
    /\ pc[t] = "inside"
    /\ locked' = [locked EXCEPT ![lock[t]] = FALSE]
    /\ fut' = WakeFirst(fut, queue[lock[t]])
    /\ Unregister(t)
    /\ UNCHANGED queue

(* Task.cancel() on a waiter: a client that went away, or shutdown. *)
Cancel(t) ==
    /\ fut[t] \in {"pending", "woken"}
    /\ fut' = [fut EXCEPT ![t] = IF @ = "pending" THEN "cancelled" ELSE "doomed"]
    /\ UNCHANGED <<locks, waiters, locked, queue, pc, key, lock>>

(* Variant: a cancelled waiter keeps the wake-up to itself. *)
AbandonWaitSilently(t) ==
    /\ fut[t] \in {"cancelled", "doomed"}
    /\ queue' = [queue EXCEPT ![lock[t]] = Without(t, @)]
    /\ fut' = [fut EXCEPT ![t] = "none"]
    /\ Unregister(t)
    /\ UNCHANGED locked

(* Variant: no finally, so a cancelled waiter is never uncounted. *)
AbandonWaitUncounted(t) ==
    LET l == lock[t] q == Without(t, queue[lock[t]]) gone == [fut EXCEPT ![t] = "none"] IN
    /\ fut[t] \in {"cancelled", "doomed"}
    /\ queue' = [queue EXCEPT ![l] = q]
    /\ fut' = IF locked[l] THEN gone ELSE WakeFirst(gone, q)
    /\ pc' = [pc EXCEPT ![t] = "out"]
    /\ key' = [key EXCEPT ![t] = None]
    /\ lock' = [lock EXCEPT ![t] = None]
    /\ UNCHANGED <<locks, waiters, locked>>

(* The cancelled waiter runs: it leaves the deque and, if the lock is      *)
(* free, passes on the wake-up it may have swallowed.                      *)
AbandonWait(t) ==
    LET l == lock[t] q == Without(t, queue[lock[t]]) gone == [fut EXCEPT ![t] = "none"] IN
    /\ fut[t] \in {"cancelled", "doomed"}
    /\ queue' = [queue EXCEPT ![l] = q]
    /\ fut' = IF locked[l] THEN gone ELSE WakeFirst(gone, q)
    /\ Unregister(t)
    /\ UNCHANGED locked

Enter(t) == \E k \in Keys : EnterNew(t, k) \/ EnterFree(t, k) \/ EnterQueued(t, k)

Next ==
    \E t \in Tasks :
        \/ Enter(t)
        \/ Acquire(t)
        \/ Leave(t)
        \/ Cancel(t)
        \/ AbandonWait(t)

(* The event loop runs every task whose future is done, and the body of a  *)
(* holder ends: each await in it is bounded by a client or Redis timeout.  *)
(* Nobody is obliged to enter, and nobody to cancel.                       *)
Fairness == \A t \in Tasks : WF_vars(Acquire(t)) /\ WF_vars(AbandonWait(t)) /\ WF_vars(Leave(t))

Spec == Init /\ [][Next]_vars
FairSpec == Spec /\ Fairness

------------------------------------------------------------------------------
(* Properties *)

Users(k) == {t \in Tasks : pc[t] # "out" /\ key[t] = k}

TypeOK ==
    /\ locks \in [Keys -> LockIds \cup {None}]
    /\ waiters \in [Keys -> Nat]
    /\ locked \in [LockIds -> BOOLEAN]
    /\ queue \in [LockIds -> Seq(Tasks)]
    /\ pc \in [Tasks -> {"out", "waiting", "inside"}]
    /\ key \in [Tasks -> Keys \cup {None}]
    /\ lock \in [Tasks -> LockIds \cup {None}]
    /\ fut \in [Tasks -> FutureStates \cup {"none"}]
    /\ \A t \in Tasks :
        /\ pc[t] = "waiting" <=> fut[t] # "none"
        /\ pc[t] # "out" => key[t] \in Keys /\ lock[t] \in LockIds

(* No two tasks are in the body of hold() for one key, whatever lock       *)
(* objects the map went through: removing an entry too early would give a  *)
(* newcomer a second lock for the key.                                     *)
MutualExclusion ==
    \A t, u \in Tasks :
        pc[t] = "inside" /\ pc[u] = "inside" /\ key[t] = key[u] => t = u

(* The docstring's "locks are removed when the last waiter releases": a    *)
(* key is in the maps exactly while a task is in hold() for it, after      *)
(* every mix of returns, failures and cancellations.                       *)
NoLeak ==
    \A k \in Keys :
        /\ waiters[k] = Cardinality(Users(k))
        /\ locks[k] = None <=> Users(k) = {}

(* A free lock never leaves its first waiter asleep: its future is done or *)
(* cancelled, so some waiter will run and pass the wake-up on.             *)
NoLostWakeUp ==
    \A l \in LockIds :
        ~locked[l] /\ queue[l] # <<>> => fut[Head(queue[l])] # "pending"

(* A task gets in past a live waiter for the same key only if it had been  *)
(* waiting for longer: neither a newcomer on the fast path nor a later     *)
(* waiter starts a fill before one that is ahead of it.                    *)
Alive(t) == fut[t] \in {"pending", "woken"}
Ahead(t, u) ==
    \E l \in LockIds : \E i, j \in 1..Len(queue[l]) :
        i < j /\ queue[l][i] = t /\ queue[l][j] = u
NoOvertaking ==
    [][\A t, u \in Tasks :
        u # t /\ Alive(u) /\ pc[t] # "inside" /\ pc'[t] = "inside" /\ key'[t] = key[u]
            => Ahead(t, u)]_vars

(* Every task that waits in hold() stops waiting: it gets in, or, when it  *)
(* was cancelled, gets out.                                                *)
EveryWaiterMovesOn == \A t \in Tasks : pc[t] = "waiting" ~> pc[t] # "waiting"

(* Why the lock excludes, part by part.  A task in hold() uses the lock the *)
(* map has for its key, and keys do not share locks; the deque of a lock    *)
(* holds the tasks that wait on it, once each; a task inside has its lock   *)
(* taken and nobody else on it; only the head of a free lock is woken.      *)
SameLockPerKey ==
    /\ \A t \in Tasks : pc[t] # "out" => locks[key[t]] = lock[t]
    /\ \A t \in Tasks : pc[t] = "out" => lock[t] = None
    /\ \A k, m \in Keys : locks[k] = locks[m] /\ locks[k] # None => k = m
QueueHoldsWaiters ==
    \A l \in LockIds :
        /\ \A i \in 1..Len(queue[l]) :
            pc[queue[l][i]] = "waiting" /\ lock[queue[l][i]] = l
        /\ \A i, j \in 1..Len(queue[l]) : queue[l][i] = queue[l][j] => i = j
        /\ \A t \in Tasks : pc[t] = "waiting" /\ lock[t] = l =>
            \E i \in 1..Len(queue[l]) : queue[l][i] = t
OneInside ==
    \A t, u \in Tasks :
        pc[t] = "inside" =>
            /\ locked[lock[t]]
            /\ pc[u] = "inside" /\ lock[u] = lock[t] => t = u
OnlyHeadWoken ==
    \A t \in Tasks :
        fut[t] \in {"woken", "doomed"} =>
            /\ ~locked[lock[t]]
            /\ Head(queue[lock[t]]) = t
IInv ==
    /\ TypeOK
    /\ SameLockPerKey
    /\ QueueHoldsWaiters
    /\ OneInside
    /\ OnlyHeadWoken
    /\ NoLeak
    /\ NoLostWakeUp

(* KeyLocker implements the singleflight its callers rely on.  A cancelled *)
(* waiter has given up although its future is still in the deque.          *)
Abstract == INSTANCE SingleFlight WITH
    asking <- [k \in Keys |-> {t \in Users(k) : Alive(t)}],
    holding <- [k \in Keys |-> {t \in Users(k) : pc[t] = "inside"}]
ImplementsSingleFlight == Abstract!Spec
==============================================================================
