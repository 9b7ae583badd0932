--------------------------- MODULE KeyLockerProofs ---------------------------
(* Proofs about KeyLocker for any finite number of tasks, keys and locks. *)
EXTENDS KeyLocker, FiniteSetTheorems, SequenceTheorems, TLAPS
LOCAL INSTANCE SequencesExt

(* What leaving a deque does to it: the first place t has is closed, and   *)
(* the others keep their order.                                            *)
LEMMA WithoutShifts ==
    ASSUME NEW S, NEW q \in Seq(S), NEW t, \E i \in 1..Len(q) : q[i] = t
    PROVE  /\ Position(t, q) \in 1..Len(q)
           /\ q[Position(t, q)] = t
           /\ Without(t, q) \in Seq(S)
           /\ Len(Without(t, q)) = Len(q) - 1
           /\ \A i \in 1..(Len(q) - 1) :
                Without(t, q)[i] = IF i < Position(t, q) THEN q[i] ELSE q[i + 1]
<1> DEFINE p == Position(t, q)
           before == SubSeq(q, 1, p - 1)
           after == SubSeq(q, p + 1, Len(q))
<1>1. p \in 1..Len(q) /\ q[p] = t
  BY DEF Position
<1>2. Without(t, q) = before \o after
  BY DEF Without, RemoveAt
<1>3. before \in Seq(S) /\ Len(before) = p - 1 /\ \A i \in 1..(p - 1) : before[i] = q[i]
  BY <1>1
<1>4. /\ after \in Seq(S)
      /\ Len(after) = Len(q) - p
      /\ \A i \in 1..(Len(q) - p) : after[i] = q[i + p]
  BY <1>1
<1> HIDE DEF p, before, after
<1>5. /\ before \o after \in Seq(S)
      /\ Len(before \o after) = Len(before) + Len(after)
      /\ \A i \in 1..Len(before) + Len(after) :
            (before \o after)[i] = IF i <= Len(before) THEN before[i] ELSE after[i - Len(before)]
  BY <1>3, <1>4, ConcatProperties, Zenon
<1> DEFINE w == before \o after
<1> HIDE DEF w
<1>6. ASSUME NEW i \in 1..(Len(q) - 1)
      PROVE  w[i] = IF i < p THEN q[i] ELSE q[i + 1]
  <2>1. w[i] = IF i <= p - 1 THEN before[i] ELSE after[i - (p - 1)]
    BY <1>1, <1>3, <1>4, <1>5 DEF w
  <2>2. CASE i < p
    BY <1>1, <1>3, <2>1, <2>2
  <2>3. CASE ~(i < p)
    <3>1. i - (p - 1) \in 1..(Len(q) - p) /\ (i - (p - 1)) + p = i + 1
      BY <1>1, <2>3
    <3>2. QED
      BY <1>1, <1>4, <2>1, <2>3, <3>1
  <2>4. QED
    BY <2>2, <2>3
<1>7. QED
  <2>1. Without(t, q) = w
    BY <1>2 DEF w
  <2>2. Len(w) = Len(q) - 1 /\ w \in Seq(S)
    BY <1>1, <1>3, <1>4, <1>5 DEF w
  <2>3. QED
    BY <1>1, <1>6, <2>1, <2>2 DEF p

(* In a deque without duplicates: exactly t goes, and the head stays unless *)
(* it is t.                                                                 *)
LEMMA WithoutKeepsOthers ==
    ASSUME NEW S, NEW q \in Seq(S), NEW t, \E i \in 1..Len(q) : q[i] = t,
           \A i, j \in 1..Len(q) : q[i] = q[j] => i = j
    PROVE  LET w == Without(t, q) IN
           /\ w \in Seq(S)
           /\ \A i \in 1..Len(w) : w[i] # t /\ \E j \in 1..Len(q) : w[i] = q[j]
           /\ \A i, j \in 1..Len(w) : w[i] = w[j] => i = j
           /\ \A i \in 1..Len(q) : q[i] # t => \E j \in 1..Len(w) : w[j] = q[i]
           /\ Head(q) # t => w # <<>> /\ Head(w) = Head(q)
<1> DEFINE w == Without(t, q)
           p == Position(t, q)
<1>1. /\ p \in 1..Len(q) /\ q[p] = t
      /\ w \in Seq(S) /\ Len(w) = Len(q) - 1
      /\ \A i \in 1..(Len(q) - 1) : w[i] = IF i < p THEN q[i] ELSE q[i + 1]
  BY WithoutShifts
<1> HIDE DEF w, p
<1>2. \A i \in 1..Len(w) : w[i] # t /\ \E j \in 1..Len(q) : w[i] = q[j]
  BY <1>1
<1>3. \A i, j \in 1..Len(w) : w[i] = w[j] => i = j
  BY <1>1, SMTT(60)
<1>4. ASSUME NEW i \in 1..Len(q), q[i] # t
      PROVE  \E j \in 1..Len(w) : w[j] = q[i]
  <2>1. CASE i < p
    BY <1>1, <2>1
  <2>2. CASE i > p
    <3>1. i - 1 \in 1..Len(w) /\ ~(i - 1 < p) /\ (i - 1) + 1 = i
      BY <1>1, <2>2
    <3>2. w[i - 1] = q[i]
      BY <1>1, <3>1
    <3>3. QED
      BY <3>1, <3>2
  <2>3. QED
    BY <1>1, <1>4, <2>1, <2>2
<1>5. Head(q) # t => w # <<>> /\ Head(w) = Head(q)
  BY <1>1
<1>6. QED
  BY <1>1, <1>2, <1>3, <1>4, <1>5 DEF w

------------------------------------------------------------------------------
(* The maps: every way into hold() counts the task and leaves it with the  *)
(* lock the map has for its key, every way out uncounts it.                *)

(* The tasks using one key are a subset of the finite set of tasks. *)
LEMMA UsersFinite == \A k : IsFiniteSet(Users(k))
BY TasksAreFinite, FS_Subset DEF Users

(* Entering the section adds one task to the users of its key and
   leaves every other key alone (locks.py, the count taken before the wait). *)
LEMMA RegisterKeepsMaps ==
    ASSUME TypeOK, SameLockPerKey, NoLeak,
           NEW t \in Tasks, NEW k \in Keys, NEW l \in LockIds, Register(t, k, l),
           NEW where \in {"waiting", "inside"}, pc' = [pc EXCEPT ![t] = where],
           IF locks[k] = None THEN Unused(l) ELSE l = locks[k]
    PROVE  NoLeak' /\ SameLockPerKey'
<1>1. Users(k)' = Users(k) \cup {t} /\ t \notin Users(k)
  BY DEF Users, Register, TypeOK
<1>2. \A m \in Keys \ {k} : Users(m)' = Users(m)
  BY DEF Users, Register, TypeOK
<1>3. Cardinality(Users(k)') = Cardinality(Users(k)) + 1
  BY <1>1, UsersFinite, FS_AddElement
<1>4. NoLeak'
  BY <1>1, <1>2, <1>3, NoneIsNoLock DEF NoLeak, Register, TypeOK
<1>5. SameLockPerKey'
  <2>1. \A u \in Tasks : pc'[u] # "out" => locks'[key'[u]] = lock'[u]
    BY ZenonT(60) DEF SameLockPerKey, Register, TypeOK, Users, NoLeak
  <2>2. \A u \in Tasks : pc'[u] = "out" => lock'[u] = None
    BY DEF SameLockPerKey, Register, TypeOK
  <2>3. \A m, n \in Keys : locks'[m] = locks'[n] /\ locks'[m] # None => m = n
    BY DEF SameLockPerKey, Register, TypeOK, Unused
  <2>4. QED
    BY <2>1, <2>2, <2>3 DEF SameLockPerKey
<1>6. QED
  BY <1>4, <1>5

(* Leaving removes one task from the users of its key, and the last one
   out removes the key from both maps (locks.py, the finally clause). *)
LEMMA UnregisterKeepsMaps ==
    ASSUME TypeOK, SameLockPerKey, NoLeak, NEW t \in Tasks, pc[t] # "out", Unregister(t),
           NEW k \in Keys, k = key[t]
    PROVE  NoLeak' /\ SameLockPerKey'
<1>1. Users(k)' = Users(k) \ {t} /\ t \in Users(k)
  BY DEF Users, Unregister, TypeOK
<1>2. \A m \in Keys \ {k} : Users(m)' = Users(m)
  BY DEF Users, Unregister, TypeOK
<1>3. /\ Cardinality(Users(k)') = Cardinality(Users(k)) - 1
      /\ IsFiniteSet(Users(k)')
      /\ Cardinality(Users(k)') = 0 <=> Users(k)' = {}
      /\ Cardinality(Users(k)') \in Nat
  BY <1>1, UsersFinite, FS_RemoveElement, FS_EmptySet, FS_CardinalityType
<1>4. /\ waiters'[k] = Cardinality(Users(k)')
      /\ locks'[k] = IF Users(k)' = {} THEN None ELSE locks[k]
      /\ locks[k] # None
  BY <1>1, <1>3 DEF NoLeak, Unregister, TypeOK
<1>5. \A m \in Keys \ {k} : waiters'[m] = waiters[m] /\ locks'[m] = locks[m]
  BY DEF Unregister, TypeOK
<1>6. NoLeak'
  BY <1>1, <1>2, <1>4, <1>5 DEF NoLeak
<1>7. SameLockPerKey'
  <2>1. ASSUME NEW u \in Tasks, pc'[u] # "out"
        PROVE  locks'[key'[u]] = lock'[u]
    <3>1. u # t /\ pc[u] # "out" /\ key'[u] = key[u] /\ lock'[u] = lock[u] /\ key[u] \in Keys
      BY <2>1 DEF Unregister, TypeOK
    <3>2. key[u] = k => u \in Users(k)'
      BY <2>1, <3>1 DEF Users
    <3>3. QED
      BY <1>4, <1>5, <3>1, <3>2 DEF SameLockPerKey
  <2>2. \A u \in Tasks : pc'[u] = "out" => lock'[u] = None
    BY DEF SameLockPerKey, Unregister, TypeOK
  <2>3. \A m, n \in Keys : locks'[m] = locks'[n] /\ locks'[m] # None => m = n
    BY <1>4, <1>5 DEF SameLockPerKey
  <2>4. QED
    BY <2>1, <2>2, <2>3 DEF SameLockPerKey
<1>8. QED
  BY <1>6, <1>7

------------------------------------------------------------------------------
(* The invariant is inductive: one lemma per action. *)

(* A first user, which creates the lock of its key, keeps the invariant. *)
LEMMA EnterNewStep ==
    ASSUME IInv, NEW t \in Tasks, NEW k \in Keys, EnterNew(t, k)
    PROVE  IInv'
<1>1. PICK l \in LockIds :
        /\ Unused(l)
        /\ Register(t, k, l)
        /\ locked' = [locked EXCEPT ![l] = TRUE]
        /\ queue' = [queue EXCEPT ![l] = <<>>]
        /\ pc' = [pc EXCEPT ![t] = "inside"]
        /\ fut' = fut
        /\ locks[k] = None
  BY DEF EnterNew
<1>2. TypeOK'
  BY <1>1 DEF IInv, TypeOK, Register
<1>3. NoLeak' /\ SameLockPerKey'
  BY <1>1, RegisterKeepsMaps DEF IInv
<1>4. \A u \in Tasks : lock[u] # l
  BY <1>1 DEF Unused
<1>5. QueueHoldsWaiters'
  BY <1>1, <1>4 DEF IInv, TypeOK, QueueHoldsWaiters, Register
<1>6. OneInside'
  BY <1>1, <1>4 DEF IInv, TypeOK, OneInside, Register
<1>7. OnlyHeadWoken'
  BY <1>1, <1>4 DEF IInv, TypeOK, OnlyHeadWoken, Register
<1>8. NoLostWakeUp'
  BY <1>1 DEF IInv, TypeOK, NoLostWakeUp
<1>9. QED
  BY <1>2, <1>3, <1>5, <1>6, <1>7, <1>8 DEF IInv

(* A user that finds an existing lock free keeps the invariant. *)
LEMMA EnterFreeStep ==
    ASSUME IInv, NEW t \in Tasks, NEW k \in Keys, EnterFree(t, k)
    PROVE  IInv'
<1>1. PICK l \in LockIds :
        /\ l = locks[k]
        /\ FreeToTake(l)
        /\ Register(t, k, l)
        /\ locked' = [locked EXCEPT ![l] = TRUE]
        /\ pc' = [pc EXCEPT ![t] = "inside"]
        /\ queue' = queue
        /\ fut' = fut
        /\ locks[k] # None
  BY DEF EnterFree, IInv, TypeOK
<1>2. TypeOK'
  BY <1>1 DEF IInv, TypeOK, Register
<1>3. NoLeak' /\ SameLockPerKey'
  BY <1>1, RegisterKeepsMaps DEF IInv
<1>4. \A u \in Tasks : lock[u] = l => pc[u] # "inside" /\ fut[u] \notin {"woken", "doomed"}
  <2>1. SUFFICES ASSUME NEW u \in Tasks, lock[u] = l
                 PROVE  pc[u] # "inside" /\ fut[u] \notin {"woken", "doomed"}
    OBVIOUS
  <2>2. pc[u] # "inside"
    BY <1>1, <2>1 DEF FreeToTake, IInv, OneInside
  <2>3. pc[u] = "waiting" => fut[u] = "cancelled"
    BY <1>1, <2>1 DEF FreeToTake, IInv, QueueHoldsWaiters
  <2>4. QED
    BY <2>2, <2>3 DEF IInv, TypeOK
<1>5. QueueHoldsWaiters'
  BY <1>1 DEF IInv, TypeOK, QueueHoldsWaiters, Register
<1>6. OneInside'
  BY <1>1, <1>4 DEF IInv, TypeOK, OneInside, Register
<1>7. OnlyHeadWoken'
  BY <1>1, <1>4 DEF IInv, TypeOK, OnlyHeadWoken, Register
<1>8. NoLostWakeUp'
  BY <1>1 DEF IInv, TypeOK, NoLostWakeUp
<1>9. QED
  BY <1>2, <1>3, <1>5, <1>6, <1>7, <1>8 DEF IInv

(* A user that finds the lock held joins the queue and keeps the invariant. *)
LEMMA EnterQueuedStep ==
    ASSUME IInv, NEW t \in Tasks, NEW k \in Keys, EnterQueued(t, k)
    PROVE  IInv'
<1>1. PICK l \in LockIds :
        /\ l = locks[k]
        /\ ~FreeToTake(l)
        /\ Register(t, k, l)
        /\ queue' = [queue EXCEPT ![l] = Append(queue[l], t)]
        /\ pc' = [pc EXCEPT ![t] = "waiting"]
        /\ fut' = [fut EXCEPT ![t] = "pending"]
        /\ locked' = locked
        /\ locks[k] # None
  BY DEF EnterQueued, IInv, TypeOK
<1>2. TypeOK'
  BY <1>1 DEF IInv, TypeOK, Register, FutureStates
<1>3. NoLeak' /\ SameLockPerKey'
  BY <1>1, RegisterKeepsMaps DEF IInv
<1>4. /\ pc[t] = "out"
      /\ key' = [key EXCEPT ![t] = k]
      /\ lock' = [lock EXCEPT ![t] = l]
      /\ queue[l] \in Seq(Tasks)
      /\ \A i \in 1..Len(queue[l]) : queue[l][i] # t
  BY <1>1 DEF Register, IInv, TypeOK, QueueHoldsWaiters
<1>5. QueueHoldsWaiters'
  <2>1. ASSUME NEW m \in LockIds
        PROVE  /\ \A i \in 1..Len(queue'[m]) :
                    pc'[queue'[m][i]] = "waiting" /\ lock'[queue'[m][i]] = m
               /\ \A i, j \in 1..Len(queue'[m]) : queue'[m][i] = queue'[m][j] => i = j
               /\ \A u \in Tasks : pc'[u] = "waiting" /\ lock'[u] = m =>
                    \E i \in 1..Len(queue'[m]) : queue'[m][i] = u
    <3>1. CASE m = l
      <4>1. /\ Len(queue'[m]) = Len(queue[m]) + 1
            /\ queue'[m][Len(queue[m]) + 1] = t
            /\ \A i \in 1..Len(queue[m]) : queue'[m][i] = queue[m][i]
        BY <1>1, <1>4, <3>1 DEF IInv, TypeOK
      <4>2. \A i \in 1..Len(queue'[m]) :
                pc'[queue'[m][i]] = "waiting" /\ lock'[queue'[m][i]] = m
        BY <1>1, <1>4, <3>1, <4>1 DEF IInv, TypeOK, QueueHoldsWaiters
      <4>3. \A i, j \in 1..Len(queue'[m]) : queue'[m][i] = queue'[m][j] => i = j
        BY <1>4, <3>1, <4>1, SMTT(60) DEF IInv, QueueHoldsWaiters
      <4>4. ASSUME NEW u \in Tasks, pc'[u] = "waiting", lock'[u] = m
            PROVE  \E i \in 1..Len(queue'[m]) : queue'[m][i] = u
        <5>1. CASE u = t
          BY <1>4, <3>1, <4>1, <5>1
        <5>2. CASE u # t
          <6>1. pc[u] = "waiting" /\ lock[u] = m
            BY <1>1, <1>4, <4>4, <5>2 DEF IInv, TypeOK
          <6>2. PICK i \in 1..Len(queue[m]) : queue[m][i] = u
            BY <6>1 DEF IInv, QueueHoldsWaiters
          <6>3. i \in 1..Len(queue'[m]) /\ queue'[m][i] = u
            BY <1>4, <3>1, <4>1, <6>2
          <6>4. QED
            BY <6>3
        <5>3. QED
          BY <5>1, <5>2
      <4>5. QED
        BY <4>2, <4>3, <4>4
    <3>2. CASE m # l
      BY <1>1, <1>4, <3>2 DEF IInv, TypeOK, QueueHoldsWaiters
    <3>3. QED
      BY <3>1, <3>2
  <2>2. QED
    BY <2>1 DEF QueueHoldsWaiters
<1>6. OneInside'
  BY <1>1, <1>4 DEF IInv, TypeOK, OneInside
<1>7. OnlyHeadWoken'
  <2>1. SUFFICES ASSUME NEW u \in Tasks, fut'[u] \in {"woken", "doomed"}
                 PROVE  ~locked'[lock'[u]] /\ Head(queue'[lock'[u]]) = u
    BY DEF OnlyHeadWoken
  <2>2. u # t /\ fut[u] \in {"woken", "doomed"} /\ lock'[u] = lock[u] /\ pc[u] = "waiting"
    BY <1>1, <1>4, <2>1 DEF IInv, TypeOK, FutureStates
  <2>3. ~locked[lock[u]] /\ Head(queue[lock[u]]) = u /\ lock[u] \in LockIds
        /\ queue[lock[u]] # <<>>
    BY <2>2 DEF IInv, TypeOK, OnlyHeadWoken, QueueHoldsWaiters
  <2>4. Head(queue'[lock[u]]) = Head(queue[lock[u]])
    BY <1>1, <1>4, <2>3 DEF IInv, TypeOK
  <2>5. QED
    BY <1>1, <2>2, <2>3, <2>4
<1>8. NoLostWakeUp'
  <2>1. SUFFICES ASSUME NEW m \in LockIds, ~locked'[m], queue'[m] # <<>>
                 PROVE  fut'[Head(queue'[m])] # "pending"
    BY DEF NoLostWakeUp
  <2>2. CASE m # l
    <3>1. queue'[m] = queue[m] /\ ~locked[m] /\ queue[m] \in Seq(Tasks)
      BY <1>1, <2>1, <2>2 DEF IInv, TypeOK
    <3>2. Head(queue[m]) = queue[m][1] /\ 1 \in 1..Len(queue[m])
      BY <2>1, <3>1
    <3>3. Head(queue[m]) \in Tasks /\ Head(queue[m]) # t
      BY <1>4, <3>1, <3>2 DEF IInv, QueueHoldsWaiters
    <3>4. QED
      BY <1>1, <2>1, <3>1, <3>3 DEF IInv, TypeOK, NoLostWakeUp
  <2>3. CASE m = l
    <3>1. queue[l] # <<>>
      BY <1>1, <1>4, <2>1, <2>3 DEF FreeToTake
    <3>2. Head(queue[l]) = queue[l][1] /\ 1 \in 1..Len(queue[l])
      BY <1>4, <3>1
    <3>3. Head(queue'[l]) = Head(queue[l])
      BY <1>1, <1>4, <3>1 DEF IInv, TypeOK
    <3>4. Head(queue[l]) # t /\ Head(queue[l]) \in Tasks
      BY <1>4, <3>2
    <3>5. QED
      BY <1>1, <2>1, <2>3, <3>1, <3>3, <3>4 DEF IInv, TypeOK, NoLostWakeUp
  <2>4. QED
    BY <2>2, <2>3
<1>9. QED
  BY <1>2, <1>3, <1>5, <1>6, <1>7, <1>8 DEF IInv

(* Waking the first of a deque changes at most the future of its head.     *)
LEMMA WakeFirstWakesHead ==
    ASSUME NEW f \in [Tasks -> FutureStates \cup {"none"}], NEW q \in Seq(Tasks)
    PROVE  /\ WakeFirst(f, q) \in [Tasks -> FutureStates \cup {"none"}]
           /\ \A u \in Tasks :
                WakeFirst(f, q)[u] =
                    IF q # <<>> /\ u = Head(q) /\ f[u] = "pending" THEN "woken" ELSE f[u]
BY DEF WakeFirst, FutureStates

(* A waiter that was woken and takes the lock keeps the invariant. *)
LEMMA AcquireStep ==
    ASSUME IInv, NEW t \in Tasks, Acquire(t)
    PROVE  IInv'
<1>1. PICK l \in LockIds, k \in Keys :
        /\ l = lock[t] /\ k = key[t]
        /\ pc[t] = "waiting" /\ fut[t] = "woken"
        /\ queue' = [queue EXCEPT ![l] = Without(t, queue[l])]
        /\ locked' = [locked EXCEPT ![l] = TRUE]
        /\ pc' = [pc EXCEPT ![t] = "inside"]
        /\ fut' = [fut EXCEPT ![t] = "none"]
        /\ UNCHANGED <<locks, waiters, key, lock>>
  BY DEF Acquire, IInv, TypeOK
<1>2. /\ queue[l] \in Seq(Tasks)
      /\ \E i \in 1..Len(queue[l]) : queue[l][i] = t
      /\ \A i, j \in 1..Len(queue[l]) : queue[l][i] = queue[l][j] => i = j
  BY <1>1 DEF IInv, TypeOK, QueueHoldsWaiters
<1> DEFINE w == Without(t, queue[l])
<1>3. /\ w \in Seq(Tasks)
      /\ \A i \in 1..Len(w) : w[i] # t /\ \E j \in 1..Len(queue[l]) : w[i] = queue[l][j]
      /\ \A i, j \in 1..Len(w) : w[i] = w[j] => i = j
      /\ \A i \in 1..Len(queue[l]) : queue[l][i] # t => \E j \in 1..Len(w) : w[j] = queue[l][i]
  BY <1>2, WithoutKeepsOthers, SMTT(60)
<1> HIDE DEF w
<1>4. queue' = [queue EXCEPT ![l] = w]
  BY <1>1 DEF w
<1>5. TypeOK'
  BY <1>1, <1>3, <1>4 DEF IInv, TypeOK, FutureStates
<1>6. NoLeak'
  <2>1. \A m \in Keys : Users(m)' = Users(m)
    BY <1>1 DEF Users, IInv, TypeOK
  <2>2. QED
    BY <1>1, <2>1 DEF IInv, NoLeak
<1>7. SameLockPerKey'
  BY <1>1 DEF IInv, TypeOK, SameLockPerKey
<1>8. QueueHoldsWaiters'
  <2>1. ASSUME NEW m \in LockIds
        PROVE  /\ \A i \in 1..Len(queue'[m]) :
                    pc'[queue'[m][i]] = "waiting" /\ lock'[queue'[m][i]] = m
               /\ \A i, j \in 1..Len(queue'[m]) : queue'[m][i] = queue'[m][j] => i = j
               /\ \A u \in Tasks : pc'[u] = "waiting" /\ lock'[u] = m =>
                    \E i \in 1..Len(queue'[m]) : queue'[m][i] = u
    <3>1. CASE m = l
      <4>1. queue'[m] = w
        BY <1>4, <3>1 DEF IInv, TypeOK
      <4>2. \A i \in 1..Len(w) : pc'[w[i]] = "waiting" /\ lock'[w[i]] = l
        BY <1>1, <1>3, SMTT(60) DEF IInv, TypeOK, QueueHoldsWaiters
      <4>3. ASSUME NEW u \in Tasks, pc'[u] = "waiting", lock'[u] = l
            PROVE  \E i \in 1..Len(w) : w[i] = u
        <5>1. u # t /\ pc[u] = "waiting" /\ lock[u] = l
          BY <1>1, <4>3, NoneIsNoLock DEF IInv, TypeOK
        <5>2. PICK i \in 1..Len(queue[l]) : queue[l][i] = u
          BY <5>1 DEF IInv, QueueHoldsWaiters
        <5>3. QED
          BY <1>3, <5>1, <5>2
      <4>4. QED
        BY <1>3, <3>1, <4>1, <4>2, <4>3
    <3>2. CASE m # l
      BY <1>1, <1>4, <3>2 DEF IInv, TypeOK, QueueHoldsWaiters
    <3>3. QED
      BY <3>1, <3>2
  <2>2. QED
    BY <2>1 DEF QueueHoldsWaiters
<1>9. \A u \in Tasks : u # t /\ lock[u] = l =>
        pc[u] # "inside" /\ fut[u] \notin {"woken", "doomed"}
  BY <1>1, ZenonT(60) DEF IInv, TypeOK, OneInside, OnlyHeadWoken
<1>10. OneInside'
  BY <1>1, <1>9 DEF IInv, TypeOK, OneInside
<1>11. OnlyHeadWoken'
  BY <1>1, <1>4, <1>9 DEF IInv, TypeOK, OnlyHeadWoken
<1>12. NoLostWakeUp'
  <2>1. SUFFICES ASSUME NEW m \in LockIds, ~locked'[m], queue'[m] # <<>>
                 PROVE  fut'[Head(queue'[m])] # "pending"
    BY DEF NoLostWakeUp
  <2>2. m # l /\ queue'[m] = queue[m] /\ ~locked[m]
    BY <1>1, <1>4, <2>1 DEF IInv, TypeOK
  <2>3. fut[Head(queue[m])] # "pending"
    BY <2>1, <2>2 DEF IInv, NoLostWakeUp
  <2>4. QED
    BY <1>1, <2>2, <2>3 DEF IInv, TypeOK
<1>13. QED
  BY <1>5, <1>6, <1>7, <1>8, <1>10, <1>11, <1>12 DEF IInv

(* The holder that releases, wakes the first waiter and unregisters keeps
   the invariant. *)
LEMMA LeaveStep ==
    ASSUME IInv, NEW t \in Tasks, Leave(t)
    PROVE  IInv'
<1>1. PICK l \in LockIds, k \in Keys :
        /\ l = lock[t] /\ k = key[t]
        /\ pc[t] = "inside"
        /\ locked' = [locked EXCEPT ![l] = FALSE]
        /\ fut' = WakeFirst(fut, queue[l])
        /\ Unregister(t)
        /\ queue' = queue
  BY DEF Leave, IInv, TypeOK
<1>2. /\ pc' = [pc EXCEPT ![t] = "out"]
      /\ key' = [key EXCEPT ![t] = None]
      /\ lock' = [lock EXCEPT ![t] = None]
      /\ locks' \in [Keys -> LockIds \cup {None}]
      /\ waiters' \in [Keys -> Nat]
  BY <1>1 DEF Unregister, IInv, TypeOK
<1>3. NoLeak' /\ SameLockPerKey'
  BY <1>1, UnregisterKeepsMaps DEF IInv
<1>4. /\ queue[l] \in Seq(Tasks)
      /\ fut' \in [Tasks -> FutureStates \cup {"none"}]
      /\ \A u \in Tasks :
            fut'[u] = IF queue[l] # <<>> /\ u = Head(queue[l]) /\ fut[u] = "pending"
                      THEN "woken" ELSE fut[u]
  <2>1. queue[l] \in Seq(Tasks) /\ fut \in [Tasks -> FutureStates \cup {"none"}]
    BY DEF IInv, TypeOK
  <2>2. QED
    BY <1>1, <2>1, WakeFirstWakesHead
<1>5. TypeOK'
  BY <1>1, <1>2, <1>4 DEF IInv, TypeOK, FutureStates
<1>6. QueueHoldsWaiters'
  BY <1>1, <1>2 DEF IInv, TypeOK, QueueHoldsWaiters
<1>7. \A u \in Tasks : lock[u] = l =>
        (pc[u] = "inside" => u = t) /\ fut[u] \notin {"woken", "doomed"}
  BY <1>1 DEF IInv, TypeOK, OneInside, OnlyHeadWoken
<1>8. OneInside'
  BY <1>1, <1>2, <1>7 DEF IInv, TypeOK, OneInside
<1>9. OnlyHeadWoken'
  <2>1. SUFFICES ASSUME NEW u \in Tasks, fut'[u] \in {"woken", "doomed"}
                 PROVE  ~locked'[lock'[u]] /\ Head(queue'[lock'[u]]) = u
    BY DEF OnlyHeadWoken
  <2>2. pc[u] = "waiting" /\ u # t /\ lock'[u] = lock[u]
    BY <1>1, <1>2, <1>4, <2>1 DEF IInv, TypeOK
  <2>3. CASE fut[u] = "pending"
    <3>1. queue[l] # <<>> /\ u = Head(queue[l])
      BY <1>4, <2>1, <2>3
    <3>2. lock[u] = l
      BY <1>4, <3>1 DEF IInv, QueueHoldsWaiters
    <3>3. QED
      BY <1>1, <2>2, <3>1, <3>2 DEF IInv, TypeOK
  <2>4. CASE fut[u] # "pending"
    <3>1. fut[u] \in {"woken", "doomed"} /\ lock[u] # l
      BY <1>4, <1>7, <2>1, <2>4
    <3>2. QED
      BY <1>1, <2>2, <3>1 DEF IInv, TypeOK, OnlyHeadWoken
  <2>5. QED
    BY <2>3, <2>4
<1>10. NoLostWakeUp'
  <2>1. SUFFICES ASSUME NEW m \in LockIds, ~locked'[m], queue[m] # <<>>
                 PROVE  fut'[Head(queue[m])] # "pending"
    BY <1>1 DEF NoLostWakeUp
  <2>2. Head(queue[m]) \in Tasks
    BY <2>1 DEF IInv, TypeOK
  <2>3. CASE m = l
    BY <1>4, <2>1, <2>2, <2>3
  <2>4. CASE m # l
    BY <1>1, <1>4, <2>1, <2>2, <2>4 DEF IInv, TypeOK, NoLostWakeUp
  <2>5. QED
    BY <2>3, <2>4
<1>11. QED
  BY <1>3, <1>5, <1>6, <1>8, <1>9, <1>10 DEF IInv

(* Cancelling a waiter, woken or not, keeps the invariant. *)
LEMMA CancelStep ==
    ASSUME IInv, NEW t \in Tasks, Cancel(t)
    PROVE  IInv'
<1>1. /\ fut[t] \in {"pending", "woken"}
      /\ fut' = [fut EXCEPT ![t] = IF fut[t] = "pending" THEN "cancelled" ELSE "doomed"]
      /\ UNCHANGED <<locks, waiters, locked, queue, pc, key, lock>>
  BY DEF Cancel
<1>2. TypeOK'
  BY <1>1 DEF IInv, TypeOK, FutureStates
<1>3. NoLeak' /\ SameLockPerKey' /\ QueueHoldsWaiters' /\ OneInside'
  BY <1>1 DEF IInv, NoLeak, Users, SameLockPerKey, QueueHoldsWaiters, OneInside
<1>4. OnlyHeadWoken'
  BY <1>1 DEF IInv, TypeOK, OnlyHeadWoken, FutureStates
<1>5. NoLostWakeUp'
  BY <1>1 DEF IInv, TypeOK, NoLostWakeUp
<1>6. QED
  BY <1>2, <1>3, <1>4, <1>5 DEF IInv

(* A cancelled waiter that leaves the queue, passing on a wake-up it had
   already been given, keeps the invariant. *)
LEMMA AbandonWaitStep ==
    ASSUME IInv, NEW t \in Tasks, AbandonWait(t)
    PROVE  IInv'
<1> DEFINE gone == [fut EXCEPT ![t] = "none"]
<1>1. PICK l \in LockIds, k \in Keys :
        /\ l = lock[t] /\ k = key[t]
        /\ pc[t] = "waiting" /\ fut[t] \in {"cancelled", "doomed"}
        /\ queue' = [queue EXCEPT ![l] = Without(t, queue[l])]
        /\ fut' = IF locked[l] THEN gone ELSE WakeFirst(gone, Without(t, queue[l]))
        /\ Unregister(t)
        /\ locked' = locked
  BY DEF AbandonWait, IInv, TypeOK
<1>2. /\ pc' = [pc EXCEPT ![t] = "out"]
      /\ key' = [key EXCEPT ![t] = None]
      /\ lock' = [lock EXCEPT ![t] = None]
      /\ locks' \in [Keys -> LockIds \cup {None}]
      /\ waiters' \in [Keys -> Nat]
  BY <1>1 DEF Unregister, IInv, TypeOK
<1>3. NoLeak' /\ SameLockPerKey'
  BY <1>1, UnregisterKeepsMaps DEF IInv
<1>4. /\ queue[l] \in Seq(Tasks)
      /\ \E i \in 1..Len(queue[l]) : queue[l][i] = t
      /\ \A i, j \in 1..Len(queue[l]) : queue[l][i] = queue[l][j] => i = j
  BY <1>1 DEF IInv, TypeOK, QueueHoldsWaiters
<1> DEFINE w == Without(t, queue[l])
<1>5. /\ w \in Seq(Tasks)
      /\ \A i \in 1..Len(w) : w[i] # t /\ \E j \in 1..Len(queue[l]) : w[i] = queue[l][j]
      /\ \A i, j \in 1..Len(w) : w[i] = w[j] => i = j
      /\ \A i \in 1..Len(queue[l]) : queue[l][i] # t => \E j \in 1..Len(w) : w[j] = queue[l][i]
      /\ Head(queue[l]) # t => w # <<>> /\ Head(w) = Head(queue[l])
  BY <1>4, WithoutKeepsOthers
<1> HIDE DEF w
<1>a. /\ queue' = [queue EXCEPT ![l] = w]
      /\ fut' = IF locked[l] THEN gone ELSE WakeFirst(gone, w)
  BY <1>1 DEF w
<1>6. gone \in [Tasks -> FutureStates \cup {"none"}]
  BY DEF IInv, TypeOK
<1>7. /\ fut' \in [Tasks -> FutureStates \cup {"none"}]
      /\ \A u \in Tasks :
            fut'[u] = IF ~locked[l] /\ w # <<>> /\ u = Head(w) /\ gone[u] = "pending"
                      THEN "woken" ELSE gone[u]
  BY <1>a, <1>5, <1>6, WakeFirstWakesHead, ZenonT(60)
<1>8. w # <<>> => Head(w) \in Tasks /\ Head(w) # t /\ pc[Head(w)] = "waiting" /\ lock[Head(w)] = l
  <2>1. SUFFICES ASSUME w # <<>>
                 PROVE  /\ Head(w) \in Tasks /\ Head(w) # t
                        /\ pc[Head(w)] = "waiting" /\ lock[Head(w)] = l
    OBVIOUS
  <2>2. Head(w) = w[1] /\ 1 \in 1..Len(w) /\ Head(w) \in Tasks
    BY <1>5, <2>1
  <2>3. Head(w) # t /\ \E j \in 1..Len(queue[l]) : Head(w) = queue[l][j]
    BY <1>5, <2>2
  <2>4. QED
    BY <2>2, <2>3 DEF IInv, QueueHoldsWaiters
<1>9. \A u \in Tasks : u # t => gone[u] = fut[u]
  BY DEF IInv, TypeOK
<1>10. gone[t] = "none" /\ fut'[t] = "none"
  BY <1>7, <1>8 DEF IInv, TypeOK
<1>11. TypeOK'
  <2>1. \A u \in Tasks : pc'[u] = "waiting" <=> fut'[u] # "none"
    BY <1>1, <1>a, <1>2, <1>7, <1>8, <1>9, <1>10 DEF IInv, TypeOK, FutureStates
  <2>2. \A u \in Tasks : pc'[u] # "out" => key'[u] \in Keys /\ lock'[u] \in LockIds
    BY <1>2 DEF IInv, TypeOK
  <2>3. queue' \in [LockIds -> Seq(Tasks)]
    BY <1>a, <1>5 DEF IInv, TypeOK
  <2>4. /\ pc' \in [Tasks -> {"out", "waiting", "inside"}]
        /\ key' \in [Tasks -> Keys \cup {None}]
        /\ lock' \in [Tasks -> LockIds \cup {None}]
        /\ locked' \in [LockIds -> BOOLEAN]
    BY <1>1, <1>2 DEF IInv, TypeOK
  <2>5. QED
    BY <1>2, <1>7, <2>1, <2>2, <2>3, <2>4 DEF TypeOK
<1>12. QueueHoldsWaiters'
  <2>1. ASSUME NEW m \in LockIds
        PROVE  /\ \A i \in 1..Len(queue'[m]) :
                    pc'[queue'[m][i]] = "waiting" /\ lock'[queue'[m][i]] = m
               /\ \A i, j \in 1..Len(queue'[m]) : queue'[m][i] = queue'[m][j] => i = j
               /\ \A u \in Tasks : pc'[u] = "waiting" /\ lock'[u] = m =>
                    \E i \in 1..Len(queue'[m]) : queue'[m][i] = u
    <3>1. CASE m = l
      <4>1. queue'[m] = w
        BY <1>1, <1>a, <3>1 DEF IInv, TypeOK
      <4>2. \A i \in 1..Len(w) : pc'[w[i]] = "waiting" /\ lock'[w[i]] = l
        BY <1>2, <1>5 DEF IInv, TypeOK, QueueHoldsWaiters
      <4>3. ASSUME NEW u \in Tasks, pc'[u] = "waiting", lock'[u] = l
            PROVE  \E i \in 1..Len(w) : w[i] = u
        <5>1. u # t /\ pc[u] = "waiting" /\ lock[u] = l
          BY <1>2, <4>3, NoneIsNoLock DEF IInv, TypeOK
        <5>2. PICK i \in 1..Len(queue[l]) : queue[l][i] = u
          BY <5>1 DEF IInv, QueueHoldsWaiters
        <5>3. QED
          BY <1>5, <5>1, <5>2
      <4>4. \A i, j \in 1..Len(w) : w[i] = w[j] => i = j
        BY <1>5
      <4>5. \A u \in Tasks : pc'[u] = "waiting" /\ lock'[u] = l => \E i \in 1..Len(w) : w[i] = u
        BY <4>3
      <4> HIDE DEF w
      <4>6. QED
        BY <3>1, <4>1, <4>2, <4>4, <4>5
    <3>2. CASE m # l
      BY <1>1, <1>a, <1>2, <3>2 DEF IInv, TypeOK, QueueHoldsWaiters
    <3>3. QED
      BY <3>1, <3>2
  <2>2. QED
    BY <2>1 DEF QueueHoldsWaiters
<1>13. OneInside'
  BY <1>1, <1>a, <1>2 DEF IInv, TypeOK, OneInside
<1>14. OnlyHeadWoken'
  <2>1. SUFFICES ASSUME NEW u \in Tasks, fut'[u] \in {"woken", "doomed"}
                 PROVE  ~locked'[lock'[u]] /\ Head(queue'[lock'[u]]) = u
    BY DEF OnlyHeadWoken
  <2>2. u # t /\ pc[u] = "waiting" /\ lock'[u] = lock[u] /\ lock[u] \in LockIds
    BY <1>2, <1>7, <1>8, <1>9, <1>10, <2>1 DEF IInv, TypeOK
  <2>3. CASE fut[u] \in {"woken", "doomed"}
    <3>1. ~locked[lock[u]] /\ Head(queue[lock[u]]) = u
      BY <2>3 DEF IInv, OnlyHeadWoken
    <3>2. CASE lock[u] = l
      BY <1>1, <1>a, <1>5, <2>2, <3>1, <3>2 DEF IInv, TypeOK
    <3>3. CASE lock[u] # l
      BY <1>1, <1>a, <2>2, <3>1, <3>3 DEF IInv, TypeOK
    <3>4. QED
      BY <3>2, <3>3
  <2>4. CASE fut[u] \notin {"woken", "doomed"}
    <3>1. ~locked[l] /\ w # <<>> /\ u = Head(w)
      BY <1>7, <1>9, <2>1, <2>2, <2>4
    <3>2. QED
      BY <1>1, <1>a, <1>8, <2>2, <3>1 DEF IInv, TypeOK
  <2>5. QED
    BY <2>3, <2>4
<1>15. NoLostWakeUp'
  <2>1. SUFFICES ASSUME NEW m \in LockIds, ~locked[m], queue'[m] # <<>>
                 PROVE  fut'[Head(queue'[m])] # "pending"
    BY <1>1 DEF NoLostWakeUp
  <2>2. CASE m = l
    <3>1. queue'[m] = w
      BY <1>1, <1>a, <2>2 DEF IInv, TypeOK
    <3>2. QED
      BY <1>7, <1>8, <2>1, <2>2, <3>1
  <2>3. CASE m # l
    <3>1. queue'[m] = queue[m] /\ queue[m] \in Seq(Tasks)
      BY <1>1, <1>a, <2>3 DEF IInv, TypeOK
    <3>2. Head(queue[m]) = queue[m][1] /\ 1 \in 1..Len(queue[m]) /\ Head(queue[m]) \in Tasks
      BY <2>1, <3>1
    <3>3. lock[Head(queue[m])] = m /\ Head(queue[m]) # t
      BY <1>1, <1>a, <2>3, <3>2 DEF IInv, QueueHoldsWaiters
    <3>4. fut[Head(queue[m])] # "pending"
      BY <2>1, <3>1 DEF IInv, NoLostWakeUp
    <3>5. QED
      BY <1>7, <1>9, <3>1, <3>2, <3>3, <3>4
  <2>4. QED
    BY <2>2, <2>3
<1>16. QED
  BY <1>3, <1>11, <1>12, <1>13, <1>14, <1>15 DEF IInv

(* No key in use, no task in the section: the invariant holds at first. *)
LEMMA InitEstablishes == Init => IInv
<1>1. SUFFICES ASSUME Init PROVE IInv
  OBVIOUS
<1>2. \A k : Users(k) = {}
  BY <1>1 DEF Init, Users
<1>3. NoLeak
  BY <1>1, <1>2, FS_EmptySet DEF Init, NoLeak
<1>4. TypeOK
  BY <1>1 DEF Init, TypeOK
<1>5. QED
  BY <1>1, <1>3, <1>4
     DEF Init, IInv, SameLockPerKey, QueueHoldsWaiters, OneInside, OnlyHeadWoken, NoLostWakeUp

(* Every step of every task keeps the invariant. *)
LEMMA StepPreserves == IInv /\ [Next]_vars => IInv'
<1>1. SUFFICES ASSUME IInv, [Next]_vars PROVE IInv'
  OBVIOUS
<1>2. CASE UNCHANGED vars
  <2>1. TypeOK'
    BY <1>1, <1>2 DEF vars, IInv, TypeOK
  <2>2. \A k : Users(k)' = Users(k)
    BY <1>2 DEF vars, Users
  <2>3. SameLockPerKey' /\ NoLeak'
    BY <1>1, <1>2, <2>2 DEF vars, IInv, SameLockPerKey, NoLeak
  <2>4. QueueHoldsWaiters'
    BY <1>1, <1>2 DEF vars, IInv, QueueHoldsWaiters
  <2>5. OneInside' /\ OnlyHeadWoken' /\ NoLostWakeUp'
    BY <1>1, <1>2 DEF vars, IInv, OneInside, OnlyHeadWoken, NoLostWakeUp
  <2>6. QED
    BY <2>1, <2>3, <2>4, <2>5 DEF IInv
<1>3. CASE Next
  BY <1>1, <1>3, EnterNewStep, EnterFreeStep, EnterQueuedStep, AcquireStep, LeaveStep,
     CancelStep, AbandonWaitStep DEF Next, Enter
<1>4. QED
  BY <1>1, <1>2, <1>3

(* The inductive invariant, whatever the tasks, the keys and the order of  *)
(* entries, exits and cancellations.                                       *)
THEOREM Invariance == Spec => []IInv
<1>1. QED
  BY InitEstablishes, StepPreserves, PTL DEF Spec

(* hold() excludes: never two tasks in the body for one key.               *)
THEOREM Exclusion == Spec => []MutualExclusion
<1>1. IInv => MutualExclusion
  BY DEF IInv, TypeOK, SameLockPerKey, OneInside, MutualExclusion
<1>2. QED
  BY <1>1, Invariance, PTL

(* The maps hold exactly the keys some task is in hold() for.              *)
THEOREM MapsDoNotLeak == Spec => []NoLeak
<1>1. IInv => NoLeak
  BY DEF IInv
<1>2. QED
  BY <1>1, Invariance, PTL

(* A free lock with waiters has a wake-up on its way.                      *)
THEOREM WakeUpsAreNotLost == Spec => []NoLostWakeUp
<1>1. IInv => NoLostWakeUp
  BY DEF IInv
<1>2. QED
  BY <1>1, Invariance, PTL

------------------------------------------------------------------------------
(* KeyLocker implements SingleFlight. *)

Asking(k)  == {t \in Users(k) : Alive(t)}
Holding(k) == {t \in Users(k) : pc[t] = "inside"}

(* A task nobody sees as asking or holding may ask.                        *)
LEMMA OutIsIdle ==
    ASSUME NEW t \in Tasks, pc[t] = "out"
    PROVE  Abstract!Idle(t)
BY DEF Abstract!Idle, Users

(* A free lock means that nobody is inside for the key.                    *)
LEMMA FreeMeansNoHolder ==
    ASSUME IInv, NEW k \in Keys, locks[k] # None, ~locked[locks[k]]
    PROVE  Holding(k) = {}
BY DEF IInv, SameLockPerKey, OneInside, Holding, Users

(* Each step of KeyLocker is a step of SingleFlight or changes nothing     *)
(* there: resolving a future is invisible, and a waiter gives up when it   *)
(* is cancelled, not when it gets to run.                                  *)
LEMMA StepSimulates ==
    IInv /\ IInv' /\ [Next]_vars => [Abstract!Next]_(Abstract!sfVars)
<1> DEFINE A == [k \in Keys |-> Asking(k)]
           H == [k \in Keys |-> Holding(k)]
<1>1. SUFFICES ASSUME IInv, IInv', [Next]_vars
               PROVE  Abstract!Next \/ UNCHANGED <<A, H>>
  BY DEF Abstract!sfVars, Asking, Holding
<1>2. ASSUME NEW t \in Tasks, NEW k \in Keys, EnterNew(t, k) \/ EnterFree(t, k)
      PROVE  Abstract!AskAndGet(t, k)
  <2>1. /\ pc[t] = "out" /\ pc' = [pc EXCEPT ![t] = "inside"]
        /\ key' = [key EXCEPT ![t] = k] /\ fut' = fut /\ fut[t] = "none"
    BY <1>1, <1>2 DEF EnterNew, EnterFree, Register, IInv, TypeOK
  <2>2. Holding(k) = {}
    BY <1>1, <1>2, FreeMeansNoHolder
       DEF EnterNew, EnterFree, FreeToTake, IInv, NoLeak, Holding
  <2>3. \A m \in Keys : Asking(m)' = Asking(m)
    BY <1>1, <2>1 DEF Asking, Users, Alive, IInv, TypeOK
  <2>4. \A m \in Keys : Holding(m)' = IF m = k THEN {t} ELSE Holding(m)
    BY <1>1, <2>1, <2>2 DEF Holding, Users, IInv, TypeOK
  <2>5. QED
    BY <2>1, <2>2, <2>3, <2>4, OutIsIdle DEF Abstract!AskAndGet, Asking, Holding
<1>3. ASSUME NEW t \in Tasks, NEW k \in Keys, EnterQueued(t, k)
      PROVE  Abstract!Ask(t, k)
  <2>1. /\ pc[t] = "out" /\ pc' = [pc EXCEPT ![t] = "waiting"]
        /\ key' = [key EXCEPT ![t] = k] /\ fut' = [fut EXCEPT ![t] = "pending"]
    BY <1>3 DEF EnterQueued, Register
  <2>2. \A m \in Keys : Holding(m)' = Holding(m)
    BY <1>1, <2>1 DEF Holding, Users, IInv, TypeOK
  <2>3. \A m \in Keys : Asking(m)' = IF m = k THEN Asking(m) \cup {t} ELSE Asking(m)
    BY <1>1, <2>1 DEF Asking, Users, Alive, IInv, TypeOK
  <2>4. QED
    BY <2>1, <2>2, <2>3, OutIsIdle DEF Abstract!Ask, Asking, Holding
<1>4. ASSUME NEW t \in Tasks, Acquire(t)
      PROVE  \E k \in Keys : Abstract!Get(t, k)
  <2>1. PICK k \in Keys : k = key[t]
    BY <1>1, <1>4 DEF Acquire, IInv, TypeOK
  <2>2. /\ pc[t] = "waiting" /\ fut[t] = "woken"
        /\ pc' = [pc EXCEPT ![t] = "inside"] /\ fut' = [fut EXCEPT ![t] = "none"]
        /\ key' = key
    BY <1>1, <1>4 DEF Acquire, IInv, TypeOK
  <2>3. locks[k] # None /\ ~locked[locks[k]]
    <3>1. locks[k] = lock[t] /\ lock[t] \in LockIds
      BY <1>1, <2>1, <2>2 DEF IInv, TypeOK, SameLockPerKey
    <3>2. ~locked[lock[t]]
      BY <1>1, <2>2 DEF IInv, OnlyHeadWoken
    <3>3. QED
      BY <3>1, <3>2, NoneIsNoLock
  <2>4. Holding(k) = {} /\ t \in Asking(k)
    BY <1>1, <2>1, <2>2, <2>3, FreeMeansNoHolder DEF Asking, Users, Alive
  <2>5. \A m \in Keys : Asking(m)' = IF m = k THEN Asking(m) \ {t} ELSE Asking(m)
    BY <1>1, <2>1, <2>2 DEF Asking, Users, Alive, IInv, TypeOK
  <2>6. \A m \in Keys : Holding(m)' = IF m = k THEN {t} ELSE Holding(m)
    BY <1>1, <2>1, <2>2, <2>4 DEF Holding, Users, IInv, TypeOK
  <2>7. QED
    BY <2>4, <2>5, <2>6, ZenonT(60) DEF Abstract!Get, Asking, Holding
<1>5. ASSUME NEW t \in Tasks, Leave(t)
      PROVE  \E k \in Keys : Abstract!Release(t, k)
  <2>1. PICK k \in Keys : k = key[t]
    BY <1>1, <1>5 DEF Leave, IInv, TypeOK
  <2>2. /\ pc[t] = "inside" /\ pc' = [pc EXCEPT ![t] = "out"]
        /\ key' = [key EXCEPT ![t] = None] /\ fut[t] = "none"
    BY <1>1, <1>5 DEF Leave, Unregister, IInv, TypeOK
  <2>3. \A u \in Tasks : fut'[u] \in {"pending", "woken"} <=> fut[u] \in {"pending", "woken"}
    BY <1>1, <1>5 DEF Leave, WakeFirst, IInv, TypeOK
  <2>4. \A m \in Keys : Asking(m)' = Asking(m)
    BY <1>1, <2>1, <2>2, <2>3 DEF Asking, Users, Alive, IInv, TypeOK
  <2>5. \A m \in Keys : Holding(m)' = IF m = k THEN Holding(m) \ {t} ELSE Holding(m)
    BY <1>1, <2>1, <2>2 DEF Holding, Users, IInv, TypeOK
  <2>6. t \in Holding(k)
    BY <2>1, <2>2 DEF Holding, Users
  <2>7. QED
    BY <2>4, <2>5, <2>6 DEF Abstract!Release, Asking, Holding
<1>6. ASSUME NEW t \in Tasks, Cancel(t)
      PROVE  \E k \in Keys : Abstract!GiveUp(t, k)
  <2>1. PICK k \in Keys : k = key[t]
    BY <1>1, <1>6 DEF Cancel, IInv, TypeOK
  <2>2. /\ pc[t] = "waiting" /\ fut[t] \in {"pending", "woken"} /\ UNCHANGED <<pc, key>>
        /\ fut'[t] \notin {"pending", "woken"}
        /\ \A u \in Tasks \ {t} : fut'[u] = fut[u]
    BY <1>1, <1>6 DEF Cancel, IInv, TypeOK
  <2>3. \A m \in Keys : Holding(m)' = Holding(m)
    BY <2>2 DEF Holding, Users
  <2>4. \A m \in Keys : Asking(m)' = IF m = k THEN Asking(m) \ {t} ELSE Asking(m)
    BY <2>1, <2>2 DEF Asking, Users, Alive
  <2>5. t \in Asking(k)
    BY <2>1, <2>2 DEF Asking, Users, Alive
  <2>6. QED
    BY <2>3, <2>4, <2>5 DEF Abstract!GiveUp, Asking, Holding
<1>7. ASSUME NEW t \in Tasks, AbandonWait(t)
      PROVE  UNCHANGED <<A, H>>
  <2>1. /\ pc[t] = "waiting" /\ pc' = [pc EXCEPT ![t] = "out"]
        /\ key' = [key EXCEPT ![t] = None] /\ fut[t] \in {"cancelled", "doomed"}
    BY <1>1, <1>7 DEF AbandonWait, Unregister, IInv, TypeOK
  <2>2. \A u \in Tasks \ {t} :
            fut'[u] \in {"pending", "woken"} <=> fut[u] \in {"pending", "woken"}
    BY <1>1, <1>7 DEF AbandonWait, WakeFirst, IInv, TypeOK
  <2>3. \A m \in Keys : Asking(m)' = Asking(m) /\ Holding(m)' = Holding(m)
    BY <1>1, <2>1, <2>2 DEF Asking, Holding, Users, Alive, IInv, TypeOK
  <2>4. QED
    BY <2>3
<1>8. CASE UNCHANGED vars
  BY <1>8 DEF vars, Asking, Holding, Users, Alive
<1>9. CASE Next
  BY <1>2, <1>3, <1>4, <1>5, <1>6, <1>7, <1>9 DEF Next, Enter, Abstract!Next
<1>10. QED
  BY <1>1, <1>8, <1>9

(* hold() is a singleflight: every behaviour of the counters, lock objects *)
(* and futures is one of the abstract specification.                       *)
THEOREM Refinement == Spec => ImplementsSingleFlight
<1>1. Init => Abstract!Init
  BY DEF Init, Abstract!Init, Users
<1>2. QED
  BY <1>1, StepSimulates, Invariance, PTL
     DEF Spec, ImplementsSingleFlight, Abstract!Spec

(* A live waiter for a key is in the deque of the lock the map has for it. *)
LEMMA LiveWaiterIsQueued ==
    ASSUME IInv, NEW u \in Tasks, Alive(u), NEW k \in Keys, key[u] = k
    PROVE  /\ locks[k] \in LockIds /\ lock[u] = locks[k] /\ pc[u] = "waiting"
           /\ \E j \in 1..Len(queue[locks[k]]) : queue[locks[k]][j] = u
<1>1. pc[u] = "waiting" /\ lock[u] \in LockIds
  BY DEF IInv, TypeOK, Alive
<1>2. locks[k] = lock[u]
  BY <1>1 DEF IInv, SameLockPerKey
<1>3. QED
  BY <1>1, <1>2 DEF IInv, QueueHoldsWaiters

(* Who gets in past a live waiter has been ahead of it in the deque.       *)
LEMMA EntersInTurn ==
    ASSUME IInv, Next, NEW t \in Tasks, NEW u \in Tasks, u # t, Alive(u),
           pc[t] # "inside", pc'[t] = "inside", key'[t] = key[u]
    PROVE  Ahead(t, u)
<1>1. pc \in [Tasks -> {"out", "waiting", "inside"}] /\ key \in [Tasks -> Keys \cup {None}]
      /\ key[u] \in Keys
  BY DEF IInv, TypeOK, Alive
<1>2. PICK v \in Tasks : Enter(v) \/ Acquire(v) \/ Leave(v) \/ Cancel(v) \/ AbandonWait(v)
  BY DEF Next
<1>3. CASE Acquire(v)
  <2>1. v = t /\ fut[t] = "woken" /\ key[t] = key[u]
    BY <1>1, <1>3 DEF Acquire
  <2>2. Alive(t)
    BY <2>1 DEF Alive
  <2>3. PICK l \in LockIds : l = locks[key[u]]
    BY <1>1, LiveWaiterIsQueued
  <2>4. PICK j \in 1..Len(queue[l]) : queue[l][j] = u
    BY <1>1, <2>3, LiveWaiterIsQueued
  <2>5. lock[t] = l
    BY <1>1, <2>1, <2>2, <2>3, LiveWaiterIsQueued
  <2>6. Head(queue[l]) = t
    BY <2>1, <2>5 DEF IInv, OnlyHeadWoken
  <2>7. queue[l] \in Seq(Tasks)
    BY <2>3 DEF IInv, TypeOK
  <2>8. 1 \in 1..Len(queue[l]) /\ queue[l][1] = t /\ 1 < j
    BY <2>4, <2>6, <2>7
  <2>9. QED
    BY <2>3, <2>4, <2>8 DEF Ahead
<1>4. ASSUME NEW k \in Keys, EnterNew(v, k) PROVE FALSE
  <2>1. v = t /\ key'[t] = k /\ locks[k] = None
    BY <1>1, <1>4 DEF EnterNew, Register
  <2>2. QED
    BY <1>1, <2>1, LiveWaiterIsQueued, NoneIsNoLock
<1>5. ASSUME NEW k \in Keys, EnterFree(v, k) PROVE FALSE
  <2>1. v = t /\ key'[t] = k /\ FreeToTake(locks[k])
    BY <1>1, <1>5 DEF EnterFree, Register
  <2>2. \E j \in 1..Len(queue[locks[k]]) : queue[locks[k]][j] = u
    BY <1>1, <2>1, LiveWaiterIsQueued
  <2>3. QED
    BY <2>1, <2>2 DEF FreeToTake, Alive
<1>6. ASSUME NEW k \in Keys, EnterQueued(v, k) PROVE FALSE
  BY <1>1, <1>6 DEF EnterQueued
<1>7. CASE Leave(v) \/ Cancel(v) \/ AbandonWait(v)
  BY <1>1, <1>7 DEF Leave, Cancel, AbandonWait, Unregister
<1>8. QED
  BY <1>2, <1>3, <1>4, <1>5, <1>6, <1>7 DEF Enter

(* Nobody overtakes: a newcomer never, and a waiter only those behind it.  *)
THEOREM InTurn == Spec => NoOvertaking
<1>1. IInv /\ [Next]_vars =>
        [\A t, u \in Tasks :
            u # t /\ Alive(u) /\ pc[t] # "inside" /\ pc'[t] = "inside" /\ key'[t] = key[u]
                => Ahead(t, u)]_vars
  BY EntersInTurn
<1>2. QED
  BY <1>1, Invariance, PTL DEF Spec, NoOvertaking
==============================================================================
