---------------------------- MODULE SingleFlight ----------------------------
(***************************************************************************)
(* What per-key singleflight promises its callers, with no lock object, no *)
(* counter and no event loop in sight: at most one task at a time is       *)
(* inside the section of a key, a task gets in only after it asked, and    *)
(* it may give up while it waits.                                          *)
(***************************************************************************)

CONSTANTS
    Tasks,      \* asyncio tasks that call hold()
    Keys        \* the keys they call it with

VARIABLES
    asking,     \* asking[k]: the tasks that want the section of key k
    holding     \* holding[k]: the tasks inside the section of key k

sfVars == <<asking, holding>>

Idle(t) == \A k \in Keys : t \notin asking[k] \cup holding[k]

Init ==
    /\ asking = [k \in Keys |-> {}]
    /\ holding = [k \in Keys |-> {}]

(* A task asks, and may find the section free at once. *)
Ask(t, k) ==
    /\ Idle(t)
    /\ asking' = [asking EXCEPT ![k] = @ \cup {t}]
    /\ UNCHANGED holding

AskAndGet(t, k) ==
    /\ Idle(t)
    /\ holding[k] = {}
    /\ holding' = [holding EXCEPT ![k] = {t}]
    /\ UNCHANGED asking

Get(t, k) ==
    /\ t \in asking[k]
    /\ holding[k] = {}
    /\ asking' = [asking EXCEPT ![k] = @ \ {t}]
    /\ holding' = [holding EXCEPT ![k] = {t}]

GiveUp(t, k) ==
    /\ t \in asking[k]
    /\ asking' = [asking EXCEPT ![k] = @ \ {t}]
    /\ UNCHANGED holding

Release(t, k) ==
    /\ t \in holding[k]
    /\ holding' = [holding EXCEPT ![k] = @ \ {t}]
    /\ UNCHANGED asking

Next ==
    \E t \in Tasks, k \in Keys :
        \/ Ask(t, k)
        \/ AskAndGet(t, k)
        \/ Get(t, k)
        \/ GiveUp(t, k)
        \/ Release(t, k)

Spec == Init /\ [][Next]_sfVars
=============================================================================
