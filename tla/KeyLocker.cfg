\* hold(): four tasks that meet on two keys, with every cancellation.
CONSTANTS
    Tasks = {t1, t2, t3, t4}
    Keys = {k1, k2}
    LockIds = {l1, l2, l3, l4}
    None = None
SPECIFICATION FairSpec
INVARIANTS
    MutualExclusion
    NoLeak
    NoLostWakeUp
PROPERTIES
    NoOvertaking
    ImplementsSingleFlight
    EveryWaiterMovesOn
