\* Two callers and a health probe against outages, restarts and expiry.
CONSTANTS
    k1 = k1
    k2 = k2
    v1 = v1
    v2 = v2
    None = None
    Callers = {t1}
    Probes = {p1}
    Keys = {k1, k2}
    Batch = {k1, k2}
    Values = {v1, v2}
    Ops <- HandlerOps
    Backends = {"memory", "redis", "redis_required"}
    MaxAttempts = 2
SPECIFICATION FairSpec
INVARIANTS
    BatchesAreWhole
PROPERTIES
    Recovers
