\* Violation: a probe that answers after a failed operation dropped the client.
CONSTANTS
    k1 = k1
    k2 = k2
    v1 = v1
    v2 = v2
    None = None
    Callers = {t1}
    Probes = {p1}
    Keys = {k1, k2}
    Batch = {k1, k2}
    Values = {v1, v2}
    Ops <- HandlerOps
    Backends = {"memory", "redis", "redis_required"}
    MaxAttempts = 2
SPECIFICATION Spec
INVARIANTS
    ConnectedHasClient
