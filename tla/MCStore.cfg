\* Background extraction and a request for the metadata of one wheel, whose
\* entries are evicted, moved to the other backend and back, and written by
\* an older release.
SPECIFICATION FairSpec
CONSTANTS
    None = None
    extraction = extraction
    request = request
    u1 = u1
    m1 = m1
    Callers = {extraction, request}
    Role <- TwoRoles
    Urls = {u1}
    Allowed = {u1}
    Digest <- OneMetadata
    Permits <- OneEach
    World = {"evict", "failover", "legacy", "cancel"}
INVARIANTS
    TypeOK
    RefusedForCause
PROPERTIES
    ExtractedOnce
    RequestsAreAnswered
CHECK_DEADLOCK FALSE
