\* Conditional requests against uploads, eviction and crashes, one client format.
CONSTANTS
    r1 = r1
    r2 = r2
    r3 = r3
    p1 = p1
    p2 = p2
    None = None
    Requests = {r1, r2}
    Replicas = {p1}
    Home <- OneReplica
    Kinds = {"html"}
    UpstreamFormats = {"json"}
    MaxVersion = 2
    Malformed = {}
    RewriteArtifactUrls = TRUE
    World = {"expire", "crash", "no validator", "stray 304"}
SPECIFICATION FairSpec
INVARIANTS
    OneUpload
PROPERTIES
    RevalidationSound
    EveryRequestAnswered
