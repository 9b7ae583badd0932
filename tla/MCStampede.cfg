\* A stampede of three clients on one replica while nothing expires, with conversions in one
\* direction only.
CONSTANTS
    r1 = r1
    r2 = r2
    r3 = r3
    p1 = p1
    p2 = p2
    None = None
    Requests = {r1, r2, r3}
    Replicas = {p1}
    Home <- OneReplica
    Kinds = {"html", "both"}
    UpstreamFormats = {"json", "html"}
    MaxVersion = 2
    Malformed = {}
    RewriteArtifactUrls = TRUE
    World = {"remove", "crash", "stray 304"}
SYMMETRY SwapRequests
SPECIFICATION Spec
INVARIANTS
    StampedeCollapses
