\* Violation: one request at a time, clients of both formats, validators shared between them.
CONSTANTS
    r1 = r1
    r2 = r2
    r3 = r3
    p1 = p1
    p2 = p2
    None = None
    Requests = {r1}
    Replicas = {p1}
    Home <- OneReplica
    Kinds = {"html", "json"}
    UpstreamFormats = {"json"}
    MaxVersion = 2
    Malformed = {}
    RewriteArtifactUrls = TRUE
    World = {"expire"}
SPECIFICATION Spec
PROPERTIES
    RevalidationSound
