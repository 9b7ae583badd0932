\* Conversions for clients of every kind against refills, eviction and a body that
\* does not parse, on two replicas.
CONSTANTS
    r1 = r1
    r2 = r2
    r3 = r3
    p1 = p1
    p2 = p2
    None = None
    Requests = {r1, r2}
    Replicas = {p1, p2}
    Home <- TwoReplicas
    Kinds = {"json", "html", "both"}
    UpstreamFormats = {"json"}
    MaxVersion = 2
    Malformed = {2}
    RewriteArtifactUrls = FALSE
    World = {"expire"}
SYMMETRY SwapReplicas
SPECIFICATION Spec
INVARIANTS
    AcceptableReply
    StoredAsNamed
PROPERTIES
    NoOutdatedSynthesis
