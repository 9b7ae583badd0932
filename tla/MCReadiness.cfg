\* One process with a request and two tasks; entries, jobs and the process are lost until calm.
SPECIFICATION FairSpec
CONSTANTS
    None = None
    r1 = r1
    r2 = r2
    j1 = j1
    j2 = j2
    p1 = p1
    p2 = p2
    Requests = {r1}
    Jobs = {j1, j2}
    Processes = {p1}
    Home <- OneProcess
    MaxVersion = 1
    WheelsOf <- Uploads
    Extractable = {1}
    Limit = 2
    World = {"expire", "crash", "job fails", "conversion", "calm"}
PROPERTIES
    MarkersFollowBodies
    EventuallyReady
CHECK_DEADLOCK FALSE
