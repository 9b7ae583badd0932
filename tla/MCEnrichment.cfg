\* Two processes, each with a request and a task, and a shared cache from which nothing expires.
SPECIFICATION Spec
CONSTANTS
    None = None
    r1 = r1
    r2 = r2
    j1 = j1
    j2 = j2
    p1 = p1
    p2 = p2
    Requests = {r1, r2}
    Jobs = {j1, j2}
    Processes = {p1, p2}
    Home <- TwoProcesses
    MaxVersion = 2
    WheelsOf <- Uploads
    Extractable = {1, 2}
    Limit = 2
    World = {"upload", "conversion", "job fails", "crash"}
INVARIANTS
    TypeOK
    ReadyMeansTried
PROPERTIES
    CommitsOnlyAdd
SYMMETRY Swap
CHECK_DEADLOCK FALSE
