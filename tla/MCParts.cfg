\* The parts that share no state, one in each behaviour.
SPECIFICATION Spec
CONSTANTS
    None = None
    w1 = w1
    w2 = w2
    t1 = t1
    t2 = t2
    t3 = t3
    t4 = t4
    files = files
    nexus = nexus
    other = other
    f1 = f1
    query = query
    c1 = c1
    c2 = c2
    n1 = n1
    blank = blank
    Archives <- Objects
    Later <- Wheels
    TextOf <- Texts
    Wheel = w1
    Size <- Sizes
    Crc <- Checksums
    EndSize = 2
    HeaderSize = 3
    Limits <- SmallLimits
    Server = {"range", "full", "full undeclared", "whole range", "clipped", "truncated", "runs on", "miscounted", "encoded", "refused"}
    MaxSeen = 4
    Links <- Written
    Settings <- Deployments
    Offered <- Mappings
    HtmlAlgorithms <- Preferred
    Known <- Fragments
    Headers <- Accepts
    MaxAges <- Ages
    ProjectTtl = 60
    Clients = {c1, c2}
    Names = {n1}
    Blank = blank
INVARIANTS
    FailsClosed
    SoundWheelsAreRead
    ResultIsOfOneWheel
    FetchedIsLinked
    StoredIsServed
    OfferedIsProxied
    RefusedIsNotServed
    ListingsAreWhole
PROPERTIES
    MeaningIsKept
CHECK_DEADLOCK FALSE
