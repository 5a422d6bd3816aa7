SPECIFICATION PollingSpec
CONSTANTS
    Threads = {t1}
    Sites = {s1}
    Photos = {p1, p2}
    Files = {f1, f2, f3}
    MaxFailures = 1
    PhotoPuts = FALSE
    TriggerModes = {FALSE}
    NoThread = NoThread
    NoUuid = NoUuid
    Clients = {c1}
    IntBound = 4
    MaxResults = 2
    LimitArguments = {0, 1}
    NotANumber = NotANumber
PROPERTIES
    EveryChangeHeard
    ReplaceImageEnds
\* The uuids run out.
CHECK_DEADLOCK FALSE
