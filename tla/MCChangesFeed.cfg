SPECIFICATION FeedSpec
CONSTANTS
    Threads = {t1}
    Sites = {s1}
    Photos = {p1, p2}
    Files = {f1, f2, f3, f4}
    MaxFailures = 1
    PhotoPuts = FALSE
    TriggerModes = {TRUE, FALSE}
    NoThread = NoThread
    NoUuid = NoUuid
    Clients = {c1}
    IntBound = 4
    MaxResults = 2
    LimitArguments = {0, NotANumber}
    NotANumber = NotANumber
SYMMETRY Symmetry
INVARIANTS
    NoChangeMissed
    NoChangeTwice
PROPERTIES
    DoneIsRight
    ImagesAreTold
    ImplementsFeed
\* The uuids run out.
CHECK_DEADLOCK FALSE
