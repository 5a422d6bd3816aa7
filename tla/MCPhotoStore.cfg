SPECIFICATION Spec
CONSTANTS
    Threads = {t1, t2, t3}
    Sites = {s1, s2}
    Photos = {p1, p2}
    Files = {f1, f2, f3}
    MaxFailures = 0
    PhotoPuts = FALSE
    TriggerModes = {TRUE, FALSE}
    NoThread = NoThread
    NoUuid = NoUuid
SYMMETRY Symmetry
INVARIANTS
    ImagesMatchFiles
    EveryImageAnnounced
    FailedReadIsOutdated
PROPERTIES
    ImplementsLibrary
\* The uuids run out.
CHECK_DEADLOCK FALSE
