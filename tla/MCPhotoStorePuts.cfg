SPECIFICATION Spec
CONSTANTS
    Threads = {t1, t2}
    Sites = {s1, s2}
    Photos = {p1, p2}
    Files = {f1, f2}
    MaxFailures = 2
    PhotoPuts = TRUE
    TriggerModes = {TRUE, FALSE}
    NoThread = NoThread
    NoUuid = NoUuid
SYMMETRY Symmetry
INVARIANTS
    OrphansBounded
    LatestChangeOnly
\* The uuids run out.
CHECK_DEADLOCK FALSE
