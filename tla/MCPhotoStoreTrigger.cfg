SPECIFICATION Spec
CONSTANTS
    Threads = {t1, t2}
    Sites = {s1}
    Photos = {p1}
    Files = {f1, f2}
    MaxFailures = 0
    PhotoPuts = TRUE
    TriggerModes = {TRUE, FALSE}
    NoThread = NoThread
    NoUuid = NoUuid
SYMMETRY Symmetry
INVARIANTS
    DeletedPhotosLeaveNoImage
\* The uuids run out.
CHECK_DEADLOCK FALSE
