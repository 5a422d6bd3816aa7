SPECIFICATION Spec
CONSTANTS
    Threads = {t1}
    Sites = {s1}
    Photos = {p1}
    Files = {f1}
    MaxFailures = 0
    PhotoPuts = FALSE
    TriggerModes = {TRUE, FALSE}
    NoThread = NoThread
    NoUuid = NoUuid
SYMMETRY Symmetry
PROPERTIES
    UpdateKeepsPhotos
\* The uuids run out.
CHECK_DEADLOCK FALSE
