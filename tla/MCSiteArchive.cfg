SPECIFICATION ArchiveSpec
CONSTANTS
    Threads = {t1}
    Sites = {s1}
    Photos = {p1, p2}
    Files = {f1, f2, f3}
    MaxFailures = 2
    PhotoPuts = FALSE
    TriggerModes = {FALSE, TRUE}
    NoThread = NoThread
    NoUuid = NoUuid
    Downloads = {d1}
    NoSite = NoSite
SYMMETRY Symmetry
INVARIANTS
    ArchiveComplete
    ArchiveFailsForAReason
    QuietArchive
    OrphansBounded
    DamageBounded
\* The uuids run out.
CHECK_DEADLOCK FALSE
