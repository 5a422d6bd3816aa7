SPECIFICATION Spec
CONSTANTS
    Threads = {t1, t2}
    Uuids = {s1, s2, s3}
    Users = {"user"}
    Ages = {1}
    MaxTime = 3
    Jumps <- DaylightSaving
    Setback = 1
    Width = 16
    NoThread = NoThread
    NoUuid = NoUuid
SYMMETRY Symmetry
INVARIANTS
    ObjectsOwned
    EverySessionCanExpire
    ActiveIsRecent
    ActiveIsUnexpired
\* The server may stop.
CHECK_DEADLOCK FALSE
