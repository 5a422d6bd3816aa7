SPECIFICATION FairSpec
CONSTANTS
    Threads = {t1, t2}
    Uuids = {s1, s2}
    Users = {"user"}
    Ages = {0, 2}
    MaxTime = 3
    Jumps = {}
    Setback = 1
    Width = 16
    NoThread = NoThread
    NoUuid = NoUuid
PROPERTIES
    ImplementsContract
    LockReleased
\* The server may stop.
CHECK_DEADLOCK FALSE
