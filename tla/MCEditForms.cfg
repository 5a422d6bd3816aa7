SPECIFICATION Spec
CONSTANTS
    t1 = t1
    t2 = t2
    c1 = c1
    c2 = c2
    u1 = u1
    u2 = u2
    u3 = u3
    empty = empty
    jpeg = jpeg
    Uuids = {u1, u2, u3}
    Texts <- MCTexts
    Times = {0}
    Coords = {0, 5, 6}
    Floats = {0, 5}
    AsFloat <- MCAsFloat
    Statuses = {0, 1}
    Empty = empty
    Jpeg = jpeg
    Absent = Absent
    Bad = Bad
    NotObject = NotObject
    Null = Null
    Threads = {t1, t2}
    Clients = {c1, c2}
    Initial = {u1}
    Edits <- MCEdits
    Positions <- MCPositions
    MaxRequests = 2
    NoUuid = NoUuid
    NoForm = NoForm
    NoList = NoList
    NoRequest = NoRequest
SYMMETRY MCSymmetry
INVARIANTS
    NoMixture
    DeletedStaysDeleted
    DeletedNotListed
    RowsSurvive
PROPERTIES
    OnlyStaleFormsUndo
\* The requests run out.
CHECK_DEADLOCK FALSE
