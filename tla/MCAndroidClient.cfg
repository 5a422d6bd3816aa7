SPECIFICATION Spec
CONSTANTS
    a = a
    b = b
    Sites = {a, b}
    Lists <- MCLists
    Pictures = {p}
    MaxRequests = 4
    MaxIntents = 2
    NoSite = NoSite
    NoPicture = NoPicture
SYMMETRY Symmetry
INVARIANTS
    PictureFollowsTaps
    TitleTellsSite
    ToastMeansStored
PROPERTIES
    LoginIsLeftForAReason
CHECK_DEADLOCK FALSE
