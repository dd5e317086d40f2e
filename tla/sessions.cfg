CONSTANTS
    Users = {u1}
    User = u1
    Families = {f1, f2, f3}
    NoPair = NoPair
    Tasks = {t1, t2}
SPECIFICATION ClientSessionsSpec
SYMMETRY Symmetry
INVARIANTS
    SessionTypeOK
    IndexConsistent
    OneFamilyPerLogin
    SavedPairIsLatest
PROPERTIES
    RevocationIsComplete
    OtherDevicesKeepSessions
