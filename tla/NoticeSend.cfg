\* Two workers send two rows that share a letter; every call may be lost.
SPECIFICATION Spec
CONSTANTS
    Rows = {1, 2}
    p1 = p1
    p2 = p2
    a = a
    b = b
    Parties = {p1, p2}
    PartyOf <- TwoParties
    Letters = {a}
    LetterOf <- SameLetter
    Users = {u1}
    Notices = {n1, n2}
    Logs = {l1, l2}
    Workers = {w1, w2}
    Gateways = {g1}
    Endpoints = {"send"}
    Faults = {"lost_request", "lost_reply", "lost_callback"}
    MaxCrashes = 0
    None = None
SYMMETRY Symmetry
INVARIANTS
    TypeOK
    OneLetterPerNotice
PROPERTIES
    SentIsFinal
    KeepsPromise
CHECK_DEADLOCK FALSE
