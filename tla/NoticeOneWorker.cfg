\* One worker: every way to make and send a notification, and every other writer of its row; two
\* gateway processes, one crash.
SPECIFICATION Spec
CONSTANTS
    Rows = {1, 2}
    p1 = p1
    p2 = p2
    a = a
    b = b
    Parties = {p1}
    PartyOf <- OneParty
    Letters = {a, b}
    LetterOf <- TwoLetters
    Users = {u1}
    Notices = {n1, n2}
    Logs = {l1}
    Workers = {w1}
    Gateways = {g1, g2}
    Endpoints = {"send", "create", "resend", "record", "stop", "move", "auto"}
    Faults = {"lost_callback", "crash"}
    MaxCrashes = 1
    None = None
SYMMETRY Symmetry
INVARIANTS
    
    OneDelivererPerLog
PROPERTIES
    DoneRowWasDelivered
    RecordedIsFinal
CHECK_DEADLOCK FALSE
