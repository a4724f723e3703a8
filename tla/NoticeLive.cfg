\* One row that is sent and completed by the scenario; calls to the gateway may be lost, answers
\* of the gateway are not.
SPECIFICATION FairSpec
CONSTANTS
    Rows = {1}
    p1 = p1
    p2 = p2
    a = a
    b = b
    Parties = {p1}
    PartyOf <- OnlyParty
    Letters = {a}
    LetterOf <- OnlyLetter
    Users = {u1}
    Notices = {n1, n2}
    Logs = {l1, l2}
    Workers = {w1, w2}
    Gateways = {g1}
    Endpoints = {"send", "auto"}
    Faults = {"lost_request", "lost_reply"}
    MaxCrashes = 0
    None = None
PROPERTIES
    QueuedGetsVerdict
    RequestsEnd
    DoneRowWasDelivered
CHECK_DEADLOCK FALSE
