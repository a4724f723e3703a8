\* A scenario and a party made by hand are called by two dialers over two days.
SPECIFICATION Spec
CONSTANTS
    d1 = d1
    d2 = d2
    Parties = {1, 2}
    Items = {1, 2}
    PartyOf <- OneEach
    Scenario = {1}
    Every <- EveryDays
    Dialers = {d1, d2}
    Calls = {1, 2}
    MaxDay = 2
    MaxEdits = 1
    Overlap = FALSE
    Fates = {"answered", "busy"}
    Shares = {"heard"}
    ByHand <- TwoOutcomes
    Faults = {"refused", "leg", "lost"}
    Ops = {"result", "close", "stop"}
SYMMETRY Symmetry
INVARIANTS
    TypeOK
PROPERTIES
    ToldIsOwnCall
    CallsAreSpaced
\* The days end.
CHECK_DEADLOCK FALSE
