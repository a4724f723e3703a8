\* A warning, its delivery and term, the disconnect that follows; cases open, run out and close.
SPECIFICATION Spec
CONSTANTS
    m1 = m1
    m2 = m2
    a1 = a1
    a2 = a2
    Measures = {m1, m2}
    Kind <- WarnThenCut
    Accounts = {a1, a2}
    Debtor <- OnePayer
    Candidates <- Everyone
    NeedsApproval = {}
    Workers = {w1}
    Ops = {"launch", "refresh", "deliver", "term", "record", "accept", "suspend", "cancel", "patch", "caseover"}
    MoveTo = {}
    None = None
INVARIANTS
    WarnedBeforeSuspended
    CaseKeepsPaused
