\* A disconnect of one account: its requests, payments, holds, the payer's death, the kanban.
SPECIFICATION Spec
CONSTANTS
    m1 = m1
    m2 = m2
    a1 = a1
    a2 = a2
    Measures = {m1}
    Kind <- OneDisconnect
    Accounts = {a1}
    Debtor <- OneAccount
    Candidates <- Everyone
    NeedsApproval = {m1}
    Workers = {w1}
    MoveTo = {"assigned", "running", "paused"}
    Ops = {"launch", "refresh", "debt", "death", "newcomer", "holdover", "heir", "accept", "suspend", "resume", "approve", "reject", "cancel", "move", "record", "hold", "release", "stop"}
    None = None
INVARIANTS
    TypeOK
    SuspendedIsNotCancelled
    SuspendedWithApproval
PROPERTIES
    PaymentLeavesSuspended
    HoldsLast
