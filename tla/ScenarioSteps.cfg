\* One account, two scenarios of two versions, requests one after the other.
SPECIFICATION Spec
CONSTANTS
    Accounts = {a1}
    Scenarios = {s1, s2}
    Workers = {w1}
    s1 = s1
    s2 = s2
    Default = s1
    FirstPlan <- RowsAndChain
    Published = {s1, s2}
    Plans = {"rows", "chain"}
    StepsOf <- PlanTable
    Stock = {}
    Standard = "rows"
    Ops = {"import", "start", "replace", "assign", "skip", "finish", "stop", "pay", "deliver", "day", "cut"}
    Outcomes = {"done"}
    MaxVersion = 1
    MaxRows = 3
    None = None
INVARIANTS
    TypeOK
    StepLaunchedOnce
    AssignmentsFollowRun
PROPERTIES
    StepsInOrder
    RunEndsClosed
CHECK_DEADLOCK FALSE
