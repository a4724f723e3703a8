\* One account, an old scenario and its copy, two versions: the editor, imports and the case.
SPECIFICATION FairSpec
CONSTANTS
    Accounts = {a1}
    Scenarios = {s1, s2}
    Workers = {w1}
    s1 = s1
    s2 = s2
    Default = s1
    FirstPlan <- AllOld
    Published = {s1}
    Plans = {"old", "mine", "dead"}
    StepsOf <- PlanTable
    Stock = {"old"}
    Standard = "mine"
    Ops = {"import", "edit", "publish", "restore", "copy", "finish", "case", "sync", "block", "mode", "debt", "day"}
    Outcomes = {"open", "failed", "cancelled"}
    MaxVersion = 2
    MaxRows = 2
    None = None
PROPERTIES
    RevisionsStay
    NewDebtorIsTaken
CHECK_DEADLOCK FALSE
