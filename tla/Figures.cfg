\* Two imports one after the other, with requests before, between and while they read.
SPECIFICATION Spec
CONSTANTS
    Accounts = {1, 2, 3}
    Services = {1, 2, 3, 4}
    Providers = {"p1", "p2"}
    AccountOf <- ThreeAccounts
    ProviderOf <- TwoProviders
    Imports = {1}
    Batch = 2
    MaxBalance = 2
    MaxMonths = 2
    Files <- TwoFiles
    FirstScale <- ByMonth
    Scales <- Tables
    Corrected = {0, 3}
    MaxJobs = 3
    MaxEdits = 2
    Overlap = FALSE
INVARIANTS
    TypeOK
PROPERTIES
    ImportLeavesFigures
    CorrectionStands
\* The imports end.
CHECK_DEADLOCK FALSE
