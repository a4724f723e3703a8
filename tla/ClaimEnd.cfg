\* One case: acts, the route of a write-off and PRIS.
CONSTANTS
    u1 = u1
    u2 = u2
    NCases    = 1
    Approvers <- Two
    Presented <- None
    MaxDate   = 0
    Targets   <- Anywhere
    Live      = TRUE
    Ops       <- Ending

SPECIFICATION FairSpec

INVARIANTS
    TypeOK
    ApprovedByAll

PROPERTIES
    WrittenOffAgreed
    ProceedingMovesCase

CHECK_DEADLOCK FALSE
