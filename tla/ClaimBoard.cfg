\* Three cases of one account, the funnel's own moves beside theirs.
CONSTANTS
    u1 = u1
    u2 = u2
    NCases    = 3
    Approvers <- Two
    Presented <- First4
    MaxDate   = 4
    Targets   <- Few
    Live      = FALSE
    Ops       <- Board

SPECIFICATION Spec

INVARIANTS
    PeriodsDisjoint

PROPERTIES
    GatedAfterWarning

CHECK_DEADLOCK FALSE
