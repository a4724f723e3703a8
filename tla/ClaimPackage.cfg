\* The package of one claim under every request and a balance that changes.
CONSTANTS
    Docs     <- MCDocs
    Required <- MCRequired
    Outgoing <- MCOutgoing
    MaxDebt  = 2
    Ops      <- SignedRight

SPECIFICATION Spec

INVARIANTS
    FormedIsWhole
    ArchiveKeepsPdfs

PROPERTIES
    NotaryGetsSigned

CHECK_DEADLOCK FALSE
