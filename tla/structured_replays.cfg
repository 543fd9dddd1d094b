CONSTANTS
    Jobs = {j1, j2}
    Objects = {k, u, x}
    Keyed = {k}
    Invalid = {x}
    Batches = {{k, u, x}}
    Requests = {r1, r2}
    MaxRequests = 3
    MaxFaults = 1
SPECIFICATION Spec
CHECK_DEADLOCK FALSE
INVARIANTS
    OneProposer
    ReadIsProposedUnlessOrphaned
    OnePendingUnlessOverlapped
    FailedProposesNothing
    OrganizersBounded
PROPERTIES DecisionsKept StageEnds
