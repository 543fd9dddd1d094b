CONSTANTS
    Users = {ann, bob}
    Creator = ann
    Invitations = {i1}
    Requests = {r1, r2}
    MaxRequests = 4
    MaxFaults = 1
SPECIFICATION Spec
SYMMETRY SlotSymmetry
CHECK_DEADLOCK FALSE
INVARIANTS OwnerKeptUnlessRaced OneFunctionUnlessOverlapped MembersHoldFunctions
PROPERTIES SettledIsFinalUnlessRaced
