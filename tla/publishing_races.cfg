CONSTANTS
    Events = {e1}
    Contents = {sound, backwards}
    Incoherent = {backwards}
    Requests = {r1, r2}
    MaxRequests = 5
    MaxFaults = 1
SPECIFICATION Spec
SYMMETRY SlotSymmetry
CHECK_DEADLOCK FALSE
INVARIANTS
    PrivateNeverDiffused
    JournalTellsStatus
    PublishedIsCoherentUnlessRaced
    AnnouncedOnceUnlessRaced
    IndexFaithful
PROPERTIES WorkflowUnlessRaced PublishedIsFrozenUnlessRaced
