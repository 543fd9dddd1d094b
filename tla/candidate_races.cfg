CONSTANTS
    Candidates = {c1, c2}
    Posters = {c1}
    Drafts = {fair, backwards, banned}
    Incoherent = {backwards}
    Prohibited = {banned}
    Requests = {r1, r2}
    MaxRequests = 4
    MaxFaults = 1
SPECIFICATION Spec
SYMMETRY SlotSymmetry
CHECK_DEADLOCK FALSE
INVARIANTS EventLinked EventsCleared ImagesTakenOver
PROPERTIES ImplementsLifecycle
