CONSTANTS
    Users = {u1, u2}
    Events = {e1}
    Axes = {interested, reserved}
    Requests = {r1, r2}
    DigestTracks = {"weekly"}
    Passes = {p1, p2}
    BatchSize = 2
    MaxRequests = 2
    MaxNotes = 3
    MaxFaults = 1
SPECIFICATION Spec
CHECK_DEADLOCK FALSE
INVARIANTS AxesKeptUnlessRaced DigestsFaithful
PROPERTIES AllDigestedInTheEnd
