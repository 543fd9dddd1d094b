CONSTANTS
    Users = {u1, u2}
    Addresses = {a1, a2}
    NoAddress = NoAddress
    RecoveryCodes = {k1, k2}
    Requests = {r1, r2}
    MaxRequests = 4
    MaxFaults = 1
SPECIFICATION Spec
SYMMETRY AccountSymmetry
CHECK_DEADLOCK FALSE
INVARIANT StatusFollowsAccess
