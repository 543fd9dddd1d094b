CONSTANTS
    Cases = {c1}
    Operators = {ann}
    Routes = {billing, support}
    CatalogueRoutes = {support}
    InitialStatuses = {"NEW", "WAITING_FOR_ORGANIZER"}
    Objects = {o1}
    Requests = {r1, r2}
    MaxRequests = 4
    MaxFaults = 1
SPECIFICATION Spec
SYMMETRY SlotSymmetry
CHECK_DEADLOCK FALSE
INVARIANTS JournalTellsChanges AnswerResumesUnlessRaced LogTellsSuspension
PROPERTIES TransitionsAllowedUnlessRaced
