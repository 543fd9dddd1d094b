SPECIFICATION FairSpec
CONSTANTS
    img = img
    txt = txt
    Jobs <- OneJob
    Texts = {}
    Assisted <- OneJob
    Attempts = 2
    MaxStalled = 1
    KeepCompleted = 1
    KeepFailed = 1
    Slots <- OneSlot
    MaxImportsPerDay = 1
    MaxFaults = 2
CHECK_DEADLOCK FALSE
PROPERTIES FailureEndsFailed
