\* Two evaluators, one fault: progress.
SPECIFICATION LiveSpec
CONSTANTS
    Alarms = {a1}
    Workers = {w1, w2}
    Clients = {}
    States = {ok, alarm}
    Stamps = {t1, t2, t3}
    Repeating = {}
    Coordinated = FALSE
    RecordHistory = TRUE
    BodyStamps = {"echoed", "absent"}
    MaxRequests = 0
    MaxFaults = 1
    FaultKinds = {"exception", "crash"}
    NULL = NULL
    None = None
    Unborn = Unborn
    Deleted = Deleted
INVARIANTS OneClaimPerStamp AuditComplete NotificationsFollowState
PROPERTIES EvaluatedForEver StateFollowsVerdict
