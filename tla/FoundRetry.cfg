\* One evaluator, one exception inside _refresh.
SPECIFICATION LiveSpec
CONSTANTS
    Alarms = {a1}
    Workers = {w1}
    Clients = {}
    States = {ok, alarm}
    Stamps = {t1, t2, t3}
    Repeating = {}
    Coordinated = FALSE
    RecordHistory = TRUE
    BodyStamps = {"echoed", "absent"}
    MaxRequests = 0
    MaxFaults = 1
    FaultKinds = {"exception"}
    NULL = NULL
    None = None
    Unborn = Unborn
    Deleted = Deleted
PROPERTIES TransitionNotified
