\* One evaluator and two API requests on one alarm that repeats its actions; one
\* exception, or a shutdown that stops the coordinator.
SPECIFICATION Spec
CONSTANTS
    Alarms = {a1}
    Workers = {w1}
    Clients = {c1, c2}
    States = {ok, alarm}
    Stamps = {t1, t2, t3}
    Repeating = {a1}
    Coordinated = TRUE
    RecordHistory = TRUE
    BodyStamps = {"echoed", "absent"}
    MaxRequests = 2
    MaxFaults = 1
    FaultKinds = {"exception", "shutdown"}
    NULL = NULL
    None = None
    Unborn = Unborn
    Deleted = Deleted
SYMMETRY Interchangeable
INVARIANTS TypeOK HistoryGoneWithAlarm AuditComplete NotificationsFollowState
PROPERTIES DeletionIsFinal ImplementsLifecycle
