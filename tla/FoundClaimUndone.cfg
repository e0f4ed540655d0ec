\* Two evaluators without a coordinator.
SPECIFICATION Spec
CONSTANTS
    Alarms = {a1}
    Workers = {w1, w2}
    Clients = {}
    States = {ok, alarm}
    Stamps = {t1, t2, t3}
    Repeating = {}
    Coordinated = FALSE
    RecordHistory = TRUE
    BodyStamps = {"echoed", "absent"}
    MaxRequests = 0
    MaxFaults = 0
    FaultKinds = {}
    NULL = NULL
    None = None
    Unborn = Unborn
    Deleted = Deleted
SYMMETRY Interchangeable
INVARIANTS HandledByOne
