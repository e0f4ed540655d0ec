\* Two requests at a time, four in all, a quota of one alarm per user.
SPECIFICATION Spec
CONSTANTS
    Clients = {c1, c2}
    Users = {"u1", "u2", "u3"}
    Projects = {"p1", "p2"}
    Callers <- MCCallers
    Bodies <- MCBodies
    Alarms = {a1, a2, a3}
    Trusts = {t1, t2, t3}
    UserQuota = 1
    ProjectQuota = 2
    MaxActions = 2
    AdminLimits = {2}
    MaxRequests = 4
    MaxFaults = 1
    None = None
    Unborn = Unborn
    Deleted = Deleted
SYMMETRY Interchangeable
CHECK_DEADLOCK FALSE
INVARIANTS TypeOK QuotaOvershootBounded TrustsMatchRows
