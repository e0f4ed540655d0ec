\* One request at a time, the default configuration, no administrator.
SPECIFICATION Spec
CONSTANTS
    Clients = {c1}
    Users = {"u1", "u2", "u3"}
    Projects = {"p1", "p2"}
    Callers <- MCCallers
    Bodies <- MCBodies
    Alarms = {a1}
    Trusts = {t1}
    UserQuota <- Unlimited
    ProjectQuota <- Unlimited
    MaxActions <- Unlimited
    AdminLimits = {}
    MaxRequests = 2
    MaxFaults = 0
    None = None
    Unborn = Unborn
    Deleted = Deleted
CHECK_DEADLOCK FALSE
INVARIANTS UnlimitedByDefault
