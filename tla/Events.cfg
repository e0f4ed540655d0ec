\* A listener with two threads, an alarm that may repeat its actions and one that may
\* blind it, one request, one fault.
SPECIFICATION LiveSpec
CONSTANTS
    p1 = p1
    t1 = t1
    t2 = t2
    a1 = a1
    a2 = a2
    Processes = {p1}
    Threads = {t1, t2}
    Owner <- SameProcess
    Projects = {"j1"}
    Alarms = {a1, a2}
    ProjectOf <- OneProject
    RuleOf <- MCRuleOf
    Events <- MCEvents
    Initially <- MCInitially
    Fnmatch <- MCFnmatch
    AsInteger <- MCAsInteger
    AsFloat <- MCAsFloat
    AsDatetime <- MCAsDatetime
    Collation <- MCCollation
    Missing = Missing
    MayRepeat = {a1}
    States = {"ok", "alarm"}
    Dicts = {d1, d2, d3}
    Caching = TRUE
    MaxRequests = 1
    MaxFaults = 1
    None = None
    Absent = Absent
INVARIANTS TypeOK FiresOncePerReset
PROPERTIES DisabledFallsSilent EventsReachAlarm
