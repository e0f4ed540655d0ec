\* Three agents, one fault of each behaviour.
SPECIFICATION LiveSpec
CONSTANTS
    a1 = a1
    a2 = a2
    a3 = a3
    k1 = k1
    k2 = k2
    Nodes = {a1, a2, a3}
    Replicas = {0, 1}
    Keys = {k1, k2}
    Hash <- MCHash
    Attempts = 2
    MaxFaults = 1
CHECK_DEADLOCK FALSE
INVARIANTS TypeOK AcquaintedAgentsShareNothing
PROPERTIES EventuallyPartitioned EveryAlarmServed
