\* Two notifiers, three notifications, two deaths and one failure.
SPECIFICATION LiveSpec
CONSTANTS
    m1 = m1
    m2 = m2
    m3 = m3
    Notifications = {m1, m2, m3}
    ActionsOf <- MCActionsOf
    Notifiers = {n1, n2}
    BatchSize = 2
    BatchTimeout = TRUE
    MaxCrashes = 2
    MaxFailures = 1
CHECK_DEADLOCK FALSE
INVARIANTS AcknowledgedMeansDone RepeatedOnlyAfterCrash
PROPERTIES EveryNotificationDispatched
