\* Ten alarms, one in each behaviour; one evaluation at most.
SPECIFICATION Spec
CONSTANTS
    Minute = 2
    IngestionLag = 1
    Down = Down
    Raised = Raised
    None = None
    Rules <- MCRules
    AlarmDefinitions <- MCAlarms
    Evaluators = {e1}
    Values = {0, 2}
    Granularity = 2
    Answers <- MCAnswers
    ResetAt = 2
    CountResults = TRUE
    MaxNow = 6
    MaxEvaluations = 1
CHECK_DEADLOCK FALSE
INVARIANTS ClosedOutsideWindows
