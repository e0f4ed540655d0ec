\* Ten alarms, one in each behaviour; two evaluators.
SPECIFICATION Spec
CONSTANTS
    Minute = 2
    IngestionLag = 1
    Down = Down
    Raised = Raised
    None = None
    Rules <- MCRules
    AlarmDefinitions <- MCAlarms
    Evaluators = {e1, e2}
    Values = {0, 2}
    Granularity = 2
    Answers <- MCAnswers
    ResetAt = 2
    CountResults = TRUE
    MaxNow = 6
    MaxEvaluations = 3
CHECK_DEADLOCK FALSE
INVARIANTS LagIsTolerated OpenInsideWindows CountersFollowResults
PROPERTIES CompositeDecidesRule SettlesOnSameMeasures NotifiesWhenDue
