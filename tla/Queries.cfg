\* Three callers; every short expression and list of conditions; pages of one alarm.
SPECIFICATION Spec
CONSTANTS
    NewDefaults = TRUE
    None = None
    NULL = NULL
    Unset = Unset
    True = True
    False = False
    Booleans <- MCBooleans
    IsoTime <- MCIsoTime
    Callers <- MCCallers
    InitialAlarms <- MCAlarms
    Changes <- MCChanges
    Newcomers <- MCNewcomers
    ComplexQueries <- MCComplexQueries
    ItemLists <- MCItemLists
    Collation <- MCCollation
    SortKeys <- MCSortKeys
    PageSize = 1
    MaxWrites = 2
CHECK_DEADLOCK FALSE
INVARIANTS ComplexMeansFilter  HistoryMeetsItems PagesMissNothing
