CONSTANTS
    NumEvents = 2
    Flagged = {2}
    Configs <- TestConfigs
SPECIFICATION FairSpec
INVARIANTS
    TypeOK
    WaitsFollowTheSchedule
    ReportIsTrue
    DuplicatesOnlyAfterLostAnswers
PROPERTIES
    WritesEnd
\* A run ends when the worker has been handed all its events.
CHECK_DEADLOCK FALSE
