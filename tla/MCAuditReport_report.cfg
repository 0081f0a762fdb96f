SPECIFICATION Spec
CONSTANTS
    Entries <- MCEntries
    Second = 2
    Start = 6
    MaxEvents = 4
    MaxPending = 2
    PAGE = 1
    Cap = 3
    Selections <- MCSelections
    Windows = {2}
    Ranges <- MCRanges
    ANOMALY_THRESHOLD = 2
INVARIANTS
    ReportMatchesLogs
    QuietWindowExact
    AnomaliesFound
    VerdictSound
