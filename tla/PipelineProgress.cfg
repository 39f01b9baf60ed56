SPECIFICATION FairSpec
CONSTANTS
    NoMessage = NoMessage
    Copies = {c1}
    MaxRetries = 2
    Reports = {r1}
    ExcelReports = {}
    Workers = {w1, w2}
    Deletes = {d1}
    Expirable = {}
    Faults = {"storage", "task", "ambiguous"}
INVARIANTS OpenAttemptIsRunning OnlyCanceledAreAbandoned
PROPERTIES EveryAttemptEnds EveryReportSettles
CHECK_DEADLOCK FALSE
