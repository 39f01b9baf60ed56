SPECIFICATION ReadingSpec
CONSTANTS
    NoMessage = NoMessage
    Copies = {c1}
    MaxRetries = 1
    Reports = {r1}
    ExcelReports = {}
    Workers = {w1}
    Deletes = {d1}
    Expirable = {r1}
    Faults = {"storage", "task", "broker", "ambiguous", "broadcast", "handler", "node"}
    Readers = {g1}
INVARIANTS TrailAgreesWithStatus ErrorExplainsStatus DetailCoversStatus
CONSTRAINT Unanswered
CHECK_DEADLOCK FALSE
