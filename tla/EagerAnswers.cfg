SPECIFICATION EagerFairSpec
CONSTANTS
    NoMessage = NoMessage
    Copies = {c1}
    MaxRetries = 1
    Reports = {r1, x1}
    ExcelReports = {x1}
    Workers = {w1, w2}
    Deletes = {d1}
    Expirable = {r1}
    Faults = {"storage", "task", "broker", "handler"}
INVARIANT AnswerTellsOutcome
PROPERTIES EagerIsAnswered ImplementsLedger
CHECK_DEADLOCK FALSE
