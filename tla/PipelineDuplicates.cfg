SPECIFICATION Spec
CONSTANTS
    NoMessage = NoMessage
    Copies = {c1, c2}
    MaxRetries = 1
    Reports = {r1}
    ExcelReports = {}
    Workers = {w1, w2}
    Deletes = {d1}
    Expirable = {}
    Faults = {"storage"}
VIEW WithoutTrail
SYMMETRY Symmetry
INVARIANT FileOfTheSuccess
PROPERTIES OutcomeIsKept ImplementsLedger
CHECK_DEADLOCK FALSE
