SPECIFICATION FairSpec
CONSTANTS
    NoMessage = NoMessage
    Copies = {c1}
    MaxRetries = 1
    Reports = {r1}
    ExcelReports = {r1}
    Workers = {w1}
    Deletes = {}
    Expirable = {}
    Faults = {}
PROPERTY ExcelIsGenerated
CHECK_DEADLOCK FALSE
