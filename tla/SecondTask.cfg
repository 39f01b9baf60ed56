SPECIFICATION FairSpec
CONSTANTS
    NoMessage = NoMessage
    Copies = {c1}
    MaxRetries = 1
    Reports = {r1, r2}
    ExcelReports = {}
    Workers = {w1}
    Deletes = {}
    Expirable = {}
    Faults = {"loop"}
PROPERTY AcceptedIsStarted
CHECK_DEADLOCK FALSE
