SPECIFICATION Spec
CONSTANTS
    NoMessage = NoMessage
    Copies = {c1}
    MaxRetries = 1
    Reports = {r1}
    ExcelReports = {}
    Workers = {w1}
    Deletes = {d1}
    Expirable = {}
    Faults = {}
PROPERTY CanceledIsNotPromoted
CHECK_DEADLOCK FALSE
