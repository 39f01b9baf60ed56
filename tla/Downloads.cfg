SPECIFICATION DownloadSpec
CONSTANTS
    NoMessage = NoMessage
    Copies = {c1}
    MaxRetries = 1
    Reports = {r1}
    ExcelReports = {}
    Workers = {w1}
    Deletes = {d1}
    Expirable = {r1}
    Faults = {"storage", "handler"}
    Downloads = {g1, g2, g3}
    Outsiders = {g3}
VIEW WithoutEvents
SYMMETRY Symmetry
INVARIANTS DownloadTypeOK DeliveredIsTheSuccess CompletedFollowsRequest DeliveriesAreRecorded
PROPERTIES OutsiderLeavesNoTrace MissingOnlyIfRemoved
CHECK_DEADLOCK FALSE
