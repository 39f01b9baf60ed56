SPECIFICATION ListingSpec
CONSTANTS
    MaxRetries = 0
    Reports = {r1, r2, r3}
    ExcelReports = {}
    Mine = {r1, r2, r3}
    Filter = {"STARTED"}
    Written = {"STARTED"}
    Limit = 1
CONSTRAINT Walking
VIEW WithoutTrail
SYMMETRY Symmetry
INVARIANTS WalkMissesNothing WalkRepeatsNothing TotalGoesWithPage
CHECK_DEADLOCK FALSE
