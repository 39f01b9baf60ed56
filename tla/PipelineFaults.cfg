SPECIFICATION Spec
CONSTANTS
    NoMessage = NoMessage
    Copies = {c1}
    MaxRetries = 3
    Reports = {r1}
    ExcelReports = {}
    Workers = {w1, w2}
    Deletes = {d1, d2}
    Expirable = {r1}
    Faults = {"storage", "task", "broker", "ambiguous", "broadcast", "handler", "node", "loop"}
VIEW WithoutTrail
SYMMETRY Symmetry
INVARIANTS TypeOK OneHolder AttemptPerRetry AttemptsNumbered FileOfTheSuccess SuccessHasFile FileMatchesObject
PROPERTIES CanceledLeftOnlyByEarlierReaders OutcomeLeftOnlyByEarlierReaders NoAttemptAfterOutcome OutcomeIsKept ImplementsChain
CHECK_DEADLOCK FALSE
