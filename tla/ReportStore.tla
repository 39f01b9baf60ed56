----------------------------- MODULE ReportStore -----------------------------
(***************************************************************************)
(* The PostgreSQL tables of the reporting service and the unit of work the *)
(* SQLAlchemy session makes of them: app/models/report.py,                 *)
(* app/repositories/report_repository.py and the row transformations of    *)
(* app/services/report_service.py.                                         *)
(*                                                                         *)
(* A handler (an HTTP request or a Celery task) works on a snapshot of the *)
(* report that it loaded earlier and that nothing locks.  Its commit       *)
(* updates only the columns it changed and inserts its event in the same   *)
(* transaction.  No column counts versions, so the last writer of a column *)
(* wins: the modules that extend this one are about what that means.       *)
(***************************************************************************)
EXTENDS Parameters, Sequences

CONSTANT
    ExcelReports    \* the reports requested as Excel workbooks; the rest are PDF

ASSUME ExcelAssumption == ExcelReports \subseteq Reports

VARIABLES
    row,        \* report_requests: one row per report
    events,     \* report_events: the trail of each report, in commit order
    attempts,   \* task_attempts: the attempts of each report, in insertion order
    file        \* report_files: the attempt whose file is recorded, 0 for no row

storeVars == <<row, events, attempts, file>>

-----------------------------------------------------------------------------

Unfinished == {"PENDING", "STARTED", "RETRY"}
Final == {"SUCCESS", "FAILURE", "CANCELED"}
Statuses == Unfinished \cup Final

EventTypes == {"REQUESTED", "ENQUEUED", "STARTED", "RETRIED", "SUCCEEDED",
               "FAILED", "CANCELED"}

(* error_message: null, the note "Reintento numero k" (the number k), or    *)
(* the text of an exception.                                                *)
NoError == 0
ExcError == MaxRetries + 1
Errors == 0..(MaxRetries + 1)

(* The columns of a report that some behaviour depends on: completed,       *)
(* enqueued and deleted say that completed_at, celery_task_id and           *)
(* deleted_at are not null.  "ABSENT" is a row that is not there yet.       *)
Row == [status: Statuses \cup {"ABSENT"}, error: Errors,
        completed: BOOLEAN, enqueued: BOOLEAN, deleted: BOOLEAN]

AttemptStatuses == Statuses \ {"PENDING"}

Attempt == [no: Nat, status: AttemptStatuses]

NewRow == [status |-> "PENDING", error |-> NoError,
           completed |-> FALSE, enqueued |-> FALSE, deleted |-> FALSE]
AbsentRow == [NewRow EXCEPT !.status = "ABSENT"]

Exists(r) == row[r].status # "ABSENT"

StoreTypeOK ==
    /\ row \in [Reports -> Row]
    /\ events \in [Reports -> Seq(EventTypes)]
    /\ attempts \in [Reports -> Seq(Attempt)]
    /\ file \in [Reports -> Nat]

StoreInit ==
    /\ row = [r \in Reports |-> AbsentRow]
    /\ events = [r \in Reports |-> <<>>]
    /\ attempts = [r \in Reports |-> <<>>]
    /\ file = [r \in Reports |-> 0]

-----------------------------------------------------------------------------
(* The unit of work.  An UPDATE sets the columns whose value differs from   *)
(* the one the session loaded; the others keep what the table holds now.    *)

(* Variant: an UPDATE of every column, changed or not.                      *)
ColumnAlwaysWritten(stored, loaded, value) == value

Column(stored, loaded, value) == IF value = loaded THEN stored ELSE value

Flushed(stored, loaded, new) ==
    [status    |-> Column(stored.status, loaded.status, new.status),
     error     |-> Column(stored.error, loaded.error, new.error),
     completed |-> Column(stored.completed, loaded.completed, new.completed),
     enqueued  |-> Column(stored.enqueued, loaded.enqueued, new.enqueued),
     deleted   |-> Column(stored.deleted, loaded.deleted, new.deleted)]

UpdateRow(r, loaded, new) == row' = [row EXCEPT ![r] = Flushed(@, loaded, new)]

(* The commit of a handler that changed its snapshot from `loaded' to `new' *)
(* and added one event.                                                     *)
Commit(r, loaded, new, event) ==
    /\ UpdateRow(r, loaded, new)
    /\ events' = [events EXCEPT ![r] = Append(@, event)]

InsertReport(r) ==
    /\ row' = [row EXCEPT ![r] = NewRow]
    /\ events' = [events EXCEPT ![r] = Append(@, "REQUESTED")]

InsertAttempt(r, no) ==
    attempts' = [attempts EXCEPT ![r] = Append(@, [no |-> no, status |-> "STARTED"])]

(* Variant: the attempt closed is the first of the report.                  *)
CloseFirstAttempt(r, i, status) ==
    attempts' = [attempts EXCEPT ![r][1].status = status]

CloseAttempt(r, i, status) ==
    attempts' = [attempts EXCEPT ![r][i].status = status]

(* report_files.file_type is VARCHAR(32): the media type of a PDF has 15    *)
(* characters, the one of an Excel workbook has 65.                         *)
ContentTypeLength(r) == IF r \in ExcelReports THEN 65 ELSE 15
FileTypeWidth == 32

FileRowFits(r) == ContentTypeLength(r) <= FileTypeWidth

(* The INSERT into report_files is accepted: the report has no file yet     *)
(* (report_request_id is unique) and every column fits.                     *)
FileRowAccepted(r) == file[r] = 0 /\ FileRowFits(r)

-----------------------------------------------------------------------------
(* What each operation of ReportService assigns to the snapshot it works on *)

EnqueuedRow(s) == [s EXCEPT !.enqueued = TRUE]

(* Variant: the note of the previous retry stays.                           *)
StartedRowKeepingError(s) == [s EXCEPT !.status = "STARTED"]

StartedRow(s) == [s EXCEPT !.status = "STARTED", !.error = NoError]
RetryRow(s, e) == [s EXCEPT !.status = "RETRY", !.error = e]
CanceledRow(s) == [s EXCEPT !.status = "CANCELED", !.completed = TRUE]
SuccessRow(s) == [s EXCEPT !.status = "SUCCESS", !.error = NoError, !.completed = TRUE]
FailureRow(s, e) == [s EXCEPT !.status = "FAILURE", !.error = e, !.completed = TRUE]
DeletedRow(s) == [s EXCEPT !.deleted = TRUE]

=============================================================================
