---------------------------- MODULE ReportPipeline ---------------------------
(***************************************************************************)
(* The life of a report, from POST /reports to its last attempt: the HTTP  *)
(* handlers of app/api/routes/reports.py that create and cancel it, the    *)
(* Celery task of app/tasks/report_tasks.py that generates it, and the     *)
(* worker node that runs the task in a pool of processes.  They share the  *)
(* tables (ReportStore), the task channel (TaskQueue) and the stored       *)
(* objects, and nothing orders their steps.                                *)
(*                                                                         *)
(* Every await of the code on the database, the broker or the storage is a *)
(* boundary between two actions; a commit, with the changes flushed before *)
(* it, is one action.                                                      *)
(***************************************************************************)
EXTENDS ReportStore, TaskQueue, FiniteSets

CONSTANTS
    Workers,        \* the pool processes of the worker node
    Deletes,        \* the DELETE /reports/{id} requests users send
    Expirable,      \* the reports whose retention period ends during a behaviour
    Faults,         \* what may go wrong, a subset of FaultKinds
    NoMessage       \* what an idle pool process works on

(* storage   - an upload raises OSError                                     *)
(* task      - the build or the upload raises another exception, or the     *)
(*             soft time limit is reached during them                       *)
(* broker    - a publication or a broadcast fails and nothing was sent      *)
(* ambiguous - a publication fails although the message was stored          *)
(* broadcast - a broadcast fails although it was sent                       *)
(* handler   - a database error ends a request or a task, or a pool process *)
(*             is killed (hard time limit, memory)                          *)
(* node      - the worker node restarts                                     *)
(* loop      - a pooled connection cannot be used by the event loop of a    *)
(*             later task: each task runs in an asyncio.run of its own on   *)
(*             one engine, and asyncpg ties a connection to its loop        *)
FaultKinds ==
    {"storage", "task", "broker", "ambiguous", "broadcast", "handler", "node", "loop"}

ASSUME PipelineAssumption ==
    /\ Expirable \subseteq Reports
    /\ Faults \subseteq FaultKinds
    /\ NoMessage \notin Message

VARIABLES
    post,       \* where the POST handler of each report is
    pc,         \* where each pool process is in _generate_report
    msg,        \* the message it executes
    snap,       \* the report in its session, as last loaded or committed
    count,      \* the attempt number it computed
    attempt,    \* the attempt it opened: an index of attempts
    warm,       \* the processes whose engine holds a pooled connection
    object,     \* the stored file: the attempt that wrote it, 0 if none is whole
    del,        \* where each DELETE request is
    target,     \* the report it cancels
    delSnap,    \* the report in its session
    expired     \* the reports whose expires_at has passed

workerVars == <<pc, msg, snap, count, attempt, warm>>
deleteVars == <<del, target, delSnap>>
vars == <<storeVars, queueVars, post, workerVars, object, deleteVars, expired>>

PostSteps == {"new", "created", "sent", "unsent", "accepted", "rejected", "dead"}
WorkerSteps == {"idle", "load", "note", "count", "start", "build", "retry", "fail",
                "refresh", "cancel", "finish", "republish"}
DeleteSteps == {"new", "revoke", "commit", "done"}

TypeOK ==
    /\ StoreTypeOK
    /\ QueueTypeOK
    /\ post \in [Reports -> PostSteps]
    /\ pc \in [Workers -> WorkerSteps]
    /\ msg \in [Workers -> Message \cup {NoMessage}]
    /\ \A w \in Workers : msg[w] = NoMessage <=> pc[w] = "idle"
    /\ snap \in [Workers -> Row]
    /\ count \in [Workers -> Nat]
    /\ attempt \in [Workers -> Nat]
    /\ warm \subseteq Workers
    /\ object \in [Reports -> Nat]
    /\ del \in [Deletes -> DeleteSteps]
    /\ target \in [Deletes -> Reports]
    /\ delSnap \in [Deletes -> Row]
    /\ expired \subseteq Reports

Init ==
    /\ StoreInit
    /\ QueueInit
    /\ post = [r \in Reports |-> "new"]
    /\ pc = [w \in Workers |-> "idle"]
    /\ msg = [w \in Workers |-> NoMessage]
    /\ snap = [w \in Workers |-> AbsentRow]
    /\ count = [w \in Workers |-> 0]
    /\ attempt = [w \in Workers |-> 0]
    /\ warm = {}
    /\ object = [r \in Reports |-> 0]
    /\ del = [d \in Deletes |-> "new"]
    /\ target \in [Deletes -> Reports]
    /\ delSnap = [d \in Deletes |-> AbsentRow]
    /\ expired = {}

Busy(w) == pc[w] # "idle"

Working(r) == {w \in Workers : Busy(w) /\ msg[w].report = r}

(* The names no message and no execution of the report uses at present.     *)
FreeCopies(r) ==
    Copies \ ({m.copy : m \in {n \in Pending : n.report = r}}
              \cup {msg[w].copy : w \in Working(r)})

-----------------------------------------------------------------------------
(* POST /reports.  Nobody else can have changed the row when the handler    *)
(* refreshes it after the insert in a way that matters to what it assigns   *)
(* later, so its session keeps NewRow.                                      *)

CreateReport(r) ==
    /\ post[r] = "new"
    /\ post' = [post EXCEPT ![r] = "created"]
    /\ InsertReport(r)
    /\ UNCHANGED <<attempts, file, queueVars, workerVars, object, deleteVars, expired>>

(* apply_async returns: the message is in the list, perhaps more than once. *)
Publish(r) ==
    /\ post[r] = "created"
    /\ post' = [post EXCEPT ![r] = "sent"]
    /\ \E copies \in (SUBSET Copies) \ {{}} : Enqueue(Messages(r, 0, copies))
    /\ UNCHANGED <<storeVars, workerVars, object, deleteVars, expired>>

(* apply_async raises; the message may be in the list all the same.         *)
PublishFails(r) ==
    /\ post[r] = "created"
    /\ post' = [post EXCEPT ![r] = "unsent"]
    /\ \/ "broker" \in Faults /\ UNCHANGED queueVars
       \/ "ambiguous" \in Faults /\ Enqueue(Messages(r, 0, Copies))
    /\ UNCHANGED <<storeVars, workerVars, object, deleteVars, expired>>

MarkEnqueued(r) ==
    /\ post[r] = "sent"
    /\ post' = [post EXCEPT ![r] = "accepted"]
    /\ Commit(r, NewRow, EnqueuedRow(NewRow), "ENQUEUED")
    /\ UNCHANGED <<attempts, file, queueVars, workerVars, object, deleteVars, expired>>

(* The 503 answer: the report is marked as failed first.                    *)
MarkEnqueueFailure(r) ==
    /\ post[r] = "unsent"
    /\ post' = [post EXCEPT ![r] = "rejected"]
    /\ Commit(r, NewRow, FailureRow(NewRow, ExcError), "FAILED")
    /\ UNCHANGED <<attempts, file, queueVars, workerVars, object, deleteVars, expired>>

(* The API process stops, or a database error ends the request: after one,  *)
(* the transaction is over or the report expired in its session, which      *)
(* cannot commit mark_enqueue_failure either.                               *)
PostDies(r) ==
    /\ "handler" \in Faults
    /\ post[r] \in {"created", "sent", "unsent"}
    /\ post' = [post EXCEPT ![r] = "dead"]
    /\ UNCHANGED <<storeVars, queueVars, workerVars, object, deleteVars, expired>>

-----------------------------------------------------------------------------
(* Retention, and GET /reports/{id}                                         *)

Expire(r) ==
    /\ r \in Expirable \ expired
    /\ Exists(r)
    /\ expired' = expired \cup {r}
    /\ UNCHANGED <<storeVars, queueVars, post, workerVars, object, deleteVars>>

(* _expire_report_if_needed: the first read after expires_at stamps         *)
(* deleted_at, and this and every later one answers 410.  deleted_at is     *)
(* never taken back, so reading and stamping need not be two steps.         *)
Gone(r) == row[r].deleted \/ r \in expired

StampDeleted(r) == UpdateRow(r, row[r], DeletedRow(row[r]))

GetReport(r) ==
    /\ Exists(r)
    /\ Gone(r)
    /\ ~row[r].deleted
    /\ StampDeleted(r)
    /\ UNCHANGED <<events, attempts, file, queueVars, post, workerVars, object,
                   deleteVars, expired>>

-----------------------------------------------------------------------------
(* DELETE /reports/{id}: the report is read, judged by its status, the task *)
(* revoked if its id is known, and only then the cancellation committed.    *)

EndDelete(d) ==
    /\ del' = [del EXCEPT ![d] = "done"]
    /\ delSnap' = [delSnap EXCEPT ![d] = AbsentRow]
    /\ UNCHANGED target

CancelGone(d) ==
    LET r == target[d] IN
    /\ del[d] = "new"
    /\ Exists(r)
    /\ Gone(r)
    /\ StampDeleted(r)
    /\ EndDelete(d)
    /\ UNCHANGED <<events, attempts, file, queueVars, post, workerVars, object, expired>>

(* 409 for a report that succeeded or failed; a canceled one is returned.   *)
CancelRefused(d) ==
    LET r == target[d] IN
    /\ del[d] = "new"
    /\ ~Gone(r)
    /\ row[r].status \in Final
    /\ EndDelete(d)
    /\ UNCHANGED <<storeVars, queueVars, post, workerVars, object, expired>>

CancelLoads(d) ==
    LET r == target[d] IN
    /\ del[d] = "new"
    /\ ~Gone(r)
    /\ row[r].status \in Unfinished
    /\ del' = [del EXCEPT ![d] = IF row[r].enqueued THEN "revoke" ELSE "commit"]
    /\ delSnap' = [delSnap EXCEPT ![d] = row[r]]
    /\ UNCHANGED <<storeVars, queueVars, post, workerVars, object, target, expired>>

(* Variant: the cancellation is revoked but not saved.                      *)
CancelRevokesOnly(d) ==
    /\ del[d] = "revoke"
    /\ Broadcast(target[d])
    /\ EndDelete(d)
    /\ UNCHANGED <<storeVars, post, workerVars, object, expired>>

(* A CeleryError of the broadcast is logged, and the request goes on.       *)
CancelRevokes(d) ==
    /\ del[d] = "revoke"
    /\ del' = [del EXCEPT ![d] = "commit"]
    /\ \/ Broadcast(target[d])
       \/ "broker" \in Faults /\ UNCHANGED queueVars
    /\ UNCHANGED <<storeVars, post, workerVars, object, target, delSnap, expired>>

CancelCommits(d) ==
    /\ del[d] = "commit"
    /\ Commit(target[d], delSnap[d], CanceledRow(delSnap[d]), "CANCELED")
    /\ EndDelete(d)
    /\ UNCHANGED <<attempts, file, queueVars, post, workerVars, object, expired>>

(* The broadcast raises an error that is no CeleryError, sent or not, or    *)
(* the database does: the request ends with 500 and commits nothing.        *)
CancelDies(d) ==
    /\ \/ /\ del[d] = "revoke"
          /\ \/ "broker" \in Faults /\ UNCHANGED queueVars
             \/ "broadcast" \in Faults /\ Broadcast(target[d])
       \/ /\ "handler" \in Faults
          /\ del[d] \in {"revoke", "commit"}
          /\ UNCHANGED queueVars
    /\ EndDelete(d)
    /\ UNCHANGED <<storeVars, post, workerVars, object, expired>>

-----------------------------------------------------------------------------
(* The worker node                                                          *)

NodeReceives(m) ==
    /\ Receive(m)
    /\ UNCHANGED <<storeVars, post, workerVars, object, deleteVars, expired>>

NodeDiscards(m) ==
    /\ Discard(m)
    /\ UNCHANGED <<storeVars, post, workerVars, object, deleteVars, expired>>

NodeRevokes(r) ==
    /\ RevokeArrives(r)
    /\ UNCHANGED <<storeVars, post, workerVars, object, deleteVars, expired>>

TaskStarts(w, m) ==
    /\ pc[w] = "idle"
    /\ Accept(m)
    /\ pc' = [pc EXCEPT ![w] = "load"]
    /\ msg' = [msg EXCEPT ![w] = m]
    /\ UNCHANGED <<storeVars, post, snap, count, attempt, warm, object, deleteVars, expired>>

GoTo(w, step) ==
    /\ pc' = [pc EXCEPT ![w] = step]
    /\ UNCHANGED msg

(* Variant: the process keeps the message of the task that is over.         *)
EndTaskHolding(w) ==
    /\ pc' = [pc EXCEPT ![w] = "idle"]
    /\ snap' = [snap EXCEPT ![w] = AbsentRow]
    /\ count' = [count EXCEPT ![w] = 0]
    /\ attempt' = [attempt EXCEPT ![w] = 0]
    /\ UNCHANGED msg

(* The task is over, whether it returned or raised.                         *)
EndTask(w) ==
    /\ pc' = [pc EXCEPT ![w] = "idle"]
    /\ msg' = [msg EXCEPT ![w] = NoMessage]
    /\ snap' = [snap EXCEPT ![w] = AbsentRow]
    /\ count' = [count EXCEPT ![w] = 0]
    /\ attempt' = [attempt EXCEPT ![w] = 0]

(* The processes whose pooled connection, left by an earlier task, makes    *)
(* the first query of the next one fail.                                    *)
Unusable(w) == "loop" \in Faults /\ w \in warm

(* Variant: the cancellation is not looked for.                             *)
Missing(r) == ~Exists(r)

NothingToDo(r) == ~Exists(r) \/ row[r].status = "CANCELED"

TaskLoads(w) ==
    LET r == msg[w].report IN
    /\ pc[w] = "load"
    /\ ~Unusable(w)
    /\ warm' = IF "loop" \in Faults THEN warm \cup {w} ELSE warm
    /\ \/ /\ NothingToDo(r)
          /\ EndTask(w)
       \/ /\ ~NothingToDo(r)
          /\ GoTo(w, IF msg[w].retries > 0 THEN "note" ELSE "count")
          /\ snap' = [snap EXCEPT ![w] = row[r]]
          /\ UNCHANGED <<count, attempt>>
    /\ UNCHANGED <<storeVars, queueVars, post, object, deleteVars, expired>>

(* The query raises; the pool may drop the connection or offer it again.    *)
LoadFails(w) ==
    /\ pc[w] = "load"
    /\ Unusable(w)
    /\ EndTask(w)
    /\ warm' \in {warm, warm \ {w}}
    /\ UNCHANGED <<storeVars, queueVars, post, object, deleteVars, expired>>

(* The row and the event a step of the task commits; the session then       *)
(* holds what it assigned, not what the table has.                          *)
TaskCommits(w, new, event) ==
    /\ Commit(msg[w].report, snap[w], new, event)
    /\ snap' = [snap EXCEPT ![w] = new]

RecordRetry(w) ==
    /\ pc[w] = "note"
    /\ TaskCommits(w, RetryRow(snap[w], msg[w].retries), "RETRIED")
    /\ GoTo(w, "count")
    /\ UNCHANGED <<attempts, file, queueVars, post, count, attempt, warm, object,
                   deleteVars, expired>>

(* Variant: the count itself.                                               *)
AttemptsSoFar(r) == Len(attempts[r])

NextAttemptNo(r) == Len(attempts[r]) + 1

CountAttempts(w) ==
    /\ pc[w] = "count"
    /\ count' = [count EXCEPT ![w] = NextAttemptNo(msg[w].report)]
    /\ GoTo(w, "start")
    /\ UNCHANGED <<storeVars, queueVars, post, snap, attempt, warm, object,
                   deleteVars, expired>>

RecordStarted(w) ==
    LET r == msg[w].report IN
    /\ pc[w] = "start"
    /\ TaskCommits(w, StartedRow(snap[w]), "STARTED")
    /\ InsertAttempt(r, count[w])
    /\ attempt' = [attempt EXCEPT ![w] = Len(attempts[r]) + 1]
    /\ GoTo(w, "build")
    /\ UNCHANGED <<file, queueVars, post, count, warm, object, deleteVars, expired>>

-----------------------------------------------------------------------------
(* Generation: build_report and upload_bytes, the body of the try           *)

Upload(w) ==
    /\ pc[w] = "build"
    /\ object' = [object EXCEPT ![msg[w].report] = attempt[w]]
    /\ GoTo(w, "refresh")
    /\ UNCHANGED <<storeVars, queueVars, post, snap, count, attempt, warm,
                   deleteVars, expired>>

(* Uploads that stop before anything is written or in the middle of         *)
(* write_bytes, which truncates the file first.                             *)
Interrupt(ws) ==
    \E torn \in SUBSET {msg[w].report : w \in {v \in ws : pc[v] = "build"}} :
        object' = [r \in Reports |-> IF r \in torn THEN 0 ELSE object[r]]

(* Variant: one retry too many.                                             *)
RetriesLeftOrEqual(m) == m.retries <= MaxRetries

RetriesLeft(m) == m.retries < MaxRetries

(* An OSError; the message says how many retries it has had.                *)
UploadFails(w) ==
    /\ "storage" \in Faults
    /\ pc[w] = "build"
    /\ Interrupt({w})
    /\ GoTo(w, IF RetriesLeft(msg[w]) THEN "retry" ELSE "fail")
    /\ UNCHANGED <<storeVars, queueVars, post, snap, count, attempt, warm,
                   deleteVars, expired>>

(* Any other exception: of the builder, of S3 (its errors are no OSError),  *)
(* or the soft time limit.                                                  *)
GenerationFails(w) ==
    /\ "task" \in Faults
    /\ pc[w] = "build"
    /\ Interrupt({w})
    /\ GoTo(w, "fail")
    /\ UNCHANGED <<storeVars, queueVars, post, snap, count, attempt, warm,
                   deleteVars, expired>>

(* Variant: the retry is recorded as in RecordRetry, the attempt left open. *)
RecordRetryAttemptOpen(w) ==
    /\ pc[w] = "retry"
    /\ TaskCommits(w, RetryRow(snap[w], ExcError), "RETRIED")
    /\ GoTo(w, "republish")
    /\ UNCHANGED <<attempts, file, queueVars, post, count, attempt, warm, object,
                   deleteVars, expired>>

RecordRetryAttempt(w) ==
    LET r == msg[w].report IN
    /\ pc[w] = "retry"
    /\ TaskCommits(w, RetryRow(snap[w], ExcError), "RETRIED")
    /\ CloseAttempt(r, attempt[w], "RETRY")
    /\ GoTo(w, "republish")
    /\ UNCHANGED <<file, queueVars, post, count, attempt, warm, object, deleteVars, expired>>

(* Variant: the retry keeps the number of its predecessor.                  *)
SameRetries(m) == m.retries

NextRetries(m) == m.retries + 1

(* Celery's own limit, retry_kwargs: Task.retry raises beyond it.           *)
RetryAllowed(m) == NextRetries(m) <= MaxRetries

(* TransientStorageError: autoretry publishes the message again, one retry  *)
(* further, under the same task id.                                         *)
Republish(w) ==
    LET r == msg[w].report IN
    /\ pc[w] = "republish"
    /\ RetryAllowed(msg[w])
    /\ \E extra \in SUBSET FreeCopies(r) :
          Enqueue(Messages(r, NextRetries(msg[w]), {msg[w].copy} \cup extra))
    /\ EndTask(w)
    /\ UNCHANGED <<storeVars, post, warm, object, deleteVars, expired>>

(* The publication fails, or Celery has no retry left: the task is over     *)
(* and nobody retries it.                                                   *)
RepublishFails(w) ==
    /\ pc[w] = "republish"
    /\ "broker" \in Faults \/ ~RetryAllowed(msg[w])
    /\ EndTask(w)
    /\ UNCHANGED <<storeVars, queueVars, post, warm, object, deleteVars, expired>>

RecordFailure(w) ==
    LET r == msg[w].report IN
    /\ pc[w] = "fail"
    /\ Commit(r, snap[w], FailureRow(snap[w], ExcError), "FAILED")
    /\ CloseAttempt(r, attempt[w], "FAILURE")
    /\ EndTask(w)
    /\ UNCHANGED <<file, queueVars, post, warm, object, deleteVars, expired>>

Refresh(w) ==
    LET r == msg[w].report IN
    /\ pc[w] = "refresh"
    /\ snap' = [snap EXCEPT ![w] = row[r]]
    /\ GoTo(w, IF row[r].status = "CANCELED" THEN "cancel" ELSE "finish")
    /\ UNCHANGED <<storeVars, queueVars, post, count, attempt, warm, object,
                   deleteVars, expired>>

RecordCanceled(w) ==
    /\ pc[w] = "cancel"
    /\ CloseAttempt(msg[w].report, attempt[w], "CANCELED")
    /\ EndTask(w)
    /\ UNCHANGED <<row, events, file, queueVars, post, warm, object, deleteVars, expired>>

(* Variant: the file is built but not added to the session.                 *)
RecordSuccessWithoutFile(w) ==
    LET r == msg[w].report IN
    /\ pc[w] = "finish"
    /\ FileRowAccepted(r)
    /\ Commit(r, snap[w], SuccessRow(snap[w]), "SUCCEEDED")
    /\ CloseAttempt(r, attempt[w], "SUCCESS")
    /\ EndTask(w)
    /\ UNCHANGED <<file, queueVars, post, warm, object, deleteVars, expired>>

(* The refresh after the commit assigns nothing; it matters only where its  *)
(* failure is answered to somebody (EagerPipeline).                         *)
RecordSuccess(w) ==
    LET r == msg[w].report IN
    /\ pc[w] = "finish"
    /\ FileRowAccepted(r)
    /\ Commit(r, snap[w], SuccessRow(snap[w]), "SUCCEEDED")
    /\ CloseAttempt(r, attempt[w], "SUCCESS")
    /\ file' = [file EXCEPT ![r] = attempt[w]]
    /\ EndTask(w)
    /\ UNCHANGED <<queueVars, post, warm, object, deleteVars, expired>>

(* The INSERT of the file is refused: the transaction is rolled back, and   *)
(* the exception is raised outside the try, where nothing records it.       *)
RecordSuccessFails(w) ==
    /\ pc[w] = "finish"
    /\ ~FileRowAccepted(msg[w].report)
    /\ EndTask(w)
    /\ UNCHANGED <<storeVars, queueVars, post, warm, object, deleteVars, expired>>

(* A database error outside the try, or the process is killed and replaced. *)
TaskDies(w) ==
    /\ "handler" \in Faults
    /\ Busy(w)
    /\ Interrupt({w})
    /\ EndTask(w)
    /\ warm' \in {warm, warm \ {w}}
    /\ UNCHANGED <<storeVars, queueVars, post, deleteVars, expired>>

(* The node restarts with its pool: running tasks, already acknowledged,    *)
(* are lost.                                                                *)
NodeRestarts ==
    /\ "node" \in Faults
    /\ NodeRestart
    /\ Interrupt(Workers)
    /\ pc' = [w \in Workers |-> "idle"]
    /\ msg' = [w \in Workers |-> NoMessage]
    /\ snap' = [w \in Workers |-> AbsentRow]
    /\ count' = [w \in Workers |-> 0]
    /\ attempt' = [w \in Workers |-> 0]
    /\ warm' = {}
    /\ UNCHANGED <<storeVars, post, deleteVars, expired>>

-----------------------------------------------------------------------------

PostStep(r) ==
    \/ CreateReport(r) \/ Publish(r) \/ PublishFails(r)
    \/ MarkEnqueued(r) \/ MarkEnqueueFailure(r) \/ PostDies(r)

DeleteStep(d) ==
    \/ CancelGone(d) \/ CancelRefused(d) \/ CancelLoads(d)
    \/ CancelRevokes(d) \/ CancelCommits(d) \/ CancelDies(d)

TaskStep(w) ==
    \/ TaskLoads(w) \/ LoadFails(w) \/ RecordRetry(w) \/ CountAttempts(w)
    \/ RecordStarted(w) \/ Upload(w) \/ UploadFails(w) \/ GenerationFails(w)
    \/ RecordRetryAttempt(w) \/ Republish(w) \/ RepublishFails(w)
    \/ RecordFailure(w) \/ Refresh(w) \/ RecordCanceled(w)
    \/ RecordSuccess(w) \/ RecordSuccessFails(w) \/ TaskDies(w)

NodeStep ==
    \/ \E m \in Pending : NodeReceives(m) \/ NodeDiscards(m)
    \/ \E w \in Workers, m \in Pending : TaskStarts(w, m)
    \/ \E r \in Reports : NodeRevokes(r)
    \/ NodeRestarts

Next ==
    \/ \E r \in Reports : PostStep(r) \/ Expire(r) \/ GetReport(r)
    \/ \E d \in Deletes : DeleteStep(d)
    \/ \E w \in Workers : TaskStep(w)
    \/ NodeStep

Spec == Init /\ [][Next]_vars

(* Requests, tasks and the node make progress when they can: uvicorn runs   *)
(* the handlers it accepted, the pool its tasks, the consumer its messages. *)
(* Nobody has to send a request, and nothing has to fail.                   *)
Fairness ==
    /\ \A r \in Reports : WF_vars(post[r] # "new" /\ PostStep(r))
    /\ \A r \in Reports : WF_vars(NodeRevokes(r))
    /\ \A d \in Deletes : WF_vars(del[d] # "new" /\ DeleteStep(d))
    /\ \A w \in Workers : WF_vars(TaskStep(w))
    /\ WF_vars(\E m \in Pending : NodeReceives(m) \/ NodeDiscards(m))
    /\ WF_vars(\E w \in Workers, m \in Pending : TaskStarts(w, m))

FairSpec == Spec /\ Fairness

=============================================================================
