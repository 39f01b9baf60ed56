--------------------------- MODULE PipelineProofs ----------------------------
(***************************************************************************)
(* Theorems about the report pipeline, for any number of reports, pool     *)
(* processes, DELETE requests, copies and retries, and any set of faults.  *)
(***************************************************************************)
EXTENDS PipelineProperties, SequenceTheorems, TLAPS

-----------------------------------------------------------------------------
(* The unit of work                                                         *)

(* A commit of well-formed snapshots leaves a well-formed row.              *)
LEMMA FlushedIsRow ==
    ASSUME NEW stored \in Row, NEW loaded \in Row, NEW new \in Row
    PROVE  Flushed(stored, loaded, new) \in Row
BY DEF Flushed, Column, Row

(* The values of error_message the code assigns.                            *)
LEMMA ErrorValues ==
    NoError \in Errors /\ ExcError \in Errors /\ 0..MaxRetries \subseteq Errors
BY RetriesAssumption DEF NoError, ExcError, Errors

(* Every row transformation of ReportService yields a row.                  *)
LEMMA TransformedRows ==
    ASSUME NEW s \in Row, NEW e \in Errors
    PROVE  /\ EnqueuedRow(s) \in Row
           /\ StartedRow(s) \in Row
           /\ RetryRow(s, e) \in Row
           /\ CanceledRow(s) \in Row
           /\ SuccessRow(s) \in Row
           /\ FailureRow(s, e) \in Row
           /\ DeletedRow(s) \in Row
<1>1. EnqueuedRow(s) \in Row /\ DeletedRow(s) \in Row
    BY DEF EnqueuedRow, DeletedRow, Row
<1>2. StartedRow(s) \in Row
    BY ErrorValues DEF StartedRow, Row, Statuses, Unfinished, Final
<1>3. RetryRow(s, e) \in Row
    BY DEF RetryRow, Row, Statuses, Unfinished, Final
<1>4. CanceledRow(s) \in Row
    BY DEF CanceledRow, Row, Statuses, Unfinished, Final
<1>5. SuccessRow(s) \in Row
    BY ErrorValues DEF SuccessRow, Row, Statuses, Unfinished, Final
<1>6. FailureRow(s, e) \in Row
    BY DEF FailureRow, Row, Statuses, Unfinished, Final
<1>7. QED
    BY <1>1, <1>2, <1>3, <1>4, <1>5, <1>6

(* The rows a report starts with.                                           *)
LEMMA InitialRows == NewRow \in Row /\ AbsentRow \in Row
BY ErrorValues DEF NewRow, AbsentRow, Row, Statuses, Unfinished, Final

(* A commit preserves the types of the tables it writes.                    *)
LEMMA CommitType ==
    ASSUME StoreTypeOK, NEW r \in Reports, NEW loaded \in Row, NEW new \in Row,
           NEW event \in EventTypes, Commit(r, loaded, new, event)
    PROVE  /\ row' \in [Reports -> Row]
           /\ events' \in [Reports -> Seq(EventTypes)]
<1>1. Flushed(row[r], loaded, new) \in Row
    BY FlushedIsRow DEF StoreTypeOK
<1>2. Append(events[r], event) \in Seq(EventTypes)
    BY AppendProperties DEF StoreTypeOK
<1>3. QED
    BY <1>1, <1>2 DEF StoreTypeOK, Commit, UpdateRow

(* So does the insertion of an attempt...                                   *)
LEMMA InsertAttemptType ==
    ASSUME StoreTypeOK, NEW r \in Reports, NEW no \in Nat, InsertAttempt(r, no)
    PROVE  attempts' \in [Reports -> Seq(Attempt)]
<1>1. [no |-> no, status |-> "STARTED"] \in Attempt
    BY DEF Attempt, AttemptStatuses, Statuses, Unfinished, Final
<1>2. Append(attempts[r], [no |-> no, status |-> "STARTED"]) \in Seq(Attempt)
    BY <1>1, AppendProperties DEF StoreTypeOK
<1>3. QED
    BY <1>2 DEF StoreTypeOK, InsertAttempt

(* ... and the end of one.                                                  *)
LEMMA CloseAttemptType ==
    ASSUME StoreTypeOK, NEW r \in Reports, NEW i \in Nat, NEW status \in AttemptStatuses,
           CloseAttempt(r, i, status)
    PROVE  attempts' \in [Reports -> Seq(Attempt)]
<1> DEFINE closed == [attempts[r] EXCEPT ![i].status = status]
<1>1. attempts[r] \in Seq(Attempt)
    BY DEF StoreTypeOK
<1>2. closed \in Seq(Attempt)
    <2>1. CASE i \in 1..Len(attempts[r])
        <3>1. attempts[r][i] \in Attempt
            BY <1>1, <2>1, ElementOfSeq
        <3>2. [attempts[r][i] EXCEPT !.status = status] \in Attempt
            BY <3>1 DEF Attempt
        <3>3. QED
            BY <1>1, <2>1, <3>2, ExceptSeq
    <2>2. CASE i \notin 1..Len(attempts[r])
        <3>1. closed = attempts[r]
            BY <1>1, <2>2, LenProperties
        <3>2. QED
            BY <1>1, <3>1
    <2>3. QED
        BY <2>1, <2>2
<1>3. attempts' = [attempts EXCEPT ![r] = closed]
    BY DEF CloseAttempt, StoreTypeOK
<1>4. QED
    BY <1>2, <1>3 DEF StoreTypeOK

-----------------------------------------------------------------------------
(* Type correctness                                                         *)

(* The strengthening that makes TypeOK inductive: a task that is about to   *)
(* publish its retry has one left, so the next number is still a retry      *)
(* number.                                                                  *)
RetriesRemain ==
    \A w \in Workers :
        pc[w] \in {"retry", "republish"} => msg[w].retries < MaxRetries

TypeInv == TypeOK /\ RetriesRemain

(* A publication sends messages of the right type.                          *)
LEMMA MessagesType ==
    ASSUME NEW r \in Reports, NEW k \in 0..MaxRetries, NEW copies \in SUBSET Copies
    PROVE  Messages(r, k, copies) \subseteq Message
BY DEF Messages, Message

(* Initially every table is empty and nobody is at work.                    *)
LEMMA TypeInit == Init => TypeInv
<1> SUFFICES ASSUME Init PROVE TypeInv
    OBVIOUS
<1>1. StoreTypeOK
    BY InitialRows DEF Init, StoreInit, StoreTypeOK
<1>2. QueueTypeOK
    BY DEF Init, QueueInit, QueueTypeOK
<1>3. QED
    BY <1>1, <1>2, InitialRows
    DEF Init, TypeInv, TypeOK, RetriesRemain, PostSteps, WorkerSteps, DeleteSteps

(* The POST handler of a report keeps the types.                            *)
LEMMA PostType ==
    ASSUME TypeInv, NEW r \in Reports, PostStep(r)
    PROVE  TypeInv'
<1> USE DEF TypeInv, TypeOK, RetriesRemain, workerVars, deleteVars, PostSteps
<1>1. CASE CreateReport(r)
    <2>1. row' \in [Reports -> Row] /\ events' \in [Reports -> Seq(EventTypes)]
        BY <1>1, InitialRows, AppendProperties
        DEF CreateReport, InsertReport, StoreTypeOK, EventTypes
    <2>2. QED
        BY <1>1, <2>1 DEF CreateReport, StoreTypeOK, QueueTypeOK, queueVars
<1>2. CASE Publish(r)
    <2>1. QueueTypeOK'
        BY <1>2, MessagesType, RetriesAssumption DEF Publish, Enqueue, QueueTypeOK
    <2>2. QED
        BY <1>2, <2>1 DEF Publish, StoreTypeOK, storeVars
<1>3. CASE PublishFails(r)
    <2>1. QueueTypeOK'
        BY <1>3, MessagesType, RetriesAssumption
        DEF PublishFails, Enqueue, QueueTypeOK, queueVars
    <2>2. QED
        BY <1>3, <2>1 DEF PublishFails, StoreTypeOK, storeVars
<1>4. CASE MarkEnqueued(r)
    <2>1. row' \in [Reports -> Row] /\ events' \in [Reports -> Seq(EventTypes)]
        BY <1>4, InitialRows, TransformedRows, ErrorValues, CommitType
        DEF MarkEnqueued, EventTypes
    <2>2. QED
        BY <1>4, <2>1 DEF MarkEnqueued, StoreTypeOK, QueueTypeOK, queueVars
<1>5. CASE MarkEnqueueFailure(r)
    <2>1. row' \in [Reports -> Row] /\ events' \in [Reports -> Seq(EventTypes)]
        BY <1>5, InitialRows, TransformedRows, ErrorValues, CommitType
        DEF MarkEnqueueFailure, EventTypes
    <2>2. QED
        BY <1>5, <2>1 DEF MarkEnqueueFailure, StoreTypeOK, QueueTypeOK, queueVars
<1>6. CASE PostDies(r)
    BY <1>6 DEF PostDies, StoreTypeOK, QueueTypeOK, storeVars, queueVars
<1>7. QED
    BY <1>1, <1>2, <1>3, <1>4, <1>5, <1>6 DEF PostStep

(* So do the end of the retention period and a read after it.               *)
LEMMA StampType ==
    ASSUME TypeInv, NEW r \in Reports, StampDeleted(r)
    PROVE  row' \in [Reports -> Row]
BY FlushedIsRow, TransformedRows, ErrorValues
DEF TypeInv, TypeOK, StoreTypeOK, StampDeleted, UpdateRow

(* ... and they keep every other type too.                                  *)
LEMMA RetentionType ==
    ASSUME TypeInv, NEW r \in Reports, Expire(r) \/ GetReport(r)
    PROVE  TypeInv'
<1> USE DEF TypeInv, TypeOK, RetriesRemain, workerVars, deleteVars
<1>1. CASE Expire(r)
    BY <1>1 DEF Expire, StoreTypeOK, QueueTypeOK, storeVars, queueVars
<1>2. CASE GetReport(r)
    BY <1>2, StampType DEF GetReport, StoreTypeOK, QueueTypeOK, queueVars
<1>3. QED
    BY <1>1, <1>2

(* A DELETE request keeps the types.                                        *)
LEMMA DeleteType ==
    ASSUME TypeInv, NEW d \in Deletes, DeleteStep(d)
    PROVE  TypeInv'
<1> USE DEF TypeInv, TypeOK, RetriesRemain, workerVars, DeleteSteps
<1>1. CASE CancelGone(d)
    BY <1>1, StampType, InitialRows
    DEF CancelGone, EndDelete, StoreTypeOK, QueueTypeOK, queueVars
<1>2. CASE CancelRefused(d)
    BY <1>2, InitialRows
    DEF CancelRefused, EndDelete, StoreTypeOK, QueueTypeOK, storeVars, queueVars
<1>3. CASE CancelLoads(d)
    BY <1>3 DEF CancelLoads, StoreTypeOK, QueueTypeOK, storeVars, queueVars
<1>4. CASE CancelRevokes(d)
    <2>1. StoreTypeOK' /\ UNCHANGED <<post, pc, msg, snap, count, attempt, warm, object, expired>>
        BY <1>4 DEF CancelRevokes, StoreTypeOK, storeVars
    <2>2. QueueTypeOK'
        BY <1>4 DEF CancelRevokes, Broadcast, QueueTypeOK, queueVars
    <2>3. QED
        BY <1>4, <2>1, <2>2 DEF CancelRevokes
<1>5. CASE CancelCommits(d)
    <2>1. row' \in [Reports -> Row] /\ events' \in [Reports -> Seq(EventTypes)]
        BY <1>5, TransformedRows, ErrorValues, CommitType DEF CancelCommits, EventTypes
    <2>2. QED
        BY <1>5, <2>1, InitialRows
        DEF CancelCommits, EndDelete, StoreTypeOK, QueueTypeOK, queueVars
<1>6. CASE CancelDies(d)
    <2>1. StoreTypeOK' /\ UNCHANGED <<post, pc, msg, snap, count, attempt, warm, object, expired>>
        BY <1>6 DEF CancelDies, StoreTypeOK, storeVars
    <2>2. QueueTypeOK'
        BY <1>6 DEF CancelDies, Broadcast, QueueTypeOK, queueVars
    <2>3. QED
        BY <1>6, <2>1, <2>2, InitialRows DEF CancelDies, EndDelete
<1>7. QED
    BY <1>1, <1>2, <1>3, <1>4, <1>5, <1>6 DEF DeleteStep

(* The node keeps the types.                                                *)
LEMMA NodeType ==
    ASSUME TypeInv, NodeStep
    PROVE  TypeInv'
<1> USE DEF TypeInv, TypeOK, RetriesRemain, workerVars, deleteVars
<1>1. ASSUME NEW m \in Pending, NodeReceives(m) \/ NodeDiscards(m)
      PROVE  TypeInv'
    BY <1>1
    DEF NodeReceives, NodeDiscards, Receive, Discard, Pending, StoreTypeOK, QueueTypeOK,
        storeVars
<1>2. ASSUME NEW w \in Workers, NEW m \in Pending, TaskStarts(w, m)
      PROVE  TypeInv'
    <2>1. m \in Message /\ m # NoMessage
        BY PipelineAssumption DEF Pending, QueueTypeOK
    <2>2. QED
        BY <1>2, <2>1
        DEF TaskStarts, Accept, StoreTypeOK, QueueTypeOK, storeVars, WorkerSteps
<1>3. ASSUME NEW r \in Reports, NodeRevokes(r)
      PROVE  TypeInv'
    BY <1>3 DEF NodeRevokes, RevokeArrives, StoreTypeOK, QueueTypeOK, storeVars
<1>4. CASE NodeRestarts
    <2>1. object' \in [Reports -> Nat]
        BY <1>4 DEF NodeRestarts, Interrupt
    <2>2. QED
        BY <1>4, <2>1, InitialRows
        DEF NodeRestarts, NodeRestart, StoreTypeOK, QueueTypeOK, storeVars, WorkerSteps
<1>5. QED
    BY <1>1, <1>2, <1>3, <1>4 DEF NodeStep

(* The end of a task leaves an idle process of the right shape.             *)
LEMMA EndTaskType ==
    ASSUME TypeInv, NEW w \in Workers, EndTask(w)
    PROVE  /\ pc' \in [Workers -> WorkerSteps]
           /\ msg' \in [Workers -> Message \cup {NoMessage}]
           /\ \A v \in Workers : msg'[v] = NoMessage <=> pc'[v] = "idle"
           /\ snap' \in [Workers -> Row]
           /\ count' \in [Workers -> Nat]
           /\ attempt' \in [Workers -> Nat]
           /\ RetriesRemain'
BY InitialRows DEF TypeInv, TypeOK, RetriesRemain, EndTask, WorkerSteps

(* So does an interrupted upload leave the objects.                         *)
LEMMA InterruptType ==
    ASSUME TypeInv, NEW ws \in SUBSET Workers, Interrupt(ws)
    PROVE  object' \in [Reports -> Nat]
BY DEF TypeInv, TypeOK, Interrupt

(* A task at work has a message, and what it commits has the right types.   *)
LEMMA TaskCommitType ==
    ASSUME TypeInv, NEW w \in Workers, NEW new \in Row, NEW event \in EventTypes,
           Busy(w), Commit(msg[w].report, snap[w], new, event)
    PROVE  /\ row' \in [Reports -> Row]
           /\ events' \in [Reports -> Seq(EventTypes)]
<1>1. msg[w].report \in Reports /\ snap[w] \in Row
    BY DEF TypeInv, TypeOK, Busy, Message
<1>2. QED
    BY <1>1, CommitType DEF TypeInv, TypeOK

(* A step of the task keeps the types.                                      *)
LEMMA TaskType ==
    ASSUME TypeInv, NEW w \in Workers, TaskStep(w)
    PROVE  TypeInv'
<1> USE DEF TypeInv, TypeOK, RetriesRemain, deleteVars
<1> DEFINE r == msg[w].report
<1>0. Busy(w) => msg[w] \in Message /\ r \in Reports /\ snap[w] \in Row
    BY DEF Busy, Message
<1>1. CASE TaskLoads(w)
    <2>1. ASSUME NothingToDo(r) PROVE TypeInv'
        BY <1>1, <2>1, EndTaskType DEF TaskLoads, StoreTypeOK, QueueTypeOK, storeVars, queueVars
    <2>2. ASSUME ~NothingToDo(r) PROVE TypeInv'
        BY <1>0, <1>1, <2>2
        DEF TaskLoads, Busy, GoTo, StoreTypeOK, QueueTypeOK, storeVars, queueVars, WorkerSteps
    <2>3. QED
        BY <2>1, <2>2
<1>2. CASE LoadFails(w)
    BY <1>2, EndTaskType DEF LoadFails, StoreTypeOK, QueueTypeOK, storeVars, queueVars
<1>3. CASE RecordRetry(w)
    <2>1. RetryRow(snap[w], msg[w].retries) \in Row
        BY <1>0, <1>3, TransformedRows, ErrorValues DEF RecordRetry, Busy, Message
    <2>2. row' \in [Reports -> Row] /\ events' \in [Reports -> Seq(EventTypes)]
        BY <1>3, <2>1, TaskCommitType DEF RecordRetry, TaskCommits, Busy, EventTypes
    <2>3. QED
        BY <1>3, <2>1, <2>2
        DEF RecordRetry, TaskCommits, GoTo, StoreTypeOK, QueueTypeOK, queueVars, WorkerSteps
<1>4. CASE CountAttempts(w)
    <2>1. NextAttemptNo(r) \in Nat
        BY <1>0, <1>4, LenProperties DEF CountAttempts, Busy, NextAttemptNo, StoreTypeOK
    <2>2. QED
        BY <1>4, <2>1
        DEF CountAttempts, GoTo, StoreTypeOK, QueueTypeOK, storeVars, queueVars, WorkerSteps
<1>5. CASE RecordStarted(w)
    <2>1. StartedRow(snap[w]) \in Row
        BY <1>0, <1>5, TransformedRows, ErrorValues DEF RecordStarted, Busy
    <2>2. row' \in [Reports -> Row] /\ events' \in [Reports -> Seq(EventTypes)]
        BY <1>5, <2>1, TaskCommitType DEF RecordStarted, TaskCommits, Busy, EventTypes
    <2>3. attempts' \in [Reports -> Seq(Attempt)]
        BY <1>0, <1>5, InsertAttemptType DEF RecordStarted, Busy
    <2>4. Len(attempts[r]) + 1 \in Nat
        BY <1>0, <1>5, LenProperties DEF RecordStarted, Busy, StoreTypeOK
    <2>5. QED
        BY <1>5, <2>1, <2>2, <2>3, <2>4
        DEF RecordStarted, TaskCommits, GoTo, StoreTypeOK, QueueTypeOK, queueVars, WorkerSteps
<1>6. CASE Upload(w)
    BY <1>6 DEF Upload, GoTo, StoreTypeOK, QueueTypeOK, storeVars, queueVars, WorkerSteps
<1>7. CASE UploadFails(w)
    <2>1. object' \in [Reports -> Nat]
        BY <1>7, InterruptType DEF UploadFails
    <2>2. QED
        BY <1>7, <2>1
        DEF UploadFails, RetriesLeft, GoTo, StoreTypeOK, QueueTypeOK, storeVars, queueVars,
            WorkerSteps
<1>8. CASE GenerationFails(w)
    <2>1. object' \in [Reports -> Nat]
        BY <1>8, InterruptType DEF GenerationFails
    <2>2. QED
        BY <1>8, <2>1
        DEF GenerationFails, GoTo, StoreTypeOK, QueueTypeOK, storeVars, queueVars, WorkerSteps
<1>9. CASE RecordRetryAttempt(w)
    <2>1. RetryRow(snap[w], ExcError) \in Row
        BY <1>0, <1>9, TransformedRows, ErrorValues DEF RecordRetryAttempt, Busy
    <2>2. row' \in [Reports -> Row] /\ events' \in [Reports -> Seq(EventTypes)]
        BY <1>9, <2>1, TaskCommitType DEF RecordRetryAttempt, TaskCommits, Busy, EventTypes
    <2>3. attempts' \in [Reports -> Seq(Attempt)]
        BY <1>0, <1>9, CloseAttemptType
        DEF RecordRetryAttempt, Busy, AttemptStatuses, Statuses, Unfinished, Final
    <2>4. QED
        BY <1>9, <2>1, <2>2, <2>3
        DEF RecordRetryAttempt, TaskCommits, GoTo, StoreTypeOK, QueueTypeOK, queueVars,
            WorkerSteps
<1>10. CASE Republish(w)
    <2>1. msg[w] \in Message /\ NextRetries(msg[w]) \in 0..MaxRetries
        BY <1>0, <1>10, RetriesAssumption DEF Republish, Busy, NextRetries, Message
    <2>2. ASSUME NEW extra \in SUBSET FreeCopies(r)
          PROVE  Messages(r, NextRetries(msg[w]), {msg[w].copy} \cup extra) \subseteq Message
        BY <1>0, <1>10, <2>1, MessagesType DEF Republish, Busy, FreeCopies, Message
    <2>3. QueueTypeOK'
        BY <1>10, <2>2 DEF Republish, Enqueue, QueueTypeOK
    <2>4. QED
        BY <1>10, <2>3, EndTaskType DEF Republish, StoreTypeOK, storeVars
<1>11. CASE RepublishFails(w)
    BY <1>11, EndTaskType DEF RepublishFails, StoreTypeOK, QueueTypeOK, storeVars, queueVars
<1>12. CASE RecordFailure(w)
    <2>1. FailureRow(snap[w], ExcError) \in Row
        BY <1>0, <1>12, TransformedRows, ErrorValues DEF RecordFailure, Busy
    <2>2. row' \in [Reports -> Row] /\ events' \in [Reports -> Seq(EventTypes)]
        BY <1>12, <2>1, TaskCommitType DEF RecordFailure, Busy, EventTypes
    <2>3. attempts' \in [Reports -> Seq(Attempt)]
        BY <1>0, <1>12, CloseAttemptType
        DEF RecordFailure, Busy, AttemptStatuses, Statuses, Unfinished, Final
    <2>4. QED
        BY <1>12, <2>2, <2>3, EndTaskType DEF RecordFailure, StoreTypeOK, QueueTypeOK, queueVars
<1>13. CASE Refresh(w)
    BY <1>0, <1>13
    DEF Refresh, Busy, GoTo, StoreTypeOK, QueueTypeOK, storeVars, queueVars, WorkerSteps
<1>14. CASE RecordCanceled(w)
    <2>1. attempts' \in [Reports -> Seq(Attempt)]
        BY <1>0, <1>14, CloseAttemptType
        DEF RecordCanceled, Busy, AttemptStatuses, Statuses, Unfinished, Final
    <2>2. QED
        BY <1>14, <2>1, EndTaskType DEF RecordCanceled, StoreTypeOK, QueueTypeOK, queueVars
<1>15. CASE RecordSuccess(w)
    <2>1. SuccessRow(snap[w]) \in Row
        BY <1>0, <1>15, TransformedRows, ErrorValues DEF RecordSuccess, Busy
    <2>2. row' \in [Reports -> Row] /\ events' \in [Reports -> Seq(EventTypes)]
        BY <1>15, <2>1, TaskCommitType DEF RecordSuccess, Busy, EventTypes
    <2>3. attempts' \in [Reports -> Seq(Attempt)]
        BY <1>0, <1>15, CloseAttemptType
        DEF RecordSuccess, Busy, AttemptStatuses, Statuses, Unfinished, Final
    <2>4. file' \in [Reports -> Nat]
        BY <1>15 DEF RecordSuccess, StoreTypeOK
    <2>5. QED
        BY <1>15, <2>2, <2>3, <2>4, EndTaskType
        DEF RecordSuccess, StoreTypeOK, QueueTypeOK, queueVars
<1>16. CASE RecordSuccessFails(w)
    BY <1>16, EndTaskType
    DEF RecordSuccessFails, StoreTypeOK, QueueTypeOK, storeVars, queueVars
<1>17. CASE TaskDies(w)
    <2>1. object' \in [Reports -> Nat]
        BY <1>17, InterruptType DEF TaskDies
    <2>2. QED
        BY <1>17, <2>1, EndTaskType DEF TaskDies, StoreTypeOK, QueueTypeOK, storeVars, queueVars
<1>18. QED
    BY <1>1, <1>2, <1>3, <1>4, <1>5, <1>6, <1>7, <1>8, <1>9, <1>10, <1>11, <1>12, <1>13,
       <1>14, <1>15, <1>16, <1>17 DEF TaskStep

(* Every step of the system keeps the types.                                *)
LEMMA TypeNext == TypeInv /\ [Next]_vars => TypeInv'
<1> SUFFICES ASSUME TypeInv, [Next]_vars PROVE TypeInv'
    OBVIOUS
<1>1. CASE Next
    BY <1>1, PostType, RetentionType, DeleteType, NodeType, TaskType DEF Next
<1>2. CASE UNCHANGED vars
    BY <1>2
    DEF vars, storeVars, queueVars, workerVars, deleteVars, TypeInv, TypeOK, RetriesRemain,
        StoreTypeOK, QueueTypeOK
<1>3. QED
    BY <1>1, <1>2

(* Every variable keeps its type; a task that publishes a retry always has  *)
(* one left.                                                                *)
THEOREM TypeInvariance == Spec => []TypeInv
BY TypeInit, TypeNext, PTL DEF Spec

(* TypeOK holds of every reachable state.                                   *)
THEOREM TypeCorrect == Spec => []TypeOK
<1>1. TypeInv => TypeOK
    BY DEF TypeInv
<1>2. QED
    BY <1>1, TypeInvariance, PTL

-----------------------------------------------------------------------------
(* One holder of every message                                              *)

(* Nothing can be at work on a report that its POST handler has not tried   *)
(* to publish yet.                                                          *)
UnpublishedIsIdle ==
    \A r \in Reports : post[r] \in {"new", "created"} =>
        /\ \A m \in Pending : m.report # r
        /\ \A w \in Workers : Busy(w) => msg[w].report # r

HolderInv == OneHolder /\ UnpublishedIsIdle

(* The invariant survives every step that adds no message and starts no     *)
(* task: messages may move between the list and the node, or disappear.     *)
LEMMA HolderFramed ==
    ASSUME HolderInv, Pending' \subseteq Pending, (queue \cap reserved)' = {},
           \A w \in Workers : Busy(w)' => Busy(w) /\ msg'[w] = msg[w],
           \A r \in Reports : post'[r] \in {"new", "created"}
                                => post[r] \in {"new", "created"}
    PROVE  HolderInv'
BY DEF HolderInv, OneHolder, UnpublishedIsIdle, SameTask, Pending

(* The messages of one publication differ in their copies.                  *)
LEMMA MessagesDiffer ==
    ASSUME NEW r \in Reports, NEW k \in Nat, NEW copies \in SUBSET Copies,
           NEW m \in Messages(r, k, copies), NEW n \in Messages(r, k, copies), SameTask(m, n)
    PROVE  m = n
BY DEF Messages, SameTask

(* Publication of a report adds messages to a channel that holds none of it.*)
LEMMA HolderPublish ==
    ASSUME TypeInv, HolderInv, NEW r \in Reports, NEW copies \in SUBSET Copies,
           post[r] = "created", post'[r] \notin {"new", "created"},
           \A q \in Reports : q # r => post'[q] = post[q],
           Enqueue(Messages(r, 0, copies)), UNCHANGED workerVars
    PROVE  HolderInv'
<1> DEFINE new == Messages(r, 0, copies)
<1>1. \A m \in new : m.report = r
    BY DEF Messages
<1>2. Pending' = Pending \cup new /\ \A m \in new : m \notin Pending
    BY <1>1 DEF Enqueue, Pending, HolderInv, UnpublishedIsIdle
<1>3. (queue \cap reserved)' = {}
    BY <1>2 DEF Enqueue, Pending, HolderInv, OneHolder
<1>4. \A m, n \in Pending' : SameTask(m, n) => m = n
    <2>1. ASSUME NEW m \in new, NEW n \in Pending PROVE ~SameTask(m, n) /\ ~SameTask(n, m)
        BY <1>1, <2>1 DEF SameTask, HolderInv, UnpublishedIsIdle
    <2>2. \A m, n \in new : SameTask(m, n) => m = n
        BY MessagesDiffer
    <2>3. QED
        BY <1>2, <2>1, <2>2 DEF HolderInv, OneHolder
<1>5. \A w \in Workers, m \in Pending' : Busy(w)' => ~SameTask(msg'[w], m)
    BY <1>1, <1>2 DEF workerVars, Busy, SameTask, HolderInv, OneHolder, UnpublishedIsIdle
<1>6. \A v, w \in Workers :
        Busy(v)' /\ Busy(w)' /\ SameTask(msg'[v], msg'[w]) => v = w
    BY DEF workerVars, Busy, HolderInv, OneHolder
<1>7. UnpublishedIsIdle'
    BY <1>1, <1>2 DEF workerVars, Busy, HolderInv, UnpublishedIsIdle
<1>8. QED
    BY <1>3, <1>4, <1>5, <1>6, <1>7 DEF HolderInv, OneHolder, SameTask

(* A process that takes a message takes it out of the channel.              *)
LEMMA HolderStart ==
    ASSUME TypeInv, HolderInv, NEW w \in Workers, NEW m \in Pending, TaskStarts(w, m)
    PROVE  HolderInv'
<1>1. Pending' = Pending \ {m} /\ (queue \cap reserved)' = {} /\ m \in Pending
    BY DEF TaskStarts, Accept, Pending, HolderInv, OneHolder
<1>2. ~Busy(w) /\ Busy(w)' /\ msg'[w] = m
    BY DEF TaskStarts, Busy, TypeInv, TypeOK
<1>3. \A v \in Workers : v # w => (Busy(v)' <=> Busy(v)) /\ msg'[v] = msg[v]
    BY DEF TaskStarts, Busy, TypeInv, TypeOK
<1>4. post' = post
    BY DEF TaskStarts
<1>5. \A k, n \in Pending' : SameTask(k, n) => k = n
    BY <1>1 DEF HolderInv, OneHolder
<1>6. \A v \in Workers, n \in Pending' : Busy(v)' => ~SameTask(msg'[v], n)
    BY <1>1, <1>2, <1>3 DEF HolderInv, OneHolder
<1>7. \A v \in Workers : v # w /\ Busy(v)' =>
            ~SameTask(msg'[v], msg'[w]) /\ ~SameTask(msg'[w], msg'[v])
    BY <1>1, <1>2, <1>3 DEF HolderInv, OneHolder, SameTask
<1>8. \A u, v \in Workers :
        Busy(u)' /\ Busy(v)' /\ SameTask(msg'[u], msg'[v]) => u = v
    BY <1>3, <1>7 DEF HolderInv, OneHolder
<1>9. UnpublishedIsIdle'
    BY <1>1, <1>2, <1>3, <1>4 DEF HolderInv, UnpublishedIsIdle
<1>10. QED
    BY <1>1, <1>5, <1>6, <1>8, <1>9 DEF HolderInv, OneHolder, SameTask

(* A retry takes the place of its execution, and extra copies take names    *)
(* that are free.                                                           *)
LEMMA HolderRepublish ==
    ASSUME TypeInv, HolderInv, NEW w \in Workers, Republish(w)
    PROVE  HolderInv'
<1> DEFINE r == msg[w].report
           k == NextRetries(msg[w])
<1>1. PICK extra \in SUBSET FreeCopies(r) :
            Enqueue(Messages(r, k, {msg[w].copy} \cup extra))
    BY DEF Republish
<1> DEFINE new == Messages(r, k, {msg[w].copy} \cup extra)
<1>2. Busy(w) /\ msg[w] \in Message /\ r \in Reports /\ k \in Nat
    BY RetriesAssumption DEF Republish, Busy, TypeInv, TypeOK, Message, NextRetries
<1>3. Pending' = Pending \cup new /\ reserved' = reserved /\ queue' = queue \cup new
    BY <1>1 DEF Enqueue, Pending
<1>4. ~Busy(w)' /\ \A v \in Workers : v # w => (Busy(v)' <=> Busy(v)) /\ msg'[v] = msg[v]
    BY DEF Republish, EndTask, Busy, TypeInv, TypeOK
<1>5. \A n \in new : n.report = r /\ n.copy \in {msg[w].copy} \cup extra
    BY DEF Messages
<1>6. \A n \in new, m \in Pending : ~SameTask(n, m) /\ ~SameTask(m, n)
    <2>1. \A m \in Pending : m.report = r => m.copy \notin extra
        BY DEF FreeCopies
    <2>2. \A m \in Pending : m.report = r => m.copy # msg[w].copy
        BY <1>2 DEF HolderInv, OneHolder, SameTask
    <2>3. QED
        BY <1>5, <2>1, <2>2 DEF SameTask
<1>7. \A n \in new, v \in Workers : Busy(v)' => ~SameTask(msg'[v], n)
    <2>1. \A v \in Workers : Busy(v) /\ msg[v].report = r => msg[v].copy \notin extra
        BY DEF FreeCopies, Working
    <2>2. \A v \in Workers : v # w /\ Busy(v) /\ msg[v].report = r
                            => msg[v].copy # msg[w].copy
        BY <1>2 DEF HolderInv, OneHolder, SameTask
    <2>3. QED
        BY <1>4, <1>5, <2>1, <2>2 DEF SameTask
<1>8. \A m, n \in new : SameTask(m, n) => m = n
    <2>1. {msg[w].copy} \cup extra \in SUBSET Copies
        BY <1>2 DEF FreeCopies, Message
    <2>2. QED
        BY <1>2, <2>1, MessagesDiffer
<1>9. (queue \cap reserved)' = {}
    BY <1>3, <1>6, <1>8 DEF HolderInv, OneHolder, Pending, SameTask
<1>10. \A m, n \in Pending' : SameTask(m, n) => m = n
    BY <1>3, <1>6, <1>8 DEF HolderInv, OneHolder
<1>11. \A v \in Workers, m \in Pending' : Busy(v)' => ~SameTask(msg'[v], m)
    BY <1>3, <1>4, <1>7 DEF HolderInv, OneHolder
<1>12. \A u, v \in Workers :
        Busy(u)' /\ Busy(v)' /\ SameTask(msg'[u], msg'[v]) => u = v
    BY <1>4 DEF HolderInv, OneHolder
<1>13. UnpublishedIsIdle'
    <2>1. post' = post
        BY DEF Republish
    <2>2. post[r] \notin {"new", "created"}
        BY <1>2 DEF HolderInv, UnpublishedIsIdle
    <2>3. QED
        BY <1>3, <1>4, <1>5, <2>1, <2>2 DEF HolderInv, UnpublishedIsIdle
<1>14. QED
    BY <1>9, <1>10, <1>11, <1>12, <1>13 DEF HolderInv, OneHolder, SameTask

(* What the other steps of a task do to the messages: none.                 *)
LEMMA TaskKeepsMessages ==
    ASSUME TypeInv, NEW w \in Workers, TaskStep(w), ~Republish(w)
    PROVE  /\ UNCHANGED <<queue, reserved, post>>
           /\ \A v \in Workers : Busy(v)' => Busy(v) /\ msg'[v] = msg[v]
<1> USE DEF TypeInv, TypeOK, Busy, GoTo, EndTask, queueVars
<1>1. CASE TaskLoads(w) \/ LoadFails(w) \/ RecordRetry(w) \/ CountAttempts(w)
    BY <1>1 DEF TaskLoads, LoadFails, RecordRetry, CountAttempts
<1>2. CASE RecordStarted(w) \/ Upload(w) \/ UploadFails(w) \/ GenerationFails(w)
    BY <1>2 DEF RecordStarted, Upload, UploadFails, GenerationFails
<1>3. CASE RecordRetryAttempt(w) \/ RepublishFails(w) \/ RecordFailure(w) \/ Refresh(w)
    BY <1>3 DEF RecordRetryAttempt, RepublishFails, RecordFailure, Refresh
<1>4. CASE RecordCanceled(w) \/ RecordSuccess(w) \/ RecordSuccessFails(w) \/ TaskDies(w)
    BY <1>4 DEF RecordCanceled, RecordSuccess, RecordSuccessFails, TaskDies
<1>5. QED
    BY <1>1, <1>2, <1>3, <1>4 DEF TaskStep

(* Initially no message has a holder.                                       *)
LEMMA HolderInit == Init => HolderInv
BY DEF Init, QueueInit, HolderInv, OneHolder, UnpublishedIsIdle, Pending, Busy

(* Every step of the system leaves each message at most one holder.         *)
LEMMA HolderNext == TypeInv /\ HolderInv /\ [Next]_vars => HolderInv'
<1> SUFFICES ASSUME TypeInv, HolderInv, [Next]_vars PROVE HolderInv'
    OBVIOUS
<1>1. ASSUME NEW r \in Reports, PostStep(r) PROVE HolderInv'
    <2>1. CASE Publish(r)
        <3>1. PICK copies \in SUBSET Copies : Enqueue(Messages(r, 0, copies))
            BY <2>1 DEF Publish
        <3>2. QED
            BY <2>1, <3>1, HolderPublish DEF Publish, TypeInv, TypeOK
    <2>2. CASE PublishFails(r)
        <3>1. CASE Enqueue(Messages(r, 0, Copies))
            BY <2>2, <3>1, HolderPublish DEF PublishFails, TypeInv, TypeOK
        <3>2. CASE UNCHANGED queueVars
            BY <2>2, <3>2, HolderFramed
            DEF PublishFails, workerVars, queueVars, Pending, Busy, HolderInv, OneHolder,
                TypeInv, TypeOK
        <3>3. QED
            BY <2>2, <3>1, <3>2 DEF PublishFails
    <2>3. CASE CreateReport(r) \/ MarkEnqueued(r) \/ MarkEnqueueFailure(r) \/ PostDies(r)
        BY <2>3, HolderFramed
        DEF CreateReport, MarkEnqueued, MarkEnqueueFailure, PostDies, workerVars, queueVars,
            Pending, Busy, HolderInv, OneHolder, TypeInv, TypeOK
    <2>4. QED
        BY <1>1, <2>1, <2>2, <2>3 DEF PostStep
<1>2. ASSUME NEW r \in Reports, Expire(r) \/ GetReport(r) PROVE HolderInv'
    BY <1>2, HolderFramed
    DEF Expire, GetReport, workerVars, queueVars, Pending, Busy, HolderInv, OneHolder
<1>3. ASSUME NEW d \in Deletes, DeleteStep(d) PROVE HolderInv'
    BY <1>3, HolderFramed
    DEF DeleteStep, CancelGone, CancelRefused, CancelLoads, CancelRevokes, CancelCommits,
        CancelDies, Broadcast, workerVars, queueVars, Pending, Busy, HolderInv, OneHolder
<1>4. ASSUME NEW w \in Workers, TaskStep(w) PROVE HolderInv'
    <2>1. CASE Republish(w)
        BY <2>1, HolderRepublish
    <2>2. CASE ~Republish(w)
        BY <1>4, <2>2, TaskKeepsMessages, HolderFramed DEF Pending, HolderInv, OneHolder
    <2>3. QED
        BY <2>1, <2>2
<1>5. CASE NodeStep
    <2>1. ASSUME NEW m \in Pending, NodeReceives(m) \/ NodeDiscards(m) PROVE HolderInv'
        BY <2>1, HolderFramed
        DEF NodeReceives, NodeDiscards, Receive, Discard, workerVars, Pending, Busy,
            HolderInv, OneHolder
    <2>2. ASSUME NEW r \in Reports, NodeRevokes(r) PROVE HolderInv'
        BY <2>2, HolderFramed
        DEF NodeRevokes, RevokeArrives, workerVars, Pending, Busy, HolderInv, OneHolder
    <2>3. CASE NodeRestarts
        BY <2>3, HolderFramed DEF NodeRestarts, NodeRestart, Pending, Busy
    <2>4. QED
        BY <1>5, <2>1, <2>2, <2>3, HolderStart DEF NodeStep
<1>6. CASE UNCHANGED vars
    BY <1>6, HolderFramed DEF vars, workerVars, queueVars, Pending, Busy, HolderInv, OneHolder
<1>7. QED
    BY <1>1, <1>2, <1>3, <1>4, <1>5, <1>6 DEF Next

(* The holders and the unpublished reports, throughout.                     *)
THEOREM HolderInvariance == Spec => []HolderInv
BY HolderInit, HolderNext, TypeInvariance, PTL DEF Spec

(* A message is executed by one process at a time, whatever fails and       *)
(* however often it is published.                                           *)
THEOREM MessagesHaveOneHolder == Spec => []OneHolder
<1>1. HolderInv => OneHolder
    BY DEF HolderInv
<1>2. QED
    BY <1>1, HolderInvariance, PTL

=============================================================================
