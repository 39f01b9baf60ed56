----------------------------- MODULE TrailProofs ------------------------------
(***************************************************************************)
(* The trail of a report against its status and its error message: what is *)
(* announced and when the last announcement is true; and the reports       *)
(* nobody is left to go on with.                                           *)
(***************************************************************************)
EXTENDS AttemptProofs

-----------------------------------------------------------------------------
(* The trail announces every status                                         *)

(* The event announces the status that is assigned, if one is.              *)
Announces(event, loaded, new) ==
    new.status = loaded.status \/ (event # "ENQUEUED" /\ new.status = StatusOf[event])

(* Nothing is taken from a trail, and a status that changes is announced.   *)
TrailGrows(r) ==
    \A s \in Statuses : Announced(events[r], s) => Announced(events'[r], s)

ChangeAnnounced(r) ==
    row'[r].status = row[r].status \/ Announced(events'[r], row'[r].status)

TrailStep == \A r \in Reports : TrailGrows(r) /\ ChangeAnnounced(r)

(* An event appended to a trail.                                            *)
LEMMA AppendedEvent ==
    ASSUME StoreTypeOK, NEW r \in Reports, NEW event \in EventTypes,
           events' = [events EXCEPT ![r] = Append(@, event)]
    PROVE  /\ \A q \in Reports : TrailGrows(q)
           /\ event # "ENQUEUED" => Announced(events'[r], StatusOf[event])
<1>1. events \in [Reports -> Seq(EventTypes)]
    BY DEF StoreTypeOK
<1>2. PICK n \in Nat :
          /\ DOMAIN events[r] = 1..n /\ DOMAIN events'[r] = 1..(n + 1)
          /\ \A i \in 1..n : events'[r][i] = events[r][i]
          /\ events'[r][n + 1] = event
    BY <1>1, AppendProperties, LenProperties
<1>3. \A q \in Reports : q # r => events'[q] = events[q]
    BY <1>1
<1>4. TrailGrows(r)
    <2> SUFFICES ASSUME NEW s \in Statuses, NEW i \in DOMAIN events[r],
                        events[r][i] # "ENQUEUED" /\ StatusOf[events[r][i]] = s
                 PROVE  Announced(events'[r], s)
        BY DEF TrailGrows, Announced
    <2>1. i \in DOMAIN events'[r] /\ events'[r][i] = events[r][i]
        BY <1>2
    <2>2. QED
        BY <2>1 DEF Announced
<1>5. \A q \in Reports : TrailGrows(q)
    BY <1>3, <1>4 DEF TrailGrows
<1>6. event # "ENQUEUED" => Announced(events'[r], StatusOf[event])
    <2>1. n + 1 \in DOMAIN events'[r] /\ events'[r][n + 1] = event
        BY <1>2
    <2>2. QED
        BY <2>1 DEF Announced
<1>7. QED
    BY <1>5, <1>6

(* A commit, whatever its session had loaded.                               *)
LEMMA CommitAnnounces ==
    ASSUME StoreTypeOK, NEW r \in Reports, NEW loaded \in Row, NEW new \in Row,
           NEW event \in EventTypes, Commit(r, loaded, new, event),
           Announces(event, loaded, new)
    PROVE  TrailStep
<1>1. /\ \A q \in Reports : TrailGrows(q)
      /\ event # "ENQUEUED" => Announced(events'[r], StatusOf[event])
    BY AppendedEvent DEF Commit
<1>2. /\ row'[r].status \in {row[r].status, new.status}
      /\ new.status = loaded.status => row'[r].status = row[r].status
      /\ \A q \in Reports : q # r => row'[q] = row[q]
    BY DEF Commit, UpdateRow, Flushed, Column, StoreTypeOK, Row
<1>3. \A q \in Reports : ChangeAnnounced(q)
    BY <1>1, <1>2 DEF Announces, ChangeAnnounced
<1>4. QED
    BY <1>1, <1>3 DEF TrailStep

LEMMA StatusesOfEvents ==
    /\ StatusOf["STARTED"] = "STARTED" /\ StatusOf["RETRIED"] = "RETRY"
    /\ StatusOf["SUCCEEDED"] = "SUCCESS" /\ StatusOf["FAILED"] = "FAILURE"
    /\ StatusOf["CANCELED"] = "CANCELED" /\ StatusOf["REQUESTED"] = "PENDING"
    /\ {"REQUESTED", "ENQUEUED", "STARTED", "RETRIED", "SUCCEEDED", "FAILED", "CANCELED"}
          \subseteq EventTypes
BY DEF StatusOf, EventTypes

LEMMA TrailUntouched ==
    ASSUME UNCHANGED events, \A r \in Reports : row'[r].status = row[r].status
    PROVE  TrailStep
BY DEF TrailStep, TrailGrows, ChangeAnnounced

LEMMA HandlersAnnounce ==
    ASSUME TypeInv
    PROVE  /\ \A r \in Reports : PostStep(r) => TrailStep
           /\ \A r \in Reports : Expire(r) \/ GetReport(r) => TrailStep
           /\ \A d \in Deletes : DeleteStep(d) => TrailStep
           /\ NodeStep => TrailStep
<1>0. StoreTypeOK /\ NewRow \in Row
    BY InitialRows DEF TypeInv, TypeOK
<1>1. ASSUME NEW r \in Reports, StampDeleted(r), UNCHANGED events PROVE TrailStep
    <2>1. row \in [Reports -> Row] /\ row[r] \in Row
        BY <1>0 DEF StoreTypeOK
    <2>2. DeletedRow(row[r]) \in Row /\ DeletedRow(row[r]).status = row[r].status
        BY <2>1, TransformedRows, ErrorValues, AssignedStatus
    <2>3. \A q \in Reports : row'[q].status = row[q].status
        BY <1>1, <2>1, <2>2 DEF StampDeleted, UpdateRow, Flushed, Column
    <2>4. QED
        BY <1>1, <2>3, TrailUntouched
<1>2. ASSUME NEW r \in Reports, PostStep(r) PROVE TrailStep
    <2>1. CASE CreateReport(r)
        <3>1. events' = [events EXCEPT ![r] = Append(@, "REQUESTED")]
            BY <2>1 DEF CreateReport, InsertReport
        <3>2. row'[r].status = "PENDING" /\ \A q \in Reports : q # r => row'[q] = row[q]
            BY <1>0, <2>1 DEF CreateReport, InsertReport, StoreTypeOK, NewRow
        <3>3. QED
            BY <1>0, <3>1, <3>2, AppendedEvent, StatusesOfEvents
            DEF TrailStep, ChangeAnnounced
    <2>2. CASE Publish(r) \/ PublishFails(r) \/ PostDies(r)
        BY <2>2, TrailUntouched DEF Publish, PublishFails, PostDies, storeVars
    <2>3. CASE MarkEnqueued(r)
        <3>1. EnqueuedRow(NewRow) \in Row /\ EnqueuedRow(NewRow).status = NewRow.status
            BY InitialRows, TransformedRows, ErrorValues, AssignedStatus
        <3>2. QED
            BY <1>0, <2>3, <3>1, CommitAnnounces, StatusesOfEvents DEF MarkEnqueued, Announces
    <2>4. CASE MarkEnqueueFailure(r)
        <3>1. /\ FailureRow(NewRow, ExcError) \in Row
              /\ FailureRow(NewRow, ExcError).status = "FAILURE"
            BY InitialRows, TransformedRows, ErrorValues, AssignedStatus
        <3>2. QED
            BY <1>0, <2>4, <3>1, CommitAnnounces, StatusesOfEvents
            DEF MarkEnqueueFailure, Announces
    <2>5. QED
        BY <1>2, <2>1, <2>2, <2>3, <2>4 DEF PostStep
<1>3. ASSUME NEW r \in Reports, Expire(r) \/ GetReport(r) PROVE TrailStep
    BY <1>1, <1>3, TrailUntouched DEF Expire, GetReport, storeVars
<1>4. ASSUME NEW d \in Deletes, DeleteStep(d) PROVE TrailStep
    <2>0. target[d] \in Reports /\ delSnap[d] \in Row
        BY DEF TypeInv, TypeOK
    <2>1. CASE CancelGone(d)
        BY <1>1, <2>0, <2>1 DEF CancelGone
    <2>2. CASE CancelRefused(d) \/ CancelLoads(d) \/ CancelRevokes(d) \/ CancelDies(d)
        BY <2>2, TrailUntouched
        DEF CancelRefused, CancelLoads, CancelRevokes, CancelDies, storeVars
    <2>3. CASE CancelCommits(d)
        <3>1. /\ CanceledRow(delSnap[d]) \in Row
              /\ CanceledRow(delSnap[d]).status = "CANCELED"
            BY <2>0, TransformedRows, ErrorValues, AssignedStatus
        <3>2. QED
            BY <1>0, <2>0, <2>3, <3>1, CommitAnnounces, StatusesOfEvents
            DEF CancelCommits, Announces
    <2>4. QED
        BY <1>4, <2>1, <2>2, <2>3 DEF DeleteStep
<1>5. ASSUME NodeStep PROVE TrailStep
    BY <1>5, TrailUntouched
    DEF NodeStep, NodeReceives, NodeDiscards, TaskStarts, NodeRevokes, NodeRestarts, storeVars
<1>6. QED
    BY <1>2, <1>3, <1>4, <1>5

LEMMA TaskAnnounces ==
    ASSUME TypeInv, NEW w \in Workers, TaskStep(w)
    PROVE  TrailStep
<1> DEFINE r == msg[w].report
<1>0. /\ StoreTypeOK
      /\ Busy(w) => r \in Reports /\ snap[w] \in Row /\ msg[w].retries \in Errors
    BY ErrorValues DEF Busy, Message, TypeInv, TypeOK
<1>1. CASE RecordRetry(w)
    <2>1. /\ RetryRow(snap[w], msg[w].retries) \in Row
          /\ RetryRow(snap[w], msg[w].retries).status = "RETRY"
        BY <1>0, <1>1, TransformedRows, AssignedStatus DEF RecordRetry, Busy
    <2>2. QED
        BY <1>0, <1>1, <2>1, CommitAnnounces, StatusesOfEvents
        DEF RecordRetry, TaskCommits, Announces, Busy
<1>2. CASE RecordStarted(w)
    <2>1. StartedRow(snap[w]) \in Row /\ StartedRow(snap[w]).status = "STARTED"
        BY <1>0, <1>2, TransformedRows, ErrorValues, AssignedStatus DEF RecordStarted, Busy
    <2>2. QED
        BY <1>0, <1>2, <2>1, CommitAnnounces, StatusesOfEvents
        DEF RecordStarted, TaskCommits, Announces, Busy
<1>3. CASE RecordRetryAttempt(w)
    <2>1. /\ RetryRow(snap[w], ExcError) \in Row
          /\ RetryRow(snap[w], ExcError).status = "RETRY"
        BY <1>0, <1>3, TransformedRows, ErrorValues, AssignedStatus
        DEF RecordRetryAttempt, Busy
    <2>2. QED
        BY <1>0, <1>3, <2>1, CommitAnnounces, StatusesOfEvents
        DEF RecordRetryAttempt, TaskCommits, Announces, Busy
<1>4. CASE RecordFailure(w)
    <2>1. /\ FailureRow(snap[w], ExcError) \in Row
          /\ FailureRow(snap[w], ExcError).status = "FAILURE"
        BY <1>0, <1>4, TransformedRows, ErrorValues, AssignedStatus DEF RecordFailure, Busy
    <2>2. Commit(r, snap[w], FailureRow(snap[w], ExcError), "FAILED") /\ Busy(w)
        BY <1>4 DEF RecordFailure, Busy
    <2>3. QED
        BY <1>0, <2>1, <2>2, CommitAnnounces, StatusesOfEvents DEF Announces
<1>5. CASE RecordSuccess(w)
    <2>1. SuccessRow(snap[w]) \in Row /\ SuccessRow(snap[w]).status = "SUCCESS"
        BY <1>0, <1>5, TransformedRows, ErrorValues, AssignedStatus DEF RecordSuccess, Busy
    <2>2. Commit(r, snap[w], SuccessRow(snap[w]), "SUCCEEDED") /\ Busy(w)
        BY <1>5 DEF RecordSuccess, Busy
    <2>3. QED
        BY <1>0, <2>1, <2>2, CommitAnnounces, StatusesOfEvents DEF Announces
<1>6. ASSUME ~RecordRetry(w), ~RecordStarted(w), ~RecordRetryAttempt(w), ~RecordFailure(w),
             ~RecordSuccess(w)
      PROVE  UNCHANGED <<row, events>>
    BY <1>6
    DEF TaskStep, TaskLoads, LoadFails, CountAttempts, Upload, UploadFails, GenerationFails,
        Republish, RepublishFails, Refresh, RecordCanceled, RecordSuccessFails, TaskDies,
        storeVars
<1>7. QED
    BY <1>1, <1>2, <1>3, <1>4, <1>5, <1>6, TrailUntouched

LEMMA EveryStepAnnounces ==
    ASSUME TypeInv, [Next]_vars
    PROVE  TrailStep
<1>1. CASE UNCHANGED vars
    BY <1>1, TrailUntouched DEF vars, storeVars
<1>2. QED
    BY <1>1, HandlersAnnounce, TaskAnnounces DEF Next

(* Every report that is registered has a status its trail announces.        *)
StatusAnnounced ==
    \A r \in Reports : Exists(r) => Announced(events[r], row[r].status)

LEMMA StatusAnnouncedNext ==
    ASSUME TypeInv, StatusAnnounced, TrailStep
    PROVE  StatusAnnounced'
<1> SUFFICES ASSUME NEW r \in Reports, row'[r].status # "ABSENT"
             PROVE  Announced(events'[r], row'[r].status)
    BY DEF StatusAnnounced, Exists
<1>1. TrailGrows(r) /\ ChangeAnnounced(r)
    BY DEF TrailStep
<1>2. CASE row'[r].status = row[r].status
    <2>1. row[r].status \in Statuses
        BY <1>2 DEF TypeInv, TypeOK, StoreTypeOK, Row
    <2>2. Announced(events[r], row[r].status)
        BY <1>2 DEF StatusAnnounced, Exists
    <2>3. QED
        BY <1>1, <1>2, <2>1, <2>2 DEF TrailGrows
<1>3. QED
    BY <1>1, <1>2 DEF ChangeAnnounced

(* A report does not go back to being absent.                               *)
LEMMA ExistsAfter ==
    ASSUME TypeInv', TrailStep, NEW r \in Reports, Exists(r)
    PROVE  Exists(r)'
<1> SUFFICES ASSUME row'[r].status = "ABSENT" PROVE FALSE
    BY DEF Exists
<1>1. Announced(events'[r], "ABSENT")
    BY DEF TrailStep, ChangeAnnounced, Exists
<1>2. events'[r] \in Seq(EventTypes)
    BY DEF TypeInv, TypeOK, StoreTypeOK
<1>3. PICK i \in DOMAIN events'[r] :
          events'[r][i] # "ENQUEUED" /\ StatusOf[events'[r][i]] = "ABSENT"
    BY <1>1 DEF Announced
<1>4. events'[r][i] \in EventTypes
    BY <1>2, <1>3, ElementOfSeq, LenProperties
<1>5. QED
    BY <1>3, <1>4 DEF EventTypes, StatusOf

LEMMA ExistsStays ==
    ASSUME TypeInv, [Next]_vars, NEW r \in Reports, Exists(r)
    PROVE  Exists(r)'
BY TypeNext, EveryStepAnnounces, ExistsAfter

(* The status of a registered report is one its trail announces, whatever   *)
(* stale session wrote it last.                                             *)
THEOREM EveryStatusIsAnnounced == Spec => []StatusAnnounced
<1>1. Init => StatusAnnounced
    BY DEF Init, StoreInit, AbsentRow, NewRow, Exists, StatusAnnounced
<1>2. TypeInv /\ StatusAnnounced /\ [Next]_vars => StatusAnnounced'
    BY EveryStepAnnounces, StatusAnnouncedNext
<1>3. QED
    BY <1>1, <1>2, TypeInvariance, PTL DEF Spec

-----------------------------------------------------------------------------
(* Lost work                                                                *)

(* No call fails that had nobody left to make it good: the messages and the *)
(* broadcasts get through, and no request or task is ended half-way.  A     *)
(* publication may still be taken for failed, and storage and generation    *)
(* may fail.                                                                *)
CallsComplete ==
    /\ TasksComplete
    /\ Faults \cap {"broker", "broadcast", "loop"} = {}

(* The trail only grows: what is recorded stays so.                         *)
RecordedKept ==
    \A r \in Reports : Recorded(r, "CANCELED") => Recorded(r, "CANCELED")'

LEMMA AppendRecords ==
    ASSUME StoreTypeOK, NEW r \in Reports, NEW event \in EventTypes,
           events' = [events EXCEPT ![r] = Append(@, event)]
    PROVE  RecordedKept /\ (event = "CANCELED" => Recorded(r, "CANCELED")')
<1>1. events \in [Reports -> Seq(EventTypes)]
    BY DEF StoreTypeOK
<1>2. events'[r] = Append(events[r], event) /\ \A q \in Reports : q # r => events'[q] = events[q]
    BY <1>1
<1>3. events[r] \in Seq(EventTypes)
    BY <1>1
<1>4. /\ Len(events[r]) \in Nat
      /\ DOMAIN events[r] = 1..Len(events[r])
      /\ DOMAIN events'[r] = 1..(Len(events[r]) + 1)
      /\ \A i \in 1..Len(events[r]) : events'[r][i] = events[r][i]
      /\ events'[r][Len(events[r]) + 1] = event
    BY <1>2, <1>3, AppendProperties, LenProperties
<1>5. Recorded(r, "CANCELED") => Recorded(r, "CANCELED")'
    BY <1>4 DEF Recorded
<1>6. event = "CANCELED" => Recorded(r, "CANCELED")'
    BY <1>4 DEF Recorded
<1>7. \A q \in Reports : q # r => (Recorded(q, "CANCELED") => Recorded(q, "CANCELED")')
    BY <1>2 DEF Recorded
<1>8. QED
    BY <1>5, <1>6, <1>7 DEF RecordedKept

(* Only a process at work takes a step of a task.                           *)
LEMMA TaskIsBusy ==
    ASSUME NEW w \in Workers, TaskStep(w)
    PROVE  Busy(w)
BY DEF TaskStep, TaskLoads, LoadFails, RecordRetry, CountAttempts, RecordStarted, Upload,
       UploadFails, GenerationFails, RecordRetryAttempt, Republish, RepublishFails,
       RecordFailure, Refresh, RecordCanceled, RecordSuccess, RecordSuccessFails, TaskDies, Busy

(* A revocation is broadcast by a request that commits next, and the only   *)
(* step that ends such a request is its commit.                             *)
CancellationStep ==
    /\ RecordedKept
    /\ revoked \subseteq revoked'
    /\ \A r \in (revoked \cup revoking)' :
          r \in revoked \cup revoking \/ \E d \in Deletes : del'[d] = "commit" /\ target'[d] = r
    /\ \A d \in Deletes, r \in Reports : del[d] = "commit" /\ target[d] = r =>
          \/ del'[d] = "commit" /\ target'[d] = r
          \/ Recorded(r, "CANCELED")' /\ row'[r].status = "CANCELED"

LEMMA CancellationsStep ==
    ASSUME CallsComplete, TypeInv, DeletesReadUnfinished, [Next]_vars
    PROVE  CancellationStep
<1> USE DEF TypeInv, TypeOK
<1>1. ASSUME NEW r \in Reports, PostStep(r) \/ Expire(r) \/ GetReport(r)
      PROVE  CancellationStep
    <2>1. UNCHANGED <<deleteVars, revoked, revoking>>
        BY <1>1
        DEF PostStep, CreateReport, Publish, PublishFails, MarkEnqueued, MarkEnqueueFailure,
            PostDies, Expire, GetReport, Enqueue, queueVars
    <2>2. RecordedKept
        <3>1. \/ events' = events
              \/ \E event \in EventTypes : events' = [events EXCEPT ![r] = Append(@, event)]
            BY <1>1
            DEF PostStep, CreateReport, Publish, PublishFails, MarkEnqueued, MarkEnqueueFailure,
                PostDies, Expire, GetReport, InsertReport, Commit, EventTypes, storeVars
        <3>2. QED
            BY <3>1, AppendRecords DEF RecordedKept, Recorded
    <2>3. QED
        BY <2>1, <2>2 DEF CancellationStep, deleteVars
<1>2. ASSUME NEW d \in Deletes, DeleteStep(d) PROVE CancellationStep
    <2>1. CASE CancelRevokes(d)
        <3>1. /\ del' = [del EXCEPT ![d] = "commit"] /\ target' = target /\ events' = events
              /\ revoking' \subseteq revoking \cup {target[d]} /\ revoked' = revoked
            BY <2>1 DEF CancelRevokes, Broadcast, storeVars, queueVars
        <3>2. QED
            BY <3>1 DEF CancellationStep, RecordedKept, Recorded
    <2>2. CASE CancelCommits(d)
        <3>1. PICK r : r = target[d]
            OBVIOUS
        <3>2. /\ r \in Reports /\ events' = [events EXCEPT ![r] = Append(@, "CANCELED")]
              /\ del' = [del EXCEPT ![d] = "done"] /\ target' = target
              /\ UNCHANGED <<revoked, revoking>>
            BY <2>2, <3>1 DEF CancelCommits, Commit, EndDelete, queueVars
        <3>3. RecordedKept /\ Recorded(r, "CANCELED")'
            BY <3>2, AppendRecords DEF EventTypes
        <3>4. \A e \in Deletes : e # d => del'[e] = del[e]
            BY <3>2
        <3>5. row'[r].status = "CANCELED"
            <4>1. delSnap[d] \in Row /\ delSnap[d].status # "CANCELED"
                BY <2>2 DEF CancelCommits, DeletesReadUnfinished, Unfinished
            <4>2. CanceledRow(delSnap[d]).status = "CANCELED"
                BY <4>1, AssignedStatus
            <4>3. QED
                BY <2>2, <3>1, <3>2, <4>1, <4>2
                DEF CancelCommits, Commit, UpdateRow, Flushed, Column, StoreTypeOK
        <3>6. QED
            BY <3>1, <3>2, <3>3, <3>4, <3>5 DEF CancellationStep
    <2>3. CASE CancelGone(d) \/ CancelRefused(d) \/ CancelLoads(d) \/ CancelDies(d)
        <3>1. ~CancelDies(d)
            BY DEF CancelDies, CallsComplete, TasksComplete
        <3>2. UNCHANGED <<events, revoked, revoking, target>>
            BY <2>3, <3>1
            DEF CancelGone, CancelRefused, CancelLoads, EndDelete, storeVars, queueVars
        <3>3. del[d] # "commit" /\ \A e \in Deletes : e # d => del'[e] = del[e]
            BY <2>3, <3>1 DEF CancelGone, CancelRefused, CancelLoads, EndDelete
        <3>4. QED
            BY <3>2, <3>3 DEF CancellationStep, RecordedKept, Recorded
    <2>4. QED
        BY <1>2, <2>1, <2>2, <2>3 DEF DeleteStep
<1>3. ASSUME NEW w \in Workers, TaskStep(w) PROVE CancellationStep
    <2>1. UNCHANGED <<deleteVars, revoked, revoking>>
        BY <1>3
        DEF TaskStep, TaskLoads, LoadFails, RecordRetry, CountAttempts, RecordStarted, Upload,
            UploadFails, GenerationFails, RecordRetryAttempt, Republish, RepublishFails,
            RecordFailure, Refresh, RecordCanceled, RecordSuccess, RecordSuccessFails, TaskDies,
            Enqueue, queueVars
    <2>2. msg[w].report \in Reports
        BY <1>3, TaskIsBusy, HoldersAreTyped
    <2>3. PICK r : r = msg[w].report
        OBVIOUS
    <2>4. \/ events' = events
          \/ \E event \in EventTypes : events' = [events EXCEPT ![r] = Append(@, event)]
        BY <1>3, <2>3
        DEF TaskStep, TaskLoads, LoadFails, RecordRetry, CountAttempts, RecordStarted, Upload,
            UploadFails, GenerationFails, RecordRetryAttempt, Republish, RepublishFails,
            RecordFailure, Refresh, RecordCanceled, RecordSuccess, RecordSuccessFails, TaskDies,
            TaskCommits, Commit, EventTypes, storeVars
    <2>5. RecordedKept
        BY <2>2, <2>3, <2>4, AppendRecords DEF RecordedKept, Recorded
    <2>6. QED
        BY <2>1, <2>5 DEF CancellationStep, deleteVars
<1>4. CASE NodeStep \/ UNCHANGED vars
    <2>1. UNCHANGED <<del, target, events>>
        BY <1>4
        DEF NodeStep, NodeReceives, NodeDiscards, TaskStarts, NodeRevokes, NodeRestarts, vars,
            storeVars, deleteVars
    <2>2. revoked \subseteq revoked' /\ (revoked \cup revoking)' \subseteq revoked \cup revoking
        <3>1. CASE \E r \in Reports : NodeRevokes(r)
            BY <3>1 DEF NodeRevokes, RevokeArrives
        <3>2. ~NodeRestarts
            BY DEF NodeRestarts, CallsComplete, TasksComplete
        <3>3. CASE UNCHANGED <<revoked, revoking>>
            BY <3>3
        <3>4. QED
            BY <1>4, <3>1, <3>2, <3>3
            DEF NodeStep, NodeReceives, NodeDiscards, TaskStarts, vars, Receive, Discard, Accept,
                queueVars
    <2>3. QED
        BY <2>1, <2>2 DEF CancellationStep, RecordedKept, Recorded
<1>5. QED
    BY <1>1, <1>2, <1>3, <1>4 DEF Next

(* A report that is registered and is not worked on does not go back, and   *)
(* goes on only to its end.                                                 *)
LEMMA StatusWaits ==
    ASSUME TypeInv, [Next]_vars, NEW r \in Reports, post[r] # "new",
           \A w \in Workers : Busy(w) /\ msg[w].report = r =>
               pc[w] \notin {"note", "start", "retry", "fail", "finish"}
    PROVE  row'[r].status = row[r].status \/ row'[r].status \in Final
<1> SUFFICES ASSUME row'[r].status # row[r].status
             PROVE  row'[r].status \in Final
    OBVIOUS
<1>1. \A w \in Workers : RecordSuccess(w) => pc[w] = "finish"
    BY DEF RecordSuccess
<1>2. \A w \in Workers : pc[w] \in {"note", "start", "retry", "fail", "finish"} => Busy(w)
    BY DEF Busy
<1>3. QED
    BY <1>1, <1>2, StatusAfterStep DEF Final

(* No task and no handler takes a report back to where POST left it.        *)
Begun(r) == row[r].status \notin {"ABSENT", "PENDING"}

LEMMA BegunStays ==
    ASSUME TypeInv, UnrequestedIsAbsent, [Next]_vars, NEW r \in Reports, Begun(r)
    PROVE  Begun(r)'
<1> SUFFICES ASSUME row'[r].status # row[r].status
             PROVE  row'[r].status \notin {"ABSENT", "PENDING"}
    BY DEF Begun
<1>1. post[r] # "new"
    BY DEF UnrequestedIsAbsent, Begun
<1>2. QED
    BY <1>1, StatusAfterStep

(* Every revocation has a cancellation that is about to be committed, or    *)
(* was and has left the report begun.                                       *)
CancelComing(r) == \E d \in Deletes : del[d] = "commit" /\ target[d] = r

RevocationsExplained ==
    \A r \in revoked \cup revoking :
        CancelComing(r) \/ (Recorded(r, "CANCELED") /\ Begun(r))

LEMMA RevocationsNext ==
    ASSUME CallsComplete, TypeInv, TypeInv', UnrequestedIsAbsent, DeletesReadUnfinished,
           RevocationsExplained, [Next]_vars
    PROVE  RevocationsExplained'
<1> SUFFICES ASSUME NEW r \in (revoked \cup revoking)'
             PROVE  CancelComing(r)' \/ (Recorded(r, "CANCELED")' /\ Begun(r)')
    BY DEF RevocationsExplained
<1>0. CancellationStep
    BY CancellationsStep
<1>1. r \in Reports
    BY DEF TypeInv, TypeOK, QueueTypeOK
<1>2. CASE r \notin revoked \cup revoking
    BY <1>0, <1>2 DEF CancellationStep, CancelComing
<1>3. CASE Recorded(r, "CANCELED") /\ Begun(r)
    BY <1>0, <1>1, <1>3, BegunStays DEF CancellationStep, RecordedKept
<1>4. CASE CancelComing(r)
    <2>1. PICK d \in Deletes : del[d] = "commit" /\ target[d] = r
        BY <1>4 DEF CancelComing
    <2>2. CASE del'[d] = "commit" /\ target'[d] = r
        BY <2>2 DEF CancelComing
    <2>3. CASE Recorded(r, "CANCELED")' /\ row'[r].status = "CANCELED"
        BY <2>3 DEF Begun
    <2>4. QED
        BY <1>0, <1>1, <2>1, <2>2, <2>3 DEF CancellationStep
<1>5. QED
    BY <1>2, <1>3, <1>4 DEF RevocationsExplained

(* The status of a report that waits for its next task, of one whose task   *)
(* is about to leave it, and of the session that is about to close it.      *)
WaitingStatus ==
    /\ \A r \in Reports : post[r] = "created" => row[r].status \in Final \cup {"PENDING"}
    /\ \A m \in Pending : row[m.report].status \in Final \cup {"PENDING", "RETRY"}

LeavingStatus ==
    \A w \in Workers :
        /\ pc[w] = "republish" => row[msg[w].report].status \in Final \cup {"RETRY"}
        /\ pc[w] = "cancel" => row[msg[w].report].status \in Final

SessionStatus ==
    \A w \in Workers :
        /\ pc[w] \in {"build", "retry", "fail"} => snap[w].status = "STARTED"
        /\ pc[w] = "finish" => snap[w].status # "SUCCESS"

WorkInv == WaitingStatus /\ LeavingStatus /\ SessionStatus

(* Where the messages of a report come from, ...                            *)
LEMMA NewMessages ==
    ASSUME TypeInv, [Next]_vars, NEW m \in Pending', m \notin Pending
    PROVE  \/ /\ row' = row
              /\ m.report \in Reports /\ post[m.report] = "created"
           \/ \E w \in Workers : Republish(w) /\ row' = row /\ m.report = msg[w].report
<1>1. ASSUME NEW r \in Reports, Publish(r) \/ PublishFails(r) PROVE m.report = r
    <2>1. PICK copies : Enqueue(Messages(r, 0, copies))
        BY <1>1 DEF Publish, PublishFails, queueVars, Pending
    <2>2. m \in Messages(r, 0, copies)
        BY <2>1 DEF Enqueue, Pending
    <2>3. QED
        BY <2>2 DEF Messages
<1>2. ASSUME NEW r \in Reports, PostStep(r), ~Publish(r), ~PublishFails(r)
      PROVE  UNCHANGED queueVars
    BY <1>2 DEF PostStep, CreateReport, MarkEnqueued, MarkEnqueueFailure, PostDies
<1>3. ASSUME NEW r \in Reports, Expire(r) \/ GetReport(r) PROVE UNCHANGED queueVars
    BY <1>3 DEF Expire, GetReport
<1>4. ASSUME NEW d \in Deletes, DeleteStep(d) PROVE UNCHANGED <<queue, reserved>>
    BY <1>4
    DEF DeleteStep, CancelGone, CancelRefused, CancelLoads, CancelRevokes, CancelCommits,
        CancelDies, Broadcast, queueVars
<1>5. ASSUME NEW w \in Workers, TaskStep(w), ~Republish(w) PROVE UNCHANGED <<queue, reserved>>
    BY <1>5, TaskKeepsMessages
<1>6. ASSUME NodeStep PROVE Pending' \subseteq Pending
    BY <1>6
    DEF NodeStep, NodeReceives, NodeDiscards, TaskStarts, NodeRevokes, NodeRestarts, Receive,
        Discard, Accept, RevokeArrives, NodeRestart, Pending
<1>7. ~UNCHANGED <<queue, reserved>>
    BY DEF Pending
<1>8. CASE \E r \in Reports : Publish(r) \/ PublishFails(r)
    BY <1>1, <1>8 DEF Publish, PublishFails, storeVars
<1>9. CASE \E w \in Workers : Republish(w)
    <2>1. PICK w \in Workers : Republish(w)
        BY <1>9
    <2>2. m.report = msg[w].report
        BY <2>1, RepublishedMessages
    <2>3. QED
        BY <2>1, <2>2 DEF Republish, storeVars
<1>10. QED
    BY <1>2, <1>3, <1>4, <1>5, <1>6, <1>7, <1>8, <1>9 DEF Next, vars, queueVars

(* ... and of its registration.                                             *)
LEMMA CreatedBy ==
    ASSUME TypeInv, [Next]_vars, NEW r \in Reports, post'[r] = "created", post[r] # "created"
    PROVE  CreateReport(r)
<1>1. ASSUME NEW q \in Reports, PostStep(q) PROVE CreateReport(r)
    BY <1>1
    DEF PostStep, CreateReport, Publish, PublishFails, MarkEnqueued, MarkEnqueueFailure,
        PostDies, TypeInv, TypeOK
<1>2. ASSUME NEW q \in Reports, Expire(q) \/ GetReport(q) PROVE UNCHANGED post
    BY <1>2 DEF Expire, GetReport
<1>3. ASSUME NEW d \in Deletes, DeleteStep(d) PROVE UNCHANGED post
    BY <1>3
    DEF DeleteStep, CancelGone, CancelRefused, CancelLoads, CancelRevokes, CancelCommits,
        CancelDies
<1>4. ASSUME NEW w \in Workers, TaskStep(w) PROVE UNCHANGED post
    BY <1>4, TaskKeepsMessages DEF Republish
<1>5. ASSUME NodeStep \/ UNCHANGED vars PROVE UNCHANGED post
    BY <1>5 DEF NodeStep, NodeReceives, NodeDiscards, TaskStarts, NodeRevokes, NodeRestarts, vars
<1>6. QED
    BY <1>1, <1>2, <1>3, <1>4, <1>5 DEF Next

LEMMA WaitingNext ==
    ASSUME TypeInv, TypeInv', HolderInv, OneAtATime, WaitingStatus, LeavingStatus, [Next]_vars
    PROVE  WaitingStatus'
<1>1. ASSUME NEW r \in Reports, post'[r] = "created"
      PROVE  row'[r].status \in Final \cup {"PENDING"}
    <2>1. CASE post[r] = "created"
        <3>1. \A w \in Workers : Busy(w) => msg[w].report # r
            BY <2>1 DEF HolderInv, UnpublishedIsIdle
        <3>2. row[r].status \in Final \cup {"PENDING"}
            BY <2>1 DEF WaitingStatus
        <3>3. QED
            BY <2>1, <3>1, <3>2, StatusWaits
    <2>2. CASE post[r] # "created"
        <3>1. CreateReport(r)
            BY <1>1, <2>2, CreatedBy
        <3>2. QED
            BY <3>1 DEF CreateReport, InsertReport, NewRow, TypeInv, TypeOK, StoreTypeOK
    <2>3. QED
        BY <2>1, <2>2
<1>2. ASSUME NEW m \in Pending'
      PROVE  row'[m.report].status \in Final \cup {"PENDING", "RETRY"}
    <2>1. CASE m \in Pending
        <3>1. PICK r \in Reports : r = m.report
            BY <2>1, HoldersAreTyped
        <3>2. post[r] # "new" /\ \A w \in Workers : Busy(w) => msg[w].report # r
            BY <2>1, <3>1 DEF HolderInv, UnpublishedIsIdle, OneAtATime
        <3>3. row[r].status \in Final \cup {"PENDING", "RETRY"}
            BY <2>1, <3>1 DEF WaitingStatus
        <3>4. row'[r].status = row[r].status \/ row'[r].status \in Final
            BY <3>2, StatusWaits
        <3>5. QED
            BY <3>1, <3>3, <3>4
    <2>2. CASE m \notin Pending
        <3>1. CASE row' = row /\ m.report \in Reports /\ post[m.report] = "created"
            BY <3>1 DEF WaitingStatus
        <3>2. ASSUME NEW w \in Workers, Republish(w), row' = row, m.report = msg[w].report
              PROVE  row'[m.report].status \in Final \cup {"RETRY"}
            BY <3>2 DEF LeavingStatus, Republish
        <3>3. QED
            BY <2>2, <3>1, <3>2, NewMessages
    <2>3. QED
        BY <2>1, <2>2
<1>3. QED
    BY <1>1, <1>2 DEF WaitingStatus

(* How a task comes to the steps at which it is about to end.               *)
LEMMA TaskArrives ==
    ASSUME TypeInv, [Next]_vars, NEW w \in Workers
    PROVE  /\ pc'[w] = "republish" =>
                 RecordRetryAttempt(w) \/ (pc[w] = "republish" /\ msg'[w] = msg[w])
           /\ pc'[w] = "cancel" => Refresh(w) \/ (pc[w] = "cancel" /\ msg'[w] = msg[w])
           /\ pc'[w] \in {"build", "retry", "fail"} =>
                 RecordStarted(w) \/ (pc[w] \in {"build", "retry", "fail"} /\ snap'[w] = snap[w])
           /\ pc'[w] = "finish" => Refresh(w) \/ (pc[w] = "finish" /\ snap'[w] = snap[w])
<1> USE DEF TypeInv, TypeOK
<1>1. ASSUME NEW v \in Workers, TaskStep(v), v # w
      PROVE  pc'[w] = pc[w] /\ msg'[w] = msg[w] /\ snap'[w] = snap[w]
    BY <1>1
    DEF TaskStep, TaskLoads, LoadFails, RecordRetry, CountAttempts, RecordStarted, Upload,
        UploadFails, GenerationFails, RecordRetryAttempt, Republish, RepublishFails,
        RecordFailure, Refresh, RecordCanceled, RecordSuccess, RecordSuccessFails, TaskDies,
        TaskCommits, GoTo, EndTask
<1>2. ASSUME TaskStep(w), ~Refresh(w), ~RecordStarted(w), ~RecordRetryAttempt(w)
      PROVE  /\ pc'[w] \notin {"republish", "cancel", "finish"}
             /\ pc'[w] \in {"build", "retry", "fail"} => pc[w] = "build" /\ snap'[w] = snap[w]
    BY <1>2
    DEF TaskStep, TaskLoads, LoadFails, RecordRetry, CountAttempts, Upload,
        UploadFails, GenerationFails, Republish, RepublishFails,
        RecordFailure, RecordCanceled, RecordSuccess, RecordSuccessFails, TaskDies,
        TaskCommits, GoTo, EndTask
<1>3. /\ Refresh(w) => pc'[w] \in {"cancel", "finish"}
      /\ RecordStarted(w) => pc'[w] = "build"
      /\ RecordRetryAttempt(w) => pc'[w] = "republish"
    BY DEF Refresh, RecordStarted, RecordRetryAttempt, GoTo
<1>4. ASSUME NodeStep
      PROVE  \/ pc'[w] \in {"idle", "load"}
             \/ pc'[w] = pc[w] /\ msg'[w] = msg[w] /\ snap'[w] = snap[w]
    BY <1>4
    DEF NodeStep, NodeReceives, NodeDiscards, TaskStarts, NodeRevokes, NodeRestarts, workerVars
<1>5. ASSUME \/ \E r \in Reports : PostStep(r) \/ Expire(r) \/ GetReport(r)
             \/ \E d \in Deletes : DeleteStep(d)
             \/ UNCHANGED vars
      PROVE  UNCHANGED <<pc, msg, snap>>
    BY <1>5
    DEF PostStep, CreateReport, Publish, PublishFails, MarkEnqueued, MarkEnqueueFailure,
        PostDies, Expire, GetReport, DeleteStep, CancelGone, CancelRefused, CancelLoads,
        CancelRevokes, CancelCommits, CancelDies, workerVars, vars
<1>6. QED
    BY <1>1, <1>2, <1>3, <1>4, <1>5 DEF Next

LEMMA LeavingNext ==
    ASSUME TypeInv, TypeInv', HolderInv, OneAtATime, LeavingStatus, SessionStatus, [Next]_vars
    PROVE  LeavingStatus'
<1> SUFFICES ASSUME NEW w \in Workers, pc'[w] \in {"republish", "cancel"}
             PROVE  /\ pc'[w] = "republish" => row'[msg'[w].report].status \in Final \cup {"RETRY"}
                    /\ pc'[w] = "cancel" => row'[msg'[w].report].status \in Final
    BY DEF LeavingStatus
<1>1. CASE pc[w] = pc'[w] /\ msg'[w] = msg[w]
    <2>1. PICK r \in Reports : r = msg[w].report
        BY <1>1, HoldersAreTyped DEF Busy
    <2>2. post[r] # "new"
        BY <1>1, <2>1, BusyIsPublished DEF Busy
    <2>3. \A v \in Workers : Busy(v) /\ msg[v].report = r =>
             pc[v] \notin {"note", "start", "retry", "fail", "finish"}
        BY <1>1, <2>1 DEF OneAtATime, Busy
    <2>4. row'[r].status = row[r].status \/ row'[r].status \in Final
        BY <2>2, <2>3, StatusWaits
    <2>5. QED
        BY <1>1, <2>1, <2>4 DEF LeavingStatus
<1>2. CASE RecordRetryAttempt(w)
    <2>1. PICK r \in Reports : r = msg[w].report
        BY <1>2, HoldersAreTyped DEF RecordRetryAttempt, Busy
    <2>2. snap[w] \in Row /\ snap[w].status = "STARTED"
        BY <1>2 DEF RecordRetryAttempt, SessionStatus, TypeInv, TypeOK
    <2>3. RetryRow(snap[w], ExcError).status = "RETRY"
        BY <2>2, AssignedStatus, ErrorValues
    <2>4. row'[r].status = "RETRY"
        BY <1>2, <2>1, <2>2, <2>3
        DEF RecordRetryAttempt, TaskCommits, Commit, UpdateRow, Flushed, Column, TypeInv, TypeOK,
            StoreTypeOK
    <2>5. msg'[w] = msg[w] /\ pc'[w] = "republish"
        BY <1>2 DEF RecordRetryAttempt, GoTo, TypeInv, TypeOK
    <2>6. QED
        BY <2>1, <2>4, <2>5
<1>3. CASE Refresh(w) /\ pc'[w] = "cancel"
    BY <1>3 DEF Refresh, GoTo, storeVars, Final, TypeInv, TypeOK
<1>4. QED
    BY <1>1, <1>2, <1>3, TaskArrives

LEMMA SessionStatusNext ==
    ASSUME TypeInv, LedgerInv, ChainInv, SuccessHasFile, SessionStatus, [Next]_vars
    PROVE  SessionStatus'
<1>1. ASSUME NEW w \in Workers, RecordStarted(w) PROVE snap'[w].status = "STARTED" /\ pc'[w] = "build"
    <2>1. snap[w] \in Row /\ snap'[w] = StartedRow(snap[w]) /\ pc'[w] = "build"
        BY <1>1 DEF RecordStarted, TaskCommits, GoTo, TypeInv, TypeOK
    <2>2. QED
        BY <2>1, AssignedStatus
<1>2. ASSUME NEW w \in Workers, Refresh(w)
      PROVE  snap'[w].status # "SUCCESS" /\ pc'[w] \in {"cancel", "finish"}
    <2>1. PICK r \in Reports : r = msg[w].report
        BY <1>2, HoldersAreTyped DEF Refresh, Busy
    <2>2. row[r].status # "SUCCESS"
        BY <1>2, <2>1, WorkedIsUndecided, SuccessIsOfAnAttempt DEF Refresh, Attempting
    <2>3. QED
        BY <1>2, <2>1, <2>2 DEF Refresh, GoTo, TypeInv, TypeOK
<1>3. QED
    BY <1>1, <1>2, TaskArrives DEF SessionStatus

LEMMA WorkNext ==
    ASSUME TypeInv, TypeInv', HolderInv, LedgerInv, OneAtATime, ChainInv, SuccessHasFile,
           WorkInv, [Next]_vars
    PROVE  WorkInv'
BY WaitingNext, LeavingNext, SessionStatusNext DEF WorkInv

(* A task that is over leaves a report that has ended, or a message.        *)
LEMMA TaskLeaves ==
    ASSUME CallsComplete, TypeInv, LedgerInv, ChainInv, LeavingStatus, SessionStatus,
           NEW w \in Workers, TaskStep(w), NEW r \in Reports, r = msg[w].report, ~Busy(w)'
    PROVE  row'[r].status \notin Unfinished \/ \E m \in Pending' : m.report = r
<1>0. /\ StoreTypeOK /\ snap[w] \in Row
      /\ msg[w].retries < MaxRetries \/ pc[w] # "republish"
    BY DEF TypeInv, TypeOK, RetriesRemain
<1>1. CASE TaskLoads(w)
    <2>1. NothingToDo(r)
        BY <1>1 DEF TaskLoads, GoTo, Busy, TypeInv, TypeOK
    <2>2. row' = row
        BY <1>1 DEF TaskLoads, storeVars
    <2>3. QED
        BY <2>1, <2>2 DEF NothingToDo, Exists, Unfinished
<1>2. CASE Republish(w)
    <2>1. PICK k, copies : msg[w].copy \in copies /\ Enqueue(Messages(r, k, copies))
        BY <1>2 DEF Republish
    <2>2. [report |-> r, retries |-> k, copy |-> msg[w].copy] \in Messages(r, k, copies)
        BY <2>1 DEF Messages
    <2>3. Messages(r, k, copies) \subseteq Pending'
        BY <2>1 DEF Enqueue, Pending
    <2>4. QED
        BY <2>2, <2>3
<1>3. CASE RecordFailure(w)
    <2>1. snap[w].status = "STARTED"
        BY <1>3 DEF RecordFailure, SessionStatus
    <2>2. FailureRow(snap[w], ExcError).status = "FAILURE"
        BY <1>0, AssignedStatus, ErrorValues
    <2>3. row'[r].status = "FAILURE"
        BY <1>0, <1>3, <2>1, <2>2
        DEF RecordFailure, Commit, UpdateRow, Flushed, Column, StoreTypeOK
    <2>4. QED
        BY <2>3 DEF Unfinished
<1>4. CASE RecordCanceled(w)
    BY <1>4 DEF RecordCanceled, LeavingStatus, Final, Unfinished
<1>5. CASE RecordSuccess(w)
    <2>1. snap[w].status # "SUCCESS"
        BY <1>5 DEF RecordSuccess, SessionStatus
    <2>2. SuccessRow(snap[w]).status = "SUCCESS"
        BY <1>0, AssignedStatus
    <2>3. row'[r].status = "SUCCESS"
        BY <1>0, <1>5, <2>1, <2>2
        DEF RecordSuccess, Commit, UpdateRow, Flushed, Column, StoreTypeOK
    <2>4. QED
        BY <2>3 DEF Unfinished
<1>6. ~LoadFails(w) /\ ~TaskDies(w)
    BY DEF LoadFails, TaskDies, Unusable, CallsComplete, TasksComplete
<1>7. ~RepublishFails(w)
    <2>1. pc[w] = "republish" => RetryAllowed(msg[w])
        <3>1. pc[w] = "republish" => msg[w].retries \in Nat
            BY HoldersAreTyped DEF Busy
        <3>2. QED
            BY <1>0, <3>1, RetriesAssumption DEF RetryAllowed, NextRetries
    <2>2. QED
        BY <2>1 DEF RepublishFails, CallsComplete
<1>8. ~RecordSuccessFails(w)
    <2>1. pc[w] = "finish" => FileRowAccepted(r)
        BY RunsFileless
        DEF FileRowAccepted, FileRowFits, ContentTypeLength, FileTypeWidth, CallsComplete,
            TasksComplete, Attempting
    <2>2. QED
        BY <2>1 DEF RecordSuccessFails
<1>9. TaskStep(w) => \/ TaskLoads(w) \/ Republish(w) \/ RecordFailure(w) \/ RecordCanceled(w)
                     \/ RecordSuccess(w)
    BY <1>6, <1>7, <1>8
    DEF TaskStep, RecordRetry, CountAttempts, RecordStarted, Upload, UploadFails,
        GenerationFails, RecordRetryAttempt, Refresh, GoTo, Busy, TypeInv, TypeOK
<1>10. QED
    BY <1>1, <1>2, <1>3, <1>4, <1>5, <1>9

(* A process at work goes on with its report, or its task is over.          *)
LEMMA BusyGoesOn ==
    ASSUME CallsComplete, TypeInv, [Next]_vars, NEW w \in Workers, Busy(w)
    PROVE  (Busy(w)' /\ msg'[w] = msg[w]) \/ (TaskStep(w) /\ ~Busy(w)')
<1> USE DEF TypeInv, TypeOK
<1>1. ASSUME NEW v \in Workers, TaskStep(v)
      PROVE  (pc'[w] # "idle" /\ msg'[w] = msg[w]) \/ (v = w /\ pc'[w] = "idle")
    BY <1>1
    DEF TaskStep, TaskLoads, LoadFails, RecordRetry, CountAttempts, RecordStarted, Upload,
        UploadFails, GenerationFails, RecordRetryAttempt, Republish, RepublishFails,
        RecordFailure, Refresh, RecordCanceled, RecordSuccess, RecordSuccessFails, TaskDies,
        GoTo, EndTask, Busy
<1>2. ASSUME NodeStep PROVE pc'[w] # "idle" /\ msg'[w] = msg[w]
    BY <1>2
    DEF NodeStep, NodeReceives, NodeDiscards, TaskStarts, NodeRevokes, NodeRestarts, workerVars,
        Busy, CallsComplete, TasksComplete
<1>3. ASSUME \/ \E r \in Reports : PostStep(r) \/ Expire(r) \/ GetReport(r)
             \/ \E d \in Deletes : DeleteStep(d)
             \/ UNCHANGED vars
      PROVE  UNCHANGED <<pc, msg>>
    BY <1>3
    DEF PostStep, CreateReport, Publish, PublishFails, MarkEnqueued, MarkEnqueueFailure,
        PostDies, Expire, GetReport, DeleteStep, CancelGone, CancelRefused, CancelLoads,
        CancelRevokes, CancelCommits, CancelDies, workerVars, vars
<1>4. QED
    BY <1>1, <1>2, <1>3 DEF Next, Busy

(* ... and where they go: to a process, or away if the task is revoked.     *)
LEMMA MessageGoes ==
    ASSUME CallsComplete, TypeInv, [Next]_vars, NEW m \in Pending, m \notin Pending'
    PROVE  \/ m.report \in revoked /\ row' = row
           \/ \E w \in Workers : Busy(w)' /\ msg'[w] = m
<1>1. ASSUME NEW r \in Reports, PostStep(r) \/ Expire(r) \/ GetReport(r) PROVE m \in Pending'
    BY <1>1
    DEF PostStep, CreateReport, Publish, PublishFails, MarkEnqueued, MarkEnqueueFailure,
        PostDies, Expire, GetReport, Enqueue, queueVars, Pending
<1>2. ASSUME NEW d \in Deletes, DeleteStep(d) PROVE m \in Pending'
    BY <1>2
    DEF DeleteStep, CancelGone, CancelRefused, CancelLoads, CancelRevokes, CancelCommits,
        CancelDies, Broadcast, queueVars, Pending
<1>3. ASSUME NEW w \in Workers, TaskStep(w) PROVE m \in Pending'
    <2>1. CASE Republish(w)
        BY <2>1 DEF Republish, Enqueue, Pending
    <2>2. QED
        BY <1>3, <2>1, TaskKeepsMessages DEF Pending
<1>4. ASSUME NEW n \in Pending, NodeReceives(n) PROVE m \in Pending'
    BY <1>4 DEF NodeReceives, Receive, Pending
<1>5. ASSUME NEW n \in Pending, NodeDiscards(n) PROVE m.report \in revoked /\ row' = row
    BY <1>5 DEF NodeDiscards, Discard, Pending, storeVars
<1>6. ASSUME NEW w \in Workers, NEW n \in Pending, TaskStarts(w, n)
      PROVE  Busy(w)' /\ msg'[w] = m
    <2>1. n = m
        BY <1>6 DEF TaskStarts, Accept, Pending
    <2>2. QED
        BY <1>6, <2>1 DEF TaskStarts, Busy, TypeInv, TypeOK
<1>7. ASSUME NEW r \in Reports, NodeRevokes(r) PROVE m \in Pending'
    BY <1>7 DEF NodeRevokes, RevokeArrives, Pending
<1>8. ~NodeRestarts
    BY DEF NodeRestarts, CallsComplete, TasksComplete
<1>9. ~UNCHANGED vars
    BY DEF vars, queueVars, Pending
<1>10. QED
    BY <1>1, <1>2, <1>3, <1>4, <1>5, <1>6, <1>7, <1>8, <1>9 DEF Next, NodeStep

(* A report is published with a message.                                    *)
LEMMA PublicationLeaves ==
    ASSUME CallsComplete, TypeInv, [Next]_vars, NEW r \in Reports,
           post[r] \in {"new", "created"}, post'[r] \notin {"new", "created"}
    PROVE  \E m \in Pending' : m.report = r
<1>1. ~PostDies(r)
    BY DEF PostDies, CallsComplete, TasksComplete
<1>2. ASSUME NEW q \in Reports, PostStep(q) PROVE Publish(r) \/ PublishFails(r)
    BY <1>1, <1>2
    DEF PostStep, CreateReport, Publish, PublishFails, MarkEnqueued, MarkEnqueueFailure,
        PostDies, TypeInv, TypeOK
<1>3. ASSUME NEW q \in Reports, Expire(q) \/ GetReport(q) PROVE UNCHANGED post
    BY <1>3 DEF Expire, GetReport
<1>4. ASSUME NEW d \in Deletes, DeleteStep(d) PROVE UNCHANGED post
    BY <1>4
    DEF DeleteStep, CancelGone, CancelRefused, CancelLoads, CancelRevokes, CancelCommits,
        CancelDies
<1>5. ASSUME NEW w \in Workers, TaskStep(w) PROVE UNCHANGED post
    BY <1>5, TaskKeepsMessages DEF Republish
<1>6. ASSUME NodeStep \/ UNCHANGED vars PROVE UNCHANGED post
    BY <1>6 DEF NodeStep, NodeReceives, NodeDiscards, TaskStarts, NodeRevokes, NodeRestarts, vars
<1>7. Publish(r) \/ PublishFails(r)
    BY <1>2, <1>3, <1>4, <1>5, <1>6 DEF Next
<1>8. PICK copies \in SUBSET Copies : copies # {} /\ Enqueue(Messages(r, 0, copies))
    BY <1>7, CopiesAssumption DEF Publish, PublishFails, CallsComplete
<1>9. PICK c : c \in copies
    BY <1>8
<1>10. [report |-> r, retries |-> 0, copy |-> c] \in Messages(r, 0, copies)
    BY <1>9 DEF Messages
<1>11. Messages(r, 0, copies) \subseteq Pending'
    BY <1>8 DEF Enqueue, Pending
<1>12. QED
    BY <1>10, <1>11

(* What OnlyCanceledAreAbandoned says of an abandoned report.               *)
Excused(r) ==
    /\ r \in revoked
    /\ CancelComing(r) \/ (Recorded(r, "CANCELED") /\ row[r].status = "RETRY")

LEMMA AbandonedNext ==
    ASSUME CallsComplete, TypeInv, HolderInv, LedgerInv, OneAtATime, ChainInv,
           DeletesReadUnfinished, RevocationsExplained, WorkInv, [Next]_vars, NEW r \in Reports,
           Abandoned(r) => Excused(r), Abandoned(r)'
    PROVE  Excused(r)'
<1>0. /\ CancellationStep
      /\ post'[r] \notin {"new", "created"} /\ row'[r].status \in Unfinished
      /\ \A w \in Workers : Busy(w)' => msg'[w].report # r
      /\ \A m \in Pending' : m.report # r
    BY CancellationsStep DEF Abandoned, Working, Busy
<1>1. post[r] \notin {"new", "created"}
    BY <1>0, PublicationLeaves
<1>2. ASSUME CancelComing(r) PROVE CancelComing(r)'
    BY <1>0, <1>2 DEF CancellationStep, CancelComing, Unfinished
<1>3. \A w \in Workers : Busy(w) => msg[w].report # r
    <2> SUFFICES ASSUME NEW w \in Workers, Busy(w), msg[w].report = r
                 PROVE  FALSE
        OBVIOUS
    <2>1. TaskStep(w) /\ ~Busy(w)'
        BY <1>0, BusyGoesOn
    <2>2. row'[r].status \notin Unfinished \/ \E m \in Pending' : m.report = r
        BY <2>1, TaskLeaves DEF WorkInv
    <2>3. QED
        BY <1>0, <2>2
<1>4. ASSUME NEW m \in Pending, m.report = r PROVE Excused(r)'
    <2>1. m \notin Pending'
        BY <1>0, <1>4
    <2>2. r \in revoked /\ row' = row
        BY <1>0, <1>4, <2>1, MessageGoes
    <2>3. row[r].status \in Final \cup {"PENDING", "RETRY"}
        BY <1>4 DEF WorkInv, WaitingStatus
    <2>4. CancelComing(r) \/ (Recorded(r, "CANCELED") /\ Begun(r))
        BY <2>2 DEF RevocationsExplained
    <2>5. CASE Recorded(r, "CANCELED") /\ Begun(r)
        <3>1. row'[r].status = "RETRY"
            BY <1>0, <2>2, <2>3, <2>5 DEF Begun, Final, Unfinished
        <3>2. QED
            BY <1>0, <2>2, <2>5, <3>1 DEF CancellationStep, RecordedKept, Excused
    <2>6. QED
        BY <1>0, <1>2, <2>2, <2>4, <2>5 DEF CancellationStep, Excused
<1>5. CASE \A m \in Pending : m.report # r
    <2>1. row'[r].status = row[r].status
        <3>1. row'[r].status = row[r].status \/ row'[r].status \in Final
            BY <1>1, <1>3, StatusWaits
        <3>2. QED
            BY <1>0, <3>1 DEF Final, Unfinished
    <2>2. Abandoned(r)
        BY <1>0, <1>1, <1>3, <1>5, <2>1 DEF Abandoned, Working
    <2>3. QED
        BY <1>0, <1>2, <2>1, <2>2 DEF CancellationStep, RecordedKept, Excused
<1>6. QED
    BY <1>4, <1>5

(* With exact publication, and as long as no call fails for good, every     *)
(* report that is published and not ended is waited for or worked on; the   *)
(* exceptions were canceled, and the node dropped their message as revoked: *)
(* the cancellation is about to be committed, or was and is overwritten by  *)
(* a retry that has nobody left to make it.                                 *)
THEOREM AbandonedAreCanceled ==
    ASSUME ExactPublication, CallsComplete
    PROVE  Spec => []OnlyCanceledAreAbandoned
<1> DEFINE AllExcused == \A r \in Reports : Abandoned(r) => Excused(r)
           Inv == RevocationsExplained /\ WorkInv /\ AllExcused
           Known == /\ TypeInv /\ HolderInv /\ LedgerInv /\ ChainInv /\ SessionInv
                    /\ ReaderInv /\ SuccessHasFile
<1>1. Init => Inv
    <2> SUFFICES ASSUME Init PROVE Inv
        OBVIOUS
    <2>1. revoked = {} /\ revoking = {} /\ Pending = {}
        BY DEF Init, QueueInit, Pending
    <2>2. /\ \A w \in Workers : pc[w] = "idle"
          /\ \A r \in Reports : post[r] = "new"
        BY DEF Init
    <2>3. QED
        BY <2>1, <2>2
        DEF RevocationsExplained, WorkInv, WaitingStatus, LeavingStatus, SessionStatus, Abandoned
<1>2. Known /\ Known' /\ Inv /\ [Next]_vars => Inv'
    <2> SUFFICES ASSUME Known, Known', Inv, [Next]_vars PROVE Inv'
        OBVIOUS
    <2>1. OneAtATime
        BY ExactIsOneAtATime
    <2>2. RevocationsExplained'
        BY RevocationsNext DEF SessionInv, ReaderInv
    <2>3. WorkInv'
        BY <2>1, WorkNext
    <2>4. AllExcused'
        BY <2>1, AbandonedNext DEF ReaderInv
    <2>5. QED
        BY <2>2, <2>3, <2>4
<1>3. Inv => OnlyCanceledAreAbandoned
    BY DEF OnlyCanceledAreAbandoned, Excused, CancelComing
<1>4. QED
    BY <1>1, <1>2, <1>3, TypeInvariance, HolderInvariance, LedgerInvariance, ChainInvariance,
       SessionInvariance, ReaderInvariance, SuccessAlwaysHasFile, PTL DEF Spec

-----------------------------------------------------------------------------
(* The last announcement                                                    *)

(* An error message that goes with the status.                              *)
Explained(s) ==
    /\ s.status \in {"PENDING", "STARTED", "SUCCESS"} => s.error = NoError
    /\ s.status \in {"RETRY", "FAILURE"} => s.error # NoError

(* A step says nothing of r, or says what is true: the two ways to keep its *)
(* last announcement and its error message right.                           *)
Quiet(r) ==
    /\ row'[r].status = row[r].status /\ row'[r].error = row[r].error
    /\ events'[r] = events[r] \/ events'[r] = Append(events[r], "ENQUEUED")

Says(r, event) ==
    /\ event \in EventTypes \ {"ENQUEUED"}
    /\ events'[r] = Append(events[r], event)
    /\ row'[r].status = StatusOf[event]
    /\ Explained(row'[r])

TrueStep(r) ==
    Undisturbed(r)' => Undisturbed(r) /\ (Quiet(r) \/ \E event \in EventTypes : Says(r, event))

AllExplained == \A r \in Reports : Undisturbed(r) => Explained(row[r])

LEMMA LastOfTrail ==
    ASSUME NEW trail \in Seq(EventTypes), NEW event \in EventTypes
    PROVE  /\ event # "ENQUEUED" => \A i \in DOMAIN Append(trail, event) :
                LastAnnouncement(Append(trail, event), i) => Append(trail, event)[i] = event
           /\ \A i \in DOMAIN Append(trail, "ENQUEUED") :
                LastAnnouncement(Append(trail, "ENQUEUED"), i) =>
                    /\ i \in DOMAIN trail /\ LastAnnouncement(trail, i)
                    /\ Append(trail, "ENQUEUED")[i] = trail[i]
<1> DEFINE n == Len(trail)
<1>0. n \in Nat /\ DOMAIN trail = 1..n /\ "ENQUEUED" \in EventTypes
    BY LenProperties DEF EventTypes
<1>1. ASSUME NEW e \in EventTypes
      PROVE  /\ DOMAIN Append(trail, e) = 1..(n + 1)
             /\ \A i \in 1..n : Append(trail, e)[i] = trail[i]
             /\ Append(trail, e)[n + 1] = e
    BY AppendProperties, LenProperties
<1>2. \A i \in 1..(n + 1) : i \in 1..n \/ i = n + 1
    BY <1>0
<1>3. n + 1 \in 1..(n + 1) /\ \A i \in 1..n : i \in 1..(n + 1) /\ n + 1 > i
    BY <1>0
<1>4. ASSUME event # "ENQUEUED", NEW i \in DOMAIN Append(trail, event),
             LastAnnouncement(Append(trail, event), i)
      PROVE  Append(trail, event)[i] = event
    BY <1>1, <1>2, <1>3, <1>4 DEF LastAnnouncement
<1>5. ASSUME NEW i \in DOMAIN Append(trail, "ENQUEUED"),
             LastAnnouncement(Append(trail, "ENQUEUED"), i)
      PROVE  /\ i \in DOMAIN trail /\ LastAnnouncement(trail, i)
             /\ Append(trail, "ENQUEUED")[i] = trail[i]
    <2>1. i \in 1..n
        BY <1>0, <1>1, <1>2, <1>5 DEF LastAnnouncement
    <2>2. \A j \in 1..n : j > i => trail[j] = "ENQUEUED"
        BY <1>0, <1>1, <1>3, <1>5 DEF LastAnnouncement
    <2>3. trail[i] # "ENQUEUED"
        BY <1>0, <1>1, <1>5, <2>1 DEF LastAnnouncement
    <2>4. QED
        BY <1>0, <1>1, <2>1, <2>2, <2>3 DEF LastAnnouncement
<1>6. QED
    BY <1>4, <1>5

(* A step that is true of every report keeps both properties.               *)
LEMMA TrailFramed ==
    ASSUME TypeInv, TrailAgreesWithStatus, AllExplained, \A r \in Reports : TrueStep(r)
    PROVE  TrailAgreesWithStatus' /\ AllExplained'
<1>1. ASSUME NEW r \in Reports, Undisturbed(r)'
      PROVE  /\ Explained(row[r])'
             /\ \A i \in DOMAIN events'[r] :
                    LastAnnouncement(events'[r], i) => row'[r].status = StatusOf[events'[r][i]]
    <2>1. Undisturbed(r) /\ events[r] \in Seq(EventTypes)
        BY <1>1 DEF TrueStep, TypeInv, TypeOK, StoreTypeOK
    <2>2. /\ Explained(row[r])
          /\ \A i \in DOMAIN events[r] :
                LastAnnouncement(events[r], i) => row[r].status = StatusOf[events[r][i]]
        BY <2>1 DEF TrailAgreesWithStatus, AllExplained
    <2>3. CASE Quiet(r)
        <3>1. Explained(row[r])'
            BY <2>2, <2>3 DEF Quiet, Explained
        <3>2. CASE events'[r] = events[r]
            BY <2>2, <2>3, <3>1, <3>2 DEF Quiet
        <3>3. CASE events'[r] = Append(events[r], "ENQUEUED")
            <4>1. "ENQUEUED" \in EventTypes
                BY DEF EventTypes
            <4>2. \A i \in DOMAIN Append(events[r], "ENQUEUED") :
                    LastAnnouncement(Append(events[r], "ENQUEUED"), i) =>
                        /\ i \in DOMAIN events[r] /\ LastAnnouncement(events[r], i)
                        /\ Append(events[r], "ENQUEUED")[i] = events[r][i]
                BY <2>1, <4>1, LastOfTrail
            <4>3. QED
                BY <2>2, <2>3, <3>1, <3>3, <4>2 DEF Quiet
        <3>4. QED
            BY <2>3, <3>2, <3>3 DEF Quiet
    <2>4. CASE \E event \in EventTypes : Says(r, event)
        <3>1. PICK event \in EventTypes : Says(r, event)
            BY <2>4
        <3>2. \A i \in DOMAIN Append(events[r], event) :
                LastAnnouncement(Append(events[r], event), i) =>
                    Append(events[r], event)[i] = event
            BY <2>1, <3>1, LastOfTrail DEF Says
        <3>3. QED
            BY <3>1, <3>2 DEF Says, Explained
    <2>5. QED
        BY <1>1, <2>3, <2>4 DEF TrueStep
<1>2. QED
    BY <1>1 DEF TrailAgreesWithStatus, AllExplained

(* Once disturbed, a report stays so.                                       *)
LEMMA DisturbedStays ==
    ASSUME TypeInv, LedgerInv, [Next]_vars, NEW r \in Reports, Undisturbed(r)'
    PROVE  Undisturbed(r) /\ (post[r] = "rejected" => post'[r] = "rejected")
<1>1. attempts'[r] = <<>> => attempts[r] = <<>>
    <2>0. attempts[r] \in Seq(Attempt)
        BY DEF TypeInv, TypeOK, StoreTypeOK
    <2>1. ASSUME NEW w \in Workers, RecordStarted(w)
          PROVE  attempts'[r] = <<>> => attempts[r] = <<>>
        <3>1. OpenedOnto(w, msg[w].report)
            BY <2>1, OpenedAttempt
        <3>2. CASE r = msg[w].report
            BY <3>1, <3>2 DEF OpenedOnto
        <3>3. QED
            BY <3>1, <3>2 DEF OpenedOnto, OthersKept
    <2>2. ASSUME NEW w \in Workers, NEW status \in AttemptStatuses, Closes(w, status)
          PROVE  attempts'[r] = <<>> => attempts[r] = <<>>
        <3>1. /\ OthersKept(msg[w].report)
              /\ Len(attempts'[msg[w].report]) = Len(attempts[msg[w].report])
              /\ Len(attempts[msg[w].report]) \in Nat
            BY <2>2, ClosedAttempt
        <3>2. CASE r = msg[w].report
            BY <2>0, <3>1, <3>2, EmptySeq, LenProperties
        <3>3. QED
            BY <3>1, <3>2 DEF OthersKept
    <2>3. QED
        BY <2>1, <2>2, StepOnAttempts
<1>2. /\ post[r] = "rejected" => post'[r] = "rejected"
      /\ \A d \in Deletes : target'[d] = target[d] /\ (del[d] # "new" => del'[d] # "new")
    <2> USE DEF TypeInv, TypeOK
    <2>1. ASSUME NEW q \in Reports, PostStep(q) PROVE <1>2
        BY <2>1
        DEF PostStep, CreateReport, Publish, PublishFails, MarkEnqueued, MarkEnqueueFailure,
            PostDies, deleteVars
    <2>2. ASSUME NEW d \in Deletes, DeleteStep(d) PROVE <1>2
        BY <2>2
        DEF DeleteStep, CancelGone, CancelRefused, CancelLoads, CancelRevokes, CancelCommits,
            CancelDies, EndDelete
    <2>3. CASE UNCHANGED <<post, deleteVars>>
        BY <2>3 DEF deleteVars
    <2>4. ASSUME NEW w \in Workers, TaskStep(w) PROVE UNCHANGED <<post, deleteVars>>
        BY <2>4
        DEF TaskStep, TaskLoads, LoadFails, RecordRetry, CountAttempts, RecordStarted, Upload,
            UploadFails, GenerationFails, RecordRetryAttempt, Republish, RepublishFails,
            RecordFailure, Refresh, RecordCanceled, RecordSuccess, RecordSuccessFails, TaskDies
    <2>5. ASSUME NodeStep \/ \E q \in Reports : Expire(q) \/ GetReport(q)
          PROVE  UNCHANGED <<post, deleteVars>>
        BY <2>5
        DEF NodeStep, NodeReceives, NodeDiscards, TaskStarts, NodeRevokes, NodeRestarts,
            Expire, GetReport
    <2>6. QED
        BY <2>1, <2>2, <2>3, <2>4, <2>5 DEF Next, vars
<1>3. QED
    BY <1>1, <1>2 DEF Undisturbed

(* A task at work that has read its report still has the status and the     *)
(* error message of the table, unless a DELETE request has read the report  *)
(* or POST has failed it; ...                                               *)
SessionsAgree ==
    \A w \in Workers :
        Loaded(w) /\ Undisturbed(msg[w].report) /\ post[msg[w].report] # "rejected" =>
            /\ snap[w].status = row[msg[w].report].status
            /\ snap[w].error = row[msg[w].report].error

(* ... and only a retry is noted.                                           *)
NotesRetry == \A w \in Workers : pc[w] = "note" => msg[w].retries # 0

SayingInv == TrailAgreesWithStatus /\ AllExplained /\ SessionsAgree /\ NotesRetry

(* What a step may do to the session of a task that has read its report.    *)
SessionStep(w) ==
    \A r \in Reports : Loaded(w)' /\ r = msg'[w].report =>
        \/ ~Undisturbed(r)' \/ post'[r] = "rejected"
        \/ snap'[w].status = row'[r].status /\ snap'[w].error = row'[r].error
        \/ /\ Loaded(w) /\ snap'[w] = snap[w] /\ msg'[w] = msg[w]
           /\ row'[r].status = row[r].status /\ row'[r].error = row[r].error

LEMMA SessionsFramed ==
    ASSUME TypeInv, LedgerInv, [Next]_vars, SessionsAgree, \A w \in Workers : SessionStep(w)
    PROVE  SessionsAgree'
<1>0. TypeInv' /\ \A w \in Workers : Loaded(w)' => msg'[w].report \in Reports
    BY TypeNext DEF Loaded, Message, TypeInv, TypeOK
<1> SUFFICES ASSUME NEW w \in Workers, NEW r \in Reports, r = msg'[w].report, Loaded(w)',
                    Undisturbed(r)', post'[r] # "rejected"
             PROVE  snap'[w].status = row'[r].status /\ snap'[w].error = row'[r].error
    BY <1>0 DEF SessionsAgree
<1>1. SessionStep(w)
    OBVIOUS
<1>2. CASE /\ Loaded(w) /\ snap'[w] = snap[w] /\ msg'[w] = msg[w]
           /\ row'[r].status = row[r].status /\ row'[r].error = row[r].error
    <2>1. Undisturbed(r) /\ post[r] # "rejected"
        BY DisturbedStays
    <2>2. QED
        BY <1>2, <2>1 DEF SessionsAgree
<1>3. QED
    BY <1>1, <1>2 DEF SessionStep

(* A commit is quiet about the reports it is not about, ...                 *)
LEMMA CommitOthers ==
    ASSUME StoreTypeOK, NEW r \in Reports, NEW loaded, NEW new, NEW event,
           Commit(r, loaded, new, event)
    PROVE  \A q \in Reports : q # r => Quiet(q)
BY DEF Commit, UpdateRow, StoreTypeOK, Quiet

(* ... and says what it assigns when its session agreed with the table.     *)
LEMMA AgreedCommit ==
    ASSUME StoreTypeOK, NEW r \in Reports, NEW loaded \in Row, NEW new \in Row,
           NEW event \in EventTypes \ {"ENQUEUED"}, Commit(r, loaded, new, event),
           loaded.status = row[r].status, loaded.error = row[r].error,
           new.status = StatusOf[event], Explained(new)
    PROVE  Says(r, event) /\ row'[r].status = new.status /\ row'[r].error = new.error
<1>1. row'[r].status = new.status /\ row'[r].error = new.error
    BY DEF Commit, UpdateRow, Flushed, Column, StoreTypeOK
<1>2. events'[r] = Append(events[r], event)
    BY DEF Commit, StoreTypeOK
<1>3. Explained(row'[r])
    BY <1>1 DEF Explained
<1>4. QED
    BY <1>1, <1>2, <1>3 DEF Says

(* What every commit of a task is: its report has had an attempt when the   *)
(* commit is over, the row it assigns goes with its event, and its session  *)
(* keeps that row or is closed.                                             *)
Tried(r) == Len(attempts[r]) # 0

TaskWrites(w, new, event) ==
    /\ Loaded(w)
    /\ Commit(msg[w].report, snap[w], new, event)
    /\ new \in Row /\ new.status = StatusOf[event] /\ Explained(new)
    /\ pc'[w] = "idle" \/ (snap'[w] = new /\ msg'[w] = msg[w])
    /\ \A v \in Workers : v # w => pc'[v] = pc[v] /\ snap'[v] = snap[v] /\ msg'[v] = msg[v]
    /\ UNCHANGED <<post, deleteVars>>
    /\ Tried(msg[w].report) \/ Len(attempts'[msg[w].report]) # 0

(* The error message each operation of ReportService assigns.               *)
LEMMA AssignedError ==
    ASSUME NEW s \in Row
    PROVE  /\ StartedRow(s).error = NoError
           /\ \A e \in Errors : RetryRow(s, e).error = e
           /\ SuccessRow(s).error = NoError
           /\ \A e \in Errors : FailureRow(s, e).error = e
BY DEF StartedRow, RetryRow, SuccessRow, FailureRow, Row

LEMMA TaskWriting ==
    ASSUME TypeInv, LedgerInv, ChainInv, NotesRetry, NEW w \in Workers, TaskStep(w),
           \/ RecordRetry(w) \/ RecordStarted(w) \/ RecordRetryAttempt(w)
           \/ RecordFailure(w) \/ RecordSuccess(w)
    PROVE  \E new \in Row, event \in EventTypes \ {"ENQUEUED"} : TaskWrites(w, new, event)
<1> DEFINE r == msg[w].report
<1>0. /\ Busy(w) => r \in Reports /\ snap[w] \in Row /\ msg[w].retries \in 0..MaxRetries
      /\ ExcError \in Errors /\ ExcError # NoError /\ NoError = 0
    BY HoldersAreTyped, ErrorValues, RetriesAssumption DEF ExcError, NoError, TypeInv, TypeOK
<1>1. Busy(w) /\ pc[w] \in WorkerSteps
    BY TaskIsBusy DEF TypeInv, TypeOK
<1>2. /\ \A k \in 1..MaxRetries : Retried(r, k) => Tried(r)
      /\ pc[w] \in Attempting => Tried(r)
    BY <1>0, <1>1, RetriesAssumption DEF ChainInv, RunningIsLast, Retried, Tried
<1>3. /\ Explained(StartedRow(snap[w])) /\ Explained(SuccessRow(snap[w]))
      /\ \A e \in Errors \ {NoError} :
            Explained(FailureRow(snap[w], e)) /\ Explained(RetryRow(snap[w], e))
    <2>1. snap[w] \in Row
        BY <1>0, <1>1
    <2>2. Explained(StartedRow(snap[w])) /\ Explained(SuccessRow(snap[w]))
        BY <2>1, AssignedStatus, AssignedError DEF Explained
    <2>3. \A e \in Errors \ {NoError} :
            Explained(FailureRow(snap[w], e)) /\ Explained(RetryRow(snap[w], e))
        BY <2>1, AssignedStatus, AssignedError DEF Explained
    <2>4. QED
        BY <2>2, <2>3
<1>4. CASE RecordRetry(w)
    <2> DEFINE new == RetryRow(snap[w], msg[w].retries)
    <2>0. msg[w].retries \in Errors /\ msg[w].retries # 0
        BY <1>0, <1>1, <1>4, ErrorValues DEF NotesRetry, RecordRetry
    <2>1. new \in Row /\ new.status = "RETRY" /\ Explained(new)
        BY <1>0, <1>1, <1>3, <2>0, TransformedRows, AssignedStatus
    <2>2. msg[w].retries \in 1..MaxRetries /\ Tried(r)
        BY <1>0, <1>1, <1>2, <1>4, RetriesAssumption
        DEF RecordRetry, NotesRetry, ChainInv, WaitingRetried, Starting
    <2>3. TaskWrites(w, new, "RETRIED")
        BY <1>4, <2>1, <2>2, StatusesOfEvents
        DEF TaskWrites, RecordRetry, TaskCommits, GoTo, Loaded, TypeInv, TypeOK
    <2>4. QED
        BY <2>1, <2>3, StatusesOfEvents
<1>5. CASE RecordStarted(w)
    <2> DEFINE new == StartedRow(snap[w])
    <2>1. new \in Row /\ new.status = "STARTED" /\ Explained(new)
        BY <1>0, <1>1, <1>3, TransformedRows, AssignedStatus, ErrorValues
    <2>2. Len(attempts'[r]) # 0
        <3>1. OpenedOnto(w, r)
            BY <1>5, OpenedAttempt
        <3>2. QED
            BY <3>1 DEF OpenedOnto
    <2>3. TaskWrites(w, new, "STARTED")
        BY <1>5, <2>1, <2>2, StatusesOfEvents
        DEF TaskWrites, RecordStarted, TaskCommits, GoTo, Loaded, TypeInv, TypeOK
    <2>4. QED
        BY <2>1, <2>3, StatusesOfEvents
<1>6. CASE RecordRetryAttempt(w)
    <2> DEFINE new == RetryRow(snap[w], ExcError)
    <2>1. new \in Row /\ new.status = "RETRY" /\ Explained(new)
        BY <1>0, <1>1, <1>3, TransformedRows, AssignedStatus
    <2>2. Tried(r)
        BY <1>2, <1>6 DEF RecordRetryAttempt, Attempting
    <2>3. TaskWrites(w, new, "RETRIED")
        BY <1>6, <2>1, <2>2, StatusesOfEvents
        DEF TaskWrites, RecordRetryAttempt, TaskCommits, GoTo, Loaded, TypeInv, TypeOK
    <2>4. QED
        BY <2>1, <2>3, StatusesOfEvents
<1>7. CASE RecordFailure(w)
    <2> DEFINE new == FailureRow(snap[w], ExcError)
    <2>1. new \in Row /\ new.status = "FAILURE" /\ Explained(new)
        BY <1>0, <1>1, <1>3, TransformedRows, AssignedStatus, ErrorValues
    <2>2. Tried(r)
        BY <1>2, <1>7 DEF RecordFailure, Attempting
    <2>3. TaskWrites(w, new, "FAILED")
        BY <1>7, <2>1, <2>2, StatusesOfEvents
        DEF TaskWrites, RecordFailure, EndTask, Loaded, TypeInv, TypeOK
    <2>4. QED
        BY <2>1, <2>3, StatusesOfEvents
<1>8. CASE RecordSuccess(w)
    <2> DEFINE new == SuccessRow(snap[w])
    <2>1. new \in Row /\ new.status = "SUCCESS" /\ Explained(new)
        BY <1>0, <1>1, <1>3, TransformedRows, AssignedStatus, ErrorValues
    <2>2. Tried(r)
        BY <1>2, <1>8 DEF RecordSuccess, Attempting
    <2>3. TaskWrites(w, new, "SUCCEEDED")
        BY <1>8, <2>1, <2>2, StatusesOfEvents
        DEF TaskWrites, RecordSuccess, EndTask, Loaded, TypeInv, TypeOK
    <2>4. QED
        BY <2>1, <2>3, StatusesOfEvents
<1>9. QED
    BY <1>4, <1>5, <1>6, <1>7, <1>8

(* A commit of a task says what is true, or is about a disturbed report.    *)
LEMMA TaskSays ==
    ASSUME TypeInv, LedgerInv, OneAtATime, SayingInv, [Next]_vars, NEW w \in Workers,
           NEW new \in Row, NEW event \in EventTypes \ {"ENQUEUED"}, TaskWrites(w, new, event)
    PROVE  /\ \A q \in Reports : TrueStep(q)
           /\ \A v \in Workers : SessionStep(v)
<1>0. PICK r : r = msg[w].report
    OBVIOUS
<1>1. /\ StoreTypeOK /\ r \in Reports /\ snap[w] \in Row /\ Busy(w)
      /\ attempts[r] = <<>> => Len(attempts[r]) = 0
      /\ attempts'[r] = <<>> => Len(attempts'[r]) = 0
    BY <1>0, HoldersAreTyped DEF TaskWrites, Loaded, Busy, TypeInv, TypeOK
<1>2. \A q \in Reports : q # r => Quiet(q)
    BY <1>0, <1>1, CommitOthers DEF TaskWrites
<1>3. ASSUME Undisturbed(r)'
      PROVE  /\ Undisturbed(r) /\ Says(r, event)
             /\ row'[r].status = new.status /\ row'[r].error = new.error
    <2>1. Undisturbed(r) /\ (post[r] = "rejected" => post'[r] = "rejected")
        BY <1>1, <1>3, DisturbedStays
    <2>2. post[r] # "rejected"
        BY <1>0, <1>1, <1>3, <2>1 DEF TaskWrites, Undisturbed, Tried
    <2>3. snap[w].status = row[r].status /\ snap[w].error = row[r].error
        BY <1>0, <2>1, <2>2 DEF SayingInv, SessionsAgree, TaskWrites
    <2>4. QED
        BY <1>0, <1>1, <2>1, <2>3, AgreedCommit DEF TaskWrites
<1>4. \A q \in Reports : TrueStep(q)
    <2>1. TrueStep(r)
        BY <1>3 DEF TrueStep
    <2>2. ASSUME NEW q \in Reports, q # r, Undisturbed(q)' PROVE Undisturbed(q)
        BY <2>2, DisturbedStays
    <2>3. QED
        BY <1>2, <2>1, <2>2 DEF TrueStep
<1>5. ASSUME NEW v \in Workers PROVE SessionStep(v)
    <2>1. CASE v = w
        BY <1>0, <1>3, <2>1 DEF SessionStep, TaskWrites, Loaded
    <2>2. CASE v # w
        <3>1. pc'[v] = pc[v] /\ snap'[v] = snap[v] /\ msg'[v] = msg[v]
            BY <2>2 DEF TaskWrites
        <3>2. Busy(v) => msg[v].report # r
            BY <1>0, <1>1, <2>2 DEF OneAtATime
        <3>3. QED
            BY <1>2, <3>1, <3>2 DEF SessionStep, Quiet, Loaded, Busy
    <2>3. QED
        BY <2>1, <2>2
<1>6. QED
    BY <1>4, <1>5

(* The handlers of POST, GET and DELETE.                                    *)
SaysWell ==
    /\ \A q \in Reports : TrueStep(q)
    /\ \A v \in Workers : SessionStep(v)

(* A step that writes neither status, error message nor trail, and moves no *)
(* session but those it reads from the table.                               *)
QuietStep ==
    /\ \A q \in Reports : Quiet(q)
    /\ \A v \in Workers : Loaded(v)' =>
          \/ \A q \in Reports : q = msg'[v].report =>
                snap'[v].status = row'[q].status /\ snap'[v].error = row'[q].error
          \/ Loaded(v) /\ snap'[v] = snap[v] /\ msg'[v] = msg[v]

LEMMA QuietSteps ==
    ASSUME TypeInv, LedgerInv, [Next]_vars, QuietStep
    PROVE  SaysWell
<1>1. \A q \in Reports : TrueStep(q)
    BY DisturbedStays DEF QuietStep, TrueStep
<1>2. \A v \in Workers : SessionStep(v)
    BY DEF QuietStep, SessionStep, Quiet
<1>3. QED
    BY <1>1, <1>2 DEF SaysWell

(* A step that says something of one report only, beside quiet sessions.    *)
LEMMA OneReportSays ==
    ASSUME TypeInv, LedgerInv, [Next]_vars, NEW r \in Reports,
           \A q \in Reports : q # r => Quiet(q),
           UNCHANGED <<pc, msg, snap>>,
           \/ ~Undisturbed(r)'
           \/ /\ \E event \in EventTypes : Says(r, event)
              /\ post'[r] = "rejected" \/ \A v \in Workers : Busy(v) => msg[v].report # r
    PROVE  SaysWell
<1>1. \A q \in Reports : TrueStep(q)
    BY DisturbedStays DEF TrueStep
<1>2. ASSUME NEW v \in Workers PROVE SessionStep(v)
    <2> SUFFICES ASSUME NEW q \in Reports, Loaded(v), q = msg[v].report, Undisturbed(q)',
                        post'[q] # "rejected"
                 PROVE  row'[q].status = row[q].status /\ row'[q].error = row[q].error
        BY DEF SessionStep, Loaded
    <2>1. q # r
        BY DEF Loaded, Busy
    <2>2. QED
        BY <2>1 DEF Quiet
<1>3. QED
    BY <1>1, <1>2 DEF SaysWell

(* A commit that writes neither the status nor the error message.           *)
LEMMA SilentUpdate ==
    ASSUME StoreTypeOK, NEW r \in Reports, NEW loaded \in Row, NEW new,
           UpdateRow(r, loaded, new), new.status = loaded.status, new.error = loaded.error,
           \A q \in Reports : events'[q] = events[q] \/ events'[q] = Append(events[q], "ENQUEUED")
    PROVE  \A q \in Reports : Quiet(q)
BY DEF UpdateRow, Flushed, Column, StoreTypeOK, Quiet

LEMMA PostSaysWell ==
    ASSUME TypeInv, LedgerInv, HolderInv, [Next]_vars, NEW r \in Reports, PostStep(r)
    PROVE  SaysWell
<1>0. StoreTypeOK /\ NewRow \in Row
    BY InitialRows DEF TypeInv, TypeOK
<1>1. UNCHANGED <<pc, msg, snap>>
    BY DEF PostStep, CreateReport, Publish, PublishFails, MarkEnqueued, MarkEnqueueFailure,
           PostDies, workerVars
<1>2. CASE CreateReport(r)
    <2>1. \A q \in Reports : q # r => Quiet(q)
        BY <1>0, <1>2 DEF CreateReport, InsertReport, StoreTypeOK, Quiet
    <2>2. Says(r, "REQUESTED")
        BY <1>0, <1>2, StatusesOfEvents
        DEF CreateReport, InsertReport, StoreTypeOK, Says, Explained, NewRow
    <2>3. \A v \in Workers : Busy(v) => msg[v].report # r
        BY <1>2 DEF CreateReport, HolderInv, UnpublishedIsIdle
    <2>4. QED
        BY <1>1, <2>1, <2>2, <2>3, StatusesOfEvents, OneReportSays
<1>3. CASE Publish(r) \/ PublishFails(r) \/ PostDies(r)
    <2>1. QuietStep
        BY <1>1, <1>3
        DEF Publish, PublishFails, PostDies, storeVars, QuietStep, Quiet, Loaded
    <2>2. QED
        BY <2>1, QuietSteps
<1>4. CASE MarkEnqueued(r)
    <2>1. EnqueuedRow(NewRow).status = NewRow.status /\ EnqueuedRow(NewRow).error = NewRow.error
        BY DEF EnqueuedRow, NewRow
    <2>2. \A q \in Reports : Quiet(q)
        BY <1>0, <1>4, <2>1, SilentUpdate DEF MarkEnqueued, Commit, StoreTypeOK
    <2>3. QED
        BY <1>1, <2>2, QuietSteps DEF QuietStep, Loaded
<1>5. CASE MarkEnqueueFailure(r)
    <2> DEFINE new == FailureRow(NewRow, ExcError)
    <2>1. new \in Row /\ new.status = "FAILURE" /\ new.error = ExcError
        BY <1>0, TransformedRows, AssignedStatus, AssignedError, ErrorValues
    <2>2. NewRow.status = "PENDING" /\ NewRow.error = NoError /\ ExcError # NoError
        BY RetriesAssumption DEF NewRow, ExcError, NoError
    <2>3. \A q \in Reports : q # r => Quiet(q)
        BY <1>0, <1>5, CommitOthers DEF MarkEnqueueFailure
    <2>4. row'[r].status = "FAILURE" /\ row'[r].error = ExcError
        BY <1>0, <1>5, <2>1, <2>2
        DEF MarkEnqueueFailure, Commit, UpdateRow, Flushed, Column, StoreTypeOK
    <2>5. events'[r] = Append(events[r], "FAILED") /\ post'[r] = "rejected"
        BY <1>0, <1>5 DEF MarkEnqueueFailure, Commit, StoreTypeOK, TypeInv, TypeOK
    <2>6. Says(r, "FAILED")
        BY <2>2, <2>4, <2>5, StatusesOfEvents DEF Says, Explained
    <2>7. QED
        BY <1>1, <2>3, <2>5, <2>6, StatusesOfEvents, OneReportSays
<1>6. QED
    BY <1>2, <1>3, <1>4, <1>5 DEF PostStep

LEMMA OthersSayWell ==
    ASSUME TypeInv, LedgerInv, [Next]_vars
    PROVE  /\ \A r \in Reports : Expire(r) \/ GetReport(r) => SaysWell
           /\ \A d \in Deletes : DeleteStep(d) => SaysWell
           /\ NodeStep \/ UNCHANGED vars => SaysWell
<1>0. StoreTypeOK
    BY DEF TypeInv, TypeOK
<1>1. ASSUME UNCHANGED <<pc, msg, snap>>, \A q \in Reports : Quiet(q)
      PROVE  SaysWell
    BY <1>1, QuietSteps DEF QuietStep, Loaded
<1>2. ASSUME UNCHANGED <<row, events, pc, msg, snap>>
      PROVE  SaysWell
    BY <1>1, <1>2 DEF Quiet
<1>3. ASSUME NEW r \in Reports, StampDeleted(r), UNCHANGED <<events, pc, msg, snap>>
      PROVE  SaysWell
    <2>1. row[r] \in Row
        BY <1>0 DEF StoreTypeOK
    <2>2. DeletedRow(row[r]).status = row[r].status /\ DeletedRow(row[r]).error = row[r].error
        BY <2>1 DEF DeletedRow, Row
    <2>3. \A q \in Reports : Quiet(q)
        BY <1>0, <1>3, <2>1, <2>2, SilentUpdate DEF StampDeleted
    <2>4. QED
        BY <1>1, <1>3, <2>3
<1>4. ASSUME NEW r \in Reports, Expire(r) \/ GetReport(r) PROVE SaysWell
    BY <1>2, <1>3, <1>4 DEF Expire, GetReport, storeVars, workerVars
<1>5. ASSUME NEW d \in Deletes, DeleteStep(d) PROVE SaysWell
    <2>0. target[d] \in Reports /\ del \in [Deletes -> DeleteSteps]
        BY DEF TypeInv, TypeOK
    <2>1. CASE CancelGone(d)
        BY <1>3, <2>0, <2>1 DEF CancelGone, workerVars
    <2>2. CASE CancelRefused(d) \/ CancelLoads(d) \/ CancelRevokes(d) \/ CancelDies(d)
        BY <1>2, <2>2
        DEF CancelRefused, CancelLoads, CancelRevokes, CancelDies, storeVars, workerVars
    <2>3. CASE CancelCommits(d)
        <3>1. PICK r : r = target[d]
            OBVIOUS
        <3>2. \A q \in Reports : q # r => Quiet(q)
            BY <1>0, <2>0, <2>3, <3>1, CommitOthers DEF CancelCommits
        <3>3. UNCHANGED <<pc, msg, snap>> /\ del'[d] = "done" /\ target' = target
            BY <2>0, <2>3 DEF CancelCommits, EndDelete, workerVars
        <3>4. ~Undisturbed(r)'
            BY <3>1, <3>3 DEF Undisturbed
        <3>5. QED
            BY <2>0, <3>1, <3>2, <3>3, <3>4, OneReportSays
    <2>4. QED
        BY <1>5, <2>1, <2>2, <2>3 DEF DeleteStep
<1>6. ASSUME NodeStep \/ UNCHANGED vars PROVE SaysWell
    <2>1. CASE NodeRestarts
        <3>1. QuietStep
            BY <2>1 DEF NodeRestarts, storeVars, QuietStep, Quiet, Loaded
        <3>2. QED
            BY <3>1, QuietSteps
    <2>2. ASSUME NEW w \in Workers, NEW m \in Pending, TaskStarts(w, m) PROVE SaysWell
        <3>1. UNCHANGED <<row, events, snap>>
            BY <2>2 DEF TaskStarts, storeVars
        <3>2. \A v \in Workers :
                ~Loaded(v)' \/ (Loaded(v) /\ snap'[v] = snap[v] /\ msg'[v] = msg[v])
            BY <2>2 DEF TaskStarts, TypeInv, TypeOK, Loaded
        <3>3. QED
            BY <3>1, <3>2, QuietSteps DEF QuietStep, Quiet
    <2>3. CASE UNCHANGED <<row, events, pc, msg, snap>>
        BY <1>2, <2>3
    <2>4. QED
        BY <1>6, <2>1, <2>2, <2>3
        DEF NodeStep, NodeReceives, NodeDiscards, NodeRevokes, vars, storeVars, workerVars
<1>7. QED
    BY <1>4, <1>5, <1>6

LEMMA TaskSaysWell ==
    ASSUME TypeInv, LedgerInv, OneAtATime, ChainInv, SayingInv, [Next]_vars,
           NEW w \in Workers, TaskStep(w)
    PROVE  SaysWell
<1>1. CASE \/ RecordRetry(w) \/ RecordStarted(w) \/ RecordRetryAttempt(w)
           \/ RecordFailure(w) \/ RecordSuccess(w)
    BY <1>1, TaskWriting, TaskSays DEF SayingInv, SaysWell
<1> DEFINE Alone == \A v \in Workers : v # w =>
                        pc'[v] = pc[v] /\ snap'[v] = snap[v] /\ msg'[v] = msg[v]
<1>2. CASE UNCHANGED <<row, events>> /\ EndTask(w)
    <2>1. pc'[w] = "idle" /\ Alone
        BY <1>2 DEF EndTask, TypeInv, TypeOK
    <2>2. QuietStep
        BY <1>2, <2>1 DEF QuietStep, Quiet, Loaded
    <2>3. QED
        BY <2>2, QuietSteps
<1>3. CASE Refresh(w) \/ (TaskLoads(w) /\ ~EndTask(w))
    <2>1. /\ UNCHANGED <<row, events, msg>> /\ snap'[w] = row[msg[w].report] /\ Alone
        BY <1>3 DEF Refresh, TaskLoads, GoTo, TypeInv, TypeOK, storeVars
    <2>2. QuietStep
        BY <2>1 DEF QuietStep, Quiet, Loaded
    <2>3. QED
        BY <2>2, QuietSteps
<1>4. CASE CountAttempts(w) \/ Upload(w) \/ UploadFails(w) \/ GenerationFails(w)
    <2>1. UNCHANGED <<row, events, msg, snap>> /\ Loaded(w) /\ Alone
        BY <1>4 DEF CountAttempts, Upload, UploadFails, GenerationFails, GoTo, TypeInv, TypeOK,
                    storeVars, Loaded
    <2>2. QuietStep
        BY <2>1 DEF QuietStep, Quiet, Loaded
    <2>3. QED
        BY <2>2, QuietSteps
<1>5. \/ UNCHANGED <<row, events>> /\ EndTask(w)
      \/ TaskLoads(w) /\ ~EndTask(w)
      \/ CountAttempts(w) \/ Upload(w) \/ UploadFails(w) \/ GenerationFails(w) \/ Refresh(w)
      \/ RecordRetry(w) \/ RecordStarted(w) \/ RecordRetryAttempt(w)
      \/ RecordFailure(w) \/ RecordSuccess(w)
    BY DEF TaskStep, TaskLoads, LoadFails, Republish, RepublishFails, RecordCanceled,
           RecordSuccessFails, TaskDies, storeVars
<1>6. QED
    BY <1>1, <1>2, <1>3, <1>4, <1>5

LEMMA NotesNext ==
    ASSUME TypeInv, NotesRetry, [Next]_vars
    PROVE  NotesRetry'
<1>1. ASSUME NEW w \in Workers, NEW v \in Workers, TaskStep(w), pc'[v] = "note"
      PROVE  \/ pc[v] = "note" /\ msg'[v] = msg[v]
             \/ v = w /\ TaskLoads(w) /\ msg[w].retries > 0 /\ msg'[v] = msg[v]
    BY <1>1
    DEF TaskStep, TaskLoads, LoadFails, RecordRetry, CountAttempts, RecordStarted, Upload,
        UploadFails, GenerationFails, RecordRetryAttempt, Republish, RepublishFails,
        RecordFailure, Refresh, RecordCanceled, RecordSuccess, RecordSuccessFails, TaskDies,
        GoTo, EndTask, TypeInv, TypeOK
<1>2. ASSUME NEW w \in Workers, TaskStep(w) PROVE NotesRetry'
    <2> SUFFICES ASSUME NEW v \in Workers, pc'[v] = "note" PROVE msg'[v].retries # 0
        BY DEF NotesRetry
    <2>1. CASE pc[v] = "note" /\ msg'[v] = msg[v]
        BY <2>1 DEF NotesRetry
    <2>2. CASE v = w /\ TaskLoads(w) /\ msg[w].retries > 0 /\ msg'[v] = msg[v]
        <3>1. msg[w].retries \in 0..MaxRetries
            BY <2>2, HoldersAreTyped DEF TaskLoads, Busy
        <3>2. QED
            BY <2>2, <3>1, RetriesAssumption
    <2>3. QED
        BY <1>1, <1>2, <2>1, <2>2
<1>3. ASSUME NodeStep PROVE NotesRetry'
    BY <1>3
    DEF NodeStep, NodeReceives, NodeDiscards, TaskStarts, NodeRevokes, NodeRestarts, NotesRetry,
        workerVars, TypeInv, TypeOK
<1>4. ASSUME \/ \E r \in Reports : PostStep(r) \/ Expire(r) \/ GetReport(r)
             \/ \E d \in Deletes : DeleteStep(d)
             \/ UNCHANGED vars
      PROVE  UNCHANGED <<pc, msg>>
    BY <1>4
    DEF PostStep, CreateReport, Publish, PublishFails, MarkEnqueued, MarkEnqueueFailure,
        PostDies, Expire, GetReport, DeleteStep, CancelGone, CancelRefused, CancelLoads,
        CancelRevokes, CancelCommits, CancelDies, vars, workerVars
<1>5. QED
    BY <1>2, <1>3, <1>4 DEF Next, NotesRetry

LEMMA SayingNext ==
    ASSUME TypeInv, HolderInv, LedgerInv, OneAtATime, ChainInv, SayingInv, [Next]_vars
    PROVE  SayingInv'
<1>1. SaysWell
    BY PostSaysWell, OthersSayWell, TaskSaysWell DEF Next
<1>2. TrailAgreesWithStatus' /\ AllExplained'
    BY <1>1, TrailFramed DEF SaysWell, SayingInv
<1>3. SessionsAgree'
    BY <1>1, SessionsFramed DEF SaysWell, SayingInv
<1>4. NotesRetry'
    BY NotesNext DEF SayingInv
<1>5. QED
    BY <1>2, <1>3, <1>4 DEF SayingInv

LEMMA SayingInit == Init => SayingInv
<1> SUFFICES ASSUME Init PROVE SayingInv
    OBVIOUS
<1>0. \A r \in Reports : row[r].status = "ABSENT" /\ events[r] = <<>>
    BY DEF Init, StoreInit, AbsentRow, NewRow
<1>1. \A r \in Reports : DOMAIN events[r] = {}
    <2>1. <<>> \in Seq(EventTypes) /\ Len(<<>>) = 0
        OBVIOUS
    <2>2. DOMAIN <<>> = 1..0 /\ 1..0 = {}
        BY <2>1, LenProperties
    <2>3. \A trail : trail = <<>> => DOMAIN trail = {}
        BY <2>2
    <2>4. QED
        BY <1>0, <2>3
<1>2. \A w \in Workers : pc[w] = "idle"
    BY DEF Init
<1>3. TrailAgreesWithStatus
    BY <1>1 DEF TrailAgreesWithStatus
<1>4. AllExplained
    BY <1>0 DEF AllExplained, Explained
<1>5. SessionsAgree /\ NotesRetry
    BY <1>2 DEF SessionsAgree, NotesRetry, Loaded
<1>6. QED
    BY <1>3, <1>4, <1>5 DEF SayingInv

(* With exact publication a task writes over what it has read, so the       *)
(* invariant is inductive.                                                  *)
THEOREM SayingInvariance ==
    ASSUME ExactPublication
    PROVE  Spec => []SayingInv
<1>1. TypeInv /\ HolderInv /\ LedgerInv /\ ChainInv /\ SayingInv /\ [Next]_vars => SayingInv'
    BY ExactIsOneAtATime, SayingNext
<1>2. QED
    BY <1>1, SayingInit, TypeInvariance, HolderInvariance, LedgerInvariance, ChainInvariance,
       PTL DEF Spec

(* With exact publication the last announcement of a trail is the status of *)
(* its report, until a DELETE request has read it or POST has failed it     *)
(* although it was published: _record_event, flush and commit of each       *)
(* operation of report_service.py against the sessions of all others.       *)
THEOREM LastAnnouncementIsTheStatus ==
    ASSUME ExactPublication
    PROVE  Spec => []TrailAgreesWithStatus
<1>1. SayingInv => TrailAgreesWithStatus
    BY DEF SayingInv
<1>2. QED
    BY <1>1, SayingInvariance, PTL

(* ... and the error message goes with it: no column is left behind because *)
(* the session already had the value (mark_started, mark_success clear it,  *)
(* mark_retry and mark_failure set it).                                     *)
THEOREM ErrorsExplainStatuses ==
    ASSUME ExactPublication
    PROVE  Spec => []ErrorExplainsStatus
<1>1. SayingInv => ErrorExplainsStatus
    BY DEF SayingInv, AllExplained, Explained, ErrorExplainsStatus
<1>2. QED
    BY <1>1, SayingInvariance, PTL

=============================================================================
