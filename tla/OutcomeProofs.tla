---------------------------- MODULE OutcomeProofs ----------------------------
(***************************************************************************)
(* Theorems about the outcome of a report and of its attempts, for any     *)
(* value of the constants: what the stale snapshots of concurrent handlers *)
(* can and cannot do to it.                                                *)
(***************************************************************************)
EXTENDS PipelineProofs

-----------------------------------------------------------------------------
(* The status a commit leaves                                               *)

(* Only report r changes its status, if any does, and to one of statuses.   *)
ChangesStatusTo(r, statuses) ==
    \A q \in Reports :
        row'[q].status # row[q].status => q = r /\ row'[q].status \in statuses

(* Who does not change a column does not write it: an update leaves the     *)
(* stored status or the one the handler assigned.                           *)
LEMMA StatusAfterUpdate ==
    ASSUME StoreTypeOK, NEW r \in Reports, NEW loaded \in Row, NEW new \in Row,
           UpdateRow(r, loaded, new)
    PROVE  /\ ChangesStatusTo(r, {new.status})
           /\ new.status = loaded.status => ChangesStatusTo(r, {})
<1>1. \A q \in Reports : q # r => row'[q] = row[q]
    BY DEF UpdateRow, StoreTypeOK
<1>2. row'[r].status = Column(row[r].status, loaded.status, new.status)
    BY DEF UpdateRow, StoreTypeOK, Flushed
<1>3. QED
    BY <1>1, <1>2 DEF Column, ChangesStatusTo

(* The status each operation of ReportService assigns.                      *)
LEMMA AssignedStatus ==
    ASSUME NEW s \in Row
    PROVE  /\ EnqueuedRow(s).status = s.status
           /\ DeletedRow(s).status = s.status
           /\ StartedRow(s).status = "STARTED"
           /\ \A e \in Errors : RetryRow(s, e).status = "RETRY"
           /\ CanceledRow(s).status = "CANCELED"
           /\ SuccessRow(s).status = "SUCCESS"
           /\ \A e \in Errors : FailureRow(s, e).status = "FAILURE"
BY DEF EnqueuedRow, DeletedRow, StartedRow, RetryRow, CanceledRow, SuccessRow, FailureRow,
       Row

(* The status every handler but the worker's task can write.                *)
LEMMA HandlerStatus ==
    ASSUME TypeInv
    PROVE  /\ \A r \in Reports : PostStep(r) =>
                  \/ post[r] = "new" /\ ChangesStatusTo(r, {"PENDING"})
                  \/ post[r] = "unsent" /\ ChangesStatusTo(r, {"FAILURE"})
                  \/ ChangesStatusTo(r, {})
           /\ \A r \in Reports : Expire(r) \/ GetReport(r) => ChangesStatusTo(r, {})
           /\ \A d \in Deletes : DeleteStep(d) =>
                  \/ del[d] = "commit" /\ ChangesStatusTo(target[d], {"CANCELED"})
                  \/ ChangesStatusTo(target[d], {})
           /\ NodeStep => \A r \in Reports : ChangesStatusTo(r, {})
<1> USE DEF TypeInv, TypeOK
<1>0. NewRow.status = "PENDING" /\ row \in [Reports -> Row]
    BY DEF NewRow, StoreTypeOK
<1>1. ASSUME NEW r \in Reports, PostStep(r)
      PROVE  \/ post[r] = "new" /\ ChangesStatusTo(r, {"PENDING"})
             \/ post[r] = "unsent" /\ ChangesStatusTo(r, {"FAILURE"})
             \/ ChangesStatusTo(r, {})
    <2>1. CASE CreateReport(r)
        BY <1>0, <2>1 DEF CreateReport, InsertReport, ChangesStatusTo
    <2>2. CASE Publish(r) \/ PublishFails(r) \/ PostDies(r)
        BY <2>2 DEF Publish, PublishFails, PostDies, storeVars, ChangesStatusTo
    <2>3. CASE MarkEnqueued(r)
        <3>1. EnqueuedRow(NewRow) \in Row
            BY InitialRows, TransformedRows, ErrorValues
        <3>2. EnqueuedRow(NewRow).status = NewRow.status
            BY InitialRows, AssignedStatus
        <3>3. UpdateRow(r, NewRow, EnqueuedRow(NewRow))
            BY <2>3 DEF MarkEnqueued, Commit
        <3>4. ChangesStatusTo(r, {})
            BY <3>1, <3>2, <3>3, InitialRows, StatusAfterUpdate
        <3>5. QED
            BY <3>4
    <2>4. CASE MarkEnqueueFailure(r)
        <3>1. FailureRow(NewRow, ExcError) \in Row
            BY InitialRows, TransformedRows, ErrorValues
        <3>2. FailureRow(NewRow, ExcError).status = "FAILURE"
            BY InitialRows, ErrorValues, AssignedStatus
        <3>3. post[r] = "unsent" /\ UpdateRow(r, NewRow, FailureRow(NewRow, ExcError))
            BY <2>4 DEF MarkEnqueueFailure, Commit
        <3>4. ChangesStatusTo(r, {"FAILURE"})
            BY <3>1, <3>2, <3>3, InitialRows, StatusAfterUpdate
        <3>5. QED
            BY <3>3, <3>4
    <2>5. QED
        BY <1>1, <2>1, <2>2, <2>3, <2>4 DEF PostStep
<1>2. ASSUME NEW r \in Reports, StampDeleted(r) PROVE ChangesStatusTo(r, {})
    <2>1. row[r] \in Row /\ DeletedRow(row[r]) \in Row
        BY <1>0, TransformedRows, ErrorValues
    <2>2. DeletedRow(row[r]).status = row[r].status
        BY <2>1, AssignedStatus
    <2>3. QED
        BY <1>2, <2>1, <2>2, StatusAfterUpdate DEF StampDeleted
<1>3. ASSUME NEW r \in Reports, Expire(r) \/ GetReport(r) PROVE ChangesStatusTo(r, {})
    BY <1>2, <1>3 DEF Expire, GetReport, storeVars, ChangesStatusTo
<1>4. ASSUME NEW d \in Deletes, DeleteStep(d)
      PROVE  \/ del[d] = "commit" /\ ChangesStatusTo(target[d], {"CANCELED"})
             \/ ChangesStatusTo(target[d], {})
    <2>1. CASE CancelGone(d)
        BY <1>2, <2>1 DEF CancelGone, ChangesStatusTo
    <2>2. CASE CancelRefused(d) \/ CancelLoads(d) \/ CancelRevokes(d) \/ CancelDies(d)
        BY <2>2 DEF CancelRefused, CancelLoads, CancelRevokes, CancelDies, storeVars,
                    ChangesStatusTo
    <2>3. CASE CancelCommits(d)
        <3>1. CanceledRow(delSnap[d]) \in Row
            BY TransformedRows, ErrorValues
        <3>2. QED
            BY <2>3, <3>1, AssignedStatus, StatusAfterUpdate DEF CancelCommits, Commit
    <2>4. QED
        BY <1>4, <2>1, <2>2, <2>3 DEF DeleteStep
<1>5. ASSUME NodeStep PROVE \A r \in Reports : ChangesStatusTo(r, {})
    BY <1>5 DEF NodeStep, NodeReceives, NodeDiscards, TaskStarts, NodeRevokes, NodeRestarts,
                storeVars, ChangesStatusTo
<1>6. QED
    BY <1>1, <1>3, <1>4, <1>5

(* The status the steps of a task can write, and where it is when it does.  *)
LEMMA TaskStatus ==
    ASSUME TypeInv, NEW w \in Workers, TaskStep(w)
    PROVE  /\ \/ /\ pc[w] \in {"note", "start", "retry", "fail"}
                 /\ ChangesStatusTo(msg[w].report, {"STARTED", "RETRY", "FAILURE"})
              \/ RecordSuccess(w) /\ ChangesStatusTo(msg[w].report, {"SUCCESS"})
              \/ ChangesStatusTo(msg[w].report, {})
           /\ \/ RecordFailure(w)
              \/ ChangesStatusTo(msg[w].report, {"STARTED", "RETRY", "SUCCESS"})
<1> DEFINE r == msg[w].report
<1>0. /\ StoreTypeOK
      /\ Busy(w) => r \in Reports /\ snap[w] \in Row /\ msg[w].retries \in Errors
    BY ErrorValues DEF Busy, Message, TypeInv, TypeOK
<1>1. CASE RecordRetry(w)
    <2>1. RetryRow(snap[w], msg[w].retries) \in Row
        BY <1>0, <1>1, TransformedRows DEF RecordRetry, Busy
    <2>2. ChangesStatusTo(r, {"RETRY"})
        BY <1>0, <1>1, <2>1, AssignedStatus, StatusAfterUpdate
        DEF RecordRetry, Busy, TaskCommits, Commit
    <2>3. QED
        BY <1>1, <2>2 DEF RecordRetry, ChangesStatusTo
<1>2. CASE RecordStarted(w)
    <2>1. StartedRow(snap[w]) \in Row
        BY <1>0, <1>2, TransformedRows, ErrorValues DEF RecordStarted, Busy
    <2>2. ChangesStatusTo(r, {"STARTED"})
        BY <1>0, <1>2, <2>1, AssignedStatus, StatusAfterUpdate
        DEF RecordStarted, Busy, TaskCommits, Commit
    <2>3. QED
        BY <1>2, <2>2 DEF RecordStarted, ChangesStatusTo
<1>3. CASE RecordRetryAttempt(w)
    <2>1. RetryRow(snap[w], ExcError) \in Row
        BY <1>0, <1>3, TransformedRows, ErrorValues DEF RecordRetryAttempt, Busy
    <2>2. ChangesStatusTo(r, {"RETRY"})
        BY <1>0, <1>3, <2>1, ErrorValues, AssignedStatus, StatusAfterUpdate
        DEF RecordRetryAttempt, Busy, TaskCommits, Commit
    <2>3. QED
        BY <1>3, <2>2 DEF RecordRetryAttempt, ChangesStatusTo
<1>4. CASE RecordFailure(w)
    <2>1. FailureRow(snap[w], ExcError) \in Row
        BY <1>0, <1>4, TransformedRows, ErrorValues DEF RecordFailure, Busy
    <2>2. ChangesStatusTo(r, {"FAILURE"})
        <3>1. UpdateRow(r, snap[w], FailureRow(snap[w], ExcError)) /\ Busy(w)
            BY <1>4 DEF RecordFailure, Busy, Commit
        <3>2. QED
            BY <1>0, <2>1, <3>1, ErrorValues, AssignedStatus, StatusAfterUpdate
    <2>3. QED
        BY <1>4, <2>2 DEF RecordFailure, ChangesStatusTo
<1>5. CASE RecordSuccess(w)
    <2>1. SuccessRow(snap[w]) \in Row
        BY <1>0, <1>5, TransformedRows, ErrorValues DEF RecordSuccess, Busy
    <2>2. ChangesStatusTo(r, {"SUCCESS"})
        <3>1. UpdateRow(r, snap[w], SuccessRow(snap[w])) /\ Busy(w)
            BY <1>5 DEF RecordSuccess, Busy, Commit
        <3>2. QED
            BY <1>0, <2>1, <3>1, AssignedStatus, StatusAfterUpdate
    <2>3. QED
        BY <1>5, <2>2 DEF ChangesStatusTo
<1>6. ASSUME ~RecordRetry(w), ~RecordStarted(w), ~RecordRetryAttempt(w), ~RecordFailure(w),
             ~RecordSuccess(w)
      PROVE  UNCHANGED row
    BY <1>6
    DEF TaskStep, TaskLoads, LoadFails, CountAttempts, Upload, UploadFails, GenerationFails,
        Republish, RepublishFails, Refresh, RecordCanceled, RecordSuccessFails, TaskDies,
        storeVars
<1>7. QED
    BY <1>1, <1>2, <1>3, <1>4, <1>5, <1>6 DEF ChangesStatusTo

-----------------------------------------------------------------------------
(* The ledger of attempts                                                   *)

(* The steps at which a task has an attempt it has not closed.              *)
Attempting == {"build", "retry", "fail", "refresh", "cancel", "finish"}

(* Such a task has an attempt of its own, which is open.                    *)
OwnAttempt ==
    \A w \in Workers : pc[w] \in Attempting =>
        /\ attempt[w] \in 1..Len(attempts[msg[w].report])
        /\ attempts[msg[w].report][attempt[w]].status = "STARTED"

NobodyElses ==
    \A v, w \in Workers :
        /\ pc[v] \in Attempting /\ pc[w] \in Attempting
        /\ msg[v].report = msg[w].report
        /\ attempt[v] = attempt[w]
        => v = w

FileOfAnAttempt ==
    \A r \in Reports : file[r] # 0 => file[r] \in DOMAIN attempts[r]

LedgerInv == OwnAttempt /\ NobodyElses /\ FileOfAnAttempt /\ FileOfTheSuccess

(* A step that neither opens nor closes an attempt.                         *)
LedgerFrame ==
    /\ UNCHANGED <<attempts, file>>
    /\ \A w \in Workers : pc'[w] \in Attempting =>
          pc[w] \in Attempting /\ msg'[w] = msg[w] /\ attempt'[w] = attempt[w]

(* No outcome is rewritten.                                                 *)
OutcomesKept ==
    \A r \in Reports : \A i \in DOMAIN attempts[r] :
        attempts[r][i].status # "STARTED" => attempts'[r][i] = attempts[r][i]

(* Such a step disturbs nothing.                                            *)
LEMMA LedgerFramed ==
    ASSUME LedgerInv, LedgerFrame
    PROVE  LedgerInv' /\ OutcomesKept
BY DEF LedgerInv, LedgerFrame, OwnAttempt, NobodyElses, FileOfAnAttempt, FileOfTheSuccess,
       OutcomesKept

(* A new attempt gets an index nobody has.                                  *)
LEMMA LedgerOpens ==
    ASSUME TypeInv, LedgerInv, NEW w \in Workers, RecordStarted(w)
    PROVE  LedgerInv' /\ OutcomesKept
<1> DEFINE r == msg[w].report
           new == [no |-> count[w], status |-> "STARTED"]
<1>1. r \in Reports /\ pc[w] \notin Attempting
    BY DEF RecordStarted, Message, Attempting, TypeInv, TypeOK
<1>2. attempts[r] \in Seq(Attempt) /\ new \in Attempt
    BY <1>1 DEF TypeInv, TypeOK, StoreTypeOK, Attempt, AttemptStatuses, Statuses, Unfinished, Final
<1>3. attempts'[r] = Append(attempts[r], new) /\ \A q \in Reports : q # r => attempts'[q] = attempts[q]
    BY <1>1 DEF RecordStarted, InsertAttempt, TypeInv, TypeOK, StoreTypeOK
<1>4. /\ Len(attempts'[r]) = Len(attempts[r]) + 1
      /\ Len(attempts[r]) \in Nat
      /\ \A i \in 1..Len(attempts[r]) : attempts'[r][i] = attempts[r][i]
      /\ attempts'[r][Len(attempts[r]) + 1] = new
    BY <1>2, <1>3, AppendProperties, LenProperties
<1>5. /\ DOMAIN attempts[r] = 1..Len(attempts[r])
      /\ DOMAIN attempts'[r] = 1..(Len(attempts[r]) + 1)
    BY <1>2, <1>3, AppendProperties, LenProperties
<1>6. /\ msg' = msg /\ file' = file
      /\ pc'[w] = "build" /\ attempt'[w] = Len(attempts[r]) + 1
      /\ \A v \in Workers : v # w => pc'[v] = pc[v] /\ attempt'[v] = attempt[v]
    BY DEF RecordStarted, GoTo, TypeInv, TypeOK
<1>7. \A v \in Workers : v # w /\ pc[v] \in Attempting /\ msg[v].report = r
                            => attempt[v] \in 1..Len(attempts[r])
    BY DEF LedgerInv, OwnAttempt
<1>8. OwnAttempt'
    <2>1. ASSUME NEW v \in Workers, pc'[v] \in Attempting
          PROVE  /\ attempt'[v] \in 1..Len(attempts'[msg'[v].report])
                 /\ attempts'[msg'[v].report][attempt'[v]].status = "STARTED"
        <3>1. CASE v = w
            BY <1>1, <1>4, <1>6, <3>1
        <3>2. CASE v # w
            <4>1. pc[v] \in Attempting /\ msg[v].report \in Reports
                BY <1>6, <2>1, <3>2 DEF Attempting, Message, TypeInv, TypeOK
            <4>2. CASE msg[v].report = r
                <5>1. attempt[v] \in 1..Len(attempts[r])
                      /\ attempts[r][attempt[v]].status = "STARTED"
                    BY <4>1, <4>2 DEF LedgerInv, OwnAttempt
                <5>2. msg'[v] = msg[v] /\ attempt'[v] = attempt[v]
                    BY <1>6, <3>2
                <5>3. attempts'[r][attempt[v]] = attempts[r][attempt[v]]
                      /\ attempt[v] \in 1..Len(attempts'[r])
                    BY <1>4, <5>1
                <5>4. QED
                    BY <4>2, <5>1, <5>2, <5>3
            <4>3. CASE msg[v].report # r
                BY <1>3, <1>6, <3>2, <4>1, <4>3 DEF LedgerInv, OwnAttempt
            <4>4. QED
                BY <4>2, <4>3
        <3>3. QED
            BY <3>1, <3>2
    <2>2. QED
        BY <2>1 DEF OwnAttempt
<1>9. NobodyElses'
    BY <1>4, <1>6, <1>7 DEF LedgerInv, NobodyElses
<1>10. FileOfAnAttempt' /\ FileOfTheSuccess'
    <2>1. ASSUME NEW q \in Reports
          PROVE  /\ file'[q] # 0 => file'[q] \in DOMAIN attempts'[q]
                 /\ \A i \in DOMAIN attempts'[q] :
                        attempts'[q][i].status = "SUCCESS" <=> file'[q] = i
        <3>1. CASE q # r
            BY <1>3, <1>6, <3>1 DEF LedgerInv, FileOfAnAttempt, FileOfTheSuccess
        <3>2. CASE q = r
            <4>1. file[r] \in 0..Len(attempts[r])
                <5>1. file[r] \in Nat
                    BY <1>1 DEF TypeInv, TypeOK, StoreTypeOK
                <5>2. file[r] # 0 => file[r] \in 1..Len(attempts[r])
                    BY <1>1, <1>5 DEF LedgerInv, FileOfAnAttempt
                <5>3. QED
                    BY <1>4, <5>1, <5>2
            <4>2. \A i \in 1..Len(attempts[r]) :
                    attempts'[r][i].status = "SUCCESS" <=> file[r] = i
                <5>1. ASSUME NEW i \in 1..Len(attempts[r])
                      PROVE  attempts[r][i].status = "SUCCESS" <=> file[r] = i
                    BY <1>1, <1>5 DEF LedgerInv, FileOfTheSuccess
                <5>2. \A i \in 1..Len(attempts[r]) : attempts'[r][i] = attempts[r][i]
                    BY <1>4
                <5>3. QED
                    BY <5>1, <5>2
            <4>3. attempts'[r][Len(attempts[r]) + 1].status # "SUCCESS"
                BY <1>4
            <4>4. QED
                <5>1. file'[r] # 0 => file'[r] \in DOMAIN attempts'[r]
                    BY <1>4, <1>5, <1>6, <4>1
                <5>2. ASSUME NEW i \in DOMAIN attempts'[r]
                      PROVE  attempts'[r][i].status = "SUCCESS" <=> file'[r] = i
                    <6>1. CASE i \in 1..Len(attempts[r])
                        BY <1>6, <4>2, <6>1
                    <6>2. CASE i = Len(attempts[r]) + 1
                        BY <1>4, <1>6, <4>1, <4>3, <6>2
                    <6>3. i \in 1..(Len(attempts[r]) + 1)
                        BY <1>5
                    <6>4. i \in 1..Len(attempts[r]) \/ i = Len(attempts[r]) + 1
                        BY <1>4, <6>3
                    <6>5. QED
                        BY <6>1, <6>2, <6>4
                <5>3. QED
                    BY <3>2, <5>1, <5>2
        <3>3. QED
            BY <3>1, <3>2
    <2>2. QED
        BY <2>1 DEF FileOfAnAttempt, FileOfTheSuccess
<1>11. OutcomesKept
    <2>1. ASSUME NEW q \in Reports, NEW i \in DOMAIN attempts[q]
          PROVE  attempts'[q][i] = attempts[q][i]
        BY <1>3, <1>4, <1>5
    <2>2. QED
        BY <2>1 DEF OutcomesKept
<1>12. QED
    BY <1>8, <1>9, <1>10, <1>11 DEF LedgerInv

(* Only the task that opened an attempt closes it, and only the one it      *)
(* closes with SUCCESS gets the file, of which a report has at most one.    *)
LEMMA LedgerCloses ==
    ASSUME TypeInv, LedgerInv, NEW w \in Workers, NEW status \in AttemptStatuses,
           pc[w] \in Attempting, CloseAttempt(msg[w].report, attempt[w], status),
           status # "STARTED", pc'[w] \notin Attempting,
           \A v \in Workers : v # w => pc'[v] = pc[v] /\ msg'[v] = msg[v]
                                       /\ attempt'[v] = attempt[v],
           \/ status # "SUCCESS" /\ file' = file
           \/ /\ status = "SUCCESS"
              /\ file[msg[w].report] = 0
              /\ file' = [file EXCEPT ![msg[w].report] = attempt[w]]
    PROVE  LedgerInv' /\ OutcomesKept
<1> DEFINE r == msg[w].report
           i == attempt[w]
<1>1. r \in Reports
    BY DEF Message, Attempting, TypeInv, TypeOK
<1>2. i \in DOMAIN attempts[r] /\ attempts[r][i].status = "STARTED"
    <2>1. attempts[r] \in Seq(Attempt)
        BY <1>1 DEF TypeInv, TypeOK, StoreTypeOK
    <2>2. QED
        BY <2>1, LenProperties DEF LedgerInv, OwnAttempt
<1>3. /\ \A q \in Reports : q # r => attempts'[q] = attempts[q]
      /\ attempts'[r] = [attempts[r] EXCEPT ![i].status = status]
    BY <1>1 DEF CloseAttempt, TypeInv, TypeOK, StoreTypeOK
<1>4. /\ \A q \in Reports : DOMAIN attempts'[q] = DOMAIN attempts[q]
      /\ \A k \in DOMAIN attempts[r] : k # i => attempts'[r][k] = attempts[r][k]
      /\ attempts'[r][i].status = status
    <2>1. attempts[r] \in Seq(Attempt)
        BY <1>1 DEF TypeInv, TypeOK, StoreTypeOK
    <2>2. attempts[r][i] \in Attempt
        BY <1>2, <2>1, LenProperties, ElementOfSeq
    <2>3. DOMAIN attempts'[r] = DOMAIN attempts[r]
        BY <1>3
    <2>4. \A k \in DOMAIN attempts[r] : k # i => attempts'[r][k] = attempts[r][k]
        BY <1>3
    <2>5. attempts'[r][i].status = status
        BY <1>2, <1>3, <2>2 DEF Attempt
    <2>6. QED
        BY <1>3, <2>3, <2>4, <2>5
<1>5. OwnAttempt'
    <2>1. ASSUME NEW v \in Workers, pc'[v] \in Attempting
          PROVE  /\ attempt'[v] \in 1..Len(attempts'[msg'[v].report])
                 /\ attempts'[msg'[v].report][attempt'[v]].status = "STARTED"
        <3>1. /\ v # w /\ pc[v] \in Attempting
              /\ msg'[v] = msg[v] /\ attempt'[v] = attempt[v]
            BY <2>1
        <3>2. msg[v].report \in Reports
            BY <3>1 DEF Message, Attempting, TypeInv, TypeOK
        <3>3. attempt[v] \in 1..Len(attempts[msg[v].report])
              /\ attempts[msg[v].report][attempt[v]].status = "STARTED"
            BY <3>1 DEF LedgerInv, OwnAttempt
        <3>4. CASE msg[v].report # r
            BY <1>3, <3>1, <3>2, <3>3, <3>4
        <3>5. CASE msg[v].report = r
            <4>1. attempt[v] # i
                BY <3>1, <3>5 DEF LedgerInv, NobodyElses
            <4>2. attempts[r] \in Seq(Attempt) /\ attempts'[r] \in Seq(Attempt)
                BY <1>1, CloseAttemptType DEF TypeInv, TypeOK, StoreTypeOK
            <4>3. Len(attempts'[r]) = Len(attempts[r]) /\ attempt[v] \in DOMAIN attempts[r]
                BY <1>1, <1>4, <3>3, <3>5, <4>2, LenProperties
            <4>4. attempts'[r][attempt[v]] = attempts[r][attempt[v]]
                BY <1>4, <4>1, <4>3
            <4>5. QED
                BY <3>1, <3>3, <3>5, <4>3, <4>4
        <3>6. QED
            BY <3>4, <3>5
    <2>2. QED
        BY <2>1 DEF OwnAttempt
<1>6. NobodyElses'
    BY DEF LedgerInv, NobodyElses
<1>7. /\ \A q \in Reports : q # r => file'[q] = file[q]
      /\ \/ status # "SUCCESS" /\ file'[r] = file[r]
         \/ status = "SUCCESS" /\ file[r] = 0 /\ file'[r] = i
    BY <1>1 DEF TypeInv, TypeOK, StoreTypeOK
<1>8. FileOfAnAttempt'
    BY <1>1, <1>2, <1>4, <1>7 DEF LedgerInv, FileOfAnAttempt
<1>9. FileOfTheSuccess'
    <2>1. ASSUME NEW q \in Reports, q # r, NEW k \in DOMAIN attempts'[q]
          PROVE  attempts'[q][k].status = "SUCCESS" <=> file'[q] = k
        BY <1>3, <1>7, <2>1 DEF LedgerInv, FileOfTheSuccess
    <2>2. ASSUME NEW k \in DOMAIN attempts'[r]
          PROVE  attempts'[r][k].status = "SUCCESS" <=> file'[r] = k
        <3>1. k \in DOMAIN attempts[r] /\ 0 \notin DOMAIN attempts[r]
            <4>1. attempts[r] \in Seq(Attempt)
                BY <1>1 DEF TypeInv, TypeOK, StoreTypeOK
            <4>2. QED
                BY <1>1, <1>4, <2>2, <4>1, LenProperties
        <3>2. \A j \in DOMAIN attempts[r] : attempts[r][j].status = "SUCCESS" <=> file[r] = j
            BY <1>1 DEF LedgerInv, FileOfTheSuccess
        <3>3. CASE k = i
            BY <1>2, <1>4, <1>7, <3>2, <3>3
        <3>4. CASE k # i
            BY <1>4, <1>7, <3>1, <3>2, <3>4
        <3>5. QED
            BY <3>3, <3>4
    <2>3. QED
        BY <2>1, <2>2 DEF FileOfTheSuccess
<1>10. OutcomesKept
    BY <1>2, <1>3, <1>4 DEF OutcomesKept
<1>11. QED
    BY <1>5, <1>6, <1>8, <1>9, <1>10 DEF LedgerInv

(* What the end of a task leaves of the processes.                          *)
LEMMA TaskEnds ==
    ASSUME TypeInv, NEW w \in Workers, EndTask(w)
    PROVE  /\ pc'[w] \notin Attempting
           /\ \A v \in Workers : v # w => pc'[v] = pc[v] /\ msg'[v] = msg[v]
                                          /\ attempt'[v] = attempt[v]
BY DEF EndTask, TypeInv, TypeOK, Attempting

(* A step of the task keeps the ledger.                                     *)
LEMMA LedgerTask ==
    ASSUME TypeInv, LedgerInv, NEW w \in Workers, TaskStep(w)
    PROVE  LedgerInv' /\ OutcomesKept
<1>1. CASE RecordStarted(w)
    BY <1>1, LedgerOpens
<1>2. CASE RecordRetryAttempt(w)
    <2>1. pc[w] \in Attempting /\ pc'[w] \notin Attempting
        BY <1>2 DEF RecordRetryAttempt, GoTo, TypeInv, TypeOK, Attempting
    <2>2. \A v \in Workers : v # w => pc'[v] = pc[v] /\ msg'[v] = msg[v]
                                      /\ attempt'[v] = attempt[v]
        BY <1>2 DEF RecordRetryAttempt, GoTo, TypeInv, TypeOK
    <2>3. CloseAttempt(msg[w].report, attempt[w], "RETRY") /\ file' = file
        BY <1>2 DEF RecordRetryAttempt
    <2>4. QED
        BY <2>1, <2>2, <2>3, LedgerCloses DEF AttemptStatuses, Statuses, Unfinished, Final
<1>3. CASE RecordFailure(w)
    <2>1. pc[w] \in Attempting /\ EndTask(w) /\ file' = file
          /\ CloseAttempt(msg[w].report, attempt[w], "FAILURE")
        BY <1>3 DEF RecordFailure, Attempting
    <2>2. QED
        BY <2>1, TaskEnds, LedgerCloses DEF AttemptStatuses, Statuses, Unfinished, Final
<1>4. CASE RecordCanceled(w)
    <2>1. pc[w] \in Attempting /\ EndTask(w) /\ file' = file
          /\ CloseAttempt(msg[w].report, attempt[w], "CANCELED")
        BY <1>4 DEF RecordCanceled, Attempting
    <2>2. QED
        BY <2>1, TaskEnds, LedgerCloses DEF AttemptStatuses, Statuses, Unfinished, Final
<1>5. CASE RecordSuccess(w)
    <2>1. /\ pc[w] \in Attempting /\ EndTask(w) /\ file[msg[w].report] = 0
          /\ CloseAttempt(msg[w].report, attempt[w], "SUCCESS")
          /\ file' = [file EXCEPT ![msg[w].report] = attempt[w]]
        BY <1>5 DEF RecordSuccess, FileRowAccepted, Attempting
    <2>2. QED
        BY <2>1, TaskEnds, LedgerCloses DEF AttemptStatuses, Statuses, Unfinished, Final
<1>6. CASE TaskLoads(w) \/ RecordRetry(w) \/ CountAttempts(w)
    <2>1. LedgerFrame
        BY <1>6, TaskEnds
        DEF TaskLoads, RecordRetry, CountAttempts, storeVars, GoTo, LedgerFrame, Attempting,
            TypeInv, TypeOK
    <2>2. QED
        BY <2>1, LedgerFramed
<1>7. CASE Upload(w) \/ UploadFails(w) \/ GenerationFails(w) \/ Refresh(w)
    <2>1. LedgerFrame
        BY <1>7
        DEF Upload, UploadFails, GenerationFails, Refresh, storeVars, GoTo, LedgerFrame,
            Attempting, TypeInv, TypeOK
    <2>2. QED
        BY <2>1, LedgerFramed
<1>8. CASE LoadFails(w) \/ Republish(w) \/ RepublishFails(w) \/ RecordSuccessFails(w)
           \/ TaskDies(w)
    <2>1. UNCHANGED <<attempts, file>> /\ EndTask(w)
        BY <1>8 DEF LoadFails, Republish, RepublishFails, RecordSuccessFails, TaskDies, storeVars
    <2>2. LedgerFrame
        BY <2>1, TaskEnds DEF LedgerFrame
    <2>3. QED
        BY <2>2, LedgerFramed
<1>9. QED
    BY <1>1, <1>2, <1>3, <1>4, <1>5, <1>6, <1>7, <1>8 DEF TaskStep

(* Initially there is no attempt and no file.                               *)
LEMMA LedgerInit == Init => LedgerInv
BY DEF Init, StoreInit, LedgerInv, OwnAttempt, NobodyElses, FileOfAnAttempt, FileOfTheSuccess,
       Attempting

(* Every step keeps the ledger and the outcomes in it.                      *)
LEMMA LedgerNext == TypeInv /\ LedgerInv /\ [Next]_vars => LedgerInv' /\ OutcomesKept
<1> SUFFICES ASSUME TypeInv, LedgerInv, [Next]_vars PROVE LedgerInv' /\ OutcomesKept
    OBVIOUS
<1>1. ASSUME NEW r \in Reports, PostStep(r) \/ Expire(r) \/ GetReport(r)
      PROVE  LedgerInv' /\ OutcomesKept
    BY <1>1, LedgerFramed
    DEF PostStep, CreateReport, Publish, PublishFails, MarkEnqueued, MarkEnqueueFailure,
        PostDies, Expire, GetReport, storeVars, workerVars, LedgerFrame
<1>2. ASSUME NEW d \in Deletes, DeleteStep(d) PROVE LedgerInv' /\ OutcomesKept
    BY <1>2, LedgerFramed
    DEF DeleteStep, CancelGone, CancelRefused, CancelLoads, CancelRevokes, CancelCommits,
        CancelDies, storeVars, workerVars, LedgerFrame
<1>3. CASE NodeStep
    <2>1. LedgerFrame
        BY <1>3
        DEF NodeStep, NodeReceives, NodeDiscards, TaskStarts, NodeRevokes, NodeRestarts,
            storeVars, workerVars, LedgerFrame, Attempting, TypeInv, TypeOK
    <2>2. QED
        BY <2>1, LedgerFramed
<1>4. CASE UNCHANGED vars
    BY <1>4, LedgerFramed DEF vars, storeVars, workerVars, LedgerFrame
<1>5. QED
    BY <1>1, <1>2, <1>3, <1>4, LedgerTask DEF Next

(* The ledger of attempts is kept whatever runs at the same time.           *)
THEOREM LedgerInvariance == Spec => []LedgerInv
BY LedgerInit, LedgerNext, TypeInvariance, PTL DEF Spec

(* A file is recorded exactly for an attempt that succeeded, so at most one *)
(* attempt of a report ever does, even if its message is executed twice.    *)
THEOREM FileIsOfTheSuccess == Spec => []FileOfTheSuccess
<1>1. LedgerInv => FileOfTheSuccess
    BY DEF LedgerInv
<1>2. QED
    BY <1>1, LedgerInvariance, PTL

(* No task, handler or restart rewrites the outcome of an attempt.          *)
THEOREM OutcomesAreKept == Spec => OutcomeIsKept
<1>1. TypeInv /\ LedgerInv /\ [Next]_vars => [OutcomesKept]_vars
    BY LedgerNext
<1>2. QED
    BY <1>1, TypeInvariance, LedgerInvariance, PTL DEF Spec, OutcomeIsKept, OutcomesKept

-----------------------------------------------------------------------------
(* A report that succeeded has a file                                       *)

(* The file of a report is recorded by RecordSuccess and never removed.     *)
LEMMA FileAfterStep ==
    ASSUME TypeInv, LedgerInv, [Next]_vars
    PROVE  /\ \A r \in Reports : file[r] # 0 => file'[r] # 0
           /\ \A w \in Workers : RecordSuccess(w) => file'[msg[w].report] # 0
           /\ \A r \in Reports : file'[r] # file[r] =>
                \E w \in Workers : RecordSuccess(w) /\ msg[w].report = r
<1>1. ASSUME NEW w \in Workers, RecordSuccess(w)
      PROVE  /\ \A r \in Reports : file[r] # 0 => file'[r] # 0
             /\ file'[msg[w].report] # 0
             /\ \A r \in Reports : file'[r] # file[r] => msg[w].report = r
    <2>1. pc[w] \in Attempting /\ msg[w].report \in Reports
        BY <1>1 DEF RecordSuccess, Attempting, Message, TypeInv, TypeOK
    <2>2. attempts[msg[w].report] \in Seq(Attempt)
        BY <2>1 DEF TypeInv, TypeOK, StoreTypeOK
    <2>3. attempt[w] # 0
        BY <2>1, <2>2, LenProperties DEF LedgerInv, OwnAttempt
    <2>4. file' = [file EXCEPT ![msg[w].report] = attempt[w]] /\ file \in [Reports -> Nat]
        BY <1>1 DEF RecordSuccess, TypeInv, TypeOK, StoreTypeOK
    <2>5. QED
        BY <2>1, <2>3, <2>4
<1>2. ASSUME NEW w \in Workers, TaskStep(w), ~RecordSuccess(w) PROVE UNCHANGED file
    BY <1>2
    DEF TaskStep, TaskLoads, LoadFails, RecordRetry, CountAttempts, RecordStarted, Upload,
        UploadFails, GenerationFails, RecordRetryAttempt, Republish, RepublishFails,
        RecordFailure, Refresh, RecordCanceled, RecordSuccessFails, TaskDies, storeVars
<1>3. ASSUME NEW r \in Reports, PostStep(r) \/ Expire(r) \/ GetReport(r)
      PROVE  UNCHANGED file
    BY <1>3
    DEF PostStep, CreateReport, Publish, PublishFails, MarkEnqueued, MarkEnqueueFailure,
        PostDies, Expire, GetReport, storeVars
<1>4. ASSUME NEW d \in Deletes, DeleteStep(d) PROVE UNCHANGED file
    BY <1>4
    DEF DeleteStep, CancelGone, CancelRefused, CancelLoads, CancelRevokes, CancelCommits,
        CancelDies, storeVars
<1>5. ASSUME NodeStep PROVE UNCHANGED file
    BY <1>5 DEF NodeStep, NodeReceives, NodeDiscards, TaskStarts, NodeRevokes, NodeRestarts,
                storeVars
<1>6. ASSUME UNCHANGED vars PROVE UNCHANGED file
    BY <1>6 DEF vars, storeVars
<1>7. QED
    BY <1>1, <1>2, <1>3, <1>4, <1>5, <1>6 DEF Next

(* The status of every report after a step of the system.                   *)
LEMMA StatusAfterStep ==
    ASSUME TypeInv, [Next]_vars, NEW r \in Reports, row'[r].status # row[r].status
    PROVE  \/ post[r] = "new" /\ PostStep(r)
           \/ post[r] = "unsent" /\ row'[r].status = "FAILURE"
           \/ \E d \in Deletes :
                 del[d] = "commit" /\ target[d] = r /\ row'[r].status = "CANCELED"
           \/ \E w \in Workers :
                 /\ msg[w].report = r
                 /\ \/ /\ pc[w] \in {"note", "start", "retry", "fail"}
                       /\ row'[r].status \in {"STARTED", "RETRY", "FAILURE"}
                    \/ RecordSuccess(w) /\ row'[r].status = "SUCCESS"
<1>1. ASSUME NEW q \in Reports, PostStep(q) \/ Expire(q) \/ GetReport(q)
      PROVE  \/ post[r] = "new" /\ PostStep(r)
             \/ post[r] = "unsent" /\ row'[r].status = "FAILURE"
    BY <1>1, HandlerStatus DEF ChangesStatusTo
<1>2. ASSUME NEW d \in Deletes, DeleteStep(d)
      PROVE  del[d] = "commit" /\ target[d] = r /\ row'[r].status = "CANCELED"
    BY <1>2, HandlerStatus DEF ChangesStatusTo
<1>3. ASSUME NEW w \in Workers, TaskStep(w)
      PROVE  /\ msg[w].report = r
             /\ \/ /\ pc[w] \in {"note", "start", "retry", "fail"}
                   /\ row'[r].status \in {"STARTED", "RETRY", "FAILURE"}
                \/ RecordSuccess(w) /\ row'[r].status = "SUCCESS"
    BY <1>3, TaskStatus DEF ChangesStatusTo
<1>4. ~NodeStep /\ ~UNCHANGED vars
    BY HandlerStatus DEF ChangesStatusTo, vars, storeVars
<1>5. QED
    BY <1>1, <1>2, <1>3, <1>4 DEF Next

(* Whatever stale session commits last, a report whose status is SUCCESS    *)
(* has a file to download.                                                  *)
THEOREM SuccessAlwaysHasFile == Spec => []SuccessHasFile
<1>1. Init => SuccessHasFile
    BY DEF Init, StoreInit, AbsentRow, NewRow, SuccessHasFile
<1>2. TypeInv /\ LedgerInv /\ SuccessHasFile /\ [Next]_vars => SuccessHasFile'
    <2> SUFFICES ASSUME TypeInv, LedgerInv, SuccessHasFile, [Next]_vars,
                        NEW r \in Reports, row'[r].status = "SUCCESS"
                 PROVE  file'[r] # 0
        BY DEF SuccessHasFile
    <2>1. CASE row[r].status = "SUCCESS"
        BY <2>1, FileAfterStep DEF SuccessHasFile
    <2>2. CASE row[r].status # "SUCCESS"
        <3>1. ASSUME post[r] = "new", PostStep(r) PROVE FALSE
            BY <2>2, <3>1, HandlerStatus DEF ChangesStatusTo, TypeInv, TypeOK
        <3>2. \E w \in Workers : msg[w].report = r /\ RecordSuccess(w)
            BY <2>2, <3>1, StatusAfterStep
        <3>3. QED
            BY <3>2, FileAfterStep
    <2>3. QED
        BY <2>1, <2>2
<1>3. QED
    BY <1>1, <1>2, TypeInvariance, LedgerInvariance, PTL DEF Spec

(* An Excel report stays without a file and without success.                *)
NoExcelFile == \A r \in ExcelReports : file[r] = 0
NoExcelSuccess == \A r \in ExcelReports : file[r] = 0 /\ row[r].status # "SUCCESS"

(* No Excel report ever has a file, or becomes SUCCESS: its media type does *)
(* not fit report_files.file_type, so that the only commit that could       *)
(* complete it is refused, in every behaviour and with any number of        *)
(* retries.                                                                 *)
THEOREM ExcelNeverSucceeds == Spec => []NoExcelSuccess
<1>1. Init => NoExcelFile
    <2>1. Init => file = [r \in Reports |-> 0]
        BY DEF Init, StoreInit
    <2>2. QED
        BY <2>1, ExcelAssumption DEF NoExcelFile
<1>2. TypeInv /\ LedgerInv /\ NoExcelFile /\ [Next]_vars => NoExcelFile'
    <2> SUFFICES ASSUME TypeInv, LedgerInv, NoExcelFile, [Next]_vars,
                        NEW r \in ExcelReports, file'[r] # 0
                 PROVE  FALSE
        BY DEF NoExcelFile
    <2>1. PICK w \in Workers : RecordSuccess(w) /\ msg[w].report = r
        BY FileAfterStep, ExcelAssumption DEF NoExcelFile
    <2>2. FileRowFits(r)
        BY <2>1 DEF RecordSuccess, FileRowAccepted
    <2>3. QED
        BY <2>2 DEF FileRowFits, ContentTypeLength, FileTypeWidth
<1>3. NoExcelFile /\ SuccessHasFile => NoExcelSuccess
    BY ExcelAssumption DEF NoExcelFile, NoExcelSuccess, SuccessHasFile
<1>4. QED
    BY <1>1, <1>2, <1>3, TypeInvariance, LedgerInvariance, SuccessAlwaysHasFile, PTL DEF Spec

-----------------------------------------------------------------------------
(* A cancellation is undone only by who read the report before it           *)

(* A task that goes on had not seen a cancellation when it last read.       *)
SessionsUncanceled ==
    \A w \in Workers :
        pc[w] \in {"note", "count", "start", "build", "retry", "fail", "finish"}
            => snap[w].status # "CANCELED"

(* A report that was not requested yet is in no table and in no request.    *)
UnrequestedIsAbsent ==
    \A r \in Reports : post[r] = "new" =>
        /\ row[r].status = "ABSENT"
        /\ \A d \in Deletes : del[d] \in {"revoke", "commit"} => target[d] # r

SessionInv == SessionsUncanceled /\ UnrequestedIsAbsent

(* A step of the task keeps its session uncanceled, or ends it.             *)
LEMMA SessionTask ==
    ASSUME TypeInv, SessionsUncanceled, NEW w \in Workers, TaskStep(w)
    PROVE  SessionsUncanceled'
<1> DEFINE Going == {"note", "count", "start", "build", "retry", "fail", "finish"}
<1>0. /\ pc \in [Workers -> WorkerSteps] /\ snap \in [Workers -> Row]
      /\ \A v \in Workers : pc[v] \in Going => snap[v].status # "CANCELED"
    BY DEF TypeInv, TypeOK, SessionsUncanceled
<1>1. \A v \in Workers : v # w => pc'[v] = pc[v] /\ snap'[v] = snap[v]
    <2> USE <1>0 DEF TaskCommits, GoTo, EndTask
    <2>1. CASE TaskLoads(w) \/ LoadFails(w) \/ RecordRetry(w) \/ CountAttempts(w)
               \/ RecordStarted(w)
        BY <2>1 DEF TaskLoads, LoadFails, RecordRetry, CountAttempts, RecordStarted
    <2>2. CASE Upload(w) \/ UploadFails(w) \/ GenerationFails(w) \/ RecordRetryAttempt(w)
               \/ Republish(w) \/ RepublishFails(w)
        BY <2>2 DEF Upload, UploadFails, GenerationFails, RecordRetryAttempt, Republish,
                    RepublishFails
    <2>3. CASE RecordFailure(w) \/ Refresh(w) \/ RecordCanceled(w) \/ RecordSuccess(w)
               \/ RecordSuccessFails(w) \/ TaskDies(w)
        BY <2>3 DEF RecordFailure, Refresh, RecordCanceled, RecordSuccess,
                    RecordSuccessFails, TaskDies
    <2>4. QED
        BY <2>1, <2>2, <2>3 DEF TaskStep
<1>2. pc'[w] \in Going => snap'[w].status # "CANCELED"
    <2>1. CASE TaskLoads(w)
        BY <1>0, <2>1 DEF TaskLoads, NothingToDo, GoTo, EndTask, Going
    <2>2. CASE RecordRetry(w)
        BY <1>0, <2>2 DEF RecordRetry, TaskCommits, RetryRow, Row
    <2>3. CASE RecordStarted(w)
        BY <1>0, <2>3 DEF RecordStarted, TaskCommits, StartedRow, Row
    <2>4. CASE RecordRetryAttempt(w)
        BY <1>0, <2>4 DEF RecordRetryAttempt, TaskCommits, RetryRow, Row
    <2>5. CASE Refresh(w)
        BY <1>0, <2>5 DEF Refresh, GoTo
    <2>6. CASE CountAttempts(w) \/ UploadFails(w) \/ GenerationFails(w)
        BY <1>0, <2>6 DEF CountAttempts, UploadFails, GenerationFails, GoTo
    <2>7. CASE Upload(w)
        BY <1>0, <2>7 DEF Upload, GoTo
    <2>8. CASE LoadFails(w) \/ Republish(w) \/ RepublishFails(w) \/ RecordFailure(w)
               \/ RecordCanceled(w) \/ RecordSuccess(w) \/ RecordSuccessFails(w)
               \/ TaskDies(w)
        BY <1>0, <2>8 DEF LoadFails, Republish, RepublishFails, RecordFailure, RecordCanceled,
                          RecordSuccess, RecordSuccessFails, TaskDies, EndTask
    <2>9. QED
        BY <2>1, <2>2, <2>3, <2>4, <2>5, <2>6, <2>7, <2>8 DEF TaskStep
<1>3. QED
    BY <1>0, <1>1, <1>2 DEF SessionsUncanceled

(* Initially nothing was requested.                                         *)
LEMMA SessionInit == Init => SessionInv
BY DEF Init, StoreInit, AbsentRow, NewRow, SessionInv, SessionsUncanceled,
       UnrequestedIsAbsent

(* Every step keeps the sessions uncanceled.                                *)
LEMMA SessionsNext ==
    ASSUME TypeInv, SessionsUncanceled, [Next]_vars
    PROVE  SessionsUncanceled'
<1>1. ASSUME NEW r \in Reports, PostStep(r) \/ Expire(r) \/ GetReport(r)
      PROVE  UNCHANGED workerVars
    BY <1>1
    DEF PostStep, CreateReport, Publish, PublishFails, MarkEnqueued, MarkEnqueueFailure,
        PostDies, Expire, GetReport
<1>2. ASSUME NEW d \in Deletes, DeleteStep(d) PROVE UNCHANGED workerVars
    BY <1>2
    DEF DeleteStep, CancelGone, CancelRefused, CancelLoads, CancelRevokes, CancelCommits,
        CancelDies
<1>3. ASSUME NodeStep PROVE SessionsUncanceled'
    BY <1>3
    DEF NodeStep, NodeReceives, NodeDiscards, TaskStarts, NodeRevokes, NodeRestarts,
        workerVars, SessionsUncanceled, TypeInv, TypeOK
<1>4. UNCHANGED workerVars => SessionsUncanceled'
    BY DEF workerVars, SessionsUncanceled
<1>5. UNCHANGED vars => UNCHANGED workerVars
    BY DEF vars
<1>6. QED
    BY <1>1, <1>2, <1>3, <1>4, <1>5, SessionTask DEF Next

(* Every step keeps what was not requested out of the system.               *)
LEMMA UnrequestedNext ==
    ASSUME TypeInv, HolderInv, UnrequestedIsAbsent, [Next]_vars
    PROVE  UnrequestedIsAbsent'
<1>1. ASSUME NEW r \in Reports, PostStep(r)
      PROVE  /\ post'[r] # "new" /\ \A q \in Reports : q # r => post'[q] = post[q]
             /\ UNCHANGED deleteVars
    BY <1>1
    DEF PostStep, CreateReport, Publish, PublishFails, MarkEnqueued, MarkEnqueueFailure,
        PostDies, TypeInv, TypeOK
<1>2. ASSUME NEW r \in Reports, Expire(r) \/ GetReport(r)
      PROVE  UNCHANGED <<post, deleteVars>>
    BY <1>2 DEF Expire, GetReport
<1>3. ASSUME NEW d \in Deletes, DeleteStep(d)
      PROVE  /\ UNCHANGED <<post, target>>
             /\ \A e \in Deletes : del'[e] \in {"revoke", "commit"} =>
                    \/ del[e] \in {"revoke", "commit"}
                    \/ row[target[e]].status \in Unfinished
    BY <1>3
    DEF DeleteStep, CancelGone, CancelRefused, CancelLoads, CancelRevokes, CancelCommits,
        CancelDies, EndDelete, TypeInv, TypeOK
<1>4. ASSUME NEW w \in Workers, TaskStep(w) PROVE UNCHANGED <<post, deleteVars>>
    BY <1>4
    DEF TaskStep, TaskLoads, LoadFails, RecordRetry, CountAttempts, RecordStarted, Upload,
        UploadFails, GenerationFails, RecordRetryAttempt, Republish, RepublishFails,
        RecordFailure, Refresh, RecordCanceled, RecordSuccess, RecordSuccessFails, TaskDies
<1>5. ASSUME NodeStep PROVE UNCHANGED <<post, deleteVars>>
    BY <1>5 DEF NodeStep, NodeReceives, NodeDiscards, TaskStarts, NodeRevokes, NodeRestarts
<1>6. /\ \A r \in Reports : post'[r] = "new" => post[r] = "new" /\ ~PostStep(r)
      /\ target' = target
      /\ \A e \in Deletes : del'[e] \in {"revoke", "commit"} =>
            \/ del[e] \in {"revoke", "commit"}
            \/ row[target[e]].status \in Unfinished
    BY <1>1, <1>2, <1>3, <1>4, <1>5 DEF Next, vars, deleteVars
<1>7. ASSUME NEW r \in Reports, post'[r] = "new" PROVE row'[r].status = "ABSENT"
    <2>1. post[r] = "new" /\ ~PostStep(r) /\ row[r].status = "ABSENT"
        BY <1>6, <1>7 DEF UnrequestedIsAbsent
    <2>2. \A d \in Deletes : del[d] = "commit" => target[d] # r
        BY <2>1 DEF UnrequestedIsAbsent
    <2>3. \A w \in Workers : pc[w] # "idle" => msg[w].report # r
        BY <2>1 DEF HolderInv, UnpublishedIsIdle, Busy
    <2>4. row'[r].status = row[r].status
        BY <2>1, <2>2, <2>3, StatusAfterStep DEF RecordSuccess
    <2>5. QED
        BY <2>1, <2>4
<1>8. ASSUME NEW r \in Reports, post'[r] = "new",
             NEW d \in Deletes, del'[d] \in {"revoke", "commit"}
      PROVE  target'[d] # r
    BY <1>6, <1>8 DEF UnrequestedIsAbsent, Unfinished
<1>9. QED
    BY <1>7, <1>8 DEF UnrequestedIsAbsent

(* Both hold throughout.                                                    *)
THEOREM SessionInvariance == Spec => []SessionInv
<1>1. TypeInv /\ HolderInv /\ SessionInv /\ [Next]_vars => SessionInv'
    BY SessionsNext, UnrequestedNext DEF SessionInv
<1>2. QED
    BY <1>1, SessionInit, TypeInvariance, HolderInvariance, PTL DEF Spec

(* A step out of CANCELED.                                                  *)
LeftByAnEarlierReader ==
    \A r \in Reports :
        row[r].status = "CANCELED" /\ row'[r].status # "CANCELED"
            => \/ \E w \in Working(r) : Loaded(w) /\ snap[w].status # "CANCELED"
               \/ post[r] = "unsent"

(* A cancellation is final for whoever reads the report after it: a task    *)
(* that had loaded the report before, or the POST handler that reports a    *)
(* failed publication, are the only ones that take it out of CANCELED.      *)
THEOREM CanceledIsLeftByEarlierReaders == Spec => CanceledLeftOnlyByEarlierReaders
<1>1. TypeInv /\ SessionInv /\ [Next]_vars => [LeftByAnEarlierReader]_vars
    <2> SUFFICES ASSUME TypeInv, SessionInv, [Next]_vars, NEW r \in Reports,
                        row[r].status = "CANCELED", row'[r].status # "CANCELED"
                 PROVE  \/ \E w \in Working(r) : Loaded(w) /\ snap[w].status # "CANCELED"
                        \/ post[r] = "unsent"
        BY DEF LeftByAnEarlierReader
    <2>1. post[r] # "new"
        BY DEF SessionInv, UnrequestedIsAbsent
    <2>2. ASSUME NEW w \in Workers, msg[w].report = r,
                 pc[w] \in {"note", "start", "retry", "fail", "finish"}
          PROVE  w \in Working(r) /\ Loaded(w) /\ snap[w].status # "CANCELED"
        BY <2>2 DEF SessionInv, SessionsUncanceled, Working, Busy, Loaded
    <2>3. QED
        BY <2>1, <2>2, StatusAfterStep DEF RecordSuccess
<1>2. QED
    BY <1>1, TypeInvariance, SessionInvariance, PTL
    DEF Spec, CanceledLeftOnlyByEarlierReaders, LeftByAnEarlierReader

=============================================================================
