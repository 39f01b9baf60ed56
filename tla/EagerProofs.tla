----------------------------- MODULE EagerProofs ------------------------------
(***************************************************************************)
(* The eager pipeline: what the answer of POST says of the report, and the *)
(* ledger of attempts it keeps although nothing retries a task.            *)
(***************************************************************************)
EXTENDS TrailProofs, EagerPipeline

-----------------------------------------------------------------------------
(* The steps                                                                *)

(* Whoever runs beside the requests that generate a report.                 *)
Beside ==
    \/ \E r \in Reports : Expire(r) \/ GetReport(r)
    \/ \E d \in Deletes : DeleteStep(d)

(* A request that generates takes a step of the task, but for the error     *)
(* that nobody retries.                                                     *)
LEMMA InlineIsTask ==
    ASSUME NEW w \in Workers, InlineStep(w) \/ InlineDies(w)
    PROVE  TaskStep(w) \/ RaiseTransient(w)
BY DEF InlineStep, InlineDies, Advances, Returns, CommitsLast, Raises, TaskStep

(* What each kind of step is to the pipeline.                               *)
LEMMA EagerSteps ==
    ASSUME [EagerNext]_eagerVars
    PROVE  \/ \E r \in Reports : CreateEager(r) \/ EagerDies(r)
           \/ \E r \in Reports, w \in Workers : EnqueueInline(r, w)
           \/ \E w \in Workers : InlineStep(w) \/ InlineDies(w)
           \/ \E r \in Reports : EndsConfirmation(r)
           \/ Beside /\ UNCHANGED reply
           \/ UNCHANGED eagerVars
BY DEF EagerNext, Beside

(* The refresh that ends a request is no step of the pipeline.              *)
LEMMA ConfirmationStutters ==
    ASSUME NEW r \in Reports, EndsConfirmation(r)
    PROVE  UNCHANGED vars
BY DEF EndsConfirmation, Confirms, LosesConfirmation

LEMMA EagerTypeNext ==
    ASSUME TypeInv, [EagerNext]_eagerVars
    PROVE  TypeInv'
<1>1. ASSUME NEW r \in Reports, CreateEager(r) \/ EagerDies(r) PROVE TypeInv'
    BY <1>1, PostType DEF CreateEager, EagerDies, PostStep
<1>2. ASSUME NEW r \in Reports, NEW w \in Workers, EnqueueInline(r, w) PROVE TypeInv'
    <2>1. Inline(r) \in Message
        BY CopiesAssumption, RetriesAssumption DEF Inline, Message
    <2>2. NewRow \in Row /\ EnqueuedRow(NewRow) \in Row
        BY InitialRows, TransformedRows, ErrorValues
    <2>3. row' \in [Reports -> Row] /\ events' \in [Reports -> Seq(EventTypes)]
        BY <1>2, <2>2, CommitType, StatusesOfEvents DEF EnqueueInline, TypeInv, TypeOK
    <2>4. StoreTypeOK' /\ QueueTypeOK'
        BY <1>2, <2>3
        DEF EnqueueInline, queueVars, TypeInv, TypeOK, StoreTypeOK, QueueTypeOK
    <2>5. /\ pc' \in [Workers -> WorkerSteps] /\ msg' \in [Workers -> Message \cup {NoMessage}]
          /\ \A v \in Workers : msg'[v] = NoMessage <=> pc'[v] = "idle"
          /\ RetriesRemain'
        BY <1>2, <2>1, PipelineAssumption
        DEF EnqueueInline, TypeInv, TypeOK, WorkerSteps, RetriesRemain
    <2>6. QED
        BY <1>2, <2>4, <2>5 DEF EnqueueInline, TypeInv, TypeOK, PostSteps, deleteVars
<1>3. ASSUME NEW w \in Workers, RaiseTransient(w) PROVE TypeInv'
    <2>1. EndTask(w) /\ UNCHANGED <<storeVars, queueVars, post, warm, object, deleteVars, expired>>
        BY <1>3 DEF RaiseTransient
    <2>2. QED
        BY <2>1, EndTaskType
        DEF TypeInv, TypeOK, StoreTypeOK, QueueTypeOK, storeVars, queueVars, deleteVars
<1>4. ASSUME NEW w \in Workers, InlineStep(w) \/ InlineDies(w) PROVE TypeInv'
    BY <1>3, <1>4, InlineIsTask, TaskType
<1>5. ASSUME Beside PROVE TypeInv'
    BY <1>5, RetentionType, DeleteType DEF Beside
<1>6. ASSUME UNCHANGED vars PROVE TypeInv'
    BY <1>6, TypeNext
<1>7. QED
    BY <1>1, <1>2, <1>4, <1>5, <1>6, EagerSteps, ConfirmationStutters DEF eagerVars

LEMMA EagerAnnounces ==
    ASSUME TypeInv, [EagerNext]_eagerVars
    PROVE  TrailStep
<1>1. ASSUME NEW r \in Reports, CreateEager(r) \/ EagerDies(r) PROVE TrailStep
    BY <1>1, HandlersAnnounce DEF CreateEager, EagerDies, PostStep
<1>2. ASSUME NEW r \in Reports, NEW w \in Workers, EnqueueInline(r, w) PROVE TrailStep
    <2>1. NewRow \in Row /\ EnqueuedRow(NewRow) \in Row /\ EnqueuedRow(NewRow).status = NewRow.status
        BY InitialRows, TransformedRows, ErrorValues, AssignedStatus
    <2>2. QED
        BY <1>2, <2>1, CommitAnnounces, StatusesOfEvents
        DEF EnqueueInline, Announces, TypeInv, TypeOK
<1>3. ASSUME NEW w \in Workers, RaiseTransient(w) PROVE TrailStep
    BY <1>3, TrailUntouched DEF RaiseTransient, storeVars
<1>4. ASSUME NEW w \in Workers, InlineStep(w) \/ InlineDies(w) PROVE TrailStep
    BY <1>3, <1>4, InlineIsTask, TaskAnnounces
<1>5. ASSUME Beside PROVE TrailStep
    BY <1>5, HandlersAnnounce DEF Beside
<1>6. ASSUME UNCHANGED vars PROVE TrailStep
    BY <1>6, EveryStepAnnounces
<1>7. QED
    BY <1>1, <1>2, <1>4, <1>5, <1>6, EagerSteps, ConfirmationStutters DEF eagerVars

-----------------------------------------------------------------------------
(* The answers                                                              *)

Replies == {"none", "committed", "accepted", "error", "unconfirmed"}

ReplyTypeOK == reply \in [Reports -> Replies]

(* The replies that follow the commit of an outcome, or of none to commit.  *)
AfterOutcome == {"committed", "accepted", "unconfirmed"}

(* A request that generates has its report for itself and has not answered; *)
(* at "cancel" the report is canceled, and at "finish" its session does not *)
(* hold SUCCESS, so that recording the success writes the status.           *)
AtWork(w) ==
    Busy(w) =>
        /\ post[msg[w].report] = "sent" /\ reply[msg[w].report] = "none"
        /\ pc[w] = "cancel" => row[msg[w].report].status = "CANCELED"
        /\ pc[w] = "finish" => snap[w].status # "SUCCESS"

NobodyElseAtWork ==
    \A v, w \in Workers : Busy(v) /\ Busy(w) /\ msg[v].report = msg[w].report => v = w

(* Only a report whose outcome is committed has succeeded or has a file,    *)
(* and such a report has succeeded or is canceled.                          *)
Answered(r) ==
    /\ row[r].status = "SUCCESS" \/ file[r] # 0 => reply[r] \in AfterOutcome
    /\ reply[r] \in AfterOutcome => row[r].status \in {"SUCCESS", "CANCELED"}
    /\ reply[r] # "none" => post[r] \in {"sent", "dead"}
    /\ post[r] # "new" => Exists(r)

AnswerInv ==
    /\ TypeInv
    /\ ReplyTypeOK
    /\ \A w \in Workers : AtWork(w)
    /\ NobodyElseAtWork
    /\ \A r \in Reports : Answered(r)
    /\ StatusAnnounced

(* A step beside the requests at work: it cancels a report at most.         *)
LEMMA AnswerFramed ==
    ASSUME AnswerInv, TypeInv', TrailStep, NEW r \in Reports,
           ChangesStatusTo(r, {"CANCELED"}),
           UNCHANGED <<post, pc, msg, snap, file, reply>>
    PROVE  AnswerInv'
<1>1. ReplyTypeOK' /\ NobodyElseAtWork'
    BY DEF AnswerInv, ReplyTypeOK, NobodyElseAtWork, Busy
<1>2. \A q \in Reports : row'[q].status \in {row[q].status, "CANCELED"}
    BY DEF ChangesStatusTo
<1>3. ASSUME NEW w \in Workers PROVE AtWork(w)'
    BY <1>2, HoldersAreTyped DEF AnswerInv, AtWork, Busy
<1>4. ASSUME NEW q \in Reports PROVE Answered(q)'
    <2>1. Exists(q) => Exists(q)'
        BY ExistsAfter
    <2>2. QED
        BY <1>2, <2>1 DEF AnswerInv, Answered
<1>5. StatusAnnounced'
    BY StatusAnnouncedNext DEF AnswerInv
<1>6. QED
    BY <1>1, <1>3, <1>4, <1>5 DEF AnswerInv

LEMMA AnswerBeside ==
    ASSUME AnswerInv, TypeInv', TrailStep, (Beside /\ UNCHANGED reply) \/ UNCHANGED eagerVars
    PROVE  AnswerInv'
<1>1. ASSUME NEW r \in Reports, Expire(r) \/ GetReport(r), UNCHANGED reply PROVE AnswerInv'
    <2>1. UNCHANGED <<post, pc, msg, snap, file, reply>>
        BY <1>1 DEF Expire, GetReport, storeVars, workerVars
    <2>2. ChangesStatusTo(r, {"CANCELED"})
        BY <1>1, HandlerStatus DEF ChangesStatusTo, AnswerInv
    <2>3. QED
        BY <2>1, <2>2, AnswerFramed
<1>2. ASSUME NEW d \in Deletes, DeleteStep(d), UNCHANGED reply PROVE AnswerInv'
    <2>1. UNCHANGED <<post, pc, msg, snap, file, reply>>
        BY <1>2
        DEF DeleteStep, CancelGone, CancelRefused, CancelLoads, CancelRevokes, CancelCommits,
            CancelDies, storeVars, workerVars
    <2>2. target[d] \in Reports /\ ChangesStatusTo(target[d], {"CANCELED"})
        BY <1>2, HandlerStatus DEF ChangesStatusTo, AnswerInv, TypeInv, TypeOK
    <2>3. QED
        BY <2>1, <2>2, AnswerFramed
<1>3. ASSUME UNCHANGED eagerVars PROVE AnswerInv'
    BY <1>3
    DEF eagerVars, vars, storeVars, workerVars, AnswerInv, ReplyTypeOK, AtWork, NobodyElseAtWork,
        Answered, StatusAnnounced, Busy, Exists
<1>4. QED
    BY <1>1, <1>2, <1>3 DEF Beside

LEMMA AnswerPost ==
    ASSUME AnswerInv, TypeInv', TrailStep, NEW r \in Reports, CreateEager(r) \/ EagerDies(r)
    PROVE  AnswerInv'
<1>0. /\ post \in [Reports -> PostSteps] /\ row \in [Reports -> Row]
      /\ reply \in [Reports -> Replies]
    BY DEF AnswerInv, ReplyTypeOK, TypeInv, TypeOK, StoreTypeOK
<1>1. \A w \in Workers : Busy(w) => msg[w].report # r /\ msg[w].report \in Reports
    BY HoldersAreTyped DEF CreateEager, CreateReport, EagerDies, AnswerInv, AtWork
<1>2. UNCHANGED <<pc, msg, snap, file>>
    BY DEF CreateEager, CreateReport, EagerDies, PostDies, storeVars, workerVars
<1>3. /\ \A q \in Reports : q # r => row'[q] = row[q] /\ post'[q] = post[q] /\ reply'[q] = reply[q]
    BY <1>0 DEF CreateEager, CreateReport, InsertReport, EagerDies, PostDies, Answer, storeVars
<1>4. ReplyTypeOK' /\ NobodyElseAtWork'
    BY <1>0, <1>2 DEF AnswerInv, ReplyTypeOK, Replies, NobodyElseAtWork, Busy, CreateEager, EagerDies, Answer
<1>5. ASSUME NEW w \in Workers PROVE AtWork(w)'
    BY <1>1, <1>2, <1>3 DEF AnswerInv, AtWork, Busy
<1>6. ASSUME NEW q \in Reports, q # r PROVE Answered(q)'
    BY <1>2, <1>3, <1>6 DEF AnswerInv, Answered, Exists
<1>7. Answered(r)'
    <2>1. CASE CreateEager(r)
        <3>1. reply[r] = "none" /\ file[r] = 0
            BY <1>0, <2>1 DEF CreateEager, CreateReport, AnswerInv, Answered, AfterOutcome
        <3>2. row'[r].status = "PENDING" /\ reply'[r] = "none" /\ file'[r] = 0
            BY <1>0, <2>1, <3>1 DEF CreateEager, CreateReport, InsertReport, NewRow
        <3>3. QED
            BY <3>2 DEF Answered, AfterOutcome, Exists
    <2>2. CASE EagerDies(r)
        <3>1. reply[r] = "none" /\ Exists(r)
            BY <1>0, <2>2 DEF EagerDies, AnswerInv, Answered
        <3>2. row[r].status # "SUCCESS" /\ file[r] = 0
            BY <1>0, <3>1 DEF AnswerInv, Answered, AfterOutcome
        <3>3. row' = row /\ post'[r] = "dead" /\ reply'[r] = "error" /\ file'[r] = 0
            BY <1>0, <1>2, <2>2, <3>2 DEF EagerDies, PostDies, Answer, storeVars
        <3>4. QED
            BY <3>1, <3>2, <3>3 DEF Answered, AfterOutcome, Exists
    <2>3. QED
        BY <2>1, <2>2
<1>8. StatusAnnounced'
    BY StatusAnnouncedNext DEF AnswerInv
<1>9. QED
    BY <1>4, <1>5, <1>6, <1>7, <1>8 DEF AnswerInv

LEMMA AnswerEnqueued ==
    ASSUME AnswerInv, TypeInv', TrailStep, NEW r \in Reports, NEW w \in Workers,
           EnqueueInline(r, w)
    PROVE  AnswerInv'
<1>0. /\ post \in [Reports -> PostSteps] /\ row \in [Reports -> Row]
      /\ pc \in [Workers -> WorkerSteps] /\ DOMAIN msg = Workers
    BY DEF AnswerInv, TypeInv, TypeOK, StoreTypeOK
<1>1. \A v \in Workers : Busy(v) => msg[v].report # r /\ msg[v].report \in Reports
    BY HoldersAreTyped DEF EnqueueInline, AnswerInv, AtWork
<1>2. /\ UNCHANGED <<snap, file, reply>>
      /\ \A q \in Reports : row'[q].status = row[q].status
      /\ \A q \in Reports : q # r => post'[q] = post[q]
      /\ post[r] = "created" /\ post'[r] = "sent"
    <2>1. EnqueuedRow(NewRow).status = NewRow.status
        BY InitialRows, AssignedStatus
    <2>2. \A q \in Reports : row'[q].status = row[q].status
        BY <1>0, <2>1 DEF EnqueueInline, Commit, UpdateRow, Flushed, Column
    <2>3. QED
        BY <1>0, <2>2 DEF EnqueueInline
<1>3. /\ ~Busy(w) /\ pc'[w] = "load" /\ msg'[w].report = r
      /\ \A v \in Workers : v # w => pc'[v] = pc[v] /\ msg'[v] = msg[v]
    BY <1>0 DEF EnqueueInline, Inline, Busy
<1>4. reply[r] = "none"
    BY <1>2 DEF AnswerInv, Answered, ReplyTypeOK, Replies
<1>5. ReplyTypeOK' /\ NobodyElseAtWork'
    BY <1>1, <1>2, <1>3 DEF AnswerInv, ReplyTypeOK, NobodyElseAtWork, Busy
<1>6. ASSUME NEW v \in Workers PROVE AtWork(v)'
    <2>1. CASE v = w
        BY <1>2, <1>3, <1>4, <2>1 DEF AtWork
    <2>2. CASE v # w
        BY <1>1, <1>2, <1>3, <2>2 DEF AnswerInv, AtWork, Busy
    <2>3. QED
        BY <2>1, <2>2
<1>7. ASSUME NEW q \in Reports PROVE Answered(q)'
    BY <1>2, <1>4 DEF AnswerInv, Answered, Exists
<1>8. StatusAnnounced'
    BY StatusAnnouncedNext DEF AnswerInv
<1>9. QED
    BY <1>5, <1>6, <1>7, <1>8 DEF AnswerInv

(* A step of the request w that generates r: what it leaves alone, and what *)
(* is left to say of w and of r.                                            *)
InlineFrame(w, r) ==
    /\ r = msg[w].report /\ r \in Reports /\ Busy(w)
    /\ post' = post
    /\ \A v \in Workers : v # w => pc'[v] = pc[v] /\ msg'[v] = msg[v] /\ snap'[v] = snap[v]
    /\ Busy(w)' => msg'[w] = msg[w]
    /\ \A q \in Reports : q # r => row'[q].status = row[q].status /\ file'[q] = file[q]
    /\ reply' = reply \/ \E a \in {"committed", "accepted", "error"} : Answer(r, a)

LEMMA InlineFramed ==
    ASSUME AnswerInv, TypeInv', TrailStep, NEW w \in Workers, NEW r, InlineFrame(w, r),
           AtWork(w)', Answered(r)'
    PROVE  AnswerInv'
<1>1. ReplyTypeOK' /\ \A q \in Reports : q # r => reply'[q] = reply[q]
    BY DEF InlineFrame, AnswerInv, ReplyTypeOK, Replies, Answer
<1>2. \A v \in Workers : v # w /\ Busy(v) => msg[v].report # r /\ msg[v].report \in Reports
    BY HoldersAreTyped DEF InlineFrame, AnswerInv, NobodyElseAtWork
<1>3. NobodyElseAtWork'
    BY <1>2 DEF InlineFrame, AnswerInv, NobodyElseAtWork, Busy
<1>4. ASSUME NEW v \in Workers PROVE AtWork(v)'
    <2>1. CASE v # w
        BY <1>1, <1>2, <2>1 DEF InlineFrame, AnswerInv, AtWork, Busy
    <2>2. QED
        BY <2>1
<1>5. ASSUME NEW q \in Reports PROVE Answered(q)'
    <2>1. CASE q # r
        BY <1>1, <2>1 DEF InlineFrame, AnswerInv, Answered, Exists
    <2>2. QED
        BY <2>1
<1>6. StatusAnnounced'
    BY StatusAnnouncedNext DEF AnswerInv
<1>7. QED
    BY <1>1, <1>3, <1>4, <1>5, <1>6 DEF AnswerInv

(* What a request at work knows of its report.                              *)
LEMMA WorkerKnows ==
    ASSUME AnswerInv, NEW w \in Workers, Busy(w), NEW r, r = msg[w].report
    PROVE  /\ r \in Reports /\ Exists(r)
           /\ post[r] = "sent" /\ reply[r] = "none"
           /\ row[r].status # "SUCCESS" /\ file[r] = 0
<1>1. r \in Reports
    BY HoldersAreTyped DEF AnswerInv
<1>2. post[r] = "sent" /\ reply[r] = "none"
    BY DEF AnswerInv, AtWork
<1>3. QED
    BY <1>1, <1>2 DEF AnswerInv, Answered, AfterOutcome

LEMMA AnswerAdvances ==
    ASSUME AnswerInv, TypeInv', TrailStep, NEW w \in Workers, Advances(w), UNCHANGED reply
    PROVE  AnswerInv'
<1>0. PICK r : r = msg[w].report
    OBVIOUS
<1>1. TaskStep(w) /\ ~RecordSuccess(w) /\ Busy(w)
    <2>1. TaskStep(w)
        BY DEF Advances, TaskStep
    <2>2. pc[w] # "finish"
        BY DEF Advances, TaskLoads, CountAttempts, RecordStarted, Upload, UploadFails,
               GenerationFails, RecordRetryAttempt, Refresh
    <2>3. QED
        BY <2>1, <2>2, TaskIsBusy DEF RecordSuccess
<1>2. /\ r \in Reports /\ Exists(r) /\ post[r] = "sent" /\ reply[r] = "none"
      /\ row[r].status # "SUCCESS" /\ file[r] = 0
    BY <1>0, <1>1, WorkerKnows
<1>3. row'[r].status # "SUCCESS" /\ \A q \in Reports : q # r => row'[q].status = row[q].status
    BY <1>0, <1>1, <1>2, TaskStatus DEF ChangesStatusTo, AnswerInv
<1>4. UNCHANGED <<post, file>>
    BY DEF Advances, TaskLoads, CountAttempts, RecordStarted, Upload, UploadFails,
           GenerationFails, RecordRetryAttempt, Refresh, storeVars
<1>5. /\ msg' = msg /\ \A v \in Workers : v # w => pc'[v] = pc[v] /\ snap'[v] = snap[v]
      /\ pc'[w] \notin {"idle", "cancel", "finish"} \/ Refresh(w)
    <2>0. TypeOK
        BY DEF AnswerInv, TypeInv
    <2>1. CASE TaskLoads(w) /\ pc'[w] # "idle"
        BY <2>0, <2>1 DEF TaskLoads, EndTask, GoTo, TypeOK
    <2>2. CASE CountAttempts(w) \/ RecordStarted(w) \/ RecordRetryAttempt(w)
        BY <2>0, <2>2 DEF CountAttempts, RecordStarted, RecordRetryAttempt, TaskCommits, GoTo, TypeOK
    <2>3. CASE Upload(w) \/ UploadFails(w) \/ GenerationFails(w) \/ Refresh(w)
        BY <2>0, <2>3 DEF Upload, UploadFails, GenerationFails, Refresh, GoTo, TypeOK
    <2>4. QED
        BY <2>1, <2>2, <2>3 DEF Advances
<1>6. InlineFrame(w, r)
    BY <1>0, <1>1, <1>2, <1>3, <1>4, <1>5 DEF InlineFrame
<1>7. AtWork(w)'
    <2>1. CASE Refresh(w)
        <3>1. /\ row' = row /\ snap'[w] = row[r]
              /\ pc'[w] = "cancel" => row[r].status = "CANCELED"
            BY <1>0, <2>1 DEF Refresh, GoTo, storeVars, AnswerInv, TypeInv, TypeOK
        <3>2. QED
            BY <1>0, <1>2, <1>4, <1>5, <3>1 DEF AtWork
    <2>2. CASE pc'[w] \notin {"idle", "cancel", "finish"}
        BY <1>0, <1>2, <1>4, <1>5, <2>2 DEF AtWork
    <2>3. QED
        BY <1>5, <2>1, <2>2
<1>8. Answered(r)'
    <2>1. Exists(r)'
        BY <1>2, ExistsAfter
    <2>2. QED
        BY <1>2, <1>3, <1>4, <2>1 DEF Answered, AfterOutcome
<1>9. QED
    BY <1>6, <1>7, <1>8, InlineFramed

(* A step that ends the task.                                               *)
LEMMA AnswerEnds ==
    ASSUME AnswerInv, TypeInv', TrailStep, NEW w \in Workers, NEW r, r = msg[w].report,
           Busy(w), EndTask(w), post' = post, NEW a \in {"committed", "accepted", "error"}, Answer(r, a),
           \A q \in Reports : q # r => row'[q].status = row[q].status /\ file'[q] = file[q],
           \/ a \in AfterOutcome /\ row'[r].status \in {"SUCCESS", "CANCELED"}
           \/ a = "error" /\ row'[r].status # "SUCCESS" /\ file'[r] = 0
    PROVE  AnswerInv'
<1>1. /\ r \in Reports /\ Exists(r) /\ post[r] = "sent"
    BY WorkerKnows
<1>2. /\ pc'[w] = "idle"
      /\ \A v \in Workers : v # w => pc'[v] = pc[v] /\ msg'[v] = msg[v] /\ snap'[v] = snap[v]
    BY DEF EndTask, AnswerInv, TypeInv, TypeOK
<1>3. InlineFrame(w, r) /\ AtWork(w)'
    BY <1>1, <1>2 DEF InlineFrame, AtWork, Busy
<1>4. Answered(r)'
    <2>1. Exists(r)' /\ reply'[r] = a
        BY <1>1, ExistsAfter DEF Answer, AnswerInv, ReplyTypeOK
    <2>2. QED
        BY <1>1, <2>1 DEF Answered, AfterOutcome
<1>5. QED
    BY <1>3, <1>4, InlineFramed

LEMMA AnswerReturns ==
    ASSUME AnswerInv, TypeInv', TrailStep, NEW w \in Workers, Returns(w),
           Answer(msg[w].report, "accepted")
    PROVE  AnswerInv'
<1>0. PICK r : r = msg[w].report
    OBVIOUS
<1>1. Busy(w) /\ post' = post /\ TypeOK
    BY DEF Returns, TaskLoads, Busy, AnswerInv, TypeInv
<1>2. r \in Reports /\ Exists(r)
    BY <1>0, <1>1, WorkerKnows
<1>3. EndTask(w) /\ NothingToDo(r) /\ UNCHANGED <<row, file>>
    BY <1>0, <1>1 DEF Returns, TaskLoads, GoTo, TypeOK, storeVars
<1>4. row'[r].status = "CANCELED" /\ "accepted" \in AfterOutcome
    BY <1>2, <1>3 DEF NothingToDo, AfterOutcome
<1>5. QED
    BY <1>0, <1>1, <1>3, <1>4, AnswerEnds

LEMMA AnswerCommits ==
    ASSUME AnswerInv, TypeInv', TrailStep, NEW w \in Workers, CommitsLast(w),
           Answer(msg[w].report, "committed")
    PROVE  AnswerInv'
<1>0. PICK r : r = msg[w].report
    OBVIOUS
<1>1. Busy(w) /\ post' = post /\ TypeOK /\ "committed" \in AfterOutcome
    BY DEF CommitsLast, RecordCanceled, RecordSuccess, Busy, AnswerInv, TypeInv, AfterOutcome
<1>2. /\ r \in Reports
      /\ pc[w] = "cancel" => row[r].status = "CANCELED"
      /\ pc[w] = "finish" => snap[w].status # "SUCCESS"
    BY <1>0, <1>1, WorkerKnows DEF AnswerInv, AtWork
<1>3. CASE RecordCanceled(w)
    <2>1. EndTask(w) /\ UNCHANGED <<row, file>> /\ row[r].status = "CANCELED"
        BY <1>2, <1>3 DEF RecordCanceled
    <2>2. QED
        BY <1>0, <1>1, <2>1, AnswerEnds
<1>4. CASE RecordSuccess(w)
    <2>1. /\ Commit(r, snap[w], SuccessRow(snap[w]), "SUCCEEDED") /\ EndTask(w)
          /\ file' = [file EXCEPT ![r] = attempt[w]] /\ snap[w].status # "SUCCESS"
        BY <1>0, <1>2, <1>4 DEF RecordSuccess
    <2>2. SuccessRow(snap[w]).status = "SUCCESS"
        BY AssignedStatus, <1>1 DEF TypeOK
    <2>3. row'[r].status = "SUCCESS" /\ \A q \in Reports : q # r => row'[q] = row[q]
        BY <1>1, <1>2, <2>1, <2>2 DEF Commit, UpdateRow, Flushed, Column, TypeOK, StoreTypeOK
    <2>4. \A q \in Reports : q # r => file'[q] = file[q]
        BY <1>1, <2>1 DEF TypeOK, StoreTypeOK
    <2>5. QED
        BY <1>0, <1>1, <2>1, <2>3, <2>4, AnswerEnds
<1>5. QED
    BY <1>3, <1>4 DEF CommitsLast

(* The refresh after the last commit changes the answer and nothing else.   *)
LEMMA AnswerConfirmed ==
    ASSUME AnswerInv, NEW r \in Reports, EndsConfirmation(r)
    PROVE  AnswerInv'
<1>1. UNCHANGED vars
    BY ConfirmationStutters
<1>2. PICK a \in {"accepted", "unconfirmed"} : reply' = [reply EXCEPT ![r] = a]
    BY DEF EndsConfirmation, Confirms, LosesConfirmation, Answer
<1>3. reply[r] = "committed" /\ reply \in [Reports -> Replies]
    BY DEF EndsConfirmation, Confirms, LosesConfirmation, AnswerInv, ReplyTypeOK
<1>4. /\ reply' \in [Reports -> Replies]
      /\ reply'[r] = a /\ \A q \in Reports : q # r => reply'[q] = reply[q]
    BY <1>2, <1>3 DEF Replies
<1>5. TypeInv' /\ StatusAnnounced'
    BY <1>1, TypeNext DEF AnswerInv, StatusAnnounced, Exists, vars, storeVars
<1>6. ASSUME NEW w \in Workers PROVE AtWork(w)'
    <2>1. AtWork(w) /\ (Busy(w) => msg[w].report \in Reports)
        BY HoldersAreTyped DEF AnswerInv
    <2>2. Busy(w) => msg[w].report # r
        BY <1>3, <2>1 DEF AtWork
    <2>3. QED
        BY <1>1, <1>4, <2>1, <2>2 DEF AtWork, Busy, vars, workerVars, storeVars
<1>7. NobodyElseAtWork'
    BY <1>1 DEF AnswerInv, NobodyElseAtWork, Busy, vars, workerVars
<1>8. ASSUME NEW q \in Reports PROVE Answered(q)'
    <2>1. Answered(q) /\ UNCHANGED <<row, file, post>>
        BY <1>1 DEF AnswerInv, vars, storeVars
    <2>2. CASE q = r
        BY <1>3, <1>4, <2>1, <2>2 DEF Answered, AfterOutcome, Exists
    <2>3. CASE q # r
        BY <1>4, <2>1, <2>3 DEF Answered, Exists
    <2>4. QED
        BY <2>2, <2>3
<1>9. QED
    BY <1>4, <1>5, <1>6, <1>7, <1>8 DEF AnswerInv, ReplyTypeOK

LEMMA AnswerRaises ==
    ASSUME AnswerInv, TypeInv', TrailStep, NEW w \in Workers, Raises(w) \/ TaskDies(w),
           Answer(msg[w].report, "error")
    PROVE  AnswerInv'
<1>0. PICK r : r = msg[w].report
    OBVIOUS
<1>1. Busy(w) /\ EndTask(w) /\ UNCHANGED <<post, file>>
    BY DEF Raises, RaiseTransient, RecordFailure, RecordSuccessFails, TaskDies, Busy, storeVars
<1>2. r \in Reports /\ row[r].status # "SUCCESS" /\ file[r] = 0
    BY <1>0, <1>1, WorkerKnows
<1>3. row'[r].status # "SUCCESS" /\ \A q \in Reports : q # r => row'[q].status = row[q].status
    <2>1. CASE RecordFailure(w)
        <3>1. TaskStep(w) /\ ~RecordSuccess(w)
            BY <2>1 DEF TaskStep, RecordFailure, RecordSuccess
        <3>2. QED
            BY <1>0, <1>2, <3>1, TaskStatus DEF ChangesStatusTo, AnswerInv
    <2>2. CASE row' = row
        BY <1>2, <2>2
    <2>3. QED
        BY <2>1, <2>2 DEF Raises, RaiseTransient, RecordSuccessFails, TaskDies, storeVars
<1>4. QED
    BY <1>0, <1>1, <1>2, <1>3, AnswerEnds

LEMMA AnswerNext == AnswerInv /\ [EagerNext]_eagerVars => AnswerInv'
<1> SUFFICES ASSUME AnswerInv, [EagerNext]_eagerVars PROVE AnswerInv'
    OBVIOUS
<1>1. TypeInv' /\ TrailStep
    BY EagerTypeNext, EagerAnnounces DEF AnswerInv
<1>2. ASSUME NEW w \in Workers, InlineStep(w) \/ InlineDies(w) PROVE AnswerInv'
    BY <1>1, <1>2, AnswerAdvances, AnswerReturns, AnswerCommits, AnswerRaises
    DEF InlineStep, InlineDies
<1>3. QED
    BY <1>1, <1>2, EagerSteps, AnswerPost, AnswerEnqueued, AnswerConfirmed, AnswerBeside

LEMMA AnswerInit == EagerInit => AnswerInv
<1> SUFFICES ASSUME EagerInit PROVE AnswerInv
    OBVIOUS
<1>1. TypeInv
    BY TypeInit DEF EagerInit
<1>2. \A w \in Workers : ~Busy(w)
    BY DEF EagerInit, Init, Busy
<1>3. \A r \in Reports :
        row[r].status = "ABSENT" /\ file[r] = 0 /\ reply[r] = "none" /\ post[r] = "new"
    BY DEF EagerInit, Init, StoreInit, AbsentRow, NewRow
<1>4. ReplyTypeOK
    BY DEF EagerInit, ReplyTypeOK, Replies
<1>5. QED
    BY <1>1, <1>2, <1>3, <1>4
    DEF AnswerInv, AtWork, NobodyElseAtWork, Answered, AfterOutcome, StatusAnnounced, Exists

(* What a request that awaits generate_report in its own handler holds, from *)
(* its INSERT to its answer, whatever other requests do between its steps.  *)
THEOREM AnswerInvariance == EagerSpec => []AnswerInv
BY AnswerInit, AnswerNext, PTL DEF EagerSpec

(* The cancellation of a report that is CANCELED is in its trail.           *)
LEMMA CanceledIsRecorded ==
    ASSUME TypeInv, StatusAnnounced, NEW r \in Reports, row[r].status = "CANCELED"
    PROVE  Recorded(r, "CANCELED")
<1>1. PICK i \in DOMAIN events[r] :
          events[r][i] # "ENQUEUED" /\ StatusOf[events[r][i]] = "CANCELED"
    BY DEF StatusAnnounced, Exists, Announced
<1>2. events[r] \in Seq(EventTypes)
    BY DEF TypeInv, TypeOK, StoreTypeOK
<1>3. events[r][i] \in EventTypes
    BY <1>1, <1>2, ElementOfSeq, LenProperties
<1>4. events[r][i] = "CANCELED"
    BY <1>1, <1>3 DEF EventTypes, StatusOf
<1>5. QED
    BY <1>1, <1>4 DEF Recorded

(* An eager POST answers 202 only for a report that has succeeded or whose  *)
(* cancellation is recorded.  It answers 500 for one that has neither       *)
(* succeeded nor a file, or, when the database fails in the refresh after   *)
(* the last commit, for one that is over like those answered with 202:      *)
(* create_report of api/routes/reports.py, whatever DELETE requests,        *)
(* expirations and database errors come between.                            *)
THEOREM AnswersTellOutcomes == EagerSpec => []AnswerTellsOutcome
<1>1. ASSUME AnswerInv PROVE AnswerTellsOutcome
    <2> SUFFICES ASSUME NEW r \in Reports
                 PROVE  /\ reply[r] \in AfterOutcome => CameToItsEnd(r)
                        /\ reply[r] = "error" => row[r].status # "SUCCESS" /\ file[r] = 0
        BY DEF AnswerTellsOutcome, AfterOutcome
    <2>1. Answered(r)
        BY <1>1 DEF AnswerInv
    <2>2. reply[r] \in AfterOutcome => CameToItsEnd(r)
        BY <1>1, <2>1, CanceledIsRecorded DEF AnswerInv, Answered, CameToItsEnd
    <2>3. reply[r] = "error" => row[r].status # "SUCCESS" /\ file[r] = 0
        BY <2>1 DEF Answered, AfterOutcome
    <2>4. QED
        BY <2>2, <2>3
<1>2. QED
    BY <1>1, AnswerInvariance, PTL

-----------------------------------------------------------------------------
(* The ledger                                                               *)

LEMMA EagerOnAttempts ==
    ASSUME TypeInv, [EagerNext]_eagerVars
    PROVE  \/ UNCHANGED <<attempts, file>>
           \/ \E w \in Workers :
                 RecordStarted(w) \/ \E status \in AttemptStatuses : Closes(w, status)
<1>1. ASSUME NEW w \in Workers, InlineStep(w) \/ InlineDies(w)
      PROVE  \/ UNCHANGED <<attempts, file>>
             \/ RecordStarted(w)
             \/ \E status \in AttemptStatuses : Closes(w, status)
    BY <1>1, InlineIsTask, TaskOnAttempts DEF RaiseTransient, storeVars
<1>2. ASSUME Beside \/ UNCHANGED vars
      PROVE  \/ UNCHANGED <<attempts, file>>
             \/ \E w \in Workers :
                   RecordStarted(w) \/ \E status \in AttemptStatuses : Closes(w, status)
    BY <1>2, StepOnAttempts DEF Beside, Next
<1>3. ASSUME NEW r \in Reports,
             CreateEager(r) \/ EagerDies(r) \/ \E w \in Workers : EnqueueInline(r, w)
      PROVE  UNCHANGED <<attempts, file>>
    BY <1>3 DEF CreateEager, CreateReport, EagerDies, PostDies, EnqueueInline, storeVars
<1>4. QED
    BY <1>1, <1>2, <1>3, EagerSteps, ConfirmationStutters DEF eagerVars

LEMMA EagerLedgerNext ==
    ASSUME TypeInv, LedgerInv, [EagerNext]_eagerVars
    PROVE  LedgerInv'
<1>1. ASSUME NEW r \in Reports, CreateEager(r) \/ EagerDies(r) PROVE LedgerInv'
    BY <1>1, LedgerFramed
    DEF CreateEager, CreateReport, EagerDies, PostDies, storeVars, workerVars, LedgerFrame
<1>2. ASSUME NEW r \in Reports, NEW w \in Workers, EnqueueInline(r, w) PROVE LedgerInv'
    <2>1. LedgerFrame
        BY <1>2 DEF EnqueueInline, LedgerFrame, Attempting, TypeInv, TypeOK
    <2>2. QED
        BY <2>1, LedgerFramed
<1>3. ASSUME NEW w \in Workers, RaiseTransient(w) PROVE LedgerInv'
    <2>1. LedgerFrame
        BY <1>3, TaskEnds DEF RaiseTransient, storeVars, LedgerFrame
    <2>2. QED
        BY <2>1, LedgerFramed
<1>4. ASSUME NEW w \in Workers, InlineStep(w) \/ InlineDies(w) PROVE LedgerInv'
    BY <1>3, <1>4, InlineIsTask, LedgerTask
<1>5. ASSUME Beside \/ UNCHANGED vars PROVE LedgerInv'
    BY <1>5, LedgerNext DEF Beside, Next
<1>6. QED
    BY <1>1, <1>2, <1>4, <1>5, EagerSteps, ConfirmationStutters DEF eagerVars

(* A task that runs within the request keeps the ledger as one of the node  *)
(* does: mark_started, mark_retry, mark_failure and mark_success do not     *)
(* rely on Celery for it.                                                   *)
THEOREM EagerImplementsLedger == EagerSpec => ImplementsLedger
<1>1. EagerInit => TypeInv /\ LedgerInv /\ Ledger!LedgerInit
    BY TypeInit, LedgerInit, LedgerStarts DEF EagerInit
<1>2. TypeInv /\ LedgerInv /\ [EagerNext]_eagerVars => TypeInv' /\ LedgerInv'
    BY EagerTypeNext, EagerLedgerNext
<1>3. TypeInv /\ LedgerInv /\ [EagerNext]_eagerVars => [Ledger!LedgerNext]_(Ledger!ledgerVars)
    BY EagerOnAttempts, LedgerMoves
<1>4. QED
    BY <1>1, <1>2, <1>3, PTL DEF EagerSpec, ImplementsLedger, Ledger!LedgerSpec

=============================================================================
