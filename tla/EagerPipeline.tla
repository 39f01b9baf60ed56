----------------------------- MODULE EagerPipeline -----------------------------
(***************************************************************************)
(* POST /reports with task_always_eager: the handler commits the task id   *)
(* and awaits _generate_report itself, so there is no message, no node and *)
(* no Celery around the task.  What the task returns or raises becomes the *)
(* answer of the request.  DELETE, GET and the retention go on beside it.  *)
(*                                                                         *)
(* Workers stand for the requests the API handles at the same time.        *)
(***************************************************************************)
EXTENDS PipelineProperties

(* What each POST was answered: "none" so far; "accepted", 202; "error", a  *)
(* 500 for what ended the task before an outcome was committed for good;    *)
(* "unconfirmed", a 500 for what failed after the commit.  "committed" is   *)
(* no answer yet: the refresh that follows the last commit is awaited.      *)
VARIABLE reply

eagerVars == <<vars, reply>>

EagerInit == Init /\ reply = [r \in Reports |-> "none"]

(* retry_count=0; the copy has no meaning here.                             *)
Inline(r) == [report |-> r, retries |-> 0, copy |-> CHOOSE c \in Copies : TRUE]

Answer(r, a) == reply' = [reply EXCEPT ![r] = a]

-----------------------------------------------------------------------------

CreateEager(r) == CreateReport(r) /\ UNCHANGED reply

(* mark_enqueued, then the call of _generate_report.                        *)
EnqueueInline(r, w) ==
    /\ post[r] = "created"
    /\ pc[w] = "idle"
    /\ post' = [post EXCEPT ![r] = "sent"]
    /\ Commit(r, NewRow, EnqueuedRow(NewRow), "ENQUEUED")
    /\ pc' = [pc EXCEPT ![w] = "load"]
    /\ msg' = [msg EXCEPT ![w] = Inline(r)]
    /\ UNCHANGED <<attempts, file, queueVars, snap, count, attempt, warm, object,
                   deleteVars, expired, reply>>

(* A database error before the task is called.                              *)
EagerDies(r) == post[r] = "created" /\ PostDies(r) /\ Answer(r, "error")

(* Steps of _generate_report after which it goes on.                        *)
Advances(w) ==
    \/ TaskLoads(w) /\ pc'[w] # "idle"
    \/ CountAttempts(w) \/ RecordStarted(w) \/ Upload(w) \/ UploadFails(w)
    \/ GenerationFails(w) \/ RecordRetryAttempt(w) \/ Refresh(w)

(* A report that is not there or canceled: the task returns at once.        *)
Returns(w) == TaskLoads(w) /\ pc'[w] = "idle"

(* Variant: a failure that is recorded is not raised.                       *)
CommitsAnything(w) == RecordCanceled(w) \/ RecordSuccess(w) \/ RecordFailure(w)

(* The commits after which only a refresh of the report is left to do.      *)
CommitsLast(w) == RecordCanceled(w) \/ RecordSuccess(w)

(* Variant: the request uploads again, for the attempt it has closed.       *)
UploadAgain(w) ==
    /\ pc[w] = "republish"
    /\ GoTo(w, "build")
    /\ UNCHANGED <<storeVars, queueVars, post, snap, count, attempt, warm, object, deleteVars,
                   expired>>

(* TransientStorageError leaves the request: nobody retries it.             *)
RaiseTransient(w) ==
    /\ pc[w] = "republish"
    /\ EndTask(w)
    /\ UNCHANGED <<storeVars, queueVars, post, warm, object, deleteVars, expired>>

(* Variant: the request waits for a worker to retry.                        *)
RaisesUnlessRetried(w) == RecordFailure(w) \/ RecordSuccessFails(w)

Raises(w) == RaiseTransient(w) \/ RecordFailure(w) \/ RecordSuccessFails(w)

InlineStep(w) ==
    \/ Advances(w) /\ UNCHANGED reply
    \/ Returns(w) /\ Answer(msg[w].report, "accepted")
    \/ CommitsLast(w) /\ Answer(msg[w].report, "committed")
    \/ Raises(w) /\ Answer(msg[w].report, "error")

(* The refresh returns, and with it the task and the handler.               *)
Confirms(r) ==
    /\ reply[r] = "committed"
    /\ Answer(r, "accepted")
    /\ UNCHANGED vars

(* The refresh raises, or the commit did though it took effect: what was    *)
(* committed stays, and the request ends with 500.                          *)
LosesConfirmation(r) ==
    /\ "handler" \in Faults
    /\ reply[r] = "committed"
    /\ Answer(r, "unconfirmed")
    /\ UNCHANGED vars

EndsConfirmation(r) == Confirms(r) \/ LosesConfirmation(r)

(* A database error that nothing catches.                                   *)
InlineDies(w) == TaskDies(w) /\ Answer(msg[w].report, "error")

EagerNext ==
    \/ \E r \in Reports : CreateEager(r) \/ EagerDies(r) \/ EndsConfirmation(r)
    \/ \E r \in Reports, w \in Workers : EnqueueInline(r, w)
    \/ \E w \in Workers : InlineStep(w) \/ InlineDies(w)
    \/ /\ \/ \E r \in Reports : Expire(r) \/ GetReport(r)
          \/ \E d \in Deletes : DeleteStep(d)
       /\ UNCHANGED reply

EagerSpec == EagerInit /\ [][EagerNext]_eagerVars

(* uvicorn runs the handlers it accepted; none has to fail.                 *)
EagerFairSpec ==
    /\ EagerSpec
    /\ \A r \in Reports : WF_eagerVars(\E w \in Workers : EnqueueInline(r, w))
    /\ \A w \in Workers : WF_eagerVars(InlineStep(w))
    /\ \A r \in Reports : WF_eagerVars(EndsConfirmation(r))

-----------------------------------------------------------------------------
(* What the answer of an eager POST says of the report.                     *)

(* The report succeeded, or somebody canceled it meanwhile.                 *)
CameToItsEnd(r) ==
    \/ row[r].status = "SUCCESS"
    \/ row[r].status = "CANCELED" /\ Recorded(r, "CANCELED")

(* 202 is only answered for a report that is over: the client that          *)
(* validates the whole flow (README) reads SUCCESS next, unless the report  *)
(* was canceled.  500 says that it did not succeed and has no file, but for *)
(* one case: a database error after the last commit is answered with 500    *)
(* too, for a report that is over like those answered with 202.             *)
(* create_report, with _generate_report awaited in it.                      *)
AnswerTellsOutcome ==
    \A r \in Reports :
        /\ reply[r] \in {"committed", "accepted", "unconfirmed"} => CameToItsEnd(r)
        /\ reply[r] = "error" => row[r].status # "SUCCESS" /\ file[r] = 0

(* Every request that registered its report is answered.                    *)
EagerIsAnswered ==
    \A r \in Reports : Exists(r) ~> reply[r] \notin {"none", "committed"}

=============================================================================
