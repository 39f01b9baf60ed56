-------------------------- MODULE PipelineProperties -------------------------
(***************************************************************************)
(* What the report pipeline promises, and what its documents promise of it *)
(* that it does not keep.                                                  *)
(***************************************************************************)
EXTENDS ReportPipeline

(* Safety                                                                   *)

(* A message is executed by one process at a time: early acknowledgement,   *)
(* redelivery after a restart and the publication of a retry never give the *)
(* same copy of a report's message to two holders.                          *)
OneHolder ==
    /\ queue \cap reserved = {}
    /\ \A m, n \in Pending : SameTask(m, n) => m = n
    /\ \A v, w \in Workers : Busy(v) /\ Busy(w) /\ SameTask(msg[v], msg[w]) => v = w
    /\ \A w \in Workers, m \in Pending : Busy(w) => ~SameTask(msg[w], m)

(* With exact publication a waiting message has had as many attempts as     *)
(* retries: no execution opens two attempts or leaves the retry counter of  *)
(* celery (request.retries) and the table (count_attempts) disagreeing.     *)
AttemptPerRetry ==
    \A m \in Pending : Len(attempts[m.report]) = m.retries

(* attempt_no is computed from a count read before the insert and has no    *)
(* unique constraint; with exact publication it is still 1, 2, 3...         *)
AttemptsNumbered ==
    \A r \in Reports : \A i \in DOMAIN attempts[r] : attempts[r][i].no = i

(* A file is recorded exactly when an attempt succeeded, and for that one:  *)
(* two executions of one report cannot both succeed.                        *)
FileOfTheSuccess ==
    \A r \in Reports : \A i \in DOMAIN attempts[r] :
        attempts[r][i].status = "SUCCESS" <=> file[r] = i

(* A report whose status is SUCCESS has a file to download, whatever the    *)
(* stale snapshots of other handlers write (generate_download_link).        *)
SuccessHasFile ==
    \A r \in Reports : row[r].status = "SUCCESS" => file[r] # 0

(* The checksum and size recorded are those of the object stored: no later  *)
(* attempt, failed or not, overwrites the object of the recorded one.       *)
FileMatchesObject ==
    \A r \in Reports : file[r] # 0 => object[r] = file[r]

(* An attempt is left in STARTED only while a process is executing it.      *)
OpenAttemptIsRunning ==
    \A r \in Reports : \A i \in DOMAIN attempts[r] :
        attempts[r][i].status = "STARTED"
            => \E w \in Working(r) : attempt[w] = i

(* "Se programo un reintento automatico.": a report left in RETRY, with no  *)
(* DELETE request about to change that, has a message waiting or a process  *)
(* at work on it.                                                           *)
RetryHasWork ==
    \A r \in Reports :
        row[r].status = "RETRY" /\ (\A d \in Deletes : del[d] = "commit" => target[d] # r)
            => (\E m \in Pending : m.report = r) \/ Working(r) # {}

Recorded(r, event) == \E i \in DOMAIN events[r] : events[r][i] = event

(* POST has published the report, which has not ended, and neither a        *)
(* message nor a process is left to go on with it.                          *)
Abandoned(r) ==
    /\ post[r] \notin {"new", "created"}
    /\ row[r].status \in Unfinished
    /\ Working(r) = {}
    /\ \A m \in Pending : m.report # r

(* Without crashes and failed calls, work is lost to a revocation only, and *)
(* the cancellation behind it is either about to be committed (revoke comes *)
(* before the commit in cancel_report) or was overwritten by a retry.       *)
OnlyCanceledAreAbandoned ==
    \A r \in {q \in Reports : Abandoned(q)} :
        /\ r \in revoked
        /\ \/ \E d \in Deletes : del[d] = "commit" /\ target[d] = r
           \/ Recorded(r, "CANCELED") /\ row[r].status = "RETRY"

(* The status an event of the trail announces.                              *)
StatusOf ==
    [REQUESTED |-> "PENDING", STARTED |-> "STARTED", RETRIED |-> "RETRY",
     SUCCEEDED |-> "SUCCESS", FAILED |-> "FAILURE", CANCELED |-> "CANCELED"]

(* The trail announces the status: one of its events is about it.           *)
Announced(trail, status) ==
    \E i \in DOMAIN trail : trail[i] # "ENQUEUED" /\ StatusOf[trail[i]] = status

(* ENQUEUED announces no status, and may be recorded after the events of    *)
(* the worker.                                                              *)
LastAnnouncement(trail, i) ==
    /\ trail[i] # "ENQUEUED"
    /\ \A j \in DOMAIN trail : j > i => trail[j] = "ENQUEUED"

(* No DELETE request about the report has read it, and POST has not failed  *)
(* it for a publication that had succeeded after all.                       *)
Undisturbed(r) ==
    /\ \A d \in Deletes : del[d] # "new" => target[d] # r
    /\ post[r] = "rejected" => attempts[r] = <<>>

(* Until one of these happens, the status of a report is the one its trail  *)
(* announced last.                                                          *)
TrailAgreesWithStatus ==
    \A r \in {q \in Reports : Undisturbed(q)} : \A i \in DOMAIN events[r] :
        LastAnnouncement(events[r], i) => row[r].status = StatusOf[events[r][i]]

(* Until then error_message goes with the status: none while a report is    *)
(* pending, started or successful, one when it failed or is retried.  A     *)
(* column that the ORM does not write, because the snapshot already had the *)
(* value, would break this.                                                 *)
ErrorExplainsStatus ==
    \A r \in {q \in Reports : Undisturbed(q)} :
        /\ row[r].status \in {"PENDING", "STARTED", "SUCCESS"} => row[r].error = NoError
        /\ row[r].status \in {"RETRY", "FAILURE"} => row[r].error # NoError

-----------------------------------------------------------------------------
(* What a step may never do                                                 *)

Loaded(w) == pc[w] \notin {"idle", "load"}

(* A cancellation is final for every handler that reads the report after    *)
(* it: only a task that had loaded the report before, or the POST handler   *)
(* that still reports a failed publication, takes a report out of CANCELED. *)
CanceledLeftOnlyByEarlierReaders ==
    [][\A r \in Reports :
          row[r].status = "CANCELED" /\ row'[r].status # "CANCELED"
              => \/ \E w \in Working(r) : Loaded(w) /\ snap[w].status # "CANCELED"
                 \/ post[r] = "unsent"]_vars

(* Success and failure are final for whoever reads the report after them:   *)
(* only a DELETE request that had read it unfinished cancels it, only a     *)
(* POST handler that still reports a failed publication fails it, and only  *)
(* a report so failed although its message was stored goes on.              *)
OutcomeLeftOnlyByEarlierReaders ==
    [][\A r \in Reports :
          row[r].status \in {"SUCCESS", "FAILURE"} /\ row'[r].status # row[r].status
              => \/ /\ row'[r].status = "CANCELED"
                    /\ \E d \in Deletes :
                          del[d] = "commit" /\ target[d] = r /\ delSnap[d].status \in Unfinished
                 \/ row'[r].status = "FAILURE" /\ post[r] = "unsent"
                 \/ row[r].status = "FAILURE" /\ post[r] = "rejected"]_vars

(* After an attempt that succeeded, failed for good or was canceled, no     *)
(* other attempt is ever opened.                                            *)
NoAttemptAfterOutcome ==
    [][\A r \in Reports :
          (\E i \in DOMAIN attempts[r] :
              attempts[r][i].status \in {"SUCCESS", "FAILURE", "CANCELED"})
          => Len(attempts'[r]) = Len(attempts[r])]_vars

(* A recorded outcome of an attempt is never rewritten.                     *)
OutcomeIsKept ==
    [][\A r \in Reports : \A i \in DOMAIN attempts[r] :
          attempts[r][i].status # "STARTED" => attempts'[r][i] = attempts[r][i]]_vars

(* test_canceled_report_is_not_promoted_to_success                          *)
CanceledIsNotPromoted ==
    [][\A r \in Reports :
          row[r].status = "CANCELED" => row'[r].status # "SUCCESS"]_vars

(* "Cancela una solicitud si todavia no ha finalizado exitosamente."        *)
SuccessIsNotCanceled ==
    [][\A r \in Reports :
          row[r].status = "SUCCESS" => row'[r].status # "CANCELED"]_vars

-----------------------------------------------------------------------------
(* Liveness                                                                 *)

(* Every report that was registered ends and its final status stays, unless *)
(* it was both canceled and retried: the task then writes RETRY over        *)
(* CANCELED, and the node drops the retry as revoked.                       *)
EveryReportSettles ==
    \A r \in Reports :
        Exists(r) ~> [](\/ row[r].status \in Final
                       \/ (Recorded(r, "CANCELED") /\ Recorded(r, "RETRIED")))

(* Every attempt that was opened is closed.                                 *)
EveryAttemptEnds ==
    \A r \in Reports : \A i \in 1..(MaxRetries + 1) :
        Len(attempts[r]) >= i ~> (Len(attempts[r]) >= i /\ attempts[r][i].status # "STARTED")

(* An Excel report is generated like a PDF one.                             *)
ExcelIsGenerated ==
    \A r \in ExcelReports : Exists(r) ~> row[r].status = "SUCCESS"

(* The worker starts every report that was accepted.                        *)
AcceptedIsStarted ==
    \A r \in Reports : post[r] = "accepted" ~> attempts[r] # <<>>

=============================================================================
