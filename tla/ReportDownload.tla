---------------------------- MODULE ReportDownload ----------------------------
(***************************************************************************)
(* GET /reports/{id}/download beside the life of the report: the first     *)
(* phase answers with a signed link, the second, which brings the link's   *)
(* token, with the file (local storage) or a redirect to it (S3).  Both    *)
(* begin like every request about a report: it is read, shown only to its  *)
(* owner or an administrator, and gone after its retention.                *)
(*                                                                         *)
(* The phases are separate requests: cancellations, late commits of the    *)
(* worker, the end of the retention and the removal of the stored object   *)
(* may come between them, and between the steps of each.                   *)
(***************************************************************************)
EXTENDS ReportPipeline

CONSTANTS
    Downloads,      \* the download requests; a link has the name of the one it answers
    Outsiders       \* those of users who neither own the report nor administrate

ASSUME DownloadAssumption == Outsiders \subseteq Downloads

VARIABLES
    phase,          \* what each request is about to do, or was answered
    about,          \* the report it names
    onS3,           \* whether storage_backend is "s3", a setting of the deployment
    lapsed,         \* the requests whose token is older than download_token_ttl_seconds
    trail,          \* the DOWNLOAD_ events of each report, in commit order
    removed,        \* the reports whose stored object somebody has removed
    got             \* the attempt whose file the client received, 0 for none

downloadVars == <<phase, about, onS3, lapsed, trail, removed, got>>
allVars == <<vars, downloadVars>>

Steps == {"new", "grant", "serve", "send"}
Answers == {"link", "file", "redirect", "fetched", "unauthorized", "forbidden",
            "not_found", "conflict", "gone", "error"}

(* The links that were answered.                                            *)
Links == {d \in Downloads : phase[d] = "link"}

DownloadTypeOK ==
    /\ phase \in [Downloads -> Steps \cup Answers]
    /\ about \in [Downloads -> Reports]
    /\ onS3 \in BOOLEAN
    /\ lapsed \subseteq {d \in Downloads : phase[d] \in {"grant", "link", "error"}}
    /\ trail \in [Reports -> Seq({"DOWNLOAD_REQUESTED", "DOWNLOAD_COMPLETED"})]
    /\ removed \subseteq Reports
    /\ got \in [Downloads -> Nat]

DownloadInit ==
    /\ Init
    /\ phase = [d \in Downloads |-> "new"]
    /\ about \in [Downloads -> Reports]
    /\ onS3 \in BOOLEAN
    /\ lapsed = {} /\ removed = {}
    /\ trail = [r \in Reports |-> <<>>]
    /\ got = [d \in Downloads |-> 0]

-----------------------------------------------------------------------------

Turns(d, p) == phase' = [phase EXCEPT ![d] = p]

Register(r, event) == trail' = [trail EXCEPT ![r] = Append(@, event)]

(* _ensure_report_visibility                                                *)
Visible(d) == d \notin Outsiders

(* get_report lets the request pass.                                        *)
Admitted(d) ==
    /\ phase[d] = "new"
    /\ Exists(about[d]) /\ Visible(d) /\ ~Gone(about[d])

(* 404 and 403, before the retention is looked at.                          *)
Rejected(d) ==
    /\ phase[d] = "new"
    /\ \/ ~Exists(about[d]) /\ Turns(d, "not_found")
       \/ Exists(about[d]) /\ ~Visible(d) /\ Turns(d, "forbidden")
    /\ UNCHANGED <<vars, about, onS3, lapsed, trail, removed, got>>

(* Variant: the retention is looked at before the visibility.               *)
GoneToAnyone(d) ==
    /\ phase[d] = "new"
    /\ Exists(about[d]) /\ Gone(about[d])
    /\ StampDeleted(about[d])
    /\ Turns(d, "gone")
    /\ UNCHANGED <<events, attempts, file, queueVars, post, workerVars, object, deleteVars,
                   expired, about, onS3, lapsed, trail, removed, got>>

(* 410; the first request after the end of the retention stamps the report. *)
GoneToReader(d) ==
    /\ phase[d] = "new"
    /\ Exists(about[d]) /\ Visible(d) /\ Gone(about[d])
    /\ StampDeleted(about[d])
    /\ Turns(d, "gone")
    /\ UNCHANGED <<events, attempts, file, queueVars, post, workerVars, object, deleteVars,
                   expired, about, onS3, lapsed, trail, removed, got>>

-----------------------------------------------------------------------------
(* First phase: no token                                                    *)

(* Variant: the report is downloadable as soon as it is registered.         *)
Registered(r) == Exists(r)

(* The status and the file are read by two queries, the status first; no    *)
(* report succeeds without its file and no file row is deleted, so one step *)
(* reads them.                                                              *)
Downloadable(r) == row[r].status = "SUCCESS" /\ file[r] # 0

AskLink(d) ==
    /\ Admitted(d)
    /\ Turns(d, IF Downloadable(about[d]) THEN "grant" ELSE "conflict")
    /\ UNCHANGED <<vars, about, onS3, lapsed, trail, removed, got>>

(* Variant: the link is answered without its event.                         *)
AnswerLinkUnrecorded(d) ==
    /\ phase[d] = "grant"
    /\ Turns(d, "link")
    /\ UNCHANGED <<vars, about, onS3, lapsed, trail, removed, got>>

(* The event is committed before the link is answered.                      *)
AnswerLink(d) ==
    /\ phase[d] = "grant"
    /\ Register(about[d], "DOWNLOAD_REQUESTED")
    /\ Turns(d, "link")
    /\ UNCHANGED <<vars, about, onS3, lapsed, removed, got>>

(* Variant: the token is signed before the report is judged.                *)
SignedFirst(d) == phase[d] \in {"new", "grant", "link"}

(* The token is signed before its event is committed, and its time runs.    *)
Signed(d) == phase[d] \in {"grant", "link"}

Lapse(d) ==
    /\ Signed(d)
    /\ d \notin lapsed
    /\ lapsed' = lapsed \cup {d}
    /\ UNCHANGED <<vars, phase, about, onS3, trail, removed, got>>

-----------------------------------------------------------------------------
(* Second phase: the token of link l.  The status is not judged again.      *)

(* storage.exists: a look at the disk, or a call of S3, any error of which  *)
(* counts as absence.                                                       *)
Looked(r) ==
    {file[r] # 0 /\ r \notin removed} \cup (IF onS3 THEN {FALSE} ELSE {})

Redeem(d, l) ==
    /\ Admitted(d)
    /\ l \in Links
    /\ \E present \in Looked(about[d]) :
          Turns(d, IF l \in lapsed THEN "unauthorized"
                   ELSE IF about[l] # about[d] THEN "forbidden"
                   ELSE IF ~present THEN "not_found"
                   ELSE IF onS3 THEN "redirect" ELSE "serve")
    /\ UNCHANGED <<vars, about, onS3, lapsed, trail, removed, got>>

(* Variant: only the request for a link is recorded.                        *)
RecordNothing(d) ==
    /\ phase[d] = "serve"
    /\ Turns(d, "send")
    /\ UNCHANGED <<vars, about, onS3, lapsed, trail, removed, got>>

(* register_download_event, before the response is handed to the server.    *)
RecordCompleted(d) ==
    /\ phase[d] = "serve"
    /\ Register(about[d], "DOWNLOAD_COMPLETED")
    /\ Turns(d, "send")
    /\ UNCHANGED <<vars, about, onS3, lapsed, removed, got>>

Receives(d, answer) ==
    /\ about[d] \notin removed
    /\ got' = [got EXCEPT ![d] = object[about[d]]]
    /\ Turns(d, answer)
    /\ UNCHANGED <<vars, about, onS3, lapsed, trail, removed>>

(* FileResponse opens the path only now, and raises when it is not there.   *)
SendFile(d) ==
    /\ phase[d] = "send"
    /\ Receives(d, "file")

SendFails(d) ==
    /\ phase[d] = "send"
    /\ about[d] \in removed
    /\ Turns(d, "error")
    /\ UNCHANGED <<vars, about, onS3, lapsed, trail, removed, got>>

(* The client follows the redirect while the presigned URL is valid, which  *)
(* has a lifetime of its own.                                               *)
FetchFile(d) ==
    /\ phase[d] = "redirect"
    /\ Receives(d, "fetched")

(* A database error ends the request with 500.  One before the request      *)
(* changes anything is a request that was not sent.                         *)
DownloadDies(d) ==
    /\ "handler" \in Faults
    /\ phase[d] \in {"grant", "serve"}
    /\ Turns(d, "error")
    /\ UNCHANGED <<vars, about, onS3, lapsed, trail, removed, got>>

(* Somebody removes the stored object of a finished report.                 *)
Remove(r) ==
    /\ file[r] # 0
    /\ removed' = removed \cup {r}
    /\ UNCHANGED <<vars, phase, about, onS3, lapsed, trail, got>>

-----------------------------------------------------------------------------

DownloadStep(d) ==
    \/ Rejected(d) \/ GoneToReader(d) \/ AskLink(d) \/ AnswerLink(d) \/ Lapse(d)
    \/ \E l \in Downloads : Redeem(d, l)
    \/ RecordCompleted(d) \/ SendFile(d) \/ SendFails(d) \/ FetchFile(d) \/ DownloadDies(d)

(* An upload puts an object back.                                           *)
PipelineStep ==
    /\ Next
    /\ removed' = {r \in removed : object'[r] = object[r]}
    /\ UNCHANGED <<phase, about, onS3, lapsed, trail, got>>

DownloadNext ==
    \/ \E d \in Downloads : DownloadStep(d)
    \/ \E r \in Reports : Remove(r)
    \/ PipelineStep

DownloadSpec == DownloadInit /\ [][DownloadNext]_allVars

=============================================================================
