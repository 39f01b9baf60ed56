-------------------------- MODULE DownloadProperties --------------------------
(***************************************************************************)
(* What the download of a report promises.                                 *)
(***************************************************************************)
EXTENDS ReportDownload

Registrations(r, event) == {i \in DOMAIN trail[r] : trail[r][i] = event}
In(r, phases) == {d \in Downloads : about[d] = r /\ phase[d] \in phases}

(* Whatever became of the report since its link was answered (canceled by a *)
(* stale DELETE request, expired, written by a late task), the file a       *)
(* client receives is whole, the one the tables describe, and that of the   *)
(* attempt that succeeded.  Second phase of download_report.                *)
DeliveredIsTheSuccess ==
    \A d \in Downloads : got[d] # 0 \/ phase[d] \in {"file", "fetched"} =>
        /\ got[d] \in DOMAIN attempts[about[d]]
        /\ got[d] = file[about[d]]
        /\ attempts[about[d]][got[d]].status = "SUCCESS"

(* A completed download was requested before: nobody reaches the second     *)
(* phase without a link that the trail knows of (register_download_event).  *)
CompletedFollowsRequest ==
    \A r \in Reports : \A i \in Registrations(r, "DOWNLOAD_COMPLETED") :
        \E j \in Registrations(r, "DOWNLOAD_REQUESTED") : j < i

(* Local storage "registra la descarga completada" (README): every file     *)
(* delivered has a DOWNLOAD_COMPLETED of its own, and there are no more of  *)
(* them than requests that deliver or failed to.                            *)
DeliveriesAreRecorded ==
    \A r \in Reports :
        LET recorded == Cardinality(Registrations(r, "DOWNLOAD_COMPLETED")) IN
        /\ Cardinality(In(r, {"file"})) <= recorded
        /\ recorded <= Cardinality(In(r, {"send", "file", "error"}))

(* "Validacion de acceso previa a reglas de expiracion" (README): the       *)
(* request of somebody who may not see the report leaves no trace of it, in *)
(* the tables or in the answer.                                             *)
OutsiderLeavesNoTrace ==
    [][\A d \in Outsiders : phase'[d] # phase[d] =>
          /\ phase'[d] \in {"not_found", "forbidden"}
          /\ UNCHANGED <<storeVars, trail>>]_allVars

(* A link is only given for a file that is there: its holder is told that   *)
(* the file is missing only if somebody removed the object, or S3 fails.    *)
MissingOnlyIfRemoved ==
    [][\A d \in Downloads : phase[d] = "new" /\ phase'[d] = "not_found" =>
          \/ ~Exists(about[d])
          \/ about[d] \in removed
          \/ onS3]_allVars

=============================================================================
