-------------------------- MODULE MCReportDownload ---------------------------
(***************************************************************************)
(* ReportDownload and its properties for TLC.                              *)
(***************************************************************************)
EXTENDS DownloadProperties, TLC

(* The requests of readers are interchangeable.                             *)
Symmetry == Permutations(Downloads \ Outsiders)

(* No action reads the trail of events of the pipeline, nor do the          *)
(* properties of downloads.                                                 *)
WithoutEvents ==
    <<row, attempts, file, queueVars, post, workerVars, object, deleteVars, expired,
      downloadVars>>

=============================================================================
