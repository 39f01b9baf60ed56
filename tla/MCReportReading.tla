--------------------------- MODULE MCReportReading ----------------------------
(***************************************************************************)
(* ReportReading and its properties for TLC.                               *)
(***************************************************************************)
EXTENDS ReportReading, TLC

(* What a reader was answered does not change, and the pipeline goes on as  *)
(* it does beside one that has asked nothing.                               *)
Unanswered == \A g \in Readers : reader[g] \in {"new", "load"}

=============================================================================
