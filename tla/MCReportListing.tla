--------------------------- MODULE MCReportListing ----------------------------
(***************************************************************************)
(* ReportListing and its properties for TLC.                               *)
(***************************************************************************)
EXTENDS ReportListing, TLC

(* The selected reports are interchangeable.                                *)
Symmetry == Permutations(Mine)

(* Nothing is asked of a walk once it is over.                              *)
Walking == step # "done"

(* The client does not see, and no property speaks of, the trail.           *)
WithoutTrail == <<row, clock, created, expired, walkVars, historyVars>>

=============================================================================
