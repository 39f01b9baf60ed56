-------------------------- MODULE MCReportPipeline ---------------------------
(***************************************************************************)
(* ReportPipeline and its properties for TLC.                              *)
(***************************************************************************)
EXTENDS PipelineRefinement, TLC

(* The pool processes are interchangeable, and so are the DELETE requests   *)
(* and the copies of a message.                                             *)
Symmetry == Permutations(Workers) \cup Permutations(Deletes) \cup Permutations(Copies)

(* No action reads the trail of events.  A run whose properties say no more *)
(* of it than its type need not tell apart states that differ in nothing    *)
(* else.                                                                    *)
WithoutTrail ==
    <<row, attempts, file, queueVars, post, workerVars, object, deleteVars, expired>>

=============================================================================
