--------------------------- MODULE MCEagerPipeline ----------------------------
(***************************************************************************)
(* EagerPipeline and its properties, with the abstract ledger, for TLC.    *)
(***************************************************************************)
EXTENDS EagerPipeline, PipelineRefinement, TLC

=============================================================================
