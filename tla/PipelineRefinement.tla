-------------------------- MODULE PipelineRefinement --------------------------
(***************************************************************************)
(* What the pipeline makes of the tables implements AttemptLedger, and     *)
(* AttemptChain when a publication leaves exactly one message.             *)
(***************************************************************************)
EXTENDS PipelineProperties

HasOutcome(a) == a.status # "STARTED"

Ledger == INSTANCE AttemptLedger WITH
    opened <- [r \in Reports |-> Len(attempts[r])],
    ended  <- [r \in Reports |-> {i \in 1..Len(attempts[r]) : HasOutcome(attempts[r][i])}],
    winner <- file

(* However often a message is delivered, each attempt gets one outcome and  *)
(* the report one file, recorded in the step that ends the attempt that     *)
(* wrote it (task_attempts and report_files).                               *)
ImplementsLedger == Ledger!LedgerSpec

(* The stage of the chain, told from its last attempt.                      *)
StageOf(chain) ==
    IF chain = <<>> \/ chain[Len(chain)].status = "RETRY" THEN "waits"
    ELSE IF chain[Len(chain)].status = "STARTED" THEN "runs"
    ELSE "over"

Chain == INSTANCE AttemptChain WITH
    tries  <- [r \in Reports |-> Len(attempts[r])],
    stage  <- [r \in Reports |-> StageOf(attempts[r])],
    winner <- file

(* With exact publication the attempts of a report run one at a time, each  *)
(* begun because the one before was retried, and at most MaxRetries + 1 of  *)
(* them (_generate_report, autoretry_for).                                  *)
ImplementsChain == Chain!ChainSpec

=============================================================================
