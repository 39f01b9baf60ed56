----------------------------- MODULE AttemptChain -----------------------------
(***************************************************************************)
(* What the attempts of a report are when each publication leaves exactly  *)
(* one message: a chain.  One attempt runs at a time; the next is only     *)
(* begun when the one before it ended in RETRY, and not after MaxRetries   *)
(* of these; success, failure and cancellation end the chain, and only     *)
(* success brings a file, that of the last attempt.                        *)
(***************************************************************************)
EXTENDS Parameters

VARIABLES
    tries,      \* how many attempts each report has had
    stage,      \* whether it waits for an attempt, runs one, or is over
    winner      \* the attempt whose file it has, 0 for none

chainVars == <<tries, stage, winner>>

ChainInit ==
    /\ tries = [r \in Reports |-> 0]
    /\ stage = [r \in Reports |-> "waits"]
    /\ winner = [r \in Reports |-> 0]

Begin(r) ==
    /\ stage[r] = "waits"
    /\ tries[r] <= MaxRetries
    /\ tries' = [tries EXCEPT ![r] = @ + 1]
    /\ stage' = [stage EXCEPT ![r] = "runs"]
    /\ UNCHANGED winner

Retry(r) ==
    /\ stage[r] = "runs"
    /\ tries[r] <= MaxRetries
    /\ stage' = [stage EXCEPT ![r] = "waits"]
    /\ UNCHANGED <<tries, winner>>

Finish(r) ==
    /\ stage[r] = "runs"
    /\ stage' = [stage EXCEPT ![r] = "over"]
    /\ winner' \in {winner, [winner EXCEPT ![r] = tries[r]]}
    /\ UNCHANGED tries

ChainNext == \E r \in Reports : Begin(r) \/ Retry(r) \/ Finish(r)

ChainSpec == ChainInit /\ [][ChainNext]_chainVars

=============================================================================
