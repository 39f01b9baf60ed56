----------------------------- MODULE Parameters ------------------------------
(***************************************************************************)
(* What the tables and the task channel have in common.                    *)
(***************************************************************************)
EXTENDS Naturals

CONSTANTS
    Reports,        \* the report ids; the task id of a report is its id
    MaxRetries      \* MAX_STORAGE_RETRIES, 3 in the code

ASSUME RetriesAssumption == MaxRetries \in Nat

=============================================================================
