---------------------------- MODULE AttemptLedger -----------------------------
(***************************************************************************)
(* What the tables promise to a reader of a report's attempts and file,    *)
(* however often its messages are delivered: attempts are opened one after *)
(* another, each ends at most once, and at most one wins, which gives the  *)
(* report its file in the same step.                                       *)
(***************************************************************************)
EXTENDS Parameters

VARIABLES
    opened,     \* how many attempts each report has had
    ended,      \* those of them that have an outcome
    winner      \* the one whose file the report has, 0 for none

ledgerVars == <<opened, ended, winner>>

LedgerInit ==
    /\ opened = [r \in Reports |-> 0]
    /\ ended = [r \in Reports |-> {}]
    /\ winner = [r \in Reports |-> 0]

Open(r) ==
    /\ opened' = [opened EXCEPT ![r] = @ + 1]
    /\ UNCHANGED <<ended, winner>>

End(r, i) ==
    /\ i \in 1..opened[r] \ ended[r]
    /\ ended' = [ended EXCEPT ![r] = @ \cup {i}]
    /\ UNCHANGED opened

Lose(r, i) == End(r, i) /\ UNCHANGED winner

Win(r, i) ==
    /\ winner[r] = 0
    /\ End(r, i)
    /\ winner' = [winner EXCEPT ![r] = i]

LedgerNext ==
    \E r \in Reports :
        \/ Open(r)
        \/ \E i \in 1..opened[r] : Lose(r, i) \/ Win(r, i)

LedgerSpec == LedgerInit /\ [][LedgerNext]_ledgerVars

=============================================================================
