---------------------------- MODULE AttemptProofs -----------------------------
(***************************************************************************)
(* The attempts of a report implement the abstract ledger, and, when each  *)
(* publication leaves exactly one message, the abstract chain: for every   *)
(* value of the constants.                                                 *)
(***************************************************************************)
EXTENDS OutcomeProofs, PipelineRefinement

-----------------------------------------------------------------------------
(* What a step does to the attempts                                         *)

(* The task closes its attempt with an outcome, RETRY at "retry" only, and  *)
(* records the file with SUCCESS only.                                      *)
Closes(w, status) ==
    /\ pc[w] \in Attempting
    /\ status \in AttemptStatuses \ {"STARTED"}
    /\ CloseAttempt(msg[w].report, attempt[w], status)
    /\ status = "RETRY" <=> pc[w] = "retry"
    /\ \/ status # "SUCCESS" /\ file' = file
       \/ /\ status = "SUCCESS"
          /\ file[msg[w].report] = 0
          /\ file' = [file EXCEPT ![msg[w].report] = attempt[w]]

(* The commits that end an attempt close it.                                *)
LEMMA EndsClose ==
    ASSUME NEW w \in Workers,
           RecordRetryAttempt(w) \/ RecordFailure(w) \/ RecordCanceled(w) \/ RecordSuccess(w)
    PROVE  \E status \in AttemptStatuses : Closes(w, status)
<1> USE DEF Closes, Attempting, AttemptStatuses, Statuses, Unfinished, Final
<1>1. CASE RecordRetryAttempt(w)
    <2>1. Closes(w, "RETRY")
        BY <1>1 DEF RecordRetryAttempt
    <2>2. QED
        BY <2>1
<1>2. CASE RecordFailure(w)
    <2>1. Closes(w, "FAILURE")
        BY <1>2 DEF RecordFailure
    <2>2. QED
        BY <2>1
<1>3. CASE RecordCanceled(w)
    <2>1. Closes(w, "CANCELED")
        BY <1>3 DEF RecordCanceled
    <2>2. QED
        BY <2>1
<1>4. CASE RecordSuccess(w)
    <2>1. Closes(w, "SUCCESS")
        BY <1>4 DEF RecordSuccess, FileRowAccepted
    <2>2. QED
        BY <2>1
<1>5. QED
    BY <1>1, <1>2, <1>3, <1>4

(* A task opens an attempt, closes its own, or leaves them all alone.       *)
LEMMA TaskOnAttempts ==
    ASSUME TypeInv, NEW w \in Workers, TaskStep(w)
    PROVE  \/ UNCHANGED <<attempts, file>>
           \/ RecordStarted(w)
           \/ \E status \in AttemptStatuses : Closes(w, status)
<1>1. CASE TaskLoads(w) \/ LoadFails(w) \/ RecordRetry(w) \/ CountAttempts(w) \/ Upload(w)
           \/ UploadFails(w) \/ GenerationFails(w) \/ Republish(w) \/ RepublishFails(w)
           \/ Refresh(w) \/ RecordSuccessFails(w) \/ TaskDies(w)
    BY <1>1
    DEF TaskLoads, LoadFails, RecordRetry, CountAttempts, Upload, UploadFails,
        GenerationFails, Republish, RepublishFails, Refresh, RecordSuccessFails, TaskDies,
        storeVars
<1>2. QED
    BY <1>1, EndsClose DEF TaskStep

(* Only tasks change the attempts and the files.                            *)
LEMMA StepOnAttempts ==
    ASSUME TypeInv, [Next]_vars
    PROVE  \/ UNCHANGED <<attempts, file>>
           \/ \E w \in Workers :
                 RecordStarted(w) \/ \E status \in AttemptStatuses : Closes(w, status)
<1>1. ASSUME NEW r \in Reports, PostStep(r) \/ Expire(r) \/ GetReport(r)
      PROVE  UNCHANGED <<attempts, file>>
    BY <1>1
    DEF PostStep, CreateReport, Publish, PublishFails, MarkEnqueued, MarkEnqueueFailure,
        PostDies, Expire, GetReport, storeVars
<1>2. ASSUME NEW d \in Deletes, DeleteStep(d) PROVE UNCHANGED <<attempts, file>>
    BY <1>2
    DEF DeleteStep, CancelGone, CancelRefused, CancelLoads, CancelRevokes, CancelCommits,
        CancelDies, storeVars
<1>3. ASSUME NodeStep PROVE UNCHANGED <<attempts, file>>
    BY <1>3 DEF NodeStep, NodeReceives, NodeDiscards, TaskStarts, NodeRevokes, NodeRestarts,
                storeVars
<1>4. UNCHANGED vars => UNCHANGED <<attempts, file>>
    BY DEF vars, storeVars
<1>5. QED
    BY <1>1, <1>2, <1>3, <1>4, TaskOnAttempts DEF Next

(* A recorded file stays.                                                   *)
LEMMA FileStays ==
    ASSUME TypeInv, [Next]_vars
    PROVE  \A r \in Reports : file[r] # 0 => file'[r] = file[r]
<1>1. ASSUME NEW w \in Workers, NEW status \in AttemptStatuses, Closes(w, status)
      PROVE  \A r \in Reports : file[r] # 0 => file'[r] = file[r]
    BY <1>1 DEF Closes, TypeInv, TypeOK, StoreTypeOK
<1>2. ASSUME NEW w \in Workers, RecordStarted(w) PROVE file' = file
    BY <1>2 DEF RecordStarted
<1>3. QED
    BY <1>1, <1>2, StepOnAttempts

(* Only the report the step is about has other attempts after it.           *)
OthersKept(r) == \A q \in Reports : q # r => attempts'[q] = attempts[q]

(* A new attempt of r, which process w works on, is the last one.           *)
OpenedOnto(w, r) ==
    /\ r \in Reports /\ OthersKept(r)
    /\ Len(attempts[r]) \in Nat /\ Len(attempts'[r]) = Len(attempts[r]) + 1
    /\ \A i \in 1..Len(attempts[r]) : attempts'[r][i] = attempts[r][i]
    /\ attempts'[r][Len(attempts[r]) + 1] = [no |-> count[w], status |-> "STARTED"]
    /\ attempt'[w] = Len(attempts[r]) + 1
    /\ file' = file

LEMMA OpenedAttempt ==
    ASSUME TypeInv, NEW w \in Workers, RecordStarted(w)
    PROVE  OpenedOnto(w, msg[w].report)
<1> DEFINE r == msg[w].report
<1> DEFINE new == [no |-> count[w], status |-> "STARTED"]
<1>1. r \in Reports /\ count[w] \in Nat
    BY DEF RecordStarted, Message, TypeInv, TypeOK
<1>2. attempts \in [Reports -> Seq(Attempt)] /\ attempt \in [Workers -> Nat]
    BY DEF TypeInv, TypeOK, StoreTypeOK
<1>3. new \in Attempt
    BY <1>1 DEF Attempt, AttemptStatuses, Statuses, Unfinished, Final
<1>4. attempts'[r] = Append(attempts[r], new) /\ OthersKept(r)
    BY <1>1, <1>2 DEF RecordStarted, InsertAttempt, OthersKept
<1>5. attempt'[w] = Len(attempts[r]) + 1 /\ file' = file
    BY <1>2 DEF RecordStarted
<1>6. /\ Len(attempts[r]) \in Nat /\ Len(attempts'[r]) = Len(attempts[r]) + 1
      /\ \A i \in 1..Len(attempts[r]) : attempts'[r][i] = attempts[r][i]
      /\ attempts'[r][Len(attempts[r]) + 1] = new
    BY <1>1, <1>2, <1>3, <1>4, AppendProperties, LenProperties
<1>7. QED
    BY <1>1, <1>4, <1>5, <1>6 DEF OpenedOnto

(* An attempt that is closed was open, and the others stay as they are.     *)
LEMMA ClosedAttempt ==
    ASSUME TypeInv, LedgerInv, NEW w \in Workers, NEW status \in AttemptStatuses,
           Closes(w, status), NEW r, r = msg[w].report, NEW i, i = attempt[w]
    PROVE  /\ r \in Reports /\ OthersKept(r)
           /\ Len(attempts[r]) \in Nat /\ Len(attempts'[r]) = Len(attempts[r])
           /\ i \in 1..Len(attempts[r]) /\ attempts[r][i].status = "STARTED"
           /\ \A k \in 1..Len(attempts[r]) : k # i => attempts'[r][k] = attempts[r][k]
           /\ attempts'[r][i].status = status /\ attempts'[r][i].no = attempts[r][i].no
           /\ \A q \in Reports : q # r => file'[q] = file[q]
           /\ \/ status # "SUCCESS" /\ file' = file
              \/ status = "SUCCESS" /\ file[r] = 0 /\ file'[r] = i
<1>1. r \in Reports
    BY DEF Closes, Message, Attempting, TypeInv, TypeOK
<1>2. attempts \in [Reports -> Seq(Attempt)] /\ file \in [Reports -> Nat]
    BY DEF TypeInv, TypeOK, StoreTypeOK
<1>3. i \in 1..Len(attempts[r]) /\ attempts[r][i].status = "STARTED"
    BY DEF Closes, LedgerInv, OwnAttempt
<1>4. /\ attempts'[r] = [attempts[r] EXCEPT ![i].status = status]
      /\ OthersKept(r)
    BY <1>1, <1>2 DEF Closes, CloseAttempt, OthersKept
<1>5. /\ attempts[r] \in Seq(Attempt) /\ attempts'[r] \in Seq(Attempt)
      /\ DOMAIN attempts'[r] = DOMAIN attempts[r]
    <2>1. i \in Nat /\ StoreTypeOK /\ CloseAttempt(r, i, status)
        BY DEF Closes, TypeInv, TypeOK
    <2>2. attempts' \in [Reports -> Seq(Attempt)]
        BY <1>1, <2>1, CloseAttemptType
    <2>3. QED
        BY <1>1, <1>2, <1>4, <2>2
<1>6. Len(attempts[r]) \in Nat /\ Len(attempts'[r]) = Len(attempts[r])
      /\ DOMAIN attempts[r] = 1..Len(attempts[r])
    BY <1>5, LenProperties
<1>7. attempts[r][i] \in Attempt
    BY <1>3, <1>5, ElementOfSeq
<1>8. attempts'[r][i].status = status /\ attempts'[r][i].no = attempts[r][i].no
    BY <1>3, <1>4, <1>6, <1>7 DEF Attempt
<1>9. \A k \in 1..Len(attempts[r]) : k # i => attempts'[r][k] = attempts[r][k]
    BY <1>4, <1>6
<1>10. /\ \A q \in Reports : q # r => file'[q] = file[q]
       /\ \/ status # "SUCCESS" /\ file' = file
          \/ status = "SUCCESS" /\ file[r] = 0 /\ file'[r] = i
    BY <1>1, <1>2 DEF Closes
<1>11. QED
    BY <1>1, <1>3, <1>4, <1>6, <1>8, <1>9, <1>10

-----------------------------------------------------------------------------
(* The ledger                                                               *)

(* The counts and the sets of ended attempts a mapped step compares.        *)
Counts == [r \in Reports |-> Len(attempts[r])]
Ended(r) == {i \in 1..Len(attempts[r]) : HasOutcome(attempts[r][i])}
EndedSets == [r \in Reports |-> Ended(r)]

(* What the step does to the mapped variables: an opening...                *)
LEMMA OpeningMapped ==
    ASSUME TypeInv, NEW w \in Workers, RecordStarted(w), NEW r, r = msg[w].report
    PROVE  /\ r \in Reports
           /\ Counts' = [Counts EXCEPT ![r] = @ + 1]
           /\ EndedSets' = EndedSets
<1>0. OpenedOnto(w, r)
    BY OpenedAttempt
<1>1. /\ r \in Reports /\ OthersKept(r)
      /\ Len(attempts[r]) \in Nat /\ Len(attempts'[r]) = Len(attempts[r]) + 1
      /\ \A i \in 1..Len(attempts[r]) : attempts'[r][i] = attempts[r][i]
      /\ attempts'[r][Len(attempts[r]) + 1] = [no |-> count[w], status |-> "STARTED"]
    BY <1>0 DEF OpenedOnto
<1>2. Counts' = [Counts EXCEPT ![r] = @ + 1]
    BY <1>1 DEF Counts, OthersKept
<1>3. Ended(r)' = Ended(r)
    <2>1. ~HasOutcome(attempts'[r][Len(attempts[r]) + 1])
        BY <1>1 DEF HasOutcome
    <2>2. 1..Len(attempts'[r]) = 1..Len(attempts[r]) \cup {Len(attempts[r]) + 1}
        BY <1>1
    <2>3. QED
        BY <1>1, <2>1, <2>2 DEF Ended
<1>4. \A q \in Reports : q # r => Ended(q)' = Ended(q)
    BY <1>1 DEF Ended, OthersKept
<1>5. EndedSets' = EndedSets
    BY <1>3, <1>4 DEF EndedSets
<1>6. QED
    BY <1>1, <1>2, <1>5

(* ... and an end.                                                          *)
LEMMA EndMapped ==
    ASSUME TypeInv, LedgerInv, NEW w \in Workers, NEW status \in AttemptStatuses,
           Closes(w, status), NEW r, r = msg[w].report, NEW i, i = attempt[w]
    PROVE  /\ r \in Reports /\ i \in 1..Counts[r] \ Ended(r)
           /\ Counts' = Counts
           /\ EndedSets' = [EndedSets EXCEPT ![r] = @ \cup {i}]
<1>1. /\ r \in Reports /\ OthersKept(r)
      /\ Len(attempts'[r]) = Len(attempts[r])
      /\ i \in 1..Len(attempts[r]) /\ ~HasOutcome(attempts[r][i])
      /\ \A k \in 1..Len(attempts[r]) : k # i => attempts'[r][k] = attempts[r][k]
      /\ HasOutcome(attempts'[r][i])
    BY ClosedAttempt DEF HasOutcome, Closes
<1>2. Counts' = Counts
    BY <1>1 DEF Counts, OthersKept
<1>3. i \in 1..Counts[r] \ Ended(r)
    BY <1>1 DEF Counts, Ended
<1>4. Ended(r)' = Ended(r) \cup {i}
    BY <1>1 DEF Ended
<1>5. \A q \in Reports : q # r => Ended(q)' = Ended(q)
    BY <1>1 DEF Ended, OthersKept
<1>6. EndedSets' = [EndedSets EXCEPT ![r] = @ \cup {i}]
    BY <1>1, <1>4, <1>5 DEF EndedSets
<1>7. QED
    BY <1>1, <1>2, <1>3, <1>6

(* Initially no report has an attempt.                                      *)
LEMMA LedgerStarts == Init => Ledger!LedgerInit
<1> SUFFICES ASSUME Init PROVE Ledger!LedgerInit
    OBVIOUS
<1>1. attempts = [r \in Reports |-> <<>>] /\ file = [r \in Reports |-> 0]
    BY DEF Init, StoreInit
<1>2. Counts = [r \in Reports |-> 0]
    BY <1>1 DEF Counts
<1>3. \A r \in Reports : Ended(r) = {}
    <2>1. \A r \in Reports : Len(attempts[r]) = 0
        BY <1>1
    <2>2. 1..0 = {}
        OBVIOUS
    <2>3. QED
        BY <2>1, <2>2, Zenon DEF Ended
<1>4. EndedSets = [r \in Reports |-> {}]
    BY <1>3 DEF EndedSets
<1>5. QED
    BY <1>1, <1>2, <1>4 DEF Ledger!LedgerInit, Counts, EndedSets, Ended

(* What a task does to the attempts is a step of the ledger.                *)
LEMMA LedgerMoves ==
    ASSUME TypeInv, LedgerInv,
           \/ UNCHANGED <<attempts, file>>
           \/ \E w \in Workers :
                 RecordStarted(w) \/ \E status \in AttemptStatuses : Closes(w, status)
    PROVE  [Ledger!LedgerNext]_(Ledger!ledgerVars)
<1>1. CASE UNCHANGED <<attempts, file>>
    BY <1>1 DEF Ledger!ledgerVars
<1>2. ASSUME NEW w \in Workers, RecordStarted(w) PROVE Ledger!LedgerNext
    <2>1. PICK r : r = msg[w].report
        OBVIOUS
    <2>2. r \in Reports /\ Counts' = [Counts EXCEPT ![r] = @ + 1] /\ EndedSets' = EndedSets
        BY <1>2, <2>1, OpeningMapped
    <2>3. file' = file
        BY <1>2, <2>1, OpenedAttempt DEF OpenedOnto
    <2>4. Ledger!Open(r)
        BY <2>2, <2>3 DEF Ledger!Open, Counts, EndedSets, Ended
    <2>5. QED
        BY <2>2, <2>4 DEF Ledger!LedgerNext
<1>3. ASSUME NEW w \in Workers, NEW status \in AttemptStatuses, Closes(w, status)
      PROVE  Ledger!LedgerNext
    <2>1. PICK r, i : r = msg[w].report /\ i = attempt[w]
        OBVIOUS
    <2>2. /\ r \in Reports /\ i \in 1..Counts[r] \ Ended(r)
          /\ Counts' = Counts
          /\ EndedSets' = [EndedSets EXCEPT ![r] = @ \cup {i}]
        BY <1>3, <2>1, EndMapped
    <2>3. i \in 1..Counts[r] \ EndedSets[r]
        BY <2>2 DEF EndedSets
    <2>4. Ledger!End(r, i)
        BY <2>2, <2>3 DEF Ledger!End, Counts, EndedSets, Ended
    <2>5. Ledger!Lose(r, i) \/ Ledger!Win(r, i)
        BY <1>3, <2>1, <2>4 DEF Closes, Ledger!Lose, Ledger!Win
    <2>6. i \in 1..Counts[r]
        BY <2>2
    <2>7. QED
        BY <2>2, <2>5, <2>6 DEF Ledger!LedgerNext, Counts
<1>4. QED
    BY <1>1, <1>2, <1>3

(* So every step of the pipeline is a step of the ledger or none.           *)
LEMMA LedgerSteps ==
    ASSUME TypeInv, LedgerInv, [Next]_vars
    PROVE  [Ledger!LedgerNext]_(Ledger!ledgerVars)
BY StepOnAttempts, LedgerMoves

(* Whatever fails, however often a message is delivered and however many    *)
(* processes execute it, attempts and files are a ledger: an attempt gets   *)
(* one outcome and a report one file, with the outcome of its attempt.      *)
THEOREM PipelineImplementsLedger == Spec => ImplementsLedger
BY LedgerStarts, LedgerSteps, TypeInvariance, LedgerInvariance, PTL
DEF Spec, ImplementsLedger, Ledger!LedgerSpec

-----------------------------------------------------------------------------
(* Exact publication                                                        *)

(* A publication leaves one message: no two copies have a name.             *)
ExactPublication == \A c, e \in Copies : c = e

(* Then a report has at most one message or execution.                      *)
OneAtATime ==
    /\ \A m, n \in Pending : m.report = n.report => m = n
    /\ \A w \in Workers, m \in Pending : Busy(w) => msg[w].report # m.report
    /\ \A v, w \in Workers : Busy(v) /\ Busy(w) /\ msg[v].report = msg[w].report => v = w

LEMMA ExactIsOneAtATime ==
    ASSUME ExactPublication, TypeInv, HolderInv
    PROVE  OneAtATime
<1>1. \A m \in Pending : m \in Message
    BY DEF TypeInv, TypeOK, QueueTypeOK, Pending
<1>2. \A w \in Workers : Busy(w) => msg[w] \in Message
    BY DEF TypeInv, TypeOK, Busy
<1>3. \A m, n \in Message : m.report = n.report => SameTask(m, n)
    BY DEF ExactPublication, Message, SameTask
<1>4. QED
    BY <1>1, <1>2, <1>3 DEF HolderInv, OneHolder, OneAtATime

-----------------------------------------------------------------------------
(* The chain of attempts                                                    *)

(* The report has had k attempts, and each was retried.                     *)
Retried(r, k) ==
    /\ Len(attempts[r]) = k
    /\ \A i \in 1..k : attempts[r][i].status = "RETRY"

(* The steps at which a task has not opened its attempt yet.                *)
Starting == {"load", "note", "count", "start"}

(* A message, or the task that executes it, finds the attempts of its       *)
(* predecessors, all retried; ...                                           *)
WaitingRetried ==
    /\ \A m \in Pending : Retried(m.report, m.retries)
    /\ \A w \in Workers : pc[w] \in Starting => Retried(msg[w].report, msg[w].retries)
    /\ \A w \in Workers : pc[w] = "republish" => Retried(msg[w].report, msg[w].retries + 1)

(* ... the number it counts is the next; ...                                *)
CountIsNext ==
    \A w \in Workers : pc[w] = "start" => count[w] = msg[w].retries + 1

(* ... and the attempt it opens is the last.                                *)
RunningIsLast ==
    \A w \in Workers : pc[w] \in Attempting =>
        /\ Len(attempts[msg[w].report]) = msg[w].retries + 1
        /\ attempt[w] = msg[w].retries + 1

(* An attempt with a successor was retried.                                 *)
OnlyLastDiffers ==
    \A r \in Reports : \A i \in 1..Len(attempts[r]) :
        i < Len(attempts[r]) => attempts[r][i].status = "RETRY"

UnpublishedIsUntried ==
    \A r \in Reports : post[r] \in {"new", "created"} => Len(attempts[r]) = 0

Numbered ==
    \A r \in Reports : \A i \in 1..Len(attempts[r]) : attempts[r][i].no = i

ChainInv ==
    /\ WaitingRetried
    /\ CountIsNext
    /\ RunningIsLast
    /\ OnlyLastDiffers
    /\ UnpublishedIsUntried
    /\ Numbered

(* A step that changes no attempt, publishes only messages that find their  *)
(* predecessors retried, and moves tasks within their part of the work,     *)
(* ends them, or starts or counts them as it should.                        *)
ChainFrame ==
    /\ attempts' = attempts
    /\ \A m \in Pending' : m \in Pending \/ Retried(m.report, m.retries)
    /\ \A r \in Reports : post'[r] \in {"new", "created"} => post[r] \in {"new", "created"}
    /\ \A w \in Workers :
          \/ pc'[w] = "idle"
          \/ pc'[w] = pc[w] /\ msg'[w] = msg[w] /\ count'[w] = count[w] /\ attempt'[w] = attempt[w]
          \/ pc'[w] = "load" /\ msg'[w] \in Pending
          \/ pc'[w] \in Starting \ {"start"} /\ pc[w] \in Starting /\ msg'[w] = msg[w]
          \/ /\ pc'[w] = "start" /\ pc[w] = "count" /\ msg'[w] = msg[w]
             /\ count'[w] = msg[w].retries + 1
          \/ /\ pc'[w] \in Attempting /\ pc[w] \in Attempting
             /\ msg'[w] = msg[w] /\ attempt'[w] = attempt[w]

LEMMA ChainFramed ==
    ASSUME ChainInv, ChainFrame
    PROVE  ChainInv'
<1> USE DEF ChainInv, ChainFrame
<1>1. WaitingRetried'
    <2>1. \A m \in Pending' : Retried(m.report, m.retries)'
        BY DEF WaitingRetried, Retried
    <2>2. ASSUME NEW w \in Workers, pc'[w] \in Starting
          PROVE  Retried(msg[w].report, msg[w].retries)'
        <3>1. CASE pc'[w] = "load" /\ msg'[w] \in Pending
            BY <3>1 DEF WaitingRetried, Retried
        <3>2. CASE pc[w] \in Starting /\ msg'[w] = msg[w]
            BY <3>2 DEF WaitingRetried, Retried
        <3>3. QED
            BY <2>2, <3>1, <3>2 DEF Starting, Attempting
    <2>3. ASSUME NEW w \in Workers, pc'[w] = "republish"
          PROVE  Retried(msg[w].report, msg[w].retries + 1)'
        <3>1. pc[w] = "republish" /\ msg'[w] = msg[w]
            BY <2>3 DEF Starting, Attempting
        <3>2. QED
            BY <3>1 DEF WaitingRetried, Retried
    <2>4. QED
        BY <2>1, <2>2, <2>3 DEF WaitingRetried
<1>2. CountIsNext'
    BY DEF CountIsNext, Starting, Attempting
<1>3. RunningIsLast'
    BY DEF RunningIsLast, Starting, Attempting
<1>4. OnlyLastDiffers' /\ UnpublishedIsUntried' /\ Numbered'
    BY DEF OnlyLastDiffers, UnpublishedIsUntried, Numbered
<1>5. QED
    BY <1>1, <1>2, <1>3, <1>4

(* What is said of other reports is not disturbed.                          *)
LEMMA RetriedKept ==
    ASSUME NEW r, OthersKept(r)
    PROVE  \A q \in Reports, k \in Nat : q # r /\ Retried(q, k) => Retried(q, k)'
BY DEF OthersKept, Retried

(* Messages and busy tasks are about reports.                               *)
LEMMA HoldersAreTyped ==
    ASSUME TypeInv
    PROVE  /\ \A m \in Pending : m.report \in Reports /\ m.retries \in 0..MaxRetries
           /\ \A w \in Workers : Busy(w) =>
                  msg[w].report \in Reports /\ msg[w].retries \in 0..MaxRetries
BY DEF TypeInv, TypeOK, QueueTypeOK, Pending, Busy, Message

(* A step of task w that changes the attempts of its report, and w's place, *)
(* but no message and no other task, leaves all that is about others.       *)
LEMMA ChainOfOthers ==
    ASSUME TypeInv, OneAtATime, ChainInv, NEW w \in Workers, Busy(w),
           NEW r, r = msg[w].report, OthersKept(r), UNCHANGED <<queue, reserved, post>>,
           \A v \in Workers : v # w => pc'[v] = pc[v] /\ msg'[v] = msg[v]
                                        /\ count'[v] = count[v] /\ attempt'[v] = attempt[v]
    PROVE  /\ \A m \in Pending' : Retried(m.report, m.retries)'
           /\ \A v \in Workers : v # w =>
                 /\ pc'[v] \in Starting => Retried(msg[v].report, msg[v].retries)'
                 /\ pc'[v] = "republish" => Retried(msg[v].report, msg[v].retries + 1)'
                 /\ pc'[v] = "start" => count'[v] = msg'[v].retries + 1
                 /\ pc'[v] \in Attempting =>
                       /\ Len(attempts'[msg'[v].report]) = msg'[v].retries + 1
                       /\ attempt'[v] = msg'[v].retries + 1
           /\ \A q \in Reports : q # r =>
                 /\ \A i \in 1..Len(attempts'[q]) :
                       /\ i < Len(attempts'[q]) => attempts'[q][i].status = "RETRY"
                       /\ attempts'[q][i].no = i
                 /\ post'[q] \in {"new", "created"} => Len(attempts'[q]) = 0
<1>1. Pending' = Pending
    BY DEF Pending
<1>2. \A m \in Pending : m.report # r /\ m.report \in Reports /\ m.retries \in Nat
    BY HoldersAreTyped, RetriesAssumption DEF OneAtATime
<1>3. ASSUME NEW v \in Workers, v # w, pc[v] # "idle"
      PROVE  /\ msg[v].report # r /\ msg[v].report \in Reports
             /\ msg[v].retries \in Nat /\ msg[v].retries + 1 \in Nat
    BY <1>3, HoldersAreTyped, RetriesAssumption DEF OneAtATime, Busy
<1>4. \A m \in Pending' : Retried(m.report, m.retries)'
    BY <1>1, <1>2, RetriedKept DEF ChainInv, WaitingRetried
<1>5. ASSUME NEW v \in Workers, v # w
      PROVE  /\ pc'[v] \in Starting => Retried(msg[v].report, msg[v].retries)'
             /\ pc'[v] = "republish" => Retried(msg[v].report, msg[v].retries + 1)'
             /\ pc'[v] = "start" => count'[v] = msg'[v].retries + 1
    <2>1. pc'[v] \in Starting => Retried(msg[v].report, msg[v].retries)'
        BY <1>3, <1>5, RetriedKept DEF ChainInv, WaitingRetried, Starting
    <2>2. pc'[v] = "republish" => Retried(msg[v].report, msg[v].retries + 1)'
        BY <1>3, <1>5, RetriedKept DEF ChainInv, WaitingRetried
    <2>3. pc'[v] = "start" => count'[v] = msg'[v].retries + 1
        BY <1>5 DEF ChainInv, CountIsNext
    <2>4. QED
        BY <2>1, <2>2, <2>3
<1>6. ASSUME NEW v \in Workers, v # w, pc'[v] \in Attempting
      PROVE  /\ Len(attempts'[msg'[v].report]) = msg'[v].retries + 1
             /\ attempt'[v] = msg'[v].retries + 1
    BY <1>3, <1>6 DEF ChainInv, RunningIsLast, Attempting, OthersKept
<1>7. \A q \in Reports : q # r =>
         /\ \A i \in 1..Len(attempts'[q]) :
               /\ i < Len(attempts'[q]) => attempts'[q][i].status = "RETRY"
               /\ attempts'[q][i].no = i
         /\ post'[q] \in {"new", "created"} => Len(attempts'[q]) = 0
    BY DEF ChainInv, OnlyLastDiffers, UnpublishedIsUntried, Numbered, OthersKept
<1>8. QED
    BY <1>4, <1>5, <1>6, <1>7

(* A task at work has a published report.                                   *)
LEMMA BusyIsPublished ==
    ASSUME TypeInv, HolderInv, NEW w \in Workers, Busy(w)
    PROVE  post[msg[w].report] \notin {"new", "created"}
BY HoldersAreTyped DEF HolderInv, UnpublishedIsIdle

(* The attempt that is opened is the next of the chain.                     *)
LEMMA ChainOpens ==
    ASSUME TypeInv, HolderInv, OneAtATime, ChainInv, NEW w \in Workers, RecordStarted(w)
    PROVE  ChainInv'
<1>1. PICK r, k : r = msg[w].report /\ k = msg[w].retries
    OBVIOUS
<1>2. /\ pc[w] = "start" /\ pc'[w] = "build" /\ msg'[w] = msg[w]
      /\ \A v \in Workers : v # w => pc'[v] = pc[v] /\ msg'[v] = msg[v]
                                      /\ count'[v] = count[v] /\ attempt'[v] = attempt[v]
      /\ UNCHANGED <<queue, reserved, post>>
    BY DEF RecordStarted, GoTo, queueVars, TypeInv, TypeOK
<1>3. Busy(w) /\ r \in Reports /\ k \in Nat /\ count[w] = k + 1 /\ Retried(r, k)
    BY <1>1, <1>2, HoldersAreTyped, RetriesAssumption
    DEF Busy, ChainInv, CountIsNext, WaitingRetried, Starting
<1>4. /\ OthersKept(r)
      /\ Len(attempts'[r]) = k + 1
      /\ \A i \in 1..k : attempts'[r][i] = attempts[r][i]
      /\ attempts'[r][k + 1] = [no |-> k + 1, status |-> "STARTED"]
      /\ attempt'[w] = k + 1
    <2>1. Len(attempts[r]) = k /\ count[w] = k + 1
        BY <1>3 DEF Retried
    <2>2. OpenedOnto(w, r)
        BY <1>1, OpenedAttempt
    <2>3. /\ OthersKept(r)
          /\ Len(attempts'[r]) = Len(attempts[r]) + 1
          /\ \A i \in 1..Len(attempts[r]) : attempts'[r][i] = attempts[r][i]
          /\ attempts'[r][Len(attempts[r]) + 1] = [no |-> count[w], status |-> "STARTED"]
          /\ attempt'[w] = Len(attempts[r]) + 1
        BY <2>2 DEF OpenedOnto
    <2>4. QED
        BY <2>1, <2>3
<1>5. \A i \in 1..k : attempts[r][i].status = "RETRY" /\ attempts[r][i].no = i
    BY <1>3 DEF Retried, ChainInv, Numbered
<1>6. \A i \in 1..(k + 1) :
         (i < k + 1 => attempts'[r][i].status = "RETRY") /\ attempts'[r][i].no = i
    <2>1. \A i \in 1..(k + 1) : i \in 1..k \/ i = k + 1
        BY <1>3
    <2>2. \A i \in 1..k : attempts'[r][i].status = "RETRY" /\ attempts'[r][i].no = i
        BY <1>4, <1>5
    <2>3. attempts'[r][k + 1].no = k + 1
        BY <1>4
    <2>4. QED
        BY <1>3, <2>1, <2>2, <2>3
<1>7. post'[r] \notin {"new", "created"}
    BY <1>1, <1>2, <1>3, BusyIsPublished
<1>8. /\ \A m \in Pending' : Retried(m.report, m.retries)'
      /\ \A v \in Workers : v # w =>
            /\ pc'[v] \in Starting => Retried(msg[v].report, msg[v].retries)'
            /\ pc'[v] = "republish" => Retried(msg[v].report, msg[v].retries + 1)'
            /\ pc'[v] = "start" => count'[v] = msg'[v].retries + 1
            /\ pc'[v] \in Attempting =>
                  /\ Len(attempts'[msg'[v].report]) = msg'[v].retries + 1
                  /\ attempt'[v] = msg'[v].retries + 1
    BY <1>1, <1>2, <1>3, <1>4, ChainOfOthers
<1>9. WaitingRetried'
    BY <1>2, <1>8 DEF WaitingRetried, Starting
<1>10. CountIsNext' /\ RunningIsLast'
    BY <1>1, <1>2, <1>4, <1>8 DEF CountIsNext, RunningIsLast
<1>11. OnlyLastDiffers' /\ UnpublishedIsUntried' /\ Numbered'
    <2>1. \A q \in Reports : q # r =>
             /\ \A j \in 1..Len(attempts'[q]) :
                   /\ j < Len(attempts'[q]) => attempts'[q][j].status = "RETRY"
                   /\ attempts'[q][j].no = j
             /\ post'[q] \in {"new", "created"} => Len(attempts'[q]) = 0
        BY <1>1, <1>2, <1>3, <1>4, ChainOfOthers
    <2>2. /\ Len(attempts'[r]) = k + 1
          /\ \A j \in 1..(k + 1) :
                /\ j < k + 1 => attempts'[r][j].status = "RETRY"
                /\ attempts'[r][j].no = j
        BY <1>4, <1>6
    <2>3. OnlyLastDiffers'
        <3>1. \A q \in Reports : \A j \in 1..Len(attempts'[q]) :
                 j < Len(attempts'[q]) => attempts'[q][j].status = "RETRY"
            BY <2>1, <2>2
        <3>2. QED
            BY <3>1 DEF OnlyLastDiffers
    <2>4. Numbered'
        <3>1. \A q \in Reports : \A j \in 1..Len(attempts'[q]) : attempts'[q][j].no = j
            BY <2>1, <2>2
        <3>2. QED
            BY <3>1 DEF Numbered
    <2>5. UnpublishedIsUntried'
        <3>1. \A q \in Reports : post'[q] \in {"new", "created"} => Len(attempts'[q]) = 0
            BY <1>7, <2>1
        <3>2. QED
            BY <3>1 DEF UnpublishedIsUntried
    <2>6. QED
        BY <2>3, <2>4, <2>5
<1>12. QED
    BY <1>9, <1>10, <1>11 DEF ChainInv

(* The attempt that is closed stays the last, or is followed by a retry.    *)
LEMMA ChainCloses ==
    ASSUME TypeInv, HolderInv, LedgerInv, OneAtATime, ChainInv,
           NEW w \in Workers, NEW status \in AttemptStatuses, Closes(w, status),
           pc'[w] \in {"idle", "republish"}, pc'[w] = "republish" => status = "RETRY",
           pc'[w] # "idle" => msg'[w] = msg[w],
           \A v \in Workers : v # w => pc'[v] = pc[v] /\ msg'[v] = msg[v]
                                        /\ count'[v] = count[v] /\ attempt'[v] = attempt[v],
           UNCHANGED <<queue, reserved, post>>
    PROVE  ChainInv'
<1>1. PICK r, k, i : r = msg[w].report /\ k = msg[w].retries /\ i = attempt[w]
    OBVIOUS
<1>2. Busy(w) /\ pc[w] \in Attempting /\ r \in Reports /\ k \in Nat
    BY <1>1, HoldersAreTyped, RetriesAssumption DEF Closes, Busy, Attempting
<1>3. Len(attempts[r]) = k + 1 /\ i = k + 1
    BY <1>1, <1>2 DEF ChainInv, RunningIsLast
<1>4. /\ OthersKept(r)
      /\ Len(attempts'[r]) = k + 1
      /\ \A j \in 1..(k + 1) : j # k + 1 => attempts'[r][j] = attempts[r][j]
      /\ attempts'[r][k + 1].status = status /\ attempts'[r][k + 1].no = attempts[r][k + 1].no
    <2>1. /\ OthersKept(r)
          /\ Len(attempts'[r]) = Len(attempts[r])
          /\ \A j \in 1..Len(attempts[r]) : j # i => attempts'[r][j] = attempts[r][j]
          /\ attempts'[r][i].status = status /\ attempts'[r][i].no = attempts[r][i].no
        BY <1>1, ClosedAttempt
    <2>2. QED
        BY <1>3, <2>1
<1>5. \A j \in 1..(k + 1) : (j < k + 1 => attempts[r][j].status = "RETRY") /\ attempts[r][j].no = j
    BY <1>2, <1>3 DEF ChainInv, OnlyLastDiffers, Numbered
<1>6. \A j \in 1..(k + 1) :
         (j < k + 1 => attempts'[r][j].status = "RETRY") /\ attempts'[r][j].no = j
    BY <1>2, <1>4, <1>5
<1>7. post'[r] \notin {"new", "created"}
    BY <1>1, <1>2, BusyIsPublished
<1>8. /\ \A m \in Pending' : Retried(m.report, m.retries)'
      /\ \A v \in Workers : v # w =>
            /\ pc'[v] \in Starting => Retried(msg[v].report, msg[v].retries)'
            /\ pc'[v] = "republish" => Retried(msg[v].report, msg[v].retries + 1)'
            /\ pc'[v] = "start" => count'[v] = msg'[v].retries + 1
            /\ pc'[v] \in Attempting =>
                  /\ Len(attempts'[msg'[v].report]) = msg'[v].retries + 1
                  /\ attempt'[v] = msg'[v].retries + 1
    BY <1>1, <1>2, <1>4, ChainOfOthers
<1>9. ASSUME pc'[w] = "republish" PROVE Retried(msg[w].report, msg[w].retries + 1)'
    <2>1. msg'[w].report = r /\ msg'[w].retries = k /\ status = "RETRY"
        BY <1>1, <1>9
    <2>2. \A j \in 1..(k + 1) : attempts'[r][j].status = "RETRY"
        BY <1>2, <1>4, <1>6, <2>1
    <2>3. QED
        BY <1>4, <2>1, <2>2 DEF Retried
<1>10. WaitingRetried'
    BY <1>8, <1>9 DEF WaitingRetried, Starting
<1>11. CountIsNext' /\ RunningIsLast'
    BY <1>8 DEF CountIsNext, RunningIsLast, Attempting
<1>12. OnlyLastDiffers' /\ UnpublishedIsUntried' /\ Numbered'
    <2>1. \A q \in Reports : q # r =>
             /\ \A j \in 1..Len(attempts'[q]) :
                   /\ j < Len(attempts'[q]) => attempts'[q][j].status = "RETRY"
                   /\ attempts'[q][j].no = j
             /\ post'[q] \in {"new", "created"} => Len(attempts'[q]) = 0
        BY <1>1, <1>2, <1>4, ChainOfOthers
    <2>2. /\ \A j \in 1..Len(attempts'[r]) :
                /\ j < Len(attempts'[r]) => attempts'[r][j].status = "RETRY"
                /\ attempts'[r][j].no = j
          /\ post'[r] \in {"new", "created"} => Len(attempts'[r]) = 0
        BY <1>4, <1>6, <1>7
    <2>3. QED
        BY <2>1, <2>2 DEF OnlyLastDiffers, UnpublishedIsUntried, Numbered
<1>13. QED
    BY <1>10, <1>11, <1>12 DEF ChainInv

(* What a republication adds to the messages.                               *)
LEMMA RepublishedMessages ==
    ASSUME NEW w \in Workers, Republish(w)
    PROVE  \A m \in Pending' : \/ m \in Pending
                               \/ m.report = msg[w].report /\ m.retries = msg[w].retries + 1
<1>1. PICK r, k : r = msg[w].report /\ k = msg[w].retries + 1
    OBVIOUS
<1>2. PICK copies : Enqueue(Messages(r, k, copies))
    BY <1>1 DEF Republish, NextRetries
<1>3. \A m \in Messages(r, k, copies) : m.report = r /\ m.retries = k
    BY DEF Messages
<1>4. Pending' = Pending \cup Messages(r, k, copies)
    BY <1>2 DEF Enqueue, Pending
<1>5. QED
    BY <1>1, <1>3, <1>4

(* The steps that are framed: those of a task, ...                          *)
LEMMA ChainTaskFramed ==
    ASSUME TypeInv, ChainInv, NEW w \in Workers,
           \/ TaskLoads(w) \/ LoadFails(w) \/ RecordRetry(w) \/ CountAttempts(w) \/ Upload(w)
           \/ UploadFails(w) \/ GenerationFails(w) \/ Republish(w) \/ RepublishFails(w)
           \/ Refresh(w) \/ RecordSuccessFails(w) \/ TaskDies(w)
    PROVE  ChainFrame
<1> USE DEF TypeInv, TypeOK
<1>1. UNCHANGED <<attempts, post>>
    BY DEF TaskLoads, LoadFails, RecordRetry, CountAttempts, Upload, UploadFails,
           GenerationFails, Republish, RepublishFails, Refresh, RecordSuccessFails, TaskDies,
           storeVars
<1>2. \A v \in Workers : v # w => pc'[v] = pc[v] /\ msg'[v] = msg[v]
                                    /\ count'[v] = count[v] /\ attempt'[v] = attempt[v]
    BY DEF TaskLoads, LoadFails, RecordRetry, CountAttempts, Upload, UploadFails,
           GenerationFails, Republish, RepublishFails, Refresh, RecordSuccessFails, TaskDies,
           GoTo, EndTask
<1>3. \A m \in Pending' : m \in Pending \/ Retried(m.report, m.retries)
    <2>1. CASE Republish(w)
        <3>1. Retried(msg[w].report, msg[w].retries + 1)
            BY <2>1 DEF Republish, ChainInv, WaitingRetried
        <3>2. \A m \in Pending' : \/ m \in Pending
                                  \/ m.report = msg[w].report /\ m.retries = msg[w].retries + 1
            BY <2>1, RepublishedMessages
        <3>3. QED
            BY <3>1, <3>2
    <2>2. CASE ~Republish(w)
        BY <2>2
        DEF TaskLoads, LoadFails, RecordRetry, CountAttempts, Upload, UploadFails,
            GenerationFails, RepublishFails, Refresh, RecordSuccessFails, TaskDies,
            queueVars, Pending
    <2>3. QED
        BY <2>1, <2>2
<1>4. CASE CountAttempts(w)
    <2>1. Len(attempts[msg[w].report]) = msg[w].retries
        BY <1>4 DEF CountAttempts, ChainInv, WaitingRetried, Starting, Retried
    <2>2. pc'[w] = "start" /\ pc[w] = "count" /\ msg'[w] = msg[w] /\ count'[w] = msg[w].retries + 1
        BY <1>4, <2>1 DEF CountAttempts, NextAttemptNo, GoTo
    <2>3. QED
        BY <1>1, <1>2, <1>3, <2>2 DEF ChainFrame
<1>5. CASE TaskLoads(w) \/ RecordRetry(w)
    <2>1. \/ pc'[w] = "idle"
          \/ pc'[w] \in Starting \ {"start"} /\ pc[w] \in Starting /\ msg'[w] = msg[w]
        BY <1>5 DEF TaskLoads, RecordRetry, GoTo, EndTask, Starting
    <2>2. QED
        BY <1>1, <1>2, <1>3, <2>1 DEF ChainFrame
<1>6. CASE Upload(w) \/ UploadFails(w) \/ GenerationFails(w) \/ Refresh(w)
    <2>1. pc'[w] \in Attempting /\ pc[w] \in Attempting /\ msg'[w] = msg[w] /\ attempt'[w] = attempt[w]
        BY <1>6 DEF Upload, UploadFails, GenerationFails, Refresh, GoTo, Attempting
    <2>2. QED
        BY <1>1, <1>2, <1>3, <2>1 DEF ChainFrame
<1>7. CASE LoadFails(w) \/ Republish(w) \/ RepublishFails(w) \/ RecordSuccessFails(w) \/ TaskDies(w)
    <2>1. pc'[w] = "idle"
        BY <1>7 DEF LoadFails, Republish, RepublishFails, RecordSuccessFails, TaskDies, EndTask
    <2>2. QED
        BY <1>1, <1>2, <1>3, <2>1 DEF ChainFrame
<1>8. QED
    BY <1>4, <1>5, <1>6, <1>7

(* ... and those of requests, the node and time.                            *)
LEMMA ChainOthersFramed ==
    ASSUME TypeInv, ChainInv, [Next]_vars, ~ \E w \in Workers : TaskStep(w)
    PROVE  ChainFrame
<1> USE DEF TypeInv, TypeOK
<1>1. ASSUME NEW r \in Reports, PostStep(r) \/ Expire(r) \/ GetReport(r)
      PROVE  ChainFrame
    <2>1. UNCHANGED <<attempts, workerVars>>
        BY <1>1
        DEF PostStep, CreateReport, Publish, PublishFails, MarkEnqueued, MarkEnqueueFailure,
            PostDies, Expire, GetReport, storeVars
    <2>2. \A q \in Reports : post'[q] \in {"new", "created"} => post[q] \in {"new", "created"}
        BY <1>1
        DEF PostStep, CreateReport, Publish, PublishFails, MarkEnqueued, MarkEnqueueFailure,
            PostDies, Expire, GetReport
    <2>3. CASE Publish(r) \/ PublishFails(r)
        <3>1. Len(attempts[r]) = 0
            BY <2>3 DEF Publish, PublishFails, ChainInv, UnpublishedIsUntried
        <3>2. Retried(r, 0)
            BY <3>1 DEF Retried
        <3>3. \A m \in Pending' : m \in Pending \/ (m.report = r /\ m.retries = 0)
            BY <2>3 DEF Publish, PublishFails, Enqueue, Messages, queueVars, Pending
        <3>4. QED
            BY <2>1, <2>2, <3>2, <3>3 DEF ChainFrame, workerVars
    <2>4. CASE ~(Publish(r) \/ PublishFails(r))
        <3>1. Pending' = Pending
            BY <1>1, <2>4
            DEF PostStep, CreateReport, MarkEnqueued, MarkEnqueueFailure, PostDies, Expire,
                GetReport, queueVars, Pending
        <3>2. QED
            BY <2>1, <2>2, <3>1 DEF ChainFrame, workerVars
    <2>5. QED
        BY <2>3, <2>4
<1>2. ASSUME NEW d \in Deletes, DeleteStep(d) PROVE ChainFrame
    BY <1>2
    DEF DeleteStep, CancelGone, CancelRefused, CancelLoads, CancelRevokes, CancelCommits,
        CancelDies, Broadcast, storeVars, queueVars, workerVars, Pending, ChainFrame
<1>3. ASSUME NEW m \in Pending, NodeReceives(m) \/ NodeDiscards(m) PROVE ChainFrame
    BY <1>3 DEF NodeReceives, NodeDiscards, Receive, Discard, storeVars, workerVars, Pending,
                ChainFrame
<1>4. ASSUME NEW r \in Reports, NodeRevokes(r) PROVE ChainFrame
    BY <1>4 DEF NodeRevokes, RevokeArrives, storeVars, workerVars, Pending, ChainFrame
<1>5. ASSUME NEW w \in Workers, NEW m \in Pending, TaskStarts(w, m) PROVE ChainFrame
    BY <1>5 DEF TaskStarts, Accept, storeVars, Pending, ChainFrame
<1>6. CASE NodeRestarts
    BY <1>6 DEF NodeRestarts, NodeRestart, storeVars, Pending, ChainFrame
<1>7. CASE UNCHANGED vars
    BY <1>7 DEF vars, storeVars, queueVars, workerVars, Pending, ChainFrame
<1>8. QED
    BY <1>1, <1>2, <1>3, <1>4, <1>5, <1>6, <1>7 DEF Next, NodeStep

LEMMA ChainInit == Init => ChainInv
<1> SUFFICES ASSUME Init PROVE ChainInv
    OBVIOUS
<1>1. attempts = [r \in Reports |-> <<>>] /\ Pending = {} /\ \A w \in Workers : pc[w] = "idle"
    BY DEF Init, StoreInit, QueueInit, Pending
<1>2. \A r \in Reports : Len(attempts[r]) = 0
    BY <1>1
<1>3. WaitingRetried /\ CountIsNext /\ RunningIsLast
    BY <1>1 DEF WaitingRetried, CountIsNext, RunningIsLast, Starting, Attempting
<1>4. OnlyLastDiffers /\ UnpublishedIsUntried /\ Numbered
    BY <1>2 DEF OnlyLastDiffers, UnpublishedIsUntried, Numbered
<1>5. QED
    BY <1>3, <1>4 DEF ChainInv

LEMMA ChainNext ==
    ASSUME TypeInv, HolderInv, LedgerInv, OneAtATime, ChainInv, [Next]_vars
    PROVE  ChainInv'
<1>1. ASSUME NEW w \in Workers, RecordStarted(w) PROVE ChainInv'
    BY <1>1, ChainOpens
<1>2. ASSUME NEW w \in Workers,
             RecordRetryAttempt(w) \/ RecordFailure(w) \/ RecordCanceled(w) \/ RecordSuccess(w)
      PROVE  ChainInv'
    <2>1. UNCHANGED <<queue, reserved, post>>
        BY <1>2 DEF RecordRetryAttempt, RecordFailure, RecordCanceled, RecordSuccess, queueVars
    <2>2. \A v \in Workers : v # w => pc'[v] = pc[v] /\ msg'[v] = msg[v]
                                        /\ count'[v] = count[v] /\ attempt'[v] = attempt[v]
        BY <1>2 DEF RecordRetryAttempt, RecordFailure, RecordCanceled, RecordSuccess,
                    GoTo, EndTask, TypeInv, TypeOK
    <2>3. /\ pc'[w] \in {"idle", "republish"}
          /\ pc'[w] = "republish" => pc[w] = "retry"
          /\ pc'[w] # "idle" => msg'[w] = msg[w]
        BY <1>2 DEF RecordRetryAttempt, RecordFailure, RecordCanceled, RecordSuccess,
                    GoTo, EndTask, TypeInv, TypeOK
    <2>4. PICK status \in AttemptStatuses : Closes(w, status)
        BY <1>2, EndsClose
    <2>5. pc'[w] = "republish" => status = "RETRY"
        BY <2>3, <2>4 DEF Closes
    <2>6. QED
        BY <2>1, <2>2, <2>3, <2>4, <2>5, ChainCloses
<1>3. ASSUME NEW w \in Workers, TaskStep(w), ~RecordStarted(w),
             ~(RecordRetryAttempt(w) \/ RecordFailure(w) \/ RecordCanceled(w) \/ RecordSuccess(w))
      PROVE  ChainInv'
    BY <1>3, ChainTaskFramed, ChainFramed DEF TaskStep
<1>4. CASE ~ \E w \in Workers : TaskStep(w)
    BY <1>4, ChainOthersFramed, ChainFramed
<1>5. QED
    BY <1>1, <1>2, <1>3, <1>4

(* With exact publication the chain invariant holds in every behaviour.     *)
THEOREM ChainInvariance ==
    ASSUME ExactPublication
    PROVE  Spec => []ChainInv
<1>1. /\ TypeInv /\ HolderInv /\ LedgerInv /\ ChainInv /\ [Next]_vars
      => ChainInv'
    BY ExactIsOneAtATime, ChainNext
<1>2. QED
    BY <1>1, ChainInit, TypeInvariance, HolderInvariance, LedgerInvariance, PTL DEF Spec

-----------------------------------------------------------------------------
(* What it means                                                            *)

(* celery's retry counter and the table agree on every waiting message.     *)
THEOREM CountersAgree ==
    ASSUME ExactPublication
    PROVE  Spec => []AttemptPerRetry
<1>1. ChainInv => AttemptPerRetry
    BY DEF ChainInv, WaitingRetried, Retried, AttemptPerRetry
<1>2. QED
    BY <1>1, ChainInvariance, PTL

(* The attempts of a report are numbered 1, 2, 3...                         *)
THEOREM AttemptsAreNumbered ==
    ASSUME ExactPublication
    PROVE  Spec => []AttemptsNumbered
<1>1. TypeInv /\ ChainInv => AttemptsNumbered
    <2> SUFFICES ASSUME TypeInv, ChainInv PROVE AttemptsNumbered
        OBVIOUS
    <2>1. \A r \in Reports : DOMAIN attempts[r] = 1..Len(attempts[r])
        BY LenProperties DEF TypeInv, TypeOK, StoreTypeOK
    <2>2. QED
        BY <2>1 DEF ChainInv, Numbered, AttemptsNumbered
<1>2. QED
    BY <1>1, TypeInvariance, ChainInvariance, PTL

(* Nothing follows success, final failure or cancellation.                  *)
THEOREM NothingFollowsAnOutcome ==
    ASSUME ExactPublication
    PROVE  Spec => NoAttemptAfterOutcome
<1> DEFINE Over(r) == \E i \in DOMAIN attempts[r] :
                          attempts[r][i].status \in {"SUCCESS", "FAILURE", "CANCELED"}
           Stays == \A r \in Reports : Over(r) => Len(attempts'[r]) = Len(attempts[r])
<1>1. TypeInv /\ LedgerInv /\ ChainInv /\ [Next]_vars => Stays
    <2> SUFFICES ASSUME TypeInv, LedgerInv, ChainInv, [Next]_vars PROVE Stays
        OBVIOUS
    <2>1. CASE UNCHANGED <<attempts, file>>
        BY <2>1
    <2>2. ASSUME NEW w \in Workers, RecordStarted(w) PROVE Stays
        <3>1. PICK r : r = msg[w].report
            OBVIOUS
        <3>2. r \in Reports /\ OthersKept(r)
            BY <2>2, <3>1, OpenedAttempt DEF OpenedOnto
        <3>3. \A i \in 1..Len(attempts[r]) : attempts[r][i].status = "RETRY"
            BY <2>2, <3>1 DEF RecordStarted, ChainInv, WaitingRetried, Starting, Retried
        <3>4. DOMAIN attempts[r] = 1..Len(attempts[r])
            BY <3>2, LenProperties DEF TypeInv, TypeOK, StoreTypeOK
        <3>5. ~Over(r)
            BY <3>3, <3>4
        <3>6. QED
            BY <3>2, <3>5 DEF OthersKept
    <2>3. ASSUME NEW w \in Workers, NEW status \in AttemptStatuses, Closes(w, status)
          PROVE  Stays
        <3>1. PICK r, i : r = msg[w].report /\ i = attempt[w]
            OBVIOUS
        <3>2. OthersKept(r) /\ Len(attempts'[r]) = Len(attempts[r])
            BY <2>3, <3>1, ClosedAttempt
        <3>3. QED
            BY <3>2 DEF OthersKept
    <2>4. QED
        BY <2>1, <2>2, <2>3, StepOnAttempts
<1>2. QED
    BY <1>1, TypeInvariance, LedgerInvariance, ChainInvariance, PTL
    DEF Spec, NoAttemptAfterOutcome

-----------------------------------------------------------------------------
(* Success and failure are left only by who read the report before them     *)

(* A DELETE request that goes on had read the report unfinished.            *)
DeletesReadUnfinished ==
    \A d \in Deletes : del[d] \in {"revoke", "commit"} => delSnap[d].status \in Unfinished

(* An attempt of the report ended so.                                       *)
Has(r, status) ==
    \E i \in 1..Len(attempts[r]) : attempts[r][i].status = status

(* A failed report was failed by POST or by an attempt.                     *)
FailureIsOfAnAttempt ==
    \A r \in Reports : row[r].status = "FAILURE" /\ post[r] # "rejected" => Has(r, "FAILURE")

ReaderInv == DeletesReadUnfinished /\ FailureIsOfAnAttempt

LEMMA ReaderInit == Init => ReaderInv
BY DEF Init, StoreInit, AbsentRow, NewRow, ReaderInv, DeletesReadUnfinished, FailureIsOfAnAttempt

(* A request takes its snapshot when it finds the report unfinished.        *)
LEMMA DeletesNext ==
    ASSUME TypeInv, DeletesReadUnfinished, [Next]_vars
    PROVE  DeletesReadUnfinished'
<1>1. ASSUME NEW d \in Deletes, DeleteStep(d) PROVE DeletesReadUnfinished'
    BY <1>1
    DEF DeleteStep, CancelGone, CancelRefused, CancelLoads, CancelRevokes, CancelCommits,
        CancelDies, EndDelete, DeletesReadUnfinished, TypeInv, TypeOK
<1>2. CASE UNCHANGED deleteVars
    BY <1>2 DEF deleteVars, DeletesReadUnfinished
<1>3. ASSUME NEW r \in Reports, PostStep(r) \/ Expire(r) \/ GetReport(r)
      PROVE  UNCHANGED deleteVars
    BY <1>3
    DEF PostStep, CreateReport, Publish, PublishFails, MarkEnqueued, MarkEnqueueFailure,
        PostDies, Expire, GetReport
<1>4. ASSUME NEW w \in Workers, TaskStep(w) PROVE UNCHANGED deleteVars
    BY <1>4
    DEF TaskStep, TaskLoads, LoadFails, RecordRetry, CountAttempts, RecordStarted, Upload,
        UploadFails, GenerationFails, RecordRetryAttempt, Republish, RepublishFails,
        RecordFailure, Refresh, RecordCanceled, RecordSuccess, RecordSuccessFails, TaskDies
<1>5. NodeStep => UNCHANGED deleteVars
    BY DEF NodeStep, NodeReceives, NodeDiscards, TaskStarts, NodeRevokes, NodeRestarts
<1>6. UNCHANGED vars => UNCHANGED deleteVars
    BY DEF vars
<1>7. QED
    BY <1>1, <1>2, <1>3, <1>4, <1>5, <1>6 DEF Next

(* An attempt that ended stays among the attempts of its report.            *)
LEMMA EndedStays ==
    ASSUME TypeInv, LedgerInv, [Next]_vars, NEW r \in Reports,
           NEW status, status # "STARTED", Has(r, status)
    PROVE  Has(r, status)'
<1>1. PICK i \in 1..Len(attempts[r]) : attempts[r][i].status = status
    BY DEF Has
<1>2. DOMAIN attempts[r] = 1..Len(attempts[r]) /\ Len(attempts[r]) \in Nat
    BY LenProperties DEF TypeInv, TypeOK, StoreTypeOK
<1>3. attempts'[r][i] = attempts[r][i]
    BY <1>1, <1>2, LedgerNext DEF OutcomesKept
<1>4. 1..Len(attempts[r]) \subseteq 1..Len(attempts'[r])
    <2>1. CASE UNCHANGED <<attempts, file>>
        BY <2>1
    <2>2. ASSUME NEW w \in Workers, RecordStarted(w)
          PROVE  1..Len(attempts[r]) \subseteq 1..Len(attempts'[r])
        <3>1. OpenedOnto(w, msg[w].report)
            BY <2>2, OpenedAttempt
        <3>2. QED
            BY <1>2, <3>1 DEF OpenedOnto, OthersKept
    <2>3. ASSUME NEW w \in Workers, NEW end \in AttemptStatuses, Closes(w, end)
          PROVE  1..Len(attempts[r]) \subseteq 1..Len(attempts'[r])
        <3>1. PICK q, k : q = msg[w].report /\ k = attempt[w]
            OBVIOUS
        <3>2. OthersKept(q) /\ Len(attempts'[q]) = Len(attempts[q])
            BY <2>3, <3>1, ClosedAttempt
        <3>3. QED
            BY <3>2 DEF OthersKept
    <2>4. QED
        BY <2>1, <2>2, <2>3, StepOnAttempts
<1>5. QED
    BY <1>1, <1>3, <1>4 DEF Has

(* A report becomes FAILURE by the POST handler, which rejects the request, *)
(* or with an attempt that fails.                                           *)
LEMMA FailureAfterStep ==
    ASSUME TypeInv, LedgerInv, [Next]_vars, NEW r \in Reports,
           row[r].status # "FAILURE", row'[r].status = "FAILURE"
    PROVE  post'[r] = "rejected" \/ Has(r, "FAILURE")'
<1>1. ASSUME NEW q \in Reports, PostStep(q) \/ Expire(q) \/ GetReport(q)
      PROVE  post'[r] = "rejected"
    <2>1. q = r /\ post[r] = "unsent" /\ PostStep(r)
        BY <1>1, HandlerStatus DEF ChangesStatusTo
    <2>2. ~PostDies(r)
        BY DEF PostDies, storeVars
    <2>3. MarkEnqueueFailure(r)
        BY <2>1, <2>2 DEF PostStep, CreateReport, Publish, PublishFails, MarkEnqueued
    <2>4. QED
        BY <2>3 DEF MarkEnqueueFailure, TypeInv, TypeOK
<1>2. ASSUME NEW d \in Deletes, DeleteStep(d) PROVE FALSE
    BY <1>2, HandlerStatus DEF ChangesStatusTo
<1>3. ASSUME NEW w \in Workers, TaskStep(w) PROVE Has(r, "FAILURE")'
    <2>1. RecordFailure(w) /\ msg[w].report = r
        BY <1>3, TaskStatus DEF ChangesStatusTo
    <2>2. "FAILURE" \in AttemptStatuses
        BY DEF AttemptStatuses, Statuses, Unfinished, Final
    <2>3. Closes(w, "FAILURE")
        BY <2>1, <2>2 DEF RecordFailure, Closes, Attempting
    <2>4. PICK i : i = attempt[w]
        OBVIOUS
    <2>5. /\ Len(attempts'[r]) = Len(attempts[r]) /\ i \in 1..Len(attempts[r])
          /\ attempts'[r][i].status = "FAILURE"
        BY <2>1, <2>2, <2>3, <2>4, ClosedAttempt
    <2>6. QED
        BY <2>5 DEF Has
<1>4. ~NodeStep /\ ~UNCHANGED vars
    BY HandlerStatus DEF ChangesStatusTo, vars, storeVars
<1>5. QED
    BY <1>1, <1>2, <1>3, <1>4 DEF Next

(* A request that POST has rejected stays rejected.                         *)
LEMMA RejectedStays ==
    ASSUME TypeInv, [Next]_vars, NEW r \in Reports, post[r] = "rejected"
    PROVE  post'[r] = "rejected"
<1>1. ASSUME NEW q \in Reports, PostStep(q) \/ Expire(q) \/ GetReport(q)
      PROVE  post'[r] = "rejected"
    BY <1>1
    DEF PostStep, CreateReport, Publish, PublishFails, MarkEnqueued, MarkEnqueueFailure,
        PostDies, Expire, GetReport, TypeInv, TypeOK
<1>2. ASSUME NEW d \in Deletes, DeleteStep(d) PROVE UNCHANGED post
    BY <1>2
    DEF DeleteStep, CancelGone, CancelRefused, CancelLoads, CancelRevokes, CancelCommits,
        CancelDies
<1>3. ASSUME NEW w \in Workers, TaskStep(w) PROVE UNCHANGED post
    BY <1>3
    DEF TaskStep, TaskLoads, LoadFails, RecordRetry, CountAttempts, RecordStarted, Upload,
        UploadFails, GenerationFails, RecordRetryAttempt, Republish, RepublishFails,
        RecordFailure, Refresh, RecordCanceled, RecordSuccess, RecordSuccessFails, TaskDies
<1>4. NodeStep => UNCHANGED post
    BY DEF NodeStep, NodeReceives, NodeDiscards, TaskStarts, NodeRevokes, NodeRestarts
<1>5. UNCHANGED vars => UNCHANGED post
    BY DEF vars
<1>6. QED
    BY <1>1, <1>2, <1>3, <1>4, <1>5 DEF Next

LEMMA FailuresNext ==
    ASSUME TypeInv, LedgerInv, FailureIsOfAnAttempt, [Next]_vars
    PROVE  FailureIsOfAnAttempt'
<1>1. SUFFICES ASSUME NEW r \in Reports, row'[r].status = "FAILURE", post'[r] # "rejected"
               PROVE  Has(r, "FAILURE")'
    BY DEF FailureIsOfAnAttempt
<1>2. CASE row[r].status = "FAILURE"
    <2>1. Has(r, "FAILURE")
        BY <1>1, <1>2, RejectedStays DEF FailureIsOfAnAttempt
    <2>2. QED
        BY <2>1, EndedStays
<1>3. CASE row[r].status # "FAILURE"
    BY <1>1, <1>3, FailureAfterStep
<1>4. QED
    BY <1>2, <1>3

(* Both hold throughout, however often a message is delivered.              *)
THEOREM ReaderInvariance == Spec => []ReaderInv
<1>1. TypeInv /\ LedgerInv /\ ReaderInv /\ [Next]_vars => ReaderInv'
    BY DeletesNext, FailuresNext DEF ReaderInv
<1>2. QED
    BY <1>1, ReaderInit, TypeInvariance, LedgerInvariance, PTL DEF Spec

(* A report that a task of the chain works on has no success and no failure *)
(* among its attempts.                                                      *)
LEMMA WorkedIsUndecided ==
    ASSUME TypeInv, LedgerInv, ChainInv, NEW w \in Workers, NEW r \in Reports,
           msg[w].report = r, pc[w] \in {"note", "start"} \cup Attempting
    PROVE  ~Has(r, "SUCCESS") /\ ~Has(r, "FAILURE")
<1>1. CASE pc[w] \in {"note", "start"}
    BY <1>1 DEF ChainInv, WaitingRetried, Starting, Retried, Has
<1>2. CASE pc[w] \in Attempting
    <2>1. attempt[w] = Len(attempts[r]) /\ Len(attempts[r]) \in Nat
        BY <1>2, LenProperties DEF ChainInv, RunningIsLast, TypeInv, TypeOK, StoreTypeOK
    <2>2. attempts[r][Len(attempts[r])].status = "STARTED"
        BY <1>2, <2>1 DEF LedgerInv, OwnAttempt
    <2>3. \A i \in 1..Len(attempts[r]) :
             i < Len(attempts[r]) => attempts[r][i].status = "RETRY"
        BY DEF ChainInv, OnlyLastDiffers
    <2>4. QED
        BY <2>1, <2>2, <2>3 DEF Has
<1>3. QED
    BY <1>1, <1>2

(* A report whose status is SUCCESS has an attempt that succeeded.          *)
LEMMA SuccessIsOfAnAttempt ==
    ASSUME TypeInv, LedgerInv, SuccessHasFile, NEW r \in Reports, row[r].status = "SUCCESS"
    PROVE  Has(r, "SUCCESS")
<1>1. DOMAIN attempts[r] = 1..Len(attempts[r])
    BY LenProperties DEF TypeInv, TypeOK, StoreTypeOK
<1>2. file[r] \in DOMAIN attempts[r]
    BY DEF SuccessHasFile, LedgerInv, FileOfAnAttempt
<1>3. attempts[r][file[r]].status = "SUCCESS"
    BY <1>2 DEF LedgerInv, FileOfTheSuccess
<1>4. QED
    BY <1>1, <1>2, <1>3 DEF Has

(* A step out of SUCCESS or FAILURE.                                        *)
OutcomeLeft ==
    \A r \in Reports :
        row[r].status \in {"SUCCESS", "FAILURE"} /\ row'[r].status # row[r].status
            => \/ /\ row'[r].status = "CANCELED"
                  /\ \E d \in Deletes :
                        del[d] = "commit" /\ target[d] = r /\ delSnap[d].status \in Unfinished
               \/ row'[r].status = "FAILURE" /\ post[r] = "unsent"
               \/ row[r].status = "FAILURE" /\ post[r] = "rejected"

(* With exact publication SUCCESS and FAILURE are final for whoever reads   *)
(* them: only a DELETE request that had read the report unfinished, or the  *)
(* POST handler that reports a failed publication, replaces them; and no    *)
(* task goes on, but for a report whose publication was taken for failed.   *)
THEOREM OutcomesAreLeftByEarlierReaders ==
    ASSUME ExactPublication
    PROVE  Spec => OutcomeLeftOnlyByEarlierReaders
<1>1. /\ TypeInv /\ LedgerInv /\ ChainInv /\ SessionInv /\ ReaderInv /\ SuccessHasFile
      /\ [Next]_vars
      => [OutcomeLeft]_vars
    <2> SUFFICES ASSUME TypeInv, LedgerInv, ChainInv, SessionInv, ReaderInv, SuccessHasFile,
                        [Next]_vars, NEW r \in Reports,
                        row[r].status \in {"SUCCESS", "FAILURE"},
                        row'[r].status # row[r].status,
                        ~(row[r].status = "FAILURE" /\ post[r] = "rejected")
                 PROVE  \/ /\ row'[r].status = "CANCELED"
                           /\ \E d \in Deletes : /\ del[d] = "commit" /\ target[d] = r
                                                 /\ delSnap[d].status \in Unfinished
                        \/ row'[r].status = "FAILURE" /\ post[r] = "unsent"
        BY DEF OutcomeLeft
    <2>1. post[r] # "new"
        BY DEF SessionInv, UnrequestedIsAbsent
    <2>2. Has(r, "SUCCESS") \/ Has(r, "FAILURE")
        BY SuccessIsOfAnAttempt DEF ReaderInv, FailureIsOfAnAttempt
    <2>3. ASSUME NEW w \in Workers, msg[w].report = r,
                 pc[w] \in {"note", "start", "retry", "fail"} \/ RecordSuccess(w)
          PROVE  FALSE
        <3>1. pc[w] \in {"note", "start"} \cup Attempting
            BY <2>3 DEF RecordSuccess, Attempting
        <3>2. QED
            BY <2>2, <2>3, <3>1, WorkedIsUndecided
    <2>4. \A d \in Deletes : del[d] = "commit" => delSnap[d].status \in Unfinished
        BY DEF ReaderInv, DeletesReadUnfinished
    <2>5. QED
        BY <2>1, <2>3, <2>4, StatusAfterStep
<1>2. QED
    BY <1>1, TypeInvariance, LedgerInvariance, ChainInvariance, SessionInvariance,
       ReaderInvariance, SuccessAlwaysHasFile, PTL
    DEF Spec, OutcomeLeftOnlyByEarlierReaders, OutcomeLeft

-----------------------------------------------------------------------------
(* The chain is implemented                                                 *)

Stages == [r \in Reports |-> StageOf(attempts[r])]

LEMMA ChainStarts == Init => Chain!ChainInit
<1> SUFFICES ASSUME Init PROVE Chain!ChainInit
    OBVIOUS
<1>1. attempts = [r \in Reports |-> <<>>] /\ file = [r \in Reports |-> 0]
    BY DEF Init, StoreInit
<1>2. Counts = [r \in Reports |-> 0]
    BY <1>1 DEF Counts
<1>3. Stages = [r \in Reports |-> "waits"]
    BY <1>1 DEF Stages, StageOf
<1>4. QED
    BY <1>1, <1>2, <1>3 DEF Chain!ChainInit, Counts, Stages

(* The attempt a task opens is begun by a report that waits.                *)
LEMMA ChainBegins ==
    ASSUME TypeInv, ChainInv, NEW w \in Workers, RecordStarted(w), NEW r, r = msg[w].report
    PROVE  r \in Reports /\ Chain!Begin(r)
<1>1. /\ r \in Reports /\ OthersKept(r)
      /\ Len(attempts[r]) \in Nat /\ Len(attempts'[r]) = Len(attempts[r]) + 1
      /\ attempts'[r][Len(attempts[r]) + 1] = [no |-> count[w], status |-> "STARTED"]
      /\ file' = file
    BY OpenedAttempt DEF OpenedOnto
<1>2. pc[w] = "start" /\ Busy(w)
    BY DEF RecordStarted, Busy
<1>3. Retried(r, msg[w].retries) /\ msg[w].retries \in 0..MaxRetries
    BY <1>2, HoldersAreTyped DEF ChainInv, WaitingRetried, Starting
<1>4. Len(attempts[r]) <= MaxRetries
    BY <1>3, RetriesAssumption DEF Retried
<1>5. StageOf(attempts[r]) = "waits"
    <2>1. CASE attempts[r] = <<>>
        BY <2>1 DEF StageOf
    <2>2. CASE attempts[r] # <<>>
        <3>1. Len(attempts[r]) \in 1..Len(attempts[r])
            BY <1>1, <2>2, EmptySeq DEF TypeInv, TypeOK, StoreTypeOK
        <3>2. attempts[r][Len(attempts[r])].status = "RETRY"
            BY <1>3, <3>1 DEF Retried
        <3>3. QED
            BY <3>2 DEF StageOf
    <2>3. QED
        BY <2>1, <2>2
<1>6. StageOf(attempts'[r]) = "runs"
    <2>1. attempts'[r][Len(attempts'[r])].status = "STARTED"
        BY <1>1
    <2>2. attempts'[r] # <<>>
        BY <1>1
    <2>3. QED
        BY <2>1, <2>2 DEF StageOf
<1>7. Counts' = [Counts EXCEPT ![r] = @ + 1] /\ Stages' = [Stages EXCEPT ![r] = "runs"]
    BY <1>1, <1>6 DEF Counts, Stages, OthersKept
<1>8. QED
    BY <1>1, <1>4, <1>5, <1>7 DEF Chain!Begin, Counts, Stages

(* The attempt a task closes is the one that runs.                          *)
LEMMA ChainMoves ==
    ASSUME TypeInv, LedgerInv, ChainInv, NEW w \in Workers, NEW status \in AttemptStatuses,
           Closes(w, status), NEW r, r = msg[w].report
    PROVE  r \in Reports /\ (Chain!Retry(r) \/ Chain!Finish(r))
<1>1. PICK i : i = attempt[w]
    OBVIOUS
<1>2. /\ r \in Reports /\ OthersKept(r)
      /\ Len(attempts[r]) \in Nat /\ Len(attempts'[r]) = Len(attempts[r])
      /\ i \in 1..Len(attempts[r]) /\ attempts[r][i].status = "STARTED"
      /\ attempts'[r][i].status = status
      /\ \/ status # "SUCCESS" /\ file' = file
         \/ status = "SUCCESS" /\ file[r] = 0 /\ file'[r] = i
    BY <1>1, ClosedAttempt
<1>3. pc[w] \in Attempting /\ Busy(w)
    BY DEF Closes, Busy, Attempting
<1>4. /\ Len(attempts[r]) = msg[w].retries + 1 /\ i = msg[w].retries + 1
      /\ msg[w].retries \in 0..MaxRetries
    BY <1>1, <1>3, HoldersAreTyped DEF ChainInv, RunningIsLast
<1>5. StageOf(attempts[r]) = "runs"
    <2>1. attempts[r][Len(attempts[r])].status = "STARTED"
        BY <1>2, <1>4
    <2>2. attempts[r] # <<>>
        BY <1>2
    <2>3. QED
        BY <2>1, <2>2 DEF StageOf
<1>6. /\ attempts'[r] # <<>>
      /\ attempts'[r][Len(attempts'[r])].status = status
    BY <1>2, <1>4
<1>7. Counts' = Counts
    BY <1>2 DEF Counts, OthersKept
<1>8. CASE status = "RETRY"
    <2>1. pc[w] = "retry"
        BY <1>8 DEF Closes
    <2>2. msg[w].retries < MaxRetries
        BY <2>1 DEF TypeInv, RetriesRemain
    <2>3. Counts[r] <= MaxRetries
        BY <1>2, <1>4, <2>2, RetriesAssumption DEF Counts
    <2>4. Stages' = [Stages EXCEPT ![r] = "waits"] /\ Stages[r] = "runs"
        BY <1>2, <1>5, <1>6, <1>8 DEF Stages, StageOf, OthersKept
    <2>5. file' = file
        BY <1>2, <1>8
    <2>6. Chain!Retry(r)
        BY <1>7, <2>3, <2>4, <2>5 DEF Chain!Retry, Counts, Stages
    <2>7. QED
        BY <1>2, <2>6
<1>9. CASE status # "RETRY"
    <2>1. status # "STARTED"
        BY DEF Closes
    <2>2. Stages' = [Stages EXCEPT ![r] = "over"] /\ Stages[r] = "runs"
        BY <1>2, <1>5, <1>6, <1>9, <2>1 DEF Stages, StageOf, OthersKept
    <2>3. file' \in {file, [file EXCEPT ![r] = Counts[r]]}
        BY <1>1, <1>2, <1>4 DEF Closes, Counts
    <2>4. Chain!Finish(r)
        BY <1>7, <2>2, <2>3 DEF Chain!Finish, Counts, Stages
    <2>5. QED
        BY <1>2, <2>4
<1>10. QED
    BY <1>8, <1>9

LEMMA ChainSteps ==
    ASSUME TypeInv, LedgerInv, ChainInv, [Next]_vars
    PROVE  [Chain!ChainNext]_(Chain!chainVars)
<1>1. CASE UNCHANGED <<attempts, file>>
    BY <1>1 DEF Chain!chainVars, StageOf
<1>2. ASSUME NEW w \in Workers, RecordStarted(w) PROVE Chain!ChainNext
    BY <1>2, ChainBegins DEF Chain!ChainNext
<1>3. ASSUME NEW w \in Workers, NEW status \in AttemptStatuses, Closes(w, status)
      PROVE  Chain!ChainNext
    BY <1>3, ChainMoves DEF Chain!ChainNext
<1>4. QED
    BY <1>1, <1>2, <1>3, StepOnAttempts

(* With exact publication the attempts of every report are a chain: one at  *)
(* a time, each begun because its predecessor was retried.                  *)
THEOREM PipelineImplementsChain ==
    ASSUME ExactPublication
    PROVE  Spec => ImplementsChain
<1>1. TypeInv /\ LedgerInv /\ ChainInv /\ [Next]_vars => [Chain!ChainNext]_(Chain!chainVars)
    BY ChainSteps
<1>2. QED
    BY <1>1, ChainStarts, TypeInvariance, LedgerInvariance, ChainInvariance, PTL
    DEF Spec, ImplementsChain, Chain!ChainSpec

-----------------------------------------------------------------------------
(* The object and the file                                                  *)

(* The steps of a task whose upload is done.                                *)
Uploaded == {"refresh", "cancel", "finish"}

ObjectIsOwn ==
    \A w \in Workers : pc[w] \in Uploaded => object[msg[w].report] = attempt[w]

ObjectInv == ObjectIsOwn /\ FileMatchesObject

(* The report of a running attempt has no file.                             *)
LEMMA RunsFileless ==
    ASSUME TypeInv, LedgerInv, ChainInv, NEW w \in Workers, pc[w] \in Attempting
    PROVE  msg[w].report \in Reports /\ file[msg[w].report] = 0
<1>1. PICK r, i : r = msg[w].report /\ i = attempt[w]
    OBVIOUS
<1>2. Busy(w) /\ pc[w] \in Attempting
    BY DEF Busy, Attempting
<1>3. r \in Reports
    BY <1>1, <1>2, HoldersAreTyped
<1>4. i = Len(attempts[r]) /\ attempts[r][i].status = "STARTED"
    BY <1>1, <1>2 DEF ChainInv, RunningIsLast, LedgerInv, OwnAttempt
<1>5. file[r] = 0 \/ (file[r] \in 1..Len(attempts[r]) /\ attempts[r][file[r]].status = "SUCCESS")
    <2>1. DOMAIN attempts[r] = 1..Len(attempts[r])
        BY <1>3, LenProperties DEF TypeInv, TypeOK, StoreTypeOK
    <2>2. QED
        BY <1>3, <2>1 DEF LedgerInv, FileOfAnAttempt, FileOfTheSuccess
<1>6. Len(attempts[r]) \in Nat
    BY <1>3, LenProperties DEF TypeInv, TypeOK, StoreTypeOK
<1>7. \A k \in 1..Len(attempts[r]) :
         k = Len(attempts[r]) \/ attempts[r][k].status = "RETRY"
    BY <1>3, <1>6 DEF ChainInv, OnlyLastDiffers
<1>8. QED
    BY <1>1, <1>3, <1>4, <1>5, <1>7

(* A step that disturbs no object but those being built, and uploads none.  *)
ObjectFrame ==
    /\ \A r \in Reports :
          \/ object'[r] = object[r]
          \/ \E w \in Workers : pc[w] = "build" /\ msg[w].report = r
    /\ file' = file
    /\ \A w \in Workers : pc'[w] \in Uploaded =>
          pc[w] \in Uploaded /\ msg'[w] = msg[w] /\ attempt'[w] = attempt[w]

LEMMA ObjectFramed ==
    ASSUME TypeInv, LedgerInv, OneAtATime, ChainInv, ObjectInv, ObjectFrame
    PROVE  ObjectInv'
<1>1. ObjectIsOwn'
    <2> SUFFICES ASSUME NEW w \in Workers, pc'[w] \in Uploaded
                 PROVE  object'[msg'[w].report] = attempt'[w]
        BY DEF ObjectIsOwn
    <2>1. pc[w] \in Uploaded /\ msg'[w] = msg[w] /\ attempt'[w] = attempt[w]
        BY DEF ObjectFrame
    <2>2. Busy(w)
        BY <2>1 DEF Busy, Uploaded
    <2>3. msg[w].report \in Reports
        BY <2>2, HoldersAreTyped
    <2>4. \A v \in Workers : pc[v] = "build" => msg[v].report # msg[w].report
        BY <2>1, <2>2 DEF OneAtATime, Busy, Uploaded
    <2>5. object'[msg[w].report] = object[msg[w].report]
        BY <2>3, <2>4 DEF ObjectFrame
    <2>6. QED
        BY <2>1, <2>5 DEF ObjectInv, ObjectIsOwn
<1>2. FileMatchesObject'
    <2>1. \A w \in Workers : pc[w] = "build" => file[msg[w].report] = 0
        BY RunsFileless DEF Attempting
    <2>2. QED
        BY <2>1 DEF ObjectInv, FileMatchesObject, ObjectFrame
<1>3. QED
    BY <1>1, <1>2 DEF ObjectInv

(* An interrupted upload is one of a task that builds.                      *)
LEMMA InterruptDisturbs ==
    ASSUME TypeInv, NEW ws \in SUBSET Workers, Interrupt(ws)
    PROVE  \A r \in Reports :
              \/ object'[r] = object[r]
              \/ \E w \in Workers : pc[w] = "build" /\ msg[w].report = r
BY DEF Interrupt

LEMMA ObjectUploaded ==
    ASSUME TypeInv, LedgerInv, OneAtATime, ChainInv, ObjectInv, NEW w \in Workers, Upload(w)
    PROVE  ObjectInv'
<1>1. PICK r : r = msg[w].report
    OBVIOUS
<1>2. /\ pc[w] = "build" /\ Busy(w) /\ msg' = msg /\ attempt' = attempt /\ file' = file
      /\ object' = [object EXCEPT ![r] = attempt[w]]
      /\ \A v \in Workers : v # w => pc'[v] = pc[v]
    BY <1>1 DEF Upload, GoTo, Busy, storeVars, TypeInv, TypeOK
<1>3. r \in Reports /\ file[r] = 0 /\ object \in [Reports -> Nat]
    BY <1>1, <1>2, RunsFileless DEF TypeInv, TypeOK, Attempting
<1>4. \A v \in Workers : v # w /\ pc[v] \in Uploaded => msg[v].report # r /\ msg[v].report \in Reports
    BY <1>1, <1>2, HoldersAreTyped DEF OneAtATime, Busy, Uploaded
<1>5. object'[r] = attempt[w] /\ \A q \in Reports : q # r => object'[q] = object[q]
    BY <1>2, <1>3
<1>6. ObjectIsOwn'
    BY <1>1, <1>2, <1>4, <1>5 DEF ObjectInv, ObjectIsOwn
<1>7. FileMatchesObject'
    BY <1>2, <1>3, <1>5 DEF ObjectInv, FileMatchesObject
<1>8. QED
    BY <1>6, <1>7 DEF ObjectInv

LEMMA ObjectRecorded ==
    ASSUME TypeInv, ObjectInv, NEW w \in Workers, RecordSuccess(w)
    PROVE  ObjectInv'
<1>1. PICK r : r = msg[w].report
    OBVIOUS
<1>2. /\ pc[w] = "finish" /\ pc'[w] = "idle" /\ object' = object /\ file \in [Reports -> Nat]
      /\ file' = [file EXCEPT ![r] = attempt[w]]
      /\ \A v \in Workers : v # w => pc'[v] = pc[v] /\ msg'[v] = msg[v] /\ attempt'[v] = attempt[v]
    BY <1>1 DEF RecordSuccess, EndTask, TypeInv, TypeOK, StoreTypeOK
<1>3. object[r] = attempt[w]
    BY <1>1, <1>2 DEF ObjectInv, ObjectIsOwn, Uploaded
<1>4. ObjectIsOwn'
    BY <1>2 DEF ObjectInv, ObjectIsOwn, Uploaded
<1>5. FileMatchesObject'
    BY <1>2, <1>3 DEF ObjectInv, FileMatchesObject
<1>6. QED
    BY <1>4, <1>5 DEF ObjectInv

LEMMA ObjectTaskFramed ==
    ASSUME TypeInv, NEW w \in Workers, TaskStep(w), ~Upload(w), ~RecordSuccess(w)
    PROVE  ObjectFrame
<1> USE DEF TypeInv, TypeOK
<1>1. \A r \in Reports :
         \/ object'[r] = object[r]
         \/ \E v \in Workers : pc[v] = "build" /\ msg[v].report = r
    <2>1. CASE UploadFails(w) \/ GenerationFails(w) \/ TaskDies(w)
        BY <2>1, InterruptDisturbs DEF UploadFails, GenerationFails, TaskDies
    <2>2. CASE ~(UploadFails(w) \/ GenerationFails(w) \/ TaskDies(w))
        BY <2>2
        DEF TaskStep, TaskLoads, LoadFails, RecordRetry, CountAttempts, RecordStarted,
            RecordRetryAttempt, Republish, RepublishFails, RecordFailure, Refresh,
            RecordCanceled, RecordSuccessFails
    <2>3. QED
        BY <2>1, <2>2
<1>2. file' = file
    BY DEF TaskStep, TaskLoads, LoadFails, RecordRetry, CountAttempts, RecordStarted,
           UploadFails, GenerationFails, RecordRetryAttempt, Republish, RepublishFails,
           RecordFailure, Refresh, RecordCanceled, RecordSuccessFails, TaskDies, storeVars
<1>3. \A v \in Workers : v # w => pc'[v] = pc[v] /\ msg'[v] = msg[v] /\ attempt'[v] = attempt[v]
    BY DEF TaskStep, TaskLoads, LoadFails, RecordRetry, CountAttempts, RecordStarted,
           UploadFails, GenerationFails, RecordRetryAttempt, Republish, RepublishFails,
           RecordFailure, Refresh, RecordCanceled, RecordSuccessFails, TaskDies, GoTo, EndTask
<1>4. pc'[w] \in Uploaded => pc[w] \in Uploaded /\ msg'[w] = msg[w] /\ attempt'[w] = attempt[w]
    BY DEF TaskStep, TaskLoads, LoadFails, RecordRetry, CountAttempts, RecordStarted,
           UploadFails, GenerationFails, RecordRetryAttempt, Republish, RepublishFails,
           RecordFailure, Refresh, RecordCanceled, RecordSuccessFails, TaskDies, GoTo, EndTask,
           Uploaded
<1>5. QED
    BY <1>1, <1>2, <1>3, <1>4 DEF ObjectFrame

LEMMA ObjectOthersFramed ==
    ASSUME TypeInv, [Next]_vars, ~ \E w \in Workers : TaskStep(w)
    PROVE  ObjectFrame
<1> USE DEF ObjectFrame, workerVars, storeVars
<1>1. ASSUME NEW r \in Reports, PostStep(r) \/ Expire(r) \/ GetReport(r) PROVE ObjectFrame
    BY <1>1
    DEF PostStep, CreateReport, Publish, PublishFails, MarkEnqueued, MarkEnqueueFailure,
        PostDies, Expire, GetReport
<1>2. ASSUME NEW d \in Deletes, DeleteStep(d) PROVE ObjectFrame
    BY <1>2
    DEF DeleteStep, CancelGone, CancelRefused, CancelLoads, CancelRevokes, CancelCommits,
        CancelDies
<1>3. ASSUME NEW m, NodeReceives(m) \/ NodeDiscards(m) \/ NodeRevokes(m) PROVE ObjectFrame
    BY <1>3 DEF NodeReceives, NodeDiscards, NodeRevokes
<1>4. ASSUME NEW w \in Workers, NEW m, TaskStarts(w, m) PROVE ObjectFrame
    BY <1>4 DEF TaskStarts, Uploaded, TypeInv, TypeOK
<1>5. CASE NodeRestarts
    BY <1>5, InterruptDisturbs DEF NodeRestarts, Uploaded
<1>6. CASE UNCHANGED vars
    BY <1>6 DEF vars
<1>7. QED
    BY <1>1, <1>2, <1>3, <1>4, <1>5, <1>6 DEF Next, NodeStep

LEMMA ObjectNext ==
    ASSUME TypeInv, HolderInv, LedgerInv, OneAtATime, ChainInv, ObjectInv, [Next]_vars
    PROVE  ObjectInv'
<1>1. ASSUME NEW w \in Workers, TaskStep(w) PROVE ObjectInv'
    BY <1>1, ObjectUploaded, ObjectRecorded, ObjectTaskFramed, ObjectFramed
<1>2. CASE ~ \E w \in Workers : TaskStep(w)
    BY <1>2, ObjectOthersFramed, ObjectFramed
<1>3. QED
    BY <1>1, <1>2

(* With exact publication no later attempt touches the object whose file is *)
(* recorded.                                                                *)
THEOREM ObjectOfTheFile ==
    ASSUME ExactPublication
    PROVE  Spec => []FileMatchesObject
<1>1. Init => ObjectInv
    BY DEF Init, StoreInit, ObjectInv, ObjectIsOwn, Uploaded, FileMatchesObject
<1>2. /\ TypeInv /\ HolderInv /\ LedgerInv /\ ChainInv /\ ObjectInv /\ [Next]_vars
      => ObjectInv'
    BY ExactIsOneAtATime, ObjectNext
<1>3. ObjectInv => FileMatchesObject
    BY DEF ObjectInv
<1>4. QED
    BY <1>1, <1>2, <1>3, TypeInvariance, HolderInvariance, LedgerInvariance,
       ChainInvariance, PTL
    DEF Spec

-----------------------------------------------------------------------------
(* Open attempts                                                            *)

(* No task is ended half-way: by an error nothing catches, by a restart of  *)
(* the node, or by the file row of an Excel workbook, which is refused      *)
(* where nothing records it.                                                *)
TasksComplete ==
    /\ Faults \cap {"handler", "node"} = {}
    /\ ExcelReports = {}

(* An open attempt belongs to a task between its start and its end.         *)
OpenIsAttempting ==
    \A r \in Reports : \A i \in 1..Len(attempts[r]) :
        attempts[r][i].status = "STARTED"
            => \E w \in Workers : pc[w] \in Attempting /\ msg[w].report = r /\ attempt[w] = i

(* A task that goes on with its attempt.                                    *)
KeepsAttempt(w) ==
    pc[w] \in Attempting => pc'[w] \in Attempting /\ msg'[w] = msg[w] /\ attempt'[w] = attempt[w]

LEMMA OpenFramed ==
    ASSUME OpenIsAttempting, attempts' = attempts, \A w \in Workers : KeepsAttempt(w)
    PROVE  OpenIsAttempting'
BY DEF OpenIsAttempting, KeepsAttempt

LEMMA OpenOpens ==
    ASSUME TypeInv, OpenIsAttempting, NEW w \in Workers, RecordStarted(w)
    PROVE  OpenIsAttempting'
<1>1. PICK r : r = msg[w].report
    OBVIOUS
<1>2. /\ r \in Reports /\ OthersKept(r)
      /\ Len(attempts[r]) \in Nat /\ Len(attempts'[r]) = Len(attempts[r]) + 1
      /\ \A i \in 1..Len(attempts[r]) : attempts'[r][i] = attempts[r][i]
      /\ attempt'[w] = Len(attempts[r]) + 1
    <2>1. OpenedOnto(w, r)
        BY <1>1, OpenedAttempt
    <2>2. QED
        BY <2>1 DEF OpenedOnto
<1>3. /\ pc[w] = "start" /\ pc'[w] = "build" /\ msg'[w] = msg[w]
      /\ \A v \in Workers : v # w => KeepsAttempt(v)
    BY DEF RecordStarted, GoTo, KeepsAttempt, TypeInv, TypeOK
<1>4. \A v \in Workers : pc[v] \in Attempting => v # w
    BY <1>3 DEF Attempting
<1>5. ASSUME NEW q \in Reports, NEW i \in 1..Len(attempts[q]), attempts'[q][i].status = "STARTED"
      PROVE  \E v \in Workers : pc'[v] \in Attempting /\ msg'[v].report = q /\ attempt'[v] = i
    <2>1. attempts'[q][i] = attempts[q][i]
        BY <1>2, <1>5 DEF OthersKept
    <2>2. PICK v \in Workers : pc[v] \in Attempting /\ msg[v].report = q /\ attempt[v] = i
        BY <1>5, <2>1 DEF OpenIsAttempting
    <2>3. QED
        BY <1>3, <1>4, <2>2 DEF KeepsAttempt
<1>6. \A q \in Reports : \A i \in 1..Len(attempts'[q]) :
         i \in 1..Len(attempts[q]) \/ (q = r /\ i = Len(attempts[r]) + 1)
    BY <1>2 DEF OthersKept
<1>7. pc'[w] \in Attempting /\ msg'[w].report = r /\ attempt'[w] = Len(attempts[r]) + 1
    BY <1>1, <1>2, <1>3 DEF Attempting
<1>8. QED
    BY <1>5, <1>6, <1>7 DEF OpenIsAttempting

LEMMA OpenCloses ==
    ASSUME TypeInv, LedgerInv, OpenIsAttempting, NEW w \in Workers,
           NEW status \in AttemptStatuses, Closes(w, status),
           \A v \in Workers : v # w => KeepsAttempt(v)
    PROVE  OpenIsAttempting'
<1>1. PICK r, i : r = msg[w].report /\ i = attempt[w]
    OBVIOUS
<1>2. /\ r \in Reports /\ OthersKept(r)
      /\ Len(attempts'[r]) = Len(attempts[r])
      /\ \A k \in 1..Len(attempts[r]) : k # i => attempts'[r][k] = attempts[r][k]
      /\ attempts'[r][i].status # "STARTED"
    BY <1>1, ClosedAttempt DEF Closes
<1>3. SUFFICES ASSUME NEW q \in Reports, NEW k \in 1..Len(attempts'[q]),
                      attempts'[q][k].status = "STARTED"
               PROVE  \E v \in Workers :
                          pc'[v] \in Attempting /\ msg'[v].report = q /\ attempt'[v] = k
    BY DEF OpenIsAttempting
<1>4. ~(q = r /\ k = i)
    BY <1>2, <1>3
<1>5. k \in 1..Len(attempts[q]) /\ attempts'[q][k] = attempts[q][k]
    BY <1>2, <1>4 DEF OthersKept
<1>6. PICK v \in Workers : pc[v] \in Attempting /\ msg[v].report = q /\ attempt[v] = k
    BY <1>3, <1>5 DEF OpenIsAttempting
<1>7. v # w
    BY <1>1, <1>4, <1>6
<1>8. QED
    BY <1>6, <1>7 DEF KeepsAttempt

LEMMA OpenTask ==
    ASSUME TasksComplete, TypeInv, LedgerInv, ChainInv, OpenIsAttempting,
           NEW w \in Workers, TaskStep(w)
    PROVE  OpenIsAttempting'
<1>1. \A v \in Workers : v # w => KeepsAttempt(v)
    BY DEF TaskStep, TaskLoads, LoadFails, RecordRetry, CountAttempts, RecordStarted, Upload,
           UploadFails, GenerationFails, RecordRetryAttempt, Republish, RepublishFails,
           RecordFailure, Refresh, RecordCanceled, RecordSuccess, RecordSuccessFails, TaskDies,
           GoTo, EndTask, KeepsAttempt, TypeInv, TypeOK
<1>2. CASE RecordStarted(w)
    BY <1>2, OpenOpens
<1>3. ASSUME NEW status \in AttemptStatuses, Closes(w, status) PROVE OpenIsAttempting'
    BY <1>1, <1>3, OpenCloses
<1>4. CASE UNCHANGED <<attempts, file>>
    <2>1. ~RecordSuccessFails(w) /\ ~TaskDies(w)
        <3>1. ASSUME pc[w] = "finish" PROVE FileRowAccepted(msg[w].report)
            BY <3>1, RunsFileless
            DEF FileRowAccepted, FileRowFits, ContentTypeLength, FileTypeWidth, TasksComplete,
                Attempting
        <3>2. QED
            BY <3>1 DEF RecordSuccessFails, TaskDies, TasksComplete
    <2>2. CASE RecordRetryAttempt(w) \/ RecordFailure(w) \/ RecordCanceled(w) \/ RecordSuccess(w)
        BY <1>3, <2>2, EndsClose
    <2>3. CASE ~(RecordRetryAttempt(w) \/ RecordFailure(w) \/ RecordCanceled(w) \/ RecordSuccess(w))
        <3>1. KeepsAttempt(w)
            BY <2>1, <2>3, <1>4
            DEF TaskStep, TaskLoads, LoadFails, RecordRetry, CountAttempts, Upload,
                UploadFails, GenerationFails, Republish, RepublishFails, Refresh, RecordStarted,
                GoTo, EndTask, KeepsAttempt, Attempting, TypeInv, TypeOK
        <3>2. QED
            BY <1>1, <1>4, <3>1, OpenFramed
    <2>4. QED
        BY <2>2, <2>3
<1>5. QED
    BY <1>2, <1>3, <1>4, TaskOnAttempts

LEMMA OpenNext ==
    ASSUME TasksComplete, TypeInv, LedgerInv, ChainInv, OpenIsAttempting, [Next]_vars
    PROVE  OpenIsAttempting'
<1>1. ASSUME NEW w \in Workers, TaskStep(w) PROVE OpenIsAttempting'
    BY <1>1, OpenTask
<1>2. CASE ~ \E w \in Workers : TaskStep(w)
    <2>1. attempts' = attempts
        BY <1>2, ChainOthersFramed DEF ChainFrame
    <2>2. \A w \in Workers : KeepsAttempt(w)
        <3>1. CASE NodeStep
            BY <3>1
            DEF NodeStep, NodeReceives, NodeDiscards, TaskStarts, NodeRevokes, NodeRestarts,
                TasksComplete, KeepsAttempt, Attempting, workerVars, TypeInv, TypeOK
        <3>2. CASE UNCHANGED workerVars
            BY <3>2 DEF KeepsAttempt, workerVars
        <3>3. ASSUME NEW r \in Reports, PostStep(r) \/ Expire(r) \/ GetReport(r)
              PROVE  UNCHANGED workerVars
            BY <3>3
            DEF PostStep, CreateReport, Publish, PublishFails, MarkEnqueued, MarkEnqueueFailure,
                PostDies, Expire, GetReport
        <3>4. ASSUME NEW d \in Deletes, DeleteStep(d) PROVE UNCHANGED workerVars
            BY <3>4
            DEF DeleteStep, CancelGone, CancelRefused, CancelLoads, CancelRevokes, CancelCommits,
                CancelDies
        <3>5. UNCHANGED vars => UNCHANGED workerVars
            BY DEF vars
        <3>6. QED
            BY <1>2, <3>1, <3>2, <3>3, <3>4, <3>5 DEF Next
    <2>3. QED
        BY <2>1, <2>2, OpenFramed
<1>3. QED
    BY <1>1, <1>2

(* With exact publication, and as long as tasks run to an end, no attempt   *)
(* stays open without a process that executes it.                           *)
THEOREM OpenAttemptsRun ==
    ASSUME ExactPublication, TasksComplete
    PROVE  Spec => []OpenAttemptIsRunning
<1>1. Init => OpenIsAttempting
    <2> SUFFICES ASSUME Init PROVE OpenIsAttempting
        OBVIOUS
    <2>1. \A r \in Reports : Len(attempts[r]) = 0
        BY DEF Init, StoreInit
    <2>2. QED
        BY <2>1 DEF OpenIsAttempting
<1>2. TypeInv /\ LedgerInv /\ ChainInv /\ OpenIsAttempting /\ [Next]_vars => OpenIsAttempting'
    BY OpenNext
<1>3. TypeInv /\ OpenIsAttempting => OpenAttemptIsRunning
    <2> SUFFICES ASSUME TypeInv, OpenIsAttempting PROVE OpenAttemptIsRunning
        OBVIOUS
    <2>1. \A r \in Reports : DOMAIN attempts[r] = 1..Len(attempts[r])
        BY LenProperties DEF TypeInv, TypeOK, StoreTypeOK
    <2>2. \A w \in Workers : pc[w] \in Attempting => Busy(w)
        BY DEF Busy, Attempting
    <2>3. QED
        BY <2>1, <2>2 DEF OpenIsAttempting, OpenAttemptIsRunning, Working
<1>4. QED
    BY <1>1, <1>2, <1>3, TypeInvariance, LedgerInvariance, ChainInvariance, PTL DEF Spec

=============================================================================
