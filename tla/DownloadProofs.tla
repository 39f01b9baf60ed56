---------------------------- MODULE DownloadProofs ----------------------------
(***************************************************************************)
(* Downloads beside the pipeline: they add no behaviour to it, so all that *)
(* is proved of the pipeline holds beside them, and what a client receives *)
(* is the file of the attempt that succeeded.                              *)
(***************************************************************************)
EXTENDS AttemptProofs, DownloadProperties, FiniteSetTheorems

(* The steps of a request that leave the pipeline alone.                    *)
ReadingStep(d) ==
    \/ Rejected(d) \/ AskLink(d) \/ AnswerLink(d) \/ Lapse(d)
    \/ \E l \in Downloads : Redeem(d, l)
    \/ RecordCompleted(d) \/ SendFile(d) \/ SendFails(d) \/ FetchFile(d) \/ DownloadDies(d)

LEMMA ReadingOnlyReads ==
    ASSUME NEW d \in Downloads, ReadingStep(d)
    PROVE  UNCHANGED vars
BY DEF ReadingStep, Rejected, AskLink, AnswerLink, Lapse, Redeem, RecordCompleted, SendFile,
       SendFails, FetchFile, Receives, DownloadDies

(* Stamping a report that is stamped changes nothing.                       *)
LEMMA GoneIsRead ==
    ASSUME TypeInv, NEW d \in Downloads, GoneToReader(d), about[d] \in Reports
    PROVE  GetReport(about[d]) \/ UNCHANGED vars
<1>1. PICK r : r = about[d]
    OBVIOUS
<1>2. row \in [Reports -> Row] /\ r \in Reports /\ row[r] \in Row
    BY <1>1 DEF TypeInv, TypeOK, StoreTypeOK
<1>3. CASE row[r].deleted
    <2>1. DeletedRow(row[r]) = row[r]
        BY <1>2, <1>3 DEF DeletedRow, Row
    <2>2. Flushed(row[r], row[r], row[r]) = row[r]
        BY <1>2 DEF Flushed, Column, Row
    <2>3. row' = row
        BY <1>1, <1>2, <2>1, <2>2 DEF GoneToReader, StampDeleted, UpdateRow
    <2>4. QED
        BY <2>3 DEF GoneToReader, vars, storeVars
<1>4. CASE ~row[r].deleted
    BY <1>1, <1>4 DEF GoneToReader, GetReport
<1>5. QED
    BY <1>3, <1>4

(* Every step is one of the pipeline, or none for it.                       *)
LEMMA DownloadStepsArePipelineSteps ==
    ASSUME TypeInv, about \in [Downloads -> Reports], [DownloadNext]_allVars
    PROVE  [Next]_vars /\ about' = about
<1>1. ASSUME NEW d \in Downloads, ReadingStep(d) PROVE [Next]_vars /\ about' = about
    BY <1>1, ReadingOnlyReads
    DEF ReadingStep, Rejected, AskLink, AnswerLink, Lapse, Redeem, RecordCompleted, SendFile,
        SendFails, FetchFile, Receives, DownloadDies
<1>2. ASSUME NEW d \in Downloads, GoneToReader(d) PROVE [Next]_vars /\ about' = about
    <2>1. about' = about
        BY <1>2 DEF GoneToReader
    <2>2. about[d] \in Reports
        OBVIOUS
    <2>3. [Next]_vars
        BY <1>2, <2>2, GoneIsRead DEF Next
    <2>4. QED
        BY <2>1, <2>3
<1>3. ASSUME NEW r \in Reports, Remove(r) PROVE [Next]_vars /\ about' = about
    BY <1>3 DEF Remove
<1>4. CASE PipelineStep
    BY <1>4 DEF PipelineStep
<1>5. CASE UNCHANGED allVars
    BY <1>5 DEF allVars, downloadVars
<1>6. QED
    BY <1>1, <1>2, <1>3, <1>4, <1>5 DEF DownloadNext, DownloadStep, ReadingStep

(* Beside downloads the pipeline behaves as without them.                   *)
THEOREM DownloadsArePipelineBehaviours == DownloadSpec => Spec
<1> DEFINE AboutReports == about \in [Downloads -> Reports]
<1>1. DownloadInit => Init /\ TypeInv /\ AboutReports
    BY TypeInit DEF DownloadInit
<1>2. TypeInv /\ AboutReports /\ [DownloadNext]_allVars
      => [Next]_vars /\ TypeInv' /\ AboutReports'
    BY DownloadStepsArePipelineSteps, TypeNext
<1>3. QED
    BY <1>1, <1>2, PTL DEF DownloadSpec, Spec

-----------------------------------------------------------------------------
(* The file of a request                                                    *)

LEMMA DownloadTypeNext ==
    ASSUME TypeInv, DownloadTypeOK, [DownloadNext]_allVars
    PROVE  DownloadTypeOK'
<1> USE DEF DownloadTypeOK
<1>1. about' = about
    BY DownloadStepsArePipelineSteps
<1>2. ASSUME NEW d \in Downloads, DownloadStep(d) PROVE DownloadTypeOK'
    <2>1. object[about[d]] \in Nat
        BY DEF TypeInv, TypeOK
    <2>2. /\ phase' \in [Downloads -> Steps \cup Answers] /\ got' \in [Downloads -> Nat]
          /\ removed' = removed /\ onS3' = onS3
        BY <1>2, <2>1
        DEF DownloadStep, Rejected, GoneToReader, AskLink, AnswerLink, Lapse, Redeem,
            RecordCompleted, SendFile, SendFails, FetchFile, Receives, DownloadDies, Turns,
            Steps, Answers
    <2>3. lapsed' \subseteq {e \in Downloads : phase'[e] \in {"grant", "link", "error"}}
        BY <1>2
        DEF DownloadStep, Rejected, GoneToReader, AskLink, AnswerLink, Lapse, Redeem,
            RecordCompleted, SendFile, SendFails, FetchFile, Receives, DownloadDies, Turns,
            Admitted, Signed
    <2>4. CASE AnswerLink(d) \/ RecordCompleted(d)
        <3>1. PICK event \in {"DOWNLOAD_REQUESTED", "DOWNLOAD_COMPLETED"} :
                 Register(about[d], event)
            BY <2>4 DEF AnswerLink, RecordCompleted
        <3>2. Append(trail[about[d]], event) \in Seq({"DOWNLOAD_REQUESTED", "DOWNLOAD_COMPLETED"})
            BY AppendProperties
        <3>3. QED
            BY <1>1, <2>2, <2>3, <3>1, <3>2 DEF Register
    <2>5. CASE ~(AnswerLink(d) \/ RecordCompleted(d))
        <3>1. trail' = trail
            BY <1>2, <2>5
            DEF DownloadStep, Rejected, GoneToReader, AskLink, Lapse, Redeem, SendFile, SendFails,
                FetchFile, Receives, DownloadDies
        <3>2. QED
            BY <1>1, <2>2, <2>3, <3>1
    <2>6. QED
        BY <2>4, <2>5
<1>3. ASSUME NEW r \in Reports, Remove(r) PROVE DownloadTypeOK'
    BY <1>3 DEF Remove
<1>4. CASE PipelineStep
    BY <1>4 DEF PipelineStep
<1>5. CASE UNCHANGED allVars
    BY <1>5 DEF allVars, downloadVars
<1>6. QED
    BY <1>2, <1>3, <1>4, <1>5 DEF DownloadNext

(* Only the request that takes a step moves, and only a file it is handed   *)
(* is received.                                                             *)
LEMMA OneRequestMoves ==
    ASSUME DownloadTypeOK, NEW d \in Downloads, DownloadStep(d)
    PROVE  \A e \in Downloads : e # d => phase'[e] = phase[e] /\ got'[e] = got[e]
BY DEF DownloadTypeOK, DownloadStep, Rejected, GoneToReader, AskLink, AnswerLink, Lapse, Redeem,
       RecordCompleted, SendFile, SendFails, FetchFile, Receives, DownloadDies, Turns

LEMMA PhasesStay ==
    ASSUME [DownloadNext]_allVars, ~ \E d \in Downloads : DownloadStep(d)
    PROVE  phase' = phase /\ got' = got /\ trail' = trail
BY DEF DownloadNext, Remove, PipelineStep, allVars, downloadVars

(* The phases of a request that was told of a file.                         *)
Filed == {"grant", "link", "serve", "send", "redirect", "file", "fetched"}

FiledHaveFile == \A d \in Downloads : phase[d] \in Filed => file[about[d]] # 0

LEMMA FiledNext ==
    ASSUME TypeInv, DownloadTypeOK, FiledHaveFile, [DownloadNext]_allVars
    PROVE  FiledHaveFile'
<1>1. [Next]_vars /\ about' = about
    BY DownloadStepsArePipelineSteps DEF DownloadTypeOK
<1>2. \A d \in Downloads : file[about[d]] # 0 => file'[about[d]] # 0
    BY <1>1, FileStays DEF DownloadTypeOK
<1>3. ASSUME NEW d \in Downloads, DownloadStep(d) PROVE FiledHaveFile'
    <2>1. \A e \in Downloads : e # d => phase'[e] = phase[e]
        BY <1>3, OneRequestMoves
    <2>2. phase'[d] \in Filed => phase[d] \in Filed \/ file[about[d]] # 0
        BY <1>3
        DEF DownloadTypeOK, DownloadStep, Rejected, GoneToReader, AskLink, AnswerLink, Lapse,
            Redeem, RecordCompleted, SendFile, SendFails, FetchFile, Receives, DownloadDies,
            Turns, Downloadable, Looked, Filed
    <2>3. QED
        BY <1>1, <1>2, <2>1, <2>2 DEF FiledHaveFile
<1>4. CASE ~ \E d \in Downloads : DownloadStep(d)
    BY <1>1, <1>2, <1>4, PhasesStay DEF FiledHaveFile
<1>5. QED
    BY <1>3, <1>4

DownloadInv == TypeInv /\ DownloadTypeOK /\ FiledHaveFile

THEOREM DownloadInvariance == DownloadSpec => []DownloadInv
<1>1. DownloadInit => DownloadInv
    <2> SUFFICES ASSUME DownloadInit PROVE DownloadInv
        OBVIOUS
    <2>1. TypeInv
        BY TypeInit DEF DownloadInit
    <2>2. DownloadTypeOK
        BY DEF DownloadInit, DownloadTypeOK, Steps
    <2>3. FiledHaveFile
        BY DEF DownloadInit, FiledHaveFile, Filed
    <2>4. QED
        BY <2>1, <2>2, <2>3 DEF DownloadInv
<1>2. DownloadInv /\ [DownloadNext]_allVars => DownloadInv'
    BY DownloadStepsArePipelineSteps, TypeNext, DownloadTypeNext, FiledNext
    DEF DownloadInv, DownloadTypeOK
<1>3. QED
    BY <1>1, <1>2, PTL DEF DownloadSpec

(* Every variable of the downloads keeps its type.                          *)
THEOREM DownloadTypeCorrect == DownloadSpec => []DownloadTypeOK
<1>1. DownloadInv => DownloadTypeOK
    BY DEF DownloadInv
<1>2. QED
    BY <1>1, DownloadInvariance, PTL

(* The holder of a link is told that the file is missing only if somebody   *)
(* removed it, or S3 answers with an error.                                 *)
THEOREM OnlyRemovedAreMissing == DownloadSpec => MissingOnlyIfRemoved
<1> DEFINE Told == \A d \in Downloads : phase[d] = "new" /\ phase'[d] = "not_found" =>
                      \/ ~Exists(about[d])
                      \/ about[d] \in removed
                      \/ onS3
<1>1. DownloadInv /\ [DownloadNext]_allVars => Told
    <2> SUFFICES ASSUME DownloadInv, [DownloadNext]_allVars PROVE Told
        OBVIOUS
    <2>1. ASSUME NEW d \in Downloads, DownloadStep(d), phase[d] = "new", phase'[d] = "not_found"
          PROVE  ~Exists(about[d]) \/ about[d] \in removed \/ onS3
        <3>1. CASE Rejected(d)
            BY <2>1, <3>1 DEF Rejected, Turns, DownloadInv, DownloadTypeOK
        <3>2. ASSUME NEW l \in Downloads, Redeem(d, l)
              PROVE  about[d] \in removed \/ onS3
            <4>1. /\ phase[l] = "link" /\ about[l] = about[d]
                  /\ FALSE \in Looked(about[d])
                BY <2>1, <3>2 DEF Redeem, Links, Turns, DownloadInv, DownloadTypeOK, Looked
            <4>2. file[about[d]] # 0
                BY <4>1 DEF DownloadInv, FiledHaveFile, Filed
            <4>3. QED
                BY <4>1, <4>2 DEF Looked
        <3>3. QED
            BY <2>1, <3>1, <3>2
            DEF DownloadStep, GoneToReader, AskLink, AnswerLink, Lapse, RecordCompleted, SendFile,
                SendFails, FetchFile, Receives, DownloadDies, Turns, DownloadInv, DownloadTypeOK
    <2>2. ASSUME NEW d \in Downloads, NEW e \in Downloads, DownloadStep(e), e # d
          PROVE  phase'[d] = phase[d]
        BY <2>2, OneRequestMoves DEF DownloadInv
    <2>3. QED
        BY <2>1, <2>2, PhasesStay
<1>2. QED
    BY <1>1, DownloadInvariance, PTL DEF DownloadSpec, MissingOnlyIfRemoved

-----------------------------------------------------------------------------
(* Outsiders                                                                *)

OutsidersStay ==
    \A d \in Outsiders : phase[d] \in {"new", "not_found", "forbidden"}

LEMMA OutsiderStep ==
    ASSUME DownloadTypeOK, OutsidersStay, NEW d \in Outsiders, DownloadStep(d)
    PROVE  Rejected(d)
BY DownloadAssumption
DEF DownloadTypeOK, OutsidersStay, DownloadStep, GoneToReader, AskLink, AnswerLink, Lapse, Redeem,
    RecordCompleted, SendFile, SendFails, FetchFile, DownloadDies, Admitted, Visible, Signed

LEMMA OutsidersNext ==
    ASSUME DownloadInv, OutsidersStay, [DownloadNext]_allVars
    PROVE  OutsidersStay'
<1>1. ASSUME NEW d \in Outsiders, NEW e \in Downloads, DownloadStep(e)
      PROVE  phase'[d] \in {"new", "not_found", "forbidden"}
    <2>1. CASE e = d
        BY <1>1, <2>1, OutsiderStep, DownloadAssumption
        DEF Rejected, Turns, DownloadInv, DownloadTypeOK
    <2>2. CASE e # d
        BY <1>1, <2>2, OneRequestMoves, DownloadAssumption DEF DownloadInv, OutsidersStay
    <2>3. QED
        BY <2>1, <2>2
<1>2. QED
    BY <1>1, PhasesStay DEF OutsidersStay

(* Nobody learns of a report, or changes it, who may not see it.            *)
THEOREM OutsidersLeaveNoTrace == DownloadSpec => OutsiderLeavesNoTrace
<1> DEFINE NoTrace == \A d \in Outsiders : phase'[d] # phase[d] =>
                         /\ phase'[d] \in {"not_found", "forbidden"}
                         /\ UNCHANGED <<storeVars, trail>>
<1>1. DownloadInit => OutsidersStay
    BY DownloadAssumption DEF DownloadInit, OutsidersStay
<1>2. DownloadInv /\ OutsidersStay /\ [DownloadNext]_allVars => OutsidersStay'
    BY OutsidersNext
<1>3. DownloadInv /\ OutsidersStay /\ [DownloadNext]_allVars => NoTrace
    <2> SUFFICES ASSUME DownloadInv, OutsidersStay, [DownloadNext]_allVars,
                        NEW d \in Outsiders, phase'[d] # phase[d]
                 PROVE  /\ phase'[d] \in {"not_found", "forbidden"}
                        /\ UNCHANGED <<storeVars, trail>>
        OBVIOUS
    <2>1. d \in Downloads
        BY DownloadAssumption
    <2>2. DownloadStep(d)
        BY <2>1, OneRequestMoves, PhasesStay DEF DownloadInv
    <2>3. Rejected(d)
        BY <2>2, OutsiderStep DEF DownloadInv
    <2>4. QED
        BY <2>1, <2>3 DEF Rejected, Turns, vars, DownloadInv, DownloadTypeOK
<1>4. QED
    BY <1>1, <1>2, <1>3, DownloadInvariance, PTL DEF DownloadSpec, OutsiderLeavesNoTrace

-----------------------------------------------------------------------------
(* The trail of downloads                                                   *)

(* Whoever has a link, or was let in with one, left a request in the trail. *)
LinksAreRecorded ==
    \A d \in Downloads : phase[d] \in {"link", "serve"} =>
        \E i \in DOMAIN trail[about[d]] : trail[about[d]][i] = "DOWNLOAD_REQUESTED"

TrailInv == LinksAreRecorded /\ CompletedFollowsRequest

(* What a registration does to the trail of a report.                       *)
LEMMA RegisteredEvent ==
    ASSUME DownloadTypeOK, NEW r \in Reports, NEW event, Register(r, event),
           event \in {"DOWNLOAD_REQUESTED", "DOWNLOAD_COMPLETED"}
    PROVE  \E n \in Nat :
              /\ DOMAIN trail[r] = 1..n /\ DOMAIN trail'[r] = 1..(n + 1)
              /\ \A i \in 1..n : trail'[r][i] = trail[r][i]
              /\ trail'[r][n + 1] = event
              /\ \A q \in Reports : q # r => trail'[q] = trail[q]
<1>1. trail[r] \in Seq({"DOWNLOAD_REQUESTED", "DOWNLOAD_COMPLETED"})
    BY DEF DownloadTypeOK
<1>2. trail'[r] = Append(trail[r], event) /\ \A q \in Reports : q # r => trail'[q] = trail[q]
    BY DEF DownloadTypeOK, Register
<1>3. QED
    BY <1>1, <1>2, AppendProperties, LenProperties

LEMMA TrailNext ==
    ASSUME TypeInv, DownloadTypeOK, TrailInv, [DownloadNext]_allVars
    PROVE  TrailInv'
<1>1. about' = about
    BY DownloadStepsArePipelineSteps DEF DownloadTypeOK
<1>2. ASSUME NEW d \in Downloads, AnswerLink(d) \/ RecordCompleted(d) PROVE TrailInv'
    <2>1. PICK r : r = about[d]
        OBVIOUS
    <2>2. r \in Reports
        BY <2>1 DEF DownloadTypeOK
    <2>3. PICK event : /\ Register(r, event)
                       /\ \/ event = "DOWNLOAD_REQUESTED"
                          \/ event = "DOWNLOAD_COMPLETED" /\ phase[d] = "serve" /\ phase'[d] = "send"
        BY <1>2, <2>1 DEF AnswerLink, RecordCompleted, Turns, DownloadTypeOK
    <2>4. PICK n \in Nat :
              /\ DOMAIN trail[r] = 1..n /\ DOMAIN trail'[r] = 1..(n + 1)
              /\ \A i \in 1..n : trail'[r][i] = trail[r][i]
              /\ trail'[r][n + 1] = event
              /\ \A q \in Reports : q # r => trail'[q] = trail[q]
        BY <2>2, <2>3, RegisteredEvent
    <2>5. \A e \in Downloads : e # d => phase'[e] = phase[e]
        BY <1>2, OneRequestMoves DEF DownloadStep
    <2>6. \A q \in Reports :
             (\E i \in DOMAIN trail[q] : trail[q][i] = "DOWNLOAD_REQUESTED")
             => \E i \in DOMAIN trail'[q] : trail'[q][i] = "DOWNLOAD_REQUESTED"
        BY <2>4
    <2>7. event = "DOWNLOAD_COMPLETED"
          => \E i \in 1..n : trail[r][i] = "DOWNLOAD_REQUESTED"
        BY <2>1, <2>3, <2>4 DEF TrailInv, LinksAreRecorded
    <2>8. phase'[d] \in {"link", "serve"}
          => \E i \in DOMAIN trail'[r] : trail'[r][i] = "DOWNLOAD_REQUESTED"
        <3>1. n + 1 \in DOMAIN trail'[r]
            BY <2>4
        <3>2. phase'[d] \in {"link", "serve"} => event = "DOWNLOAD_REQUESTED"
            BY <2>3
        <3>3. QED
            BY <2>4, <3>1, <3>2
    <2>9. LinksAreRecorded'
        <3> SUFFICES ASSUME NEW e \in Downloads, phase'[e] \in {"link", "serve"}
                     PROVE  \E i \in DOMAIN trail'[about[e]] :
                                trail'[about[e]][i] = "DOWNLOAD_REQUESTED"
            BY <1>1 DEF LinksAreRecorded
        <3>1. CASE e = d
            BY <2>1, <2>8, <3>1
        <3>2. CASE e # d
            BY <2>5, <2>6, <3>2 DEF TrailInv, LinksAreRecorded, DownloadTypeOK
        <3>3. QED
            BY <3>1, <3>2
    <2>10. CompletedFollowsRequest'
        <3> SUFFICES ASSUME NEW q \in Reports, NEW i \in DOMAIN trail'[q],
                            trail'[q][i] = "DOWNLOAD_COMPLETED"
                     PROVE  \E j \in DOMAIN trail'[q] : trail'[q][j] = "DOWNLOAD_REQUESTED" /\ j < i
            BY DEF CompletedFollowsRequest, Registrations
        <3>1. \A k \in DOMAIN trail[q] : trail[q][k] = "DOWNLOAD_COMPLETED"
                  => \E j \in DOMAIN trail[q] : trail[q][j] = "DOWNLOAD_REQUESTED" /\ j < k
            BY DEF TrailInv, CompletedFollowsRequest, Registrations
        <3>2. CASE q # r
            BY <2>4, <3>1, <3>2
        <3>3. CASE q = r /\ i \in 1..n
            <4>1. PICK j \in 1..n : trail[r][j] = "DOWNLOAD_REQUESTED" /\ j < i
                BY <2>4, <3>1, <3>3
            <4>2. QED
                BY <2>4, <3>3, <4>1
        <3>4. CASE q = r /\ i = n + 1
            <4>1. PICK j \in 1..n : trail[r][j] = "DOWNLOAD_REQUESTED"
                BY <2>4, <2>7, <3>4
            <4>2. j < i /\ j \in 1..(n + 1)
                BY <3>4, <4>1
            <4>3. QED
                BY <2>4, <3>4, <4>1, <4>2
        <3>5. QED
            BY <2>4, <3>2, <3>3, <3>4
    <2>11. QED
        BY <2>9, <2>10 DEF TrailInv
<1>3. ASSUME NEW d \in Downloads, DownloadStep(d), ~(AnswerLink(d) \/ RecordCompleted(d))
      PROVE  TrailInv'
    <2>1. trail' = trail
        BY <1>3
        DEF DownloadStep, Rejected, GoneToReader, AskLink, Lapse, Redeem, SendFile, SendFails,
            FetchFile, Receives, DownloadDies
    <2>2. \A e \in Downloads : e # d => phase'[e] = phase[e]
        BY <1>3, OneRequestMoves
    <2>3. ASSUME phase'[d] \in {"link", "serve"}
          PROVE  \/ phase[d] \in {"link", "serve"}
                 \/ \E l \in Downloads : phase[l] = "link" /\ about[l] = about[d]
        <3>1. CASE \E l \in Downloads : Redeem(d, l)
            BY <2>3, <3>1 DEF Redeem, Links, Turns, DownloadTypeOK
        <3>2. CASE ~ \E l \in Downloads : Redeem(d, l)
            BY <1>3, <2>3, <3>2
            DEF DownloadTypeOK, DownloadStep, Rejected, GoneToReader, AskLink, Lapse, SendFile,
                SendFails, FetchFile, Receives, DownloadDies, Turns
        <3>3. QED
            BY <3>1, <3>2
    <2>4. LinksAreRecorded'
        BY <1>1, <2>1, <2>2, <2>3 DEF TrailInv, LinksAreRecorded
    <2>5. QED
        BY <2>1, <2>4 DEF TrailInv, CompletedFollowsRequest, Registrations
<1>4. CASE ~ \E d \in Downloads : DownloadStep(d)
    BY <1>1, <1>4, PhasesStay
    DEF TrailInv, LinksAreRecorded, CompletedFollowsRequest, Registrations
<1>5. QED
    BY <1>2, <1>3, <1>4

(* A completed download was requested before.                               *)
THEOREM CompletedWereRequested == DownloadSpec => []CompletedFollowsRequest
<1>1. DownloadInit => TrailInv
    BY DEF DownloadInit, TrailInv, LinksAreRecorded, CompletedFollowsRequest, Registrations
<1>2. DownloadInv /\ TrailInv /\ [DownloadNext]_allVars => TrailInv'
    BY TrailNext DEF DownloadInv
<1>3. TrailInv => CompletedFollowsRequest
    BY DEF TrailInv
<1>4. QED
    BY <1>1, <1>2, <1>3, DownloadInvariance, PTL DEF DownloadSpec

-----------------------------------------------------------------------------
(* What a client receives                                                   *)

GotTheFile ==
    \A d \in Downloads : got[d] # 0 \/ phase[d] \in {"file", "fetched"} =>
        file[about[d]] # 0 /\ got[d] = file[about[d]]

LEMMA GotNext ==
    ASSUME DownloadInv, GotTheFile, FileMatchesObject, [DownloadNext]_allVars
    PROVE  GotTheFile'
<1> USE DEF DownloadInv
<1>1. [Next]_vars /\ about' = about
    BY DownloadStepsArePipelineSteps DEF DownloadTypeOK
<1>2. \A d \in Downloads : file[about[d]] # 0 => file'[about[d]] = file[about[d]]
    BY <1>1, FileStays DEF DownloadTypeOK
<1>3. ASSUME NEW d \in Downloads, DownloadStep(d) PROVE GotTheFile'
    <2>1. \A e \in Downloads : e # d => phase'[e] = phase[e] /\ got'[e] = got[e]
        BY <1>3, OneRequestMoves
    <2>2. CASE SendFile(d) \/ FetchFile(d)
        <3>1. got'[d] = object[about[d]] /\ phase[d] \in {"send", "redirect"}
            BY <2>2 DEF SendFile, FetchFile, Receives, DownloadTypeOK
        <3>2. file[about[d]] # 0
            BY <3>1 DEF FiledHaveFile, Filed
        <3>3. got'[d] = file[about[d]]
            BY <3>1, <3>2 DEF FileMatchesObject, DownloadTypeOK
        <3>4. QED
            BY <1>1, <1>2, <2>1, <3>2, <3>3 DEF GotTheFile
    <2>3. CASE ~(SendFile(d) \/ FetchFile(d))
        <3>1. got' = got /\ (phase'[d] \in {"file", "fetched"} => phase'[d] = phase[d])
            BY <1>3, <2>3
            DEF DownloadTypeOK, DownloadStep, Rejected, GoneToReader, AskLink, AnswerLink, Lapse,
                Redeem, RecordCompleted, SendFails, DownloadDies, Turns
        <3>2. QED
            BY <1>1, <1>2, <2>1, <3>1 DEF GotTheFile
    <2>4. QED
        BY <2>2, <2>3
<1>4. CASE ~ \E d \in Downloads : DownloadStep(d)
    BY <1>1, <1>2, <1>4, PhasesStay DEF GotTheFile
<1>5. QED
    BY <1>3, <1>4

(* With exact publication every file a client receives is whole, recorded   *)
(* and that of the attempt that succeeded.                                  *)
THEOREM DeliveriesAreSuccesses ==
    ASSUME ExactPublication
    PROVE  DownloadSpec => []DeliveredIsTheSuccess
<1>1. DownloadInit => GotTheFile
    BY DEF DownloadInit, GotTheFile
<1>2. DownloadInv /\ GotTheFile /\ FileMatchesObject /\ [DownloadNext]_allVars => GotTheFile'
    BY GotNext
<1>3. DownloadInv /\ LedgerInv /\ GotTheFile => DeliveredIsTheSuccess
    <2> SUFFICES ASSUME DownloadInv, LedgerInv, GotTheFile, NEW d \in Downloads,
                        got[d] # 0 \/ phase[d] \in {"file", "fetched"}
                 PROVE  /\ got[d] \in DOMAIN attempts[about[d]]
                        /\ got[d] = file[about[d]]
                        /\ attempts[about[d]][got[d]].status = "SUCCESS"
        BY DEF DeliveredIsTheSuccess
    <2>1. about[d] \in Reports /\ file[about[d]] # 0 /\ got[d] = file[about[d]]
        BY DEF GotTheFile, DownloadInv, DownloadTypeOK
    <2>2. QED
        BY <2>1 DEF LedgerInv, FileOfAnAttempt, FileOfTheSuccess
<1>4. QED
    BY <1>1, <1>2, <1>3, DownloadInvariance, DownloadsArePipelineBehaviours, LedgerInvariance,
       ObjectOfTheFile, PTL
    DEF DownloadSpec

-----------------------------------------------------------------------------
(* The count of completed downloads                                         *)

Completed(r) == Registrations(r, "DOWNLOAD_COMPLETED")

(* The requests that have recorded a delivery and not failed it, and those  *)
(* that may have.                                                           *)
Delivering == {"send", "file"}
Touched == {"send", "file", "error"}

(* Only finitely many requests have been sent.                              *)
FinitelyMany == IsFiniteSet({d \in Downloads : phase[d] # "new"})

(* Between its record and the file a request is counted already.            *)
Counted(r) ==
    /\ Cardinality(In(r, Delivering)) <= Cardinality(Completed(r))
    /\ Cardinality(Completed(r)) <= Cardinality(In(r, Touched))

CountInv == FinitelyMany /\ \A r \in Reports : Counted(r)

(* One request of r turns from a phase to another.                          *)
LEMMA FiniteRequests ==
    ASSUME FinitelyMany, NEW r, NEW phases, "new" \notin phases
    PROVE  IsFiniteSet(In(r, phases)) /\ Cardinality(In(r, phases)) \in Nat
<1>1. In(r, phases) \subseteq {d \in Downloads : phase[d] # "new"}
    BY DEF In
<1>2. IsFiniteSet(In(r, phases))
    BY <1>1, FS_Subset DEF FinitelyMany
<1>3. QED
    BY <1>2, FS_CardinalityType

LEMMA StillFinite ==
    ASSUME DownloadTypeOK, FinitelyMany, NEW d \in Downloads,
           \A e \in Downloads : e # d => phase'[e] = phase[e]
    PROVE  FinitelyMany'
<1> DEFINE Sent == {e \in Downloads : phase[e] # "new"}
<1>1. IsFiniteSet(Sent \cup {d})
    BY FS_AddElement DEF FinitelyMany
<1>2. {e \in Downloads : phase'[e] # "new"} \subseteq Sent \cup {d}
    OBVIOUS
<1>3. QED
    BY <1>1, <1>2, FS_Subset DEF FinitelyMany

LEMMA CompletedFinite ==
    ASSUME DownloadTypeOK, NEW r \in Reports
    PROVE  IsFiniteSet(Completed(r)) /\ Cardinality(Completed(r)) \in Nat
<1>1. PICK n \in Nat : DOMAIN trail[r] = 1..n
    BY LenProperties DEF DownloadTypeOK
<1>2. IsFiniteSet(1..n)
    BY FS_Interval
<1>3. Completed(r) \subseteq 1..n
    BY <1>1 DEF Completed, Registrations
<1>4. IsFiniteSet(Completed(r))
    BY <1>2, <1>3, FS_Subset
<1>5. QED
    BY <1>4, FS_CardinalityType

(* A record adds one to the count of its report.                            *)
LEMMA CompletedAfter ==
    ASSUME DownloadTypeOK, NEW r \in Reports, NEW event, Register(r, event),
           event \in {"DOWNLOAD_REQUESTED", "DOWNLOAD_COMPLETED"}
    PROVE  /\ \A q \in Reports : q # r => Completed(q)' = Completed(q)
           /\ event = "DOWNLOAD_REQUESTED" => Completed(r)' = Completed(r)
           /\ event = "DOWNLOAD_COMPLETED" =>
                Cardinality(Completed(r)') = Cardinality(Completed(r)) + 1
<1>1. PICK n \in Nat :
          /\ DOMAIN trail[r] = 1..n /\ DOMAIN trail'[r] = 1..(n + 1)
          /\ \A i \in 1..n : trail'[r][i] = trail[r][i]
          /\ trail'[r][n + 1] = event
          /\ \A q \in Reports : q # r => trail'[q] = trail[q]
    BY RegisteredEvent
<1>2. \A q \in Reports : q # r => Completed(q)' = Completed(q)
    BY <1>1 DEF Completed, Registrations
<1>3. /\ \A i \in 1..(n + 1) : i \in 1..n \/ i = n + 1
      /\ \A i \in 1..n : i \in 1..(n + 1)
      /\ n + 1 \in 1..(n + 1) /\ n + 1 \notin 1..n
    OBVIOUS
<1>4. event = "DOWNLOAD_REQUESTED" => Completed(r)' = Completed(r)
    BY <1>1, <1>3 DEF Completed, Registrations
<1>5. ASSUME event = "DOWNLOAD_COMPLETED"
      PROVE  Cardinality(Completed(r)') = Cardinality(Completed(r)) + 1
    <2>1. Completed(r)' = Completed(r) \cup {n + 1} /\ n + 1 \notin Completed(r)
        BY <1>1, <1>3, <1>5 DEF Completed, Registrations
    <2>2. QED
        BY <2>1, CompletedFinite, FS_AddElement
<1>6. QED
    BY <1>2, <1>4, <1>5

(* A request that turns from one phase to another within or without a set   *)
(* of phases.                                                               *)
LEMMA OneTurns ==
    ASSUME DownloadTypeOK, FinitelyMany, about' = about, NEW d \in Downloads,
           \A e \in Downloads : e # d => phase'[e] = phase[e],
           NEW phases, "new" \notin phases
    PROVE  /\ \A q \in Reports : q # about[d] => In(q, phases)' = In(q, phases)
           /\ (phase[d] \in phases <=> phase'[d] \in phases) =>
                In(about[d], phases)' = In(about[d], phases)
           /\ phase[d] \notin phases /\ phase'[d] \in phases =>
                Cardinality(In(about[d], phases)') = Cardinality(In(about[d], phases)) + 1
           /\ phase[d] \in phases /\ phase'[d] \notin phases =>
                Cardinality(In(about[d], phases)') = Cardinality(In(about[d], phases)) - 1
<1> DEFINE S == In(about[d], phases)
<1>1. IsFiniteSet(S)
    BY FiniteRequests
<1>2. \A q \in Reports : q # about[d] => In(q, phases)' = In(q, phases)
    BY DEF In
<1>3. (phase[d] \in phases <=> phase'[d] \in phases) => S' = S
    BY DEF In
<1>4. ASSUME phase[d] \notin phases, phase'[d] \in phases
      PROVE  Cardinality(S') = Cardinality(S) + 1
    <2>1. S' = S \cup {d} /\ d \notin S
        BY <1>4 DEF In
    <2>2. QED
        BY <1>1, <2>1, FS_AddElement
<1>5. ASSUME phase[d] \in phases, phase'[d] \notin phases
      PROVE  Cardinality(S') = Cardinality(S) - 1
    <2>1. S' = S \ {d} /\ d \in S
        BY <1>5 DEF In
    <2>2. QED
        BY <1>1, <2>1, FS_RemoveElement
<1>6. QED
    BY <1>2, <1>3, <1>4, <1>5

LEMMA RecordCounted ==
    ASSUME DownloadTypeOK, CountInv, about' = about, NEW d \in Downloads, RecordCompleted(d)
    PROVE  CountInv'
<1> DEFINE r == about[d]
<1>1. /\ r \in Reports /\ phase[d] = "serve" /\ phase'[d] = "send"
      /\ Register(r, "DOWNLOAD_COMPLETED")
      /\ \A e \in Downloads : e # d => phase'[e] = phase[e]
    BY DEF RecordCompleted, Turns, DownloadTypeOK
<1>2. FinitelyMany /\ FinitelyMany'
    BY <1>1, StillFinite DEF CountInv
<1>3. /\ \A q \in Reports : q # r => Completed(q)' = Completed(q)
      /\ Cardinality(Completed(r)') = Cardinality(Completed(r)) + 1
    BY <1>1, CompletedAfter
<1>4. /\ \A q \in Reports : q # r =>
            In(q, Delivering)' = In(q, Delivering) /\ In(q, Touched)' = In(q, Touched)
      /\ Cardinality(In(r, Delivering)') = Cardinality(In(r, Delivering)) + 1
      /\ Cardinality(In(r, Touched)') = Cardinality(In(r, Touched)) + 1
    BY <1>1, <1>2, OneTurns DEF Delivering, Touched
<1>5. ASSUME NEW q \in Reports, q # r PROVE Counted(q)'
    <2>1. Counted(q)
        BY DEF CountInv
    <2>2. QED
        BY <1>3, <1>4, <1>5, <2>1 DEF Counted
<1>6. Counted(r)'
    <2>1. /\ Cardinality(In(r, Delivering)) \in Nat /\ Cardinality(In(r, Touched)) \in Nat
          /\ Cardinality(Completed(r)) \in Nat
        BY <1>1, <1>2, FiniteRequests, CompletedFinite DEF Delivering, Touched
    <2>2. Counted(r)
        BY <1>1 DEF CountInv
    <2>3. QED
        BY <1>3, <1>4, <2>1, <2>2 DEF Counted
<1>7. QED
    BY <1>2, <1>5, <1>6 DEF CountInv

(* Every other step records no delivery, begins none, and lets no request   *)
(* that may have recorded one out of the count.                             *)
LEMMA OthersCounted ==
    ASSUME DownloadTypeOK, CountInv, about' = about, NEW d \in Downloads, DownloadStep(d),
           ~RecordCompleted(d)
    PROVE  CountInv'
<1> DEFINE r == about[d]
<1>1. r \in Reports /\ \A e \in Downloads : e # d => phase'[e] = phase[e]
    BY OneRequestMoves DEF DownloadTypeOK
<1>2. FinitelyMany /\ FinitelyMany'
    BY <1>1, StillFinite DEF CountInv
<1>3. \A q \in Reports : Completed(q)' = Completed(q)
    <2>1. CASE AnswerLink(d)
        BY <1>1, <2>1, CompletedAfter DEF AnswerLink
    <2>2. CASE trail' = trail
        BY <2>2 DEF Completed, Registrations
    <2>3. QED
        BY <2>1, <2>2
        DEF DownloadStep, Rejected, GoneToReader, AskLink, Lapse, Redeem, SendFile, SendFails,
            FetchFile, Receives, DownloadDies
<1>4. /\ phase'[d] \in Delivering => phase[d] \in Delivering
      /\ phase[d] \in Touched => phase'[d] \in Touched
    <2>1. CASE Rejected(d) \/ GoneToReader(d) \/ AskLink(d) \/ AnswerLink(d) \/ Lapse(d)
        BY <2>1 DEF Rejected, GoneToReader, AskLink, AnswerLink, Lapse, Signed, Admitted, Turns,
                    Delivering, Touched, DownloadTypeOK
    <2>2. CASE \E l \in Downloads : Redeem(d, l)
        BY <2>2 DEF Redeem, Admitted, Turns, Delivering, Touched, DownloadTypeOK
    <2>3. CASE SendFile(d) \/ SendFails(d) \/ FetchFile(d) \/ DownloadDies(d)
        BY <2>3 DEF SendFile, SendFails, FetchFile, Receives, DownloadDies, Turns, Delivering,
                    Touched, DownloadTypeOK
    <2>4. QED
        BY <2>1, <2>2, <2>3 DEF DownloadStep
<1>5. ASSUME NEW q \in Reports
      PROVE  /\ Cardinality(In(q, Delivering)') <= Cardinality(In(q, Delivering))
             /\ Cardinality(In(q, Touched)) <= Cardinality(In(q, Touched)')
    <2>1. /\ Cardinality(In(q, Delivering)) \in Nat /\ Cardinality(In(q, Touched)) \in Nat
        BY <1>2, FiniteRequests DEF Delivering, Touched
    <2>2. CASE q # r
        <3>1. In(q, Delivering)' = In(q, Delivering) /\ In(q, Touched)' = In(q, Touched)
            BY <1>1, <1>2, <2>2, OneTurns DEF Delivering, Touched
        <3>2. QED
            BY <2>1, <3>1
    <2>3. CASE q = r
        <3>1. \/ In(r, Delivering)' = In(r, Delivering)
              \/ Cardinality(In(r, Delivering)') = Cardinality(In(r, Delivering)) - 1
            BY <1>1, <1>2, <1>4, OneTurns DEF Delivering
        <3>2. \/ In(r, Touched)' = In(r, Touched)
              \/ Cardinality(In(r, Touched)') = Cardinality(In(r, Touched)) + 1
            BY <1>1, <1>2, <1>4, OneTurns DEF Touched
        <3>3. QED
            BY <2>1, <2>3, <3>1, <3>2
    <2>4. QED
        BY <2>2, <2>3
<1>6. ASSUME NEW q \in Reports PROVE Counted(q)'
    <2>1. Counted(q) /\ Cardinality(Completed(q)) \in Nat
        BY CompletedFinite DEF CountInv
    <2>2. /\ Cardinality(In(q, Delivering)) \in Nat /\ Cardinality(In(q, Touched)) \in Nat
          /\ Cardinality(In(q, Delivering)') \in Nat /\ Cardinality(In(q, Touched)') \in Nat
        <3>1. "new" \notin Delivering /\ "new" \notin Touched
            BY DEF Delivering, Touched
        <3>2. /\ Cardinality(In(q, Delivering)) \in Nat /\ Cardinality(In(q, Touched)) \in Nat
            BY <1>2, <3>1, FiniteRequests
        <3>3. IsFiniteSet(In(q, Delivering)') /\ IsFiniteSet(In(q, Touched)')
            <4>1. /\ In(q, Delivering)' \subseteq {e \in Downloads : phase'[e] # "new"}
                  /\ In(q, Touched)' \subseteq {e \in Downloads : phase'[e] # "new"}
                BY DEF In, Delivering, Touched
            <4>2. QED
                BY <1>2, <4>1, FS_Subset DEF FinitelyMany
        <3>4. QED
            BY <3>2, <3>3, FS_CardinalityType
    <2>3. QED
        BY <1>3, <1>5, <2>1, <2>2 DEF Counted
<1>7. QED
    BY <1>2, <1>6 DEF CountInv

LEMMA CountNext ==
    ASSUME DownloadInv, CountInv, [DownloadNext]_allVars
    PROVE  CountInv'
<1>1. about' = about /\ DownloadTypeOK
    BY DownloadStepsArePipelineSteps DEF DownloadInv, DownloadTypeOK
<1>2. ASSUME NEW d \in Downloads, DownloadStep(d) PROVE CountInv'
    BY <1>1, <1>2, RecordCounted, OthersCounted
<1>3. CASE ~ \E d \in Downloads : DownloadStep(d)
    BY <1>1, <1>3, PhasesStay
    DEF CountInv, FinitelyMany, Counted, Completed, Registrations, In
<1>4. QED
    BY <1>2, <1>3

(* Every file delivered from local storage has a DOWNLOAD_COMPLETED of its  *)
(* own, and there are no more of them than requests that deliver one or     *)
(* ended in an error: register_download_event before the FileResponse of    *)
(* download_report, for any number of requests in any order.                *)
THEOREM EveryDeliveryIsRecorded == DownloadSpec => []DeliveriesAreRecorded
<1>1. DownloadInit => CountInv
    <2> SUFFICES ASSUME DownloadInit PROVE CountInv
        OBVIOUS
    <2>1. \A d \in Downloads : phase[d] = "new"
        BY DEF DownloadInit
    <2>2. FinitelyMany
        <3>1. {d \in Downloads : phase[d] # "new"} = {}
            BY <2>1
        <3>2. QED
            BY <3>1, FS_EmptySet DEF FinitelyMany
    <2>3. \A r \in Reports : In(r, Delivering) = {} /\ In(r, Touched) = {}
        BY <2>1 DEF In, Delivering, Touched
    <2>4. \A r \in Reports : Completed(r) = {}
        <3>1. \A r \in Reports : trail[r] = <<>>
            BY DEF DownloadInit
        <3>2. DOMAIN <<>> = {}
            OBVIOUS
        <3>3. QED
            BY <3>1, <3>2 DEF Completed, Registrations
    <2>5. QED
        BY <2>2, <2>3, <2>4, FS_EmptySet DEF CountInv, Counted
<1>2. DownloadInv /\ CountInv /\ [DownloadNext]_allVars => CountInv'
    BY CountNext
<1>3. DownloadInv /\ CountInv => DeliveriesAreRecorded
    <2> SUFFICES ASSUME DownloadInv, CountInv, NEW r \in Reports
                 PROVE  /\ Cardinality(In(r, {"file"})) <= Cardinality(Completed(r))
                        /\ Cardinality(Completed(r)) <= Cardinality(In(r, Touched))
        BY DEF DeliveriesAreRecorded, Completed, Touched
    <2>1. IsFiniteSet(In(r, Delivering)) /\ Cardinality(In(r, Delivering)) \in Nat
        <3>1. "new" \notin Delivering
            BY DEF Delivering
        <3>2. QED
            BY <3>1, FiniteRequests DEF CountInv
    <2>2. Cardinality(In(r, {"file"})) <= Cardinality(In(r, Delivering))
        <3>1. In(r, {"file"}) \subseteq In(r, Delivering)
            BY DEF In, Delivering
        <3>2. QED
            BY <2>1, <3>1, FS_Subset
    <2>3. Cardinality(In(r, {"file"})) \in Nat /\ Cardinality(Completed(r)) \in Nat
        <3>1. DownloadTypeOK
            BY DEF DownloadInv
        <3>2. QED
            BY <3>1, FiniteRequests, CompletedFinite DEF CountInv
    <2>4. Counted(r)
        BY DEF CountInv
    <2>5. QED
        BY <2>1, <2>2, <2>3, <2>4 DEF Counted
<1>4. QED
    BY <1>1, <1>2, <1>3, DownloadInvariance, PTL DEF DownloadSpec

=============================================================================
