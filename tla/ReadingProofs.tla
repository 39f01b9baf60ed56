---------------------------- MODULE ReadingProofs -----------------------------
(***************************************************************************)
(* Details read beside the pipeline, for any value of the constants: a     *)
(* detail never lags behind the status it shows.                           *)
(***************************************************************************)
EXTENDS TrailProofs, ReportReading

-----------------------------------------------------------------------------
(* What a reader has loaded                                                 *)

Details == [status: Statuses \cup {"ABSENT"}, deleted: BOOLEAN, file: Nat,
            events: Seq(EventTypes), attempts: Seq(Attempt)]

(* Who is loading a detail loads one of a registered report.                *)
LoadedInv ==
    /\ of \in [Readers -> Reports]
    /\ left \in [Readers -> SUBSET Queries]
    /\ reader \in [Readers -> {"new", "load", "shown", "gone", "not_found"}]
    /\ detail \in [Readers -> Details]
    /\ \A g \in Readers :
          /\ reader[g] = "load" => Exists(of[g])
          /\ reader[g] # "load" => left[g] = {}

LEMMA ReadingStepsArePipelineSteps ==
    ASSUME TypeInv, LoadedInv, [ReadingNext]_readVars
    PROVE  [Next]_vars /\ of' = of
<1>1. ASSUME NEW g \in Readers, ReadingStep(g), ~Refuse(g) PROVE UNCHANGED vars /\ of' = of
    BY <1>1 DEF ReadingStep, NotFound, ReadRow, LoadFile, LoadEvents, LoadAttempts, Loads, Show
<1>2. ASSUME NEW g \in Readers, Refuse(g) PROVE [Next]_vars /\ of' = of
    <2>1. PICK r \in Reports : r = of[g]
        BY DEF LoadedInv
    <2>2. row \in [Reports -> Row] /\ row[r] \in Row
        BY DEF TypeInv, TypeOK, StoreTypeOK
    <2>3. CASE UNCHANGED row
        BY <1>2, <2>3 DEF Refuse, vars, storeVars
    <2>4. ASSUME r \in expired, StampDeleted(r), row[r].deleted PROVE UNCHANGED row
        <3>1. DeletedRow(row[r]) = row[r]
            BY <2>2, <2>4 DEF DeletedRow, Row
        <3>2. Flushed(row[r], row[r], row[r]) = row[r]
            BY <2>2 DEF Flushed, Column, Row
        <3>3. QED
            BY <2>2, <2>4, <3>1, <3>2 DEF StampDeleted, UpdateRow
    <2>5. CASE r \in expired /\ StampDeleted(r) /\ ~row[r].deleted
        <3>1. Exists(r) /\ Gone(r)
            BY <1>2, <2>1, <2>5 DEF Refuse, LoadedInv, Gone
        <3>2. GetReport(r) /\ of' = of
            BY <1>2, <2>5, <3>1 DEF Refuse, GetReport
        <3>3. QED
            BY <3>2 DEF Next
    <2>6. QED
        BY <1>2, <2>1, <2>3, <2>4, <2>5 DEF Refuse
<1>3. QED
    BY <1>1, <1>2 DEF ReadingNext, readVars, readingVars

LEMMA LoadedNext ==
    ASSUME TypeInv, LoadedInv, [ReadingNext]_readVars
    PROVE  LoadedInv'
<1>1. [Next]_vars /\ of' = of
    BY ReadingStepsArePipelineSteps
<1>2. \A r \in Reports : Exists(r) => Exists(r)'
    BY <1>1, ExistsStays
<1>3. ASSUME NEW g \in Readers, ReadingStep(g) PROVE LoadedInv'
    <2>1. of[g] \in Reports
        BY DEF LoadedInv
    <2>2. /\ row[of[g]] \in Row /\ file[of[g]] \in Nat
          /\ events[of[g]] \in Seq(EventTypes) /\ attempts[of[g]] \in Seq(Attempt)
        BY <2>1 DEF TypeInv, TypeOK, StoreTypeOK
    <2>3. detail' \in [Readers -> Details]
        <3>0. detail[g] \in Details
            BY DEF LoadedInv
        <3>1. CASE LoadFile(g)
            <4>1. [detail[g] EXCEPT !.file = file[of[g]]] \in Details
                BY <2>2, <3>0 DEF Details
            <4>2. QED
                BY <3>1, <4>1 DEF LoadedInv, LoadFile
        <3>2. CASE LoadEvents(g)
            <4>1. [detail[g] EXCEPT !.events = events[of[g]]] \in Details
                BY <2>2, <3>0 DEF Details
            <4>2. QED
                BY <3>2, <4>1 DEF LoadedInv, LoadEvents
        <3>3. CASE LoadAttempts(g)
            <4>1. [detail[g] EXCEPT !.attempts = attempts[of[g]]] \in Details
                BY <2>2, <3>0 DEF Details
            <4>2. QED
                BY <3>3, <4>1 DEF LoadedInv, LoadAttempts
        <3>4. CASE ReadRow(g)
            <4>1. row[of[g]].status \in Statuses \cup {"ABSENT"} /\ row[of[g]].deleted \in BOOLEAN
                BY <2>2 DEF Row
            <4>2. [detail[g] EXCEPT !.status = row[of[g]].status,
                                    !.deleted = row[of[g]].deleted] \in Details
                BY <3>0, <4>1 DEF Details
            <4>3. QED
                BY <3>4, <4>2 DEF LoadedInv, ReadRow
        <3>5. CASE NotFound(g) \/ Show(g) \/ Refuse(g)
            BY <3>5 DEF LoadedInv, NotFound, Show, Refuse
        <3>6. QED
            BY <1>3, <3>1, <3>2, <3>3, <3>4, <3>5 DEF ReadingStep
    <2>4. /\ reader' \in [Readers -> {"new", "load", "shown", "gone", "not_found"}]
          /\ left' \in [Readers -> SUBSET Queries]
          /\ \A h \in Readers : h # g => reader'[h] = reader[h] /\ left'[h] = left[h]
          /\ reader'[g] = "load" => Exists(of[g])
          /\ reader'[g] # "load" => left'[g] = {}
        <3>1. CASE NotFound(g) \/ Show(g) \/ Refuse(g)
            BY <3>1 DEF LoadedInv, NotFound, Show, Refuse
        <3>2. CASE ReadRow(g)
            BY <3>2 DEF LoadedInv, ReadRow
        <3>3. CASE LoadFile(g) \/ LoadEvents(g) \/ LoadAttempts(g)
            <4>1. PICK query : Loads(g, query)
                BY <3>3 DEF LoadFile, LoadEvents, LoadAttempts
            <4>2. reader[g] = "load" /\ left' = [left EXCEPT ![g] = @ \ {query}] /\ reader' = reader
                BY <4>1 DEF LoadedInv, Loads
            <4>3. QED
                BY <4>2 DEF LoadedInv
        <3>4. QED
            BY <1>3, <3>1, <3>2, <3>3 DEF ReadingStep
    <2>5. QED
        BY <1>1, <1>2, <2>3, <2>4 DEF LoadedInv
<1>4. CASE UNCHANGED readingVars
    BY <1>2, <1>4 DEF LoadedInv, readingVars
<1>5. QED
    BY <1>3, <1>4 DEF ReadingNext, readVars

(* What was committed with the status a reader has loaded is loaded, or     *)
(* still there to be.                                                       *)
Covers(g) ==
    LET r == of[g] IN
    reader[g] \in {"load", "shown"} =>
        /\ detail[g].status \in Statuses
        /\ Announced(events[r], detail[g].status)
        /\ "events" \in left[g] \/ Announced(detail[g].events, detail[g].status)
        /\ detail[g].status = "SUCCESS" =>
              /\ file[r] # 0
              /\ "file" \in left[g] \/ detail[g].file = file[r]
              /\ \/ "attempts" \in left[g]
                 \/ /\ file[r] \in DOMAIN detail[g].attempts
                    /\ detail[g].attempts[file[r]].status = "SUCCESS"

LEMMA CoversFramed ==
    ASSUME TypeInv, LoadedInv, [Next]_vars, of' = of, NEW g \in Readers, Covers(g),
           detail'[g] = detail[g], left'[g] = left[g],
           reader'[g] \in {"load", "shown"} => reader[g] \in {"load", "shown"}
    PROVE  Covers(g)'
<1>1. PICK r \in Reports : r = of[g]
    BY DEF LoadedInv
<1>2. file[r] # 0 => file'[r] = file[r]
    BY FileStays
<1>3. \A s \in Statuses : Announced(events[r], s) => Announced(events'[r], s)
    BY EveryStepAnnounces DEF TrailStep, TrailGrows
<1>4. QED
    BY <1>1, <1>2, <1>3 DEF Covers

LEMMA CoversNext ==
    ASSUME TypeInv, LedgerInv, SuccessHasFile, StatusAnnounced, LoadedInv,
           \A g \in Readers : Covers(g), [ReadingNext]_readVars
    PROVE  \A g \in Readers : Covers(g)'
<1>1. [Next]_vars /\ of' = of
    BY ReadingStepsArePipelineSteps
<1>2. ASSUME NEW g \in Readers, ReadingStep(g) PROVE Covers(g)'
    <2>1. PICK r \in Reports : r = of[g]
        BY DEF LoadedInv
    <2>2. CASE ReadRow(g)
        <3>1. /\ reader'[g] = "load" /\ left'[g] = Queries /\ UNCHANGED vars
              /\ detail'[g].status = row[r].status
            BY <2>1, <2>2 DEF ReadRow, LoadedInv
        <3>2. Exists(r) /\ row[r].status \in Statuses
            BY <2>1, <2>2 DEF ReadRow, Exists, TypeInv, TypeOK, StoreTypeOK, Row
        <3>3. Announced(events[r], row[r].status) /\ (row[r].status = "SUCCESS" => file[r] # 0)
            BY <3>2 DEF StatusAnnounced, SuccessHasFile
        <3>4. events' = events /\ file' = file
            BY <3>1 DEF vars, storeVars
        <3>5. QED
            BY <1>1, <2>1, <3>1, <3>2, <3>3, <3>4 DEF Covers, Queries
    <2>3. CASE LoadFile(g)
        <3>1. /\ left'[g] = left[g] \ {"file"} /\ reader' = reader /\ UNCHANGED vars
              /\ detail'[g] = [detail[g] EXCEPT !.file = file[r]]
            BY <2>1, <2>3 DEF LoadFile, Loads, LoadedInv
        <3>2. events' = events /\ file' = file
            BY <3>1 DEF vars, storeVars
        <3>3. QED
            BY <1>1, <2>1, <3>1, <3>2 DEF Covers, LoadedInv
    <2>4. CASE LoadEvents(g)
        <3>1. /\ left'[g] = left[g] \ {"events"} /\ reader' = reader /\ UNCHANGED vars
              /\ detail'[g] = [detail[g] EXCEPT !.events = events[r]]
            BY <2>1, <2>4 DEF LoadEvents, Loads, LoadedInv
        <3>2. events' = events /\ file' = file
            BY <3>1 DEF vars, storeVars
        <3>3. QED
            BY <1>1, <2>1, <3>1, <3>2 DEF Covers, LoadedInv
    <2>5. CASE LoadAttempts(g)
        <3>1. /\ left'[g] = left[g] \ {"attempts"} /\ reader' = reader /\ UNCHANGED vars
              /\ detail'[g] = [detail[g] EXCEPT !.attempts = attempts[r]]
            BY <2>1, <2>5 DEF LoadAttempts, Loads, LoadedInv
        <3>2. events' = events /\ file' = file
            BY <3>1 DEF vars, storeVars
        <3>3. file[r] # 0 =>
                 file[r] \in DOMAIN attempts[r] /\ attempts[r][file[r]].status = "SUCCESS"
            BY DEF LedgerInv, FileOfAnAttempt, FileOfTheSuccess
        <3>4. QED
            BY <1>1, <2>1, <3>1, <3>2, <3>3 DEF Covers, LoadedInv
    <2>6. CASE NotFound(g) \/ Show(g) \/ Refuse(g)
        <3>1. /\ detail'[g] = detail[g] /\ left'[g] = left[g]
              /\ reader'[g] \in {"load", "shown"} => reader[g] \in {"load", "shown"}
            BY <2>6 DEF NotFound, Show, Refuse, LoadedInv
        <3>2. QED
            BY <1>1, <3>1, CoversFramed
    <2>7. QED
        BY <1>2, <2>2, <2>3, <2>4, <2>5, <2>6 DEF ReadingStep
<1>3. ASSUME NEW g \in Readers, NEW h \in Readers, ReadingStep(h), g # h PROVE Covers(g)'
    <2>1. /\ detail'[g] = detail[g] /\ left'[g] = left[g] /\ reader'[g] = reader[g]
        BY <1>3
        DEF LoadedInv, ReadingStep, NotFound, ReadRow, LoadFile, LoadEvents, LoadAttempts, Loads,
            Show, Refuse
    <2>2. QED
        BY <1>1, <2>1, CoversFramed
<1>4. ASSUME NEW g \in Readers, UNCHANGED readingVars PROVE Covers(g)'
    BY <1>1, <1>4, CoversFramed DEF readingVars
<1>5. QED
    BY <1>2, <1>3, <1>4 DEF ReadingNext, readVars

(* Beside readers the pipeline behaves as without them.                     *)
THEOREM ReadersArePipelineBehaviours == ReadingSpec => Spec /\ []LoadedInv
<1>1. ReadingInit => Init /\ TypeInv /\ LoadedInv
    <2> SUFFICES ASSUME ReadingInit PROVE Init /\ TypeInv /\ LoadedInv
        OBVIOUS
    <2>1. Nothing \in Details
        BY DEF Nothing, Details
    <2>2. QED
        BY <2>1, TypeInit DEF ReadingInit, LoadedInv
<1>2. TypeInv /\ LoadedInv /\ [ReadingNext]_readVars => [Next]_vars /\ TypeInv' /\ LoadedInv'
    BY ReadingStepsArePipelineSteps, TypeNext, LoadedNext
<1>3. QED
    BY <1>1, <1>2, PTL DEF ReadingSpec, Spec

(* Whatever commits between the four queries of a detail, and in whatever   *)
(* order they run after the first, what it shows covers its status.         *)
THEOREM DetailsCoverTheirStatus == ReadingSpec => []DetailCoversStatus
<1> DEFINE AllCover == \A g \in Readers : Covers(g)
<1>1. ReadingInit => AllCover
    BY DEF ReadingInit, Covers
<1>2. TypeInv /\ LedgerInv /\ SuccessHasFile /\ StatusAnnounced /\ LoadedInv /\ AllCover
      /\ [ReadingNext]_readVars => AllCover'
    BY CoversNext
<1>3. LoadedInv /\ AllCover => DetailCoversStatus
    BY DEF LoadedInv, Covers, DetailCoversStatus
<1>4. ReadingSpec => []TypeInv /\ []LedgerInv /\ []SuccessHasFile /\ []StatusAnnounced
    BY ReadersArePipelineBehaviours, TypeInvariance, LedgerInvariance, SuccessAlwaysHasFile,
       EveryStatusIsAnnounced, PTL
<1>5. QED
    BY <1>1, <1>2, <1>3, <1>4, ReadersArePipelineBehaviours, PTL DEF ReadingSpec

=============================================================================
