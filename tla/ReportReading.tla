----------------------------- MODULE ReportReading -----------------------------
(***************************************************************************)
(* GET /reports/{id} beside the life of the report.  _detailed_query is    *)
(* four queries: the row of the report first, then the file, the events    *)
(* and the attempts, each of which sees what is committed when it runs     *)
(* (READ COMMITTED).  The mapper keeps the three relationships in a        *)
(* frozenset, so their order is that of a hash: any order.  The items of a *)
(* listing are loaded in the same way.                                     *)
(***************************************************************************)
EXTENDS PipelineProperties

CONSTANT Readers    \* the GET requests of users who may see their report

VARIABLES
    reader,     \* where each request is
    of,         \* the report it names
    left,       \* the queries it has still to make
    detail      \* what it has loaded so far

readingVars == <<reader, of, left, detail>>
readVars == <<vars, readingVars>>

Queries == {"file", "events", "attempts"}

Nothing == [status |-> "ABSENT", deleted |-> FALSE, file |-> 0,
            events |-> <<>>, attempts |-> <<>>]

ReadingInit ==
    /\ Init
    /\ reader = [g \in Readers |-> "new"]
    /\ of \in [Readers -> Reports]
    /\ left = [g \in Readers |-> {}]
    /\ detail = [g \in Readers |-> Nothing]

-----------------------------------------------------------------------------

NotFound(g) ==
    /\ reader[g] = "new"
    /\ ~Exists(of[g])
    /\ reader' = [reader EXCEPT ![g] = "not_found"]
    /\ UNCHANGED <<vars, of, left, detail>>

ReadRow(g) ==
    LET r == of[g] IN
    /\ reader[g] = "new"
    /\ Exists(r)
    /\ reader' = [reader EXCEPT ![g] = "load"]
    /\ left' = [left EXCEPT ![g] = Queries]
    /\ detail' = [detail EXCEPT ![g].status = row[r].status, ![g].deleted = row[r].deleted]
    /\ UNCHANGED <<vars, of>>

Loads(g, query) ==
    /\ query \in left[g]
    /\ left' = [left EXCEPT ![g] = @ \ {query}]
    /\ UNCHANGED <<vars, reader, of>>

LoadFile(g) ==
    /\ Loads(g, "file")
    /\ detail' = [detail EXCEPT ![g].file = file[of[g]]]

LoadEvents(g) ==
    /\ Loads(g, "events")
    /\ detail' = [detail EXCEPT ![g].events = events[of[g]]]

LoadAttempts(g) ==
    /\ Loads(g, "attempts")
    /\ detail' = [detail EXCEPT ![g].attempts = attempts[of[g]]]

(* _expire_report_if_needed: deleted_at of the row it loaded, the clock.    *)
Retired(g) == detail[g].deleted \/ of[g] \in expired

(* Variant: the columns of the row are refreshed before they are shown.     *)
ShowRefreshed(g) ==
    /\ reader[g] = "load" /\ left[g] = {}
    /\ ~Retired(g)
    /\ reader' = [reader EXCEPT ![g] = "shown"]
    /\ detail' = [detail EXCEPT ![g].status = row[of[g]].status]
    /\ UNCHANGED <<vars, of, left>>

Show(g) ==
    /\ reader[g] = "load" /\ left[g] = {}
    /\ ~Retired(g)
    /\ reader' = [reader EXCEPT ![g] = "shown"]
    /\ UNCHANGED <<vars, of, left, detail>>

(* 410; the row is stamped unless its session says that it has been.        *)
Refuse(g) ==
    /\ reader[g] = "load" /\ left[g] = {}
    /\ \/ detail[g].deleted /\ UNCHANGED row
       \/ ~detail[g].deleted /\ of[g] \in expired /\ StampDeleted(of[g])
    /\ reader' = [reader EXCEPT ![g] = "gone"]
    /\ UNCHANGED <<events, attempts, file, queueVars, post, workerVars, object,
                   deleteVars, expired, of, left, detail>>

ReadingStep(g) ==
    \/ NotFound(g) \/ ReadRow(g) \/ LoadFile(g) \/ LoadEvents(g) \/ LoadAttempts(g)
    \/ Show(g) \/ Refuse(g)

ReadingNext ==
    \/ \E g \in Readers : ReadingStep(g)
    \/ Next /\ UNCHANGED readingVars

ReadingSpec == ReadingInit /\ [][ReadingNext]_readVars

-----------------------------------------------------------------------------
(* Properties                                                               *)

(* A detail never lags behind the status it shows: the trail it shows       *)
(* announces that status, and a SUCCESS is shown with its file and with the *)
(* attempt that wrote it, whatever commits between the four queries and in  *)
(* whatever order they run (get_request).                                   *)
DetailCoversStatus ==
    \A g \in Readers : reader[g] = "shown" =>
        /\ Announced(detail[g].events, detail[g].status)
        /\ detail[g].status = "SUCCESS" =>
              /\ detail[g].file \in DOMAIN detail[g].attempts
              /\ detail[g].attempts[detail[g].file].status = "SUCCESS"

=============================================================================
