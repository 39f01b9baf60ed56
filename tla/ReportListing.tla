----------------------------- MODULE ReportListing -----------------------------
(***************************************************************************)
(* GET /reports: a client walks through the pages of its reports while     *)
(* others register, change and expire them.  Each request counts the       *)
(* selected reports and then reads a page of them, newest first, in two    *)
(* queries that see what is committed when they run (READ COMMITTED).      *)
(*                                                                         *)
(* The client asks for the offset after what it has received, until a page *)
(* is not full.                                                            *)
(***************************************************************************)
EXTENDS ReportStore, FiniteSets

CONSTANTS
    Mine,       \* the reports that pass the filters on user_id and report_type
    Filter,     \* the statuses asked for: Statuses when no status is
    Written,    \* the statuses other handlers give to reports
    Limit       \* min(limit, max_page_size)

ASSUME ListingAssumption ==
    /\ Mine \subseteq Reports
    /\ Filter \subseteq Statuses /\ Written \subseteq Statuses
    /\ Limit \in Nat \ {0}

VARIABLES
    clock,      \* the time of the last transaction that began
    created,    \* created_at: when the transaction of each report began, 0 before
    expired,    \* the reports whose expires_at has passed
    step,       \* where the client's request is
    ended,      \* expired, when the request took its `now'
    total,      \* what it counted
    offset,     \* the offset of the next page
    page,       \* the page it was answered last
    seen        \* all it was answered, in order

(* What happened to the selection, for the properties.                      *)
VARIABLES
    lasting,    \* the reports selected ever since the walk began
    fled,       \* one left the selection since then
    joined,     \* one entered it
    steady      \* neither since the last count

tableVars == <<storeVars, clock, created, expired>>
walkVars == <<step, ended, total, offset, page, seen>>
historyVars == <<lasting, fled, joined, steady>>
listingVars == <<tableVars, walkVars, historyVars>>

(* Variant: the retention is left to deleted_at.                            *)
SelectedUnlessStamped(r) ==
    /\ Exists(r) /\ ~row[r].deleted
    /\ r \in Mine /\ row[r].status \in Filter

(* list_requests: the filters of both queries, by the `now' of the request. *)
Selected(r) ==
    /\ Exists(r) /\ ~row[r].deleted /\ r \notin ended
    /\ r \in Mine /\ row[r].status \in Filter

Selection == {r \in Reports : Selected(r)}

ListingInit ==
    /\ StoreInit
    /\ clock = 1 /\ expired = {}
    /\ created = [r \in Reports |-> 0]
    /\ step = "idle" /\ ended = {}
    /\ total = 0 /\ offset = 0
    /\ page = <<>> /\ seen = <<>>
    /\ lasting = {} /\ fled = FALSE /\ joined = FALSE /\ steady = FALSE

-----------------------------------------------------------------------------
(* What others do to the tables                                             *)

(* The transaction of create_report begins; its now() may be that of the    *)
(* transaction before.                                                      *)
BeginCreate(r) ==
    /\ created[r] = 0
    /\ clock' \in {clock, clock + 1}
    /\ created' = [created EXCEPT ![r] = clock']
    /\ UNCHANGED <<storeVars, expired, walkVars>>

(* It commits, perhaps after one that began later.                          *)
CommitCreate(r) ==
    /\ created[r] # 0 /\ ~Exists(r)
    /\ InsertReport(r)
    /\ UNCHANGED <<attempts, file, clock, created, expired, walkVars>>

WriteStatus(r, status) ==
    /\ Exists(r)
    /\ UpdateRow(r, row[r], [row[r] EXCEPT !.status = status])
    /\ UNCHANGED <<events, attempts, file, clock, created, expired, walkVars>>

Expire(r) ==
    /\ Exists(r)
    /\ expired' = expired \cup {r}
    /\ UNCHANGED <<storeVars, clock, created, walkVars>>

(* A detail of an expired report is asked for.                              *)
Stamp(r) ==
    /\ r \in expired
    /\ UpdateRow(r, row[r], DeletedRow(row[r]))
    /\ UNCHANGED <<events, attempts, file, clock, created, expired, walkVars>>

-----------------------------------------------------------------------------
(* The walk                                                                 *)

Ask ==
    /\ step \in {"idle", "answered"}
    /\ step' = "count"
    /\ ended' = expired
    /\ UNCHANGED <<tableVars, total, offset, page, seen>>

(* Variant: the count forgets the retention.                                *)
CountUnlessStamped ==
    /\ step = "count"
    /\ step' = "page"
    /\ total' = Cardinality({r \in Reports : SelectedUnlessStamped(r)})
    /\ UNCHANGED <<tableVars, ended, offset, page, seen>>

CountTotal ==
    /\ step = "count"
    /\ step' = "page"
    /\ total' = Cardinality(Selection)
    /\ UNCHANGED <<tableVars, ended, offset, page, seen>>

(* Variant: in no order.                                                    *)
Unordered(S) ==
    {s \in [1..Cardinality(S) -> S] : \A i, j \in DOMAIN s : i < j => s[i] # s[j]}

(* created_at descending; reports created at the same time in any order,    *)
(* and not the same one in every query.                                     *)
Ordered(S) ==
    {s \in [1..Cardinality(S) -> S] : \A i, j \in DOMAIN s :
        i < j => s[i] # s[j] /\ created[s[i]] >= created[s[j]]}

(* OFFSET and LIMIT of an ordered selection.                                *)
PageOf(s) == SubSeq(s, offset + 1, IF Len(s) < offset + Limit THEN Len(s)
                                   ELSE offset + Limit)

ReadPage ==
    /\ step = "page"
    /\ \E s \in Ordered(Selection) : page' = PageOf(s)
    /\ step' = IF Len(page') < Limit THEN "done" ELSE "answered"
    /\ offset' = offset + Len(page')
    /\ seen' = seen \o page'
    /\ UNCHANGED <<tableVars, ended, total>>

-----------------------------------------------------------------------------

Observe ==
    LET walking == step # "idle"
        left == ~(Selection \subseteq Selection')
        entered == ~(Selection' \subseteq Selection)
    IN
    /\ lasting' = IF walking THEN lasting \cap Selection' ELSE Selection'
    /\ fled' = (walking /\ (fled \/ left))
    /\ joined' = (walking /\ (joined \/ entered))
    /\ steady' = (\/ step = "count" /\ step' = "page"
                  \/ steady /\ Selection' = Selection)

Others ==
    \E r \in Reports :
        \/ BeginCreate(r) \/ CommitCreate(r) \/ Expire(r) \/ Stamp(r)
        \/ \E status \in Written : WriteStatus(r, status)

ListingNext == (Others \/ Ask \/ CountTotal \/ ReadPage) /\ Observe

ListingSpec == ListingInit /\ [][ListingNext]_listingVars

-----------------------------------------------------------------------------
(* Properties                                                               *)

(* The only report created at its time: the order places it.                *)
Alone(r) == \A q \in Reports \ {r} : created[q] # created[r]

TimesSeen(r) == Cardinality({i \in DOMAIN seen : seen[i] = r})

(* Unless a report leaves the selection during a walk, the walk finds every *)
(* report that was there from its beginning to its end, whatever is         *)
(* registered meanwhile: newer reports push it to later pages and cannot    *)
(* hide it.  Reports created at the same time have no such promise          *)
(* (order_by created_at, with no second key).                               *)
WalkMissesNothing ==
    step = "done" /\ ~fled => \A r \in lasting : Alone(r) => TimesSeen(r) > 0

(* Unless one enters it, no report is found twice.                          *)
WalkRepeatsNothing ==
    ~joined => \A r \in Reports : Alone(r) => TimesSeen(r) <= 1

(* The total goes with the page whenever nothing changed between their      *)
(* queries: a page that is not full is the last one of that many reports.   *)
TotalGoesWithPage ==
    step \in {"answered", "done"} /\ steady =>
        IF page = <<>> THEN total <= offset
        ELSE IF Len(page) < Limit THEN total = offset
        ELSE total >= offset

=============================================================================
