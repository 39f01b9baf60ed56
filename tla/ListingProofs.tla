----------------------------- MODULE ListingProofs -----------------------------
(***************************************************************************)
(* The walk through the pages of GET /reports, for any number of reports,  *)
(* pages and writers: the total goes with its page, nothing that stays     *)
(* selected is missed, nothing is found twice.                             *)
(*                                                                         *)
(* What ties the order of a page to the offset of the next one is the      *)
(* number of selected reports that are newer than a given one: it is the   *)
(* place of that report in every ordering of the selection.                *)
(***************************************************************************)
EXTENDS ReportListing, FunctionTheorems, FiniteSetTheorems, SequenceTheorems, TLAPS

ListingTypeOK ==
    /\ StoreTypeOK
    /\ clock \in Nat \ {0} /\ created \in [Reports -> Nat]
    /\ expired \subseteq Reports /\ ended \subseteq Reports
    /\ step \in {"idle", "count", "page", "answered", "done"}
    /\ total \in Nat /\ offset \in Nat
    /\ page \in Seq(Reports) /\ seen \in Seq(Reports)
    /\ lasting \subseteq Reports
    /\ fled \in BOOLEAN /\ joined \in BOOLEAN /\ steady \in BOOLEAN

(* The reports whose transaction has begun.                                 *)
Begun == {r \in Reports : created[r] # 0}

(* The selected reports that a page shows before r.                         *)
Newer(r) == {q \in Selection : created[q] > created[r]}

Ahead(r) == Cardinality(Newer(r))

(* Only what has begun is in a table, and what was seen was in one.         *)
WalkedInv ==
    /\ IsFiniteSet(Begun)
    /\ \A r \in Reports : Exists(r) => created[r] # 0
    /\ \A i \in 1..Len(seen) : created[seen[i]] # 0
    /\ lasting \subseteq Selection
    /\ step = "idle" => offset = 0 /\ seen = <<>>

(* The count is still that of the selection while nothing changes it.       *)
TotalInv ==
    /\ step = "page" /\ steady => total = Cardinality(Selection)
    /\ TotalGoesWithPage

(* A report that was always there and is not seen yet is not passed yet.    *)
FoundInv ==
    step # "idle" /\ ~fled =>
        \A r \in lasting : Alone(r) =>
            \/ \E i \in 1..Len(seen) : seen[i] = r
            \/ step # "done" /\ Ahead(r) >= offset

(* A report that was seen is passed, and was seen once.                     *)
PassedInv ==
    ~joined =>
        \A r \in Reports, i \in 1..Len(seen) : seen[i] = r /\ Alone(r) =>
            /\ Ahead(r) < offset
            /\ \A j \in 1..Len(seen) : seen[j] = r => j = i

WalkInv == ListingTypeOK /\ WalkedInv /\ TotalInv /\ FoundInv /\ PassedInv

-----------------------------------------------------------------------------
(* The pages                                                                *)

(* An ordering of the selection holds each selected report once.            *)
LEMMA OrderingHoldsAll ==
    ASSUME IsFiniteSet(Selection), NEW s \in Ordered(Selection)
    PROVE  LET n == Cardinality(Selection) IN
           /\ n \in Nat /\ s \in [1..n -> Selection] /\ s \in Seq(Selection) /\ Len(s) = n
           /\ \A i, j \in 1..n : s[i] = s[j] => i = j
           /\ \A q \in Selection : \E i \in 1..n : s[i] = q
<1> DEFINE n == Cardinality(Selection)
<1>1. n \in Nat
    BY FS_CardinalityType
<1>2. s \in [1..n -> Selection] /\ \A i, j \in DOMAIN s : i < j => s[i] # s[j]
    BY DEF Ordered
<1>3. DOMAIN s = 1..n /\ s \in Seq(Selection) /\ Len(s) = n
    BY <1>1, <1>2
<1>4. \A i, j \in 1..n : s[i] = s[j] => i = j
    <2>1. ASSUME NEW i \in 1..n, NEW j \in 1..n, i # j PROVE s[i] # s[j]
        <3>1. i < j \/ j < i
            BY <1>1, <2>1
        <3>2. QED
            BY <1>2, <1>3, <3>1
    <2>2. QED
        BY <2>1
<1>5. s \in Injection(1..n, Selection)
    BY <1>2, <1>4, Fun_IsInj
<1>6. Cardinality(1..n) = n
    BY <1>1, FS_Interval
<1>7. s \in Surjection(1..n, Selection)
    BY <1>5, <1>6, FS_Injection
<1>8. \A q \in Selection : \E i \in 1..n : s[i] = q
    BY <1>7 DEF Surjection
<1>9. QED
    BY <1>1, <1>2, <1>3, <1>4, <1>8

(* In every ordering a report that is alone at its time has before it the   *)
(* newer ones, and nothing else.                                            *)
LEMMA PlaceOfAlone ==
    ASSUME created \in [Reports -> Nat], IsFiniteSet(Selection),
           NEW s \in Ordered(Selection), NEW i \in 1..Cardinality(Selection), Alone(s[i])
    PROVE  Ahead(s[i]) = i - 1
<1> DEFINE n == Cardinality(Selection)
           before == [j \in 1..(i - 1) |-> s[j]]
<1>1. /\ n \in Nat /\ s \in [1..n -> Selection] /\ DOMAIN s = 1..n
      /\ \A j, k \in 1..n : s[j] = s[k] => j = k
      /\ \A q \in Selection : \E j \in 1..n : s[j] = q
    BY OrderingHoldsAll
<1>2. Selection \subseteq Reports
    BY DEF Selection
<1>3. \A j, k \in 1..n : j < k => created[s[j]] >= created[s[k]]
    BY <1>1 DEF Ordered
<1>4. i \in 1..n /\ i - 1 \in Nat /\ \A j \in 1..(i - 1) : j \in 1..n /\ j < i
    BY <1>1
<1>5. ASSUME NEW j \in 1..(i - 1) PROVE s[j] \in Newer(s[i])
    <2>1. s[j] \in Selection /\ s[i] \in Selection /\ s[j] # s[i] /\ created[s[j]] >= created[s[i]]
        BY <1>1, <1>3, <1>4
    <2>2. created[s[j]] # created[s[i]]
        BY <1>2, <2>1 DEF Alone
    <2>3. created[s[j]] \in Nat /\ created[s[i]] \in Nat
        BY <1>2, <2>1
    <2>4. created[s[j]] > created[s[i]]
        BY <2>1, <2>2, <2>3
    <2>5. QED
        BY <2>1, <2>4 DEF Newer
<1>6. ASSUME NEW q \in Newer(s[i]) PROVE \E j \in 1..(i - 1) : s[j] = q
    <2>1. q \in Selection /\ created[q] > created[s[i]]
        BY DEF Newer
    <2>2. PICK j \in 1..n : s[j] = q
        BY <1>1, <2>1
    <2>3. created[q] \in Nat /\ created[s[i]] \in Nat
        BY <1>1, <1>2, <1>4, <2>1
    <2>4. ~ (i < j)
        <3>1. SUFFICES ASSUME i < j PROVE FALSE
            OBVIOUS
        <3>2. created[s[i]] >= created[q]
            BY <1>3, <1>4, <2>2, <3>1
        <3>3. QED
            BY <2>1, <2>3, <3>2
    <2>5. j # i
        BY <2>1, <2>2, <2>3
    <2>6. j \in 1..(i - 1)
        BY <1>1, <1>4, <2>4, <2>5
    <2>7. QED
        BY <2>2, <2>6
<1>7. before \in [1..(i - 1) -> Newer(s[i])]
    BY <1>5
<1>8. before \in Bijection(1..(i - 1), Newer(s[i]))
    <2>1. \A j, k \in 1..(i - 1) : before[j] = before[k] => j = k
        BY <1>1, <1>4
    <2>2. \A q \in Newer(s[i]) : \E j \in 1..(i - 1) : before[j] = q
        BY <1>6
    <2>3. before \in Injection(1..(i - 1), Newer(s[i]))
        BY <1>7, <2>1, Fun_IsInj
    <2>4. before \in Surjection(1..(i - 1), Newer(s[i]))
        BY <1>7, <2>2, Fun_IsSurj
    <2>5. QED
        BY <2>3, <2>4 DEF Bijection
<1>9. ExistsBijection(1..(i - 1), Newer(s[i]))
    BY <1>8 DEF ExistsBijection
<1>10. QED
    BY <1>4, <1>9, FS_CountingElements DEF Ahead

(* The page at an offset: as many reports as are left, and no more than     *)
(* Limit.                                                                   *)
LEMMA PageShows ==
    ASSUME IsFiniteSet(Selection), offset \in Nat, NEW s \in Ordered(Selection)
    PROVE  LET n == Cardinality(Selection)
               p == PageOf(s)
           IN  /\ n \in Nat /\ p \in Seq(Selection) /\ Len(p) \in Nat
               /\ Len(p) < Limit => offset + Len(p) >= n
               /\ Len(p) > 0 => offset + Len(p) <= n
               /\ Len(p) <= Limit
               /\ \A k \in 1..Len(p) : offset + k \in 1..n /\ p[k] = s[offset + k]
<1> DEFINE n == Cardinality(Selection)
           last == IF n < offset + Limit THEN n ELSE offset + Limit
           p == SubSeq(s, offset + 1, last)
<1>1. n \in Nat /\ s \in [1..n -> Selection] /\ Len(s) = n
    BY OrderingHoldsAll
<1>2. Limit \in Nat \ {0}
    BY ListingAssumption
<1>3. last \in Nat /\ last <= n /\ last <= offset + Limit /\ (last = n \/ last = offset + Limit)
    BY <1>1, <1>2
<1>4. PageOf(s) = p
    BY <1>1 DEF PageOf
<1>5. \A i \in (offset + 1)..last : s[i] \in Selection
    <2>1. \A i \in (offset + 1)..last : i \in 1..n
        BY <1>1, <1>3
    <2>2. QED
        BY <1>1, <2>1
<1> HIDE DEF last
<1>6. /\ p \in Seq(Selection)
      /\ Len(p) = IF offset + 1 <= last THEN last - (offset + 1) + 1 ELSE 0
      /\ \A k \in 1..(last - (offset + 1) + 1) : p[k] = s[offset + 1 + k - 1]
    <2>1. offset + 1 \in Int /\ last \in Int
        BY <1>3
    <2>2. QED
        BY <1>5, <2>1, SubSeqProperties
<1> HIDE DEF p
<1>7. Len(p) = IF offset + 1 <= last THEN last - offset ELSE 0
    BY <1>3, <1>6
<1>8. \A k \in 1..Len(p) : offset + k \in 1..n /\ p[k] = s[offset + k]
    <2>1. ASSUME NEW k \in 1..Len(p)
          PROVE  /\ offset + k \in 1..n /\ k \in 1..(last - (offset + 1) + 1)
                 /\ offset + 1 + k - 1 = offset + k
        BY <1>1, <1>3, <1>7
    <2>2. QED
        BY <1>6, <2>1
<1>9. /\ Len(p) \in Nat
      /\ Len(p) < Limit => offset + Len(p) >= n
      /\ Len(p) > 0 => offset + Len(p) <= n
      /\ Len(p) <= Limit
    BY <1>1, <1>2, <1>3, <1>7
<1>10. QED
    BY <1>1, <1>4, <1>6, <1>8, <1>9

-----------------------------------------------------------------------------
(* Types                                                                    *)

LEMMA RowsOfTheTable == NewRow \in Row /\ AbsentRow \in Row
<1>1. NoError \in Errors
    BY RetriesAssumption DEF NoError, Errors
<1>2. QED
    BY <1>1 DEF NewRow, AbsentRow, Row, Statuses, Unfinished, Final

(* An update of the row that the table holds leaves a row.                  *)
LEMMA UpdatedRow ==
    ASSUME NEW stored \in Row, NEW new \in Row
    PROVE  Flushed(stored, stored, new) \in Row
BY DEF Flushed, Column, Row

LEMMA ListingTypeInit == ListingInit => ListingTypeOK
<1> SUFFICES ASSUME ListingInit PROVE ListingTypeOK
    OBVIOUS
<1>1. StoreTypeOK
    BY RowsOfTheTable DEF ListingInit, StoreInit, StoreTypeOK
<1>2. page \in Seq(Reports) /\ seen \in Seq(Reports)
    BY EmptySeq DEF ListingInit
<1>3. created \in [Reports -> Nat] /\ clock \in Nat \ {0}
    BY DEF ListingInit
<1>4. QED
    BY <1>1, <1>2, <1>3 DEF ListingInit, ListingTypeOK

(* A transaction writes a row of the table, or begins, or the time of a     *)
(* report passes.                                                           *)
LEMMA OthersType ==
    ASSUME ListingTypeOK, Others
    PROVE  /\ StoreTypeOK' /\ clock' \in Nat \ {0} /\ created' \in [Reports -> Nat]
           /\ expired' \subseteq Reports /\ UNCHANGED walkVars
<1>1. PICK r \in Reports :
          \/ BeginCreate(r) \/ CommitCreate(r) \/ Expire(r) \/ Stamp(r)
          \/ \E status \in Written : WriteStatus(r, status)
    BY DEF Others
<1>2. /\ row \in [Reports -> Row] /\ events \in [Reports -> Seq(EventTypes)] /\ row[r] \in Row
      /\ clock \in Nat \ {0} /\ created \in [Reports -> Nat] /\ expired \subseteq Reports
    BY DEF ListingTypeOK, StoreTypeOK
<1>3. CASE BeginCreate(r)
    <2>1. clock' \in Nat \ {0} /\ created' = [created EXCEPT ![r] = clock']
        BY <1>2, <1>3 DEF BeginCreate
    <2>2. created' \in [Reports -> Nat]
        BY <1>2, <2>1
    <2>3. QED
        BY <1>2, <1>3, <2>1, <2>2
        DEF BeginCreate, ListingTypeOK, StoreTypeOK, storeVars, walkVars
<1>4. CASE CommitCreate(r)
    <2>1. row' \in [Reports -> Row]
        BY <1>2, <1>4, RowsOfTheTable DEF CommitCreate, InsertReport
    <2>2. events' \in [Reports -> Seq(EventTypes)]
        <3>1. Append(events[r], "REQUESTED") \in Seq(EventTypes)
            BY <1>2 DEF EventTypes
        <3>2. QED
            BY <1>2, <1>4, <3>1 DEF CommitCreate, InsertReport
    <2>3. QED
        BY <1>4, <2>1, <2>2 DEF CommitCreate, ListingTypeOK, StoreTypeOK, walkVars
<1>5. CASE Expire(r)
    BY <1>2, <1>5 DEF Expire, ListingTypeOK, StoreTypeOK, storeVars, walkVars
<1>6. CASE Stamp(r)
    <2>1. Flushed(row[r], row[r], DeletedRow(row[r])) \in Row
        <3>1. DeletedRow(row[r]) \in Row
            BY <1>2 DEF DeletedRow, Row
        <3>2. QED
            BY <1>2, <3>1, UpdatedRow
    <2>2. row' \in [Reports -> Row]
        BY <1>2, <1>6, <2>1 DEF Stamp, UpdateRow
    <2>3. QED
        BY <1>6, <2>2 DEF Stamp, ListingTypeOK, StoreTypeOK, walkVars
<1>7. CASE \E status \in Written : WriteStatus(r, status)
    <2>1. PICK status \in Written : WriteStatus(r, status)
        BY <1>7
    <2>2. status \in Statuses
        BY ListingAssumption
    <2>3. Flushed(row[r], row[r], [row[r] EXCEPT !.status = status]) \in Row
        <3>1. [row[r] EXCEPT !.status = status] \in Row
            BY <1>2, <2>2 DEF Row
        <3>2. QED
            BY <1>2, <3>1, UpdatedRow
    <2>4. row' \in [Reports -> Row]
        BY <1>2, <2>1, <2>3 DEF WriteStatus, UpdateRow
    <2>5. QED
        BY <2>1, <2>4 DEF WriteStatus, ListingTypeOK, StoreTypeOK, walkVars
<1>8. QED
    BY <1>1, <1>3, <1>4, <1>5, <1>6, <1>7

(* A page of the selection is a page of reports, of some length, and the    *)
(* next offset is after it.                                                 *)
LEMMA PageRead ==
    ASSUME ListingTypeOK, IsFiniteSet(Selection), ReadPage
    PROVE  \E s \in Ordered(Selection) :
              /\ page' = PageOf(s) /\ page' \in Seq(Reports) /\ Len(page') \in Nat
              /\ Len(page') <= Limit
              /\ offset' = offset + Len(page') /\ offset' \in Nat
              /\ step' = IF Len(page') < Limit THEN "done" ELSE "answered"
              /\ Cardinality(Selection) \in Nat
              /\ Len(page') < Limit => Cardinality(Selection) <= offset'
              /\ Len(page') > 0 => offset' <= Cardinality(Selection)
              /\ \A k \in 1..Len(page') :
                    offset + k \in 1..Cardinality(Selection) /\ page'[k] = s[offset + k]
<1>1. PICK s \in Ordered(Selection) : page' = PageOf(s)
    BY DEF ReadPage
<1> DEFINE n == Cardinality(Selection)
<1>2. offset \in Nat /\ Limit \in Nat \ {0}
    BY ListingAssumption DEF ListingTypeOK
<1>3. /\ n \in Nat /\ page' \in Seq(Selection) /\ Len(page') \in Nat
      /\ Len(page') < Limit => offset + Len(page') >= n
      /\ Len(page') > 0 => offset + Len(page') <= n
      /\ Len(page') <= Limit
      /\ \A k \in 1..Len(page') : offset + k \in 1..n /\ page'[k] = s[offset + k]
    BY <1>1, <1>2, PageShows
<1>4. page' \in Seq(Reports)
    <2>1. Selection \subseteq Reports
        BY DEF Selection
    <2>2. page' \in [1..Len(page') -> Reports]
        BY <1>3, <2>1
    <2>3. QED
        BY <1>3, <2>2
<1>5. offset' = offset + Len(page') /\ step' = IF Len(page') < Limit THEN "done" ELSE "answered"
    BY DEF ReadPage
<1> HIDE DEF n
<1>6. /\ offset' \in Nat
      /\ Len(page') < Limit => n <= offset'
      /\ Len(page') > 0 => offset' <= n
    BY <1>2, <1>3, <1>5
<1>7. QED
    BY <1>1, <1>3, <1>4, <1>5, <1>6 DEF n

LEMMA SelectionIsFinite ==
    ASSUME WalkedInv
    PROVE  /\ Selection \subseteq Begun /\ IsFiniteSet(Selection)
           /\ Cardinality(Selection) \in Nat
<1>1. Selection \subseteq Begun
    BY DEF WalkedInv, Selection, Selected, Begun
<1>2. IsFiniteSet(Selection)
    BY <1>1, FS_Subset DEF WalkedInv
<1>3. QED
    BY <1>1, <1>2, FS_CardinalityType

LEMMA ListingTypeNext ==
    ASSUME ListingTypeOK, WalkedInv, ListingNext
    PROVE  ListingTypeOK'
<1>1. lasting' \subseteq Reports /\ fled' \in BOOLEAN /\ joined' \in BOOLEAN
    BY DEF ListingNext, Observe, ListingTypeOK, Selection
<1>2. steady' \in BOOLEAN
    BY DEF ListingNext, Observe, ListingTypeOK
<1>3. CASE Others
    BY <1>1, <1>2, <1>3, OthersType DEF ListingTypeOK, walkVars
<1>4. CASE Ask
    BY <1>1, <1>2, <1>4 DEF Ask, tableVars, storeVars, ListingTypeOK, StoreTypeOK
<1>5. CASE CountTotal
    BY <1>1, <1>2, <1>5, SelectionIsFinite
    DEF CountTotal, tableVars, storeVars, ListingTypeOK, StoreTypeOK
<1>6. CASE ReadPage
    <2>1. /\ page' \in Seq(Reports) /\ offset' \in Nat
          /\ step' \in {"idle", "count", "page", "answered", "done"}
        BY <1>6, SelectionIsFinite, PageRead
    <2>2. seen' \in Seq(Reports)
        BY <1>6, <2>1, ConcatProperties DEF ReadPage, ListingTypeOK
    <2>3. QED
        BY <1>1, <1>2, <1>6, <2>1, <2>2
        DEF ReadPage, tableVars, storeVars, ListingTypeOK, StoreTypeOK
<1>7. QED
    BY <1>3, <1>4, <1>5, <1>6 DEF ListingNext

-----------------------------------------------------------------------------
(* What others do to a walk                                                 *)

(* The time of a report never changes once its transaction has begun, and   *)
(* is there before its row.                                                 *)
LEMMA OthersCreated ==
    ASSUME ListingTypeOK, WalkedInv, Others
    PROVE  \E r \in Reports :
              /\ \A q \in Reports : q # r \/ created[q] # 0 => created'[q] = created[q]
              /\ \A q \in Reports : Exists(q)' => created'[q] # 0
<1>1. PICK r \in Reports :
          \/ BeginCreate(r) \/ CommitCreate(r) \/ Expire(r) \/ Stamp(r)
          \/ \E status \in Written : WriteStatus(r, status)
    BY DEF Others
<1>2. /\ row \in [Reports -> Row] /\ clock \in Nat \ {0} /\ created \in [Reports -> Nat]
      /\ \A q \in Reports : Exists(q) => created[q] # 0
    BY DEF ListingTypeOK, StoreTypeOK, WalkedInv
<1>3. CASE BeginCreate(r)
    <2>1. /\ created[r] = 0 /\ row' = row
          /\ created' = [created EXCEPT ![r] = clock'] /\ clock' # 0
        BY <1>2, <1>3 DEF BeginCreate, storeVars
    <2>2. /\ \A q \in Reports : q # r => created'[q] = created[q]
          /\ created'[r] # 0
        BY <1>2, <2>1
    <2>3. \A q \in Reports : Exists(q)' => created'[q] # 0
        BY <1>2, <2>1, <2>2 DEF Exists
    <2>4. QED
        BY <2>1, <2>2, <2>3
<1>4. CASE CommitCreate(r)
    <2>1. /\ created[r] # 0 /\ created' = created
          /\ \A q \in Reports : q # r => row'[q] = row[q]
        BY <1>2, <1>4 DEF CommitCreate, InsertReport
    <2>2. \A q \in Reports : Exists(q)' => created'[q] # 0
        BY <1>2, <2>1 DEF Exists
    <2>3. QED
        BY <2>1, <2>2
<1>5. CASE Expire(r)
    BY <1>2, <1>5 DEF Expire, storeVars, Exists
<1>6. CASE Stamp(r)
    <2>1. Flushed(row[r], row[r], DeletedRow(row[r])).status = row[r].status
        BY <1>2 DEF Flushed, Column, DeletedRow, Row
    <2>2. /\ created' = created
          /\ \A q \in Reports : row'[q].status = row[q].status
        BY <1>2, <1>6, <2>1 DEF Stamp, UpdateRow
    <2>3. \A q \in Reports : Exists(q)' => created'[q] # 0
        BY <1>2, <2>2 DEF Exists
    <2>4. QED
        BY <2>2, <2>3
<1>7. CASE \E status \in Written : WriteStatus(r, status)
    <2>1. PICK status \in Written : WriteStatus(r, status)
        BY <1>7
    <2>2. /\ created' = created /\ created[r] # 0
          /\ \A q \in Reports : q # r => row'[q] = row[q]
        BY <1>2, <2>1 DEF WriteStatus, UpdateRow
    <2>3. \A q \in Reports : Exists(q)' => created'[q] # 0
        BY <1>2, <2>2 DEF Exists
    <2>4. QED
        BY <2>2, <2>3
<1>8. QED
    BY <1>1, <1>3, <1>4, <1>5, <1>6, <1>7

LEMMA CreationsStay ==
    ASSUME ListingTypeOK, WalkedInv, ListingNext
    PROVE  /\ \A q \in Reports : created[q] # 0 => created'[q] = created[q]
           /\ \A q \in Reports : Exists(q)' => created'[q] # 0
           /\ IsFiniteSet(Begun')
<1>1. CASE Others
    <2>1. PICK r \in Reports :
              /\ \A q \in Reports : q # r \/ created[q] # 0 => created'[q] = created[q]
              /\ \A q \in Reports : Exists(q)' => created'[q] # 0
        BY <1>1, OthersCreated
    <2>2. IsFiniteSet(Begun \cup {r})
        BY FS_AddElement DEF WalkedInv
    <2>3. Begun' \subseteq Begun \cup {r}
        BY <2>1 DEF Begun
    <2>4. IsFiniteSet(Begun')
        BY <2>2, <2>3, FS_Subset
    <2>5. QED
        BY <2>1, <2>4
<1>2. CASE UNCHANGED tableVars
    BY <1>2 DEF tableVars, storeVars, WalkedInv, Begun, Exists
<1>3. QED
    BY <1>1, <1>2 DEF ListingNext, Ask, CountTotal, ReadPage

(* While the selection only grows no fewer reports are ahead, while it only *)
(* shrinks no more of them; nobody becomes alone at the time it has.        *)
LEMMA AheadMoves ==
    ASSUME ListingTypeOK, WalkedInv, WalkedInv', ListingNext,
           NEW r \in Reports, created[r] # 0
    PROVE  /\ created'[r] # 0
           /\ Ahead(r) \in Nat /\ Ahead(r)' \in Nat
           /\ Selection \subseteq Selection' => Ahead(r) <= Ahead(r)'
           /\ Selection' \subseteq Selection => Ahead(r)' <= Ahead(r)
           /\ Alone(r)' => Alone(r)
<1>1. \A q \in Reports : created[q] # 0 => created'[q] = created[q]
    BY CreationsStay
<1>2. IsFiniteSet(Selection) /\ IsFiniteSet(Selection')
    <2>1. Selection' \subseteq Begun'
        BY DEF WalkedInv, Selection, Selected, Begun
    <2>2. IsFiniteSet(Selection')
        BY <2>1, FS_Subset DEF WalkedInv
    <2>3. QED
        BY <2>2, SelectionIsFinite
<1>3. IsFiniteSet(Newer(r)) /\ IsFiniteSet(Newer(r)')
    <2>1. Newer(r) \subseteq Selection /\ Newer(r)' \subseteq Selection'
        BY DEF Newer
    <2>2. QED
        BY <1>2, <2>1, FS_Subset
<1>4. Ahead(r) \in Nat /\ Ahead(r)' \in Nat
    BY <1>3, FS_CardinalityType DEF Ahead
<1>5. \A q \in Selection : q \in Reports /\ created'[q] = created[q]
    <2>1. \A q \in Selection : q \in Reports /\ created[q] # 0
        BY SelectionIsFinite DEF Begun
    <2>2. QED
        BY <1>1, <2>1
<1>6. created'[r] = created[r]
    BY <1>1
<1>7. ASSUME Selection \subseteq Selection' PROVE Ahead(r) <= Ahead(r)'
    <2>1. Newer(r) \subseteq Newer(r)'
        BY <1>5, <1>6, <1>7 DEF Newer
    <2>2. QED
        BY <1>3, <2>1, FS_Subset DEF Ahead
<1>8. ASSUME Selection' \subseteq Selection PROVE Ahead(r)' <= Ahead(r)
    <2>1. Newer(r)' \subseteq Newer(r)
        BY <1>5, <1>6, <1>8 DEF Newer
    <2>2. QED
        BY <1>3, <2>1, FS_Subset DEF Ahead
<1>9. ASSUME Alone(r)' PROVE Alone(r)
    <2>1. ASSUME NEW q \in Reports \ {r}, created[q] = created[r] PROVE FALSE
        BY <1>1, <1>6, <1>9, <2>1 DEF Alone
    <2>2. QED
        BY <2>1 DEF Alone
<1>10. QED
    BY <1>4, <1>6, <1>7, <1>8, <1>9

-----------------------------------------------------------------------------
(* The inductive invariant                                                  *)

(* What was seen before, and then the page.                                 *)
LEMMA SeenAfter ==
    ASSUME ListingTypeOK, ReadPage, page' \in Seq(Reports)
    PROVE  /\ Len(seen) \in Nat /\ Len(page') \in Nat
           /\ Len(seen') = Len(seen) + Len(page')
           /\ \A i \in 1..Len(seen) : i \in 1..Len(seen') /\ seen'[i] = seen[i]
           /\ \A k \in 1..Len(page') :
                Len(seen) + k \in 1..Len(seen') /\ seen'[Len(seen) + k] = page'[k]
           /\ \A i \in 1..Len(seen') :
                i \in 1..Len(seen) \/ \E k \in 1..Len(page') : i = Len(seen) + k
<1> DEFINE m == Len(seen)
           n == Len(page')
<1>1. /\ m \in Nat /\ n \in Nat /\ Len(seen') = m + n
      /\ \A i \in 1..(m + n) : seen'[i] = IF i <= m THEN seen[i] ELSE page'[i - m]
    <2>1. seen \in Seq(Reports) /\ seen' = seen \o page'
        BY DEF ListingTypeOK, ReadPage
    <2>2. QED
        BY <2>1, ConcatProperties, LenProperties
<1> HIDE DEF m, n
<1>2. \A i \in 1..m : i \in 1..(m + n) /\ i <= m
    BY <1>1
<1>3. \A k \in 1..n : m + k \in 1..(m + n) /\ ~ (m + k <= m) /\ m + k - m = k
    BY <1>1
<1>4. ASSUME NEW i \in 1..(m + n), i \notin 1..m PROVE \E k \in 1..n : i = m + k
    <2>1. i - m \in 1..n /\ i = m + (i - m)
        BY <1>1, <1>4
    <2>2. QED
        BY <2>1
<1>5. \A i \in 1..m : i \in 1..(m + n) /\ seen'[i] = seen[i]
    BY <1>1, <1>2
<1>6. \A k \in 1..n : m + k \in 1..(m + n) /\ seen'[m + k] = page'[k]
    BY <1>1, <1>3
<1>7. QED
    BY <1>1, <1>4, <1>5, <1>6 DEF m, n

(* A step that reads no page: the walk is where it was.                     *)
LEMMA NothingRead ==
    ASSUME ListingTypeOK, ListingNext, ~ReadPage
    PROVE  /\ seen' = seen /\ offset' = offset
           /\ step' = "idle" => step = "idle"
           /\ step' = "done" <=> step = "done"
<1>1. CASE Others
    <2>1. UNCHANGED walkVars
        BY <1>1, OthersType
    <2>2. QED
        BY <2>1 DEF walkVars
<1>2. CASE Ask \/ CountTotal
    BY <1>2 DEF Ask, CountTotal
<1>3. QED
    BY <1>1, <1>2 DEF ListingNext

LEMMA WalkedNext ==
    ASSUME ListingTypeOK, WalkedInv, ListingNext
    PROVE  WalkedInv'
<1>1. \A q \in Reports : created[q] # 0 => created'[q] = created[q]
    BY CreationsStay
<1>2. IsFiniteSet(Begun') /\ \A q \in Reports : Exists(q)' => created'[q] # 0
    BY CreationsStay
<1>3. lasting' \subseteq Selection'
    BY DEF ListingNext, Observe
<1>4. \A i \in 1..Len(seen) : seen[i] \in Reports /\ created[seen[i]] # 0
    BY ElementOfSeq DEF ListingTypeOK, WalkedInv
<1>5. CASE ReadPage
    <2>1. PICK s \in Ordered(Selection) :
              /\ page' \in Seq(Reports) /\ Cardinality(Selection) \in Nat
              /\ \A k \in 1..Len(page') :
                    offset + k \in 1..Cardinality(Selection) /\ page'[k] = s[offset + k]
        BY <1>5, SelectionIsFinite, PageRead
    <2>2. \A k \in 1..Len(page') : page'[k] \in Begun
        BY <2>1, SelectionIsFinite, OrderingHoldsAll
    <2>3. \A i \in 1..Len(seen') : created[seen'[i]] # 0
        <3>1. /\ \A i \in 1..Len(seen) : seen'[i] = seen[i]
              /\ \A k \in 1..Len(page') : seen'[Len(seen) + k] = page'[k]
              /\ \A i \in 1..Len(seen') :
                    i \in 1..Len(seen) \/ \E k \in 1..Len(page') : i = Len(seen) + k
            BY <1>5, <2>1, SeenAfter
        <3>2. \A i \in 1..Len(seen) : created[seen'[i]] # 0
            BY <1>4, <3>1
        <3>3. \A k \in 1..Len(page') : created[seen'[Len(seen) + k]] # 0
            BY <2>2, <3>1 DEF Begun
        <3>4. QED
            BY <3>1, <3>2, <3>3
    <2>4. created' = created /\ step' # "idle"
        BY <1>5 DEF ReadPage, tableVars
    <2>5. QED
        BY <1>2, <1>3, <2>3, <2>4 DEF WalkedInv
<1>6. CASE ~ReadPage
    <2>1. seen' = seen /\ offset' = offset /\ (step' = "idle" => step = "idle")
        BY <1>6, NothingRead
    <2>2. \A i \in 1..Len(seen') : created'[seen'[i]] # 0
        BY <1>1, <1>4, <2>1
    <2>3. QED
        BY <1>2, <1>3, <2>1, <2>2 DEF WalkedInv
<1>7. QED
    BY <1>5, <1>6

LEMMA TotalNext ==
    ASSUME ListingTypeOK, WalkedInv, TotalInv, ListingNext
    PROVE  TotalInv'
<1>1. steady' => (step = "count" /\ step' = "page") \/ (steady /\ Selection' = Selection)
    BY DEF ListingNext, Observe
<1>2. CASE Others
    <2>1. UNCHANGED walkVars
        BY <1>2, OthersType
    <2>2. steady' => steady /\ Selection' = Selection
        BY <1>1, <2>1 DEF walkVars
    <2>3. QED
        BY <2>1, <2>2 DEF TotalInv, TotalGoesWithPage, walkVars
<1>3. CASE Ask
    BY <1>3 DEF Ask, TotalInv, TotalGoesWithPage
<1>4. CASE CountTotal
    <2>1. Selection' = Selection
        BY <1>4 DEF CountTotal, tableVars, storeVars, Selection, Selected, Exists
    <2>2. QED
        BY <1>4, <2>1 DEF CountTotal, TotalInv, TotalGoesWithPage
<1>5. CASE ReadPage
    <2> DEFINE n == Cardinality(Selection)
    <2>1. steady' => total = n
        BY <1>1, <1>5 DEF ReadPage, TotalInv
    <2>2. /\ n \in Nat /\ offset' \in Nat /\ total' = total /\ step' # "page"
          /\ page' \in Seq(Reports) /\ Len(page') \in Nat /\ Len(page') <= Limit
          /\ Len(page') < Limit => n <= offset'
          /\ Len(page') > 0 => offset' <= n
        BY <1>5, SelectionIsFinite, PageRead DEF ReadPage
    <2> HIDE DEF n
    <2>3. page' = <<>> \/ Len(page') > 0
        BY <2>2, EmptySeq
    <2>4. page' = <<>> => Len(page') < Limit
        BY ListingAssumption
    <2>5. Limit \in Nat
        BY ListingAssumption
    <2>6. steady' => IF page' = <<>> THEN total' <= offset'
                     ELSE IF Len(page') < Limit THEN total' = offset'
                     ELSE total' >= offset'
        BY <2>1, <2>2, <2>3, <2>4, <2>5
    <2>7. QED
        BY <2>2, <2>6 DEF TotalInv, TotalGoesWithPage
<1>6. QED
    BY <1>2, <1>3, <1>4, <1>5 DEF ListingNext

LEMMA FoundNext ==
    ASSUME ListingTypeOK, WalkedInv, WalkedInv', FoundInv, ListingNext
    PROVE  FoundInv'
<1> SUFFICES ASSUME step' # "idle", ~fled', NEW r \in lasting', Alone(r)'
             PROVE  \/ \E i \in 1..Len(seen') : seen'[i] = r
                    \/ step' # "done" /\ Ahead(r)' >= offset'
    BY DEF FoundInv
<1>1. r \in Selection' /\ r \in Reports /\ offset \in Nat
    BY DEF WalkedInv, Selection, ListingTypeOK
<1>2. CASE step = "idle"
    <2>1. ~ReadPage
        BY <1>2 DEF ReadPage
    <2>2. offset' = 0 /\ step' # "done"
        BY <1>2, <2>1, NothingRead DEF WalkedInv
    <2>3. Ahead(r)' \in Nat
        <3>1. Newer(r)' \subseteq Selection' /\ Selection' \subseteq Begun'
            BY DEF Newer, WalkedInv, Selection, Selected, Begun
        <3>2. IsFiniteSet(Newer(r)')
            BY <3>1, FS_Subset DEF WalkedInv
        <3>3. QED
            BY <3>2, FS_CardinalityType DEF Ahead
    <2>4. QED
        BY <2>2, <2>3
<1>3. CASE step # "idle"
    <2>1. ~fled /\ r \in lasting /\ Selection \subseteq Selection'
        BY <1>3 DEF ListingNext, Observe
    <2>2. created[r] # 0 /\ r \in Selection
        BY <2>1, SelectionIsFinite DEF WalkedInv, Begun
    <2>3. Alone(r) /\ Ahead(r) \in Nat /\ Ahead(r)' \in Nat /\ Ahead(r) <= Ahead(r)'
        BY <1>1, <2>1, <2>2, AheadMoves
    <2>4. \/ \E i \in 1..Len(seen) : seen[i] = r
          \/ step # "done" /\ Ahead(r) >= offset
        BY <1>3, <2>1, <2>3 DEF FoundInv
    <2>5. CASE ~ReadPage
        <3>1. seen' = seen /\ offset' = offset /\ (step' = "done" <=> step = "done")
            BY <2>5, NothingRead
        <3>2. QED
            BY <1>1, <2>3, <2>4, <3>1
    <2>6. CASE ReadPage
        <3> DEFINE n == Cardinality(Selection)
        <3>1. PICK s \in Ordered(Selection) :
                  /\ page' \in Seq(Reports) /\ Len(page') \in Nat /\ Len(page') <= Limit
                  /\ offset' = offset + Len(page')
                  /\ step' = IF Len(page') < Limit THEN "done" ELSE "answered"
                  /\ n \in Nat
                  /\ Len(page') < Limit => n <= offset'
                  /\ \A k \in 1..Len(page') : offset + k \in 1..n /\ page'[k] = s[offset + k]
            BY <2>6, SelectionIsFinite, PageRead
        <3>2. /\ Len(seen) \in Nat /\ Len(seen') = Len(seen) + Len(page')
              /\ \A i \in 1..Len(seen) : i \in 1..Len(seen') /\ seen'[i] = seen[i]
              /\ \A k \in 1..Len(page') :
                    Len(seen) + k \in 1..Len(seen') /\ seen'[Len(seen) + k] = page'[k]
            BY <2>6, <3>1, SeenAfter
        <3>3. CASE \E i \in 1..Len(seen) : seen[i] = r
            BY <3>2, <3>3
        <3>4. CASE Ahead(r) >= offset
            <4>1. PICK i \in 1..n : s[i] = r
                BY <2>2, SelectionIsFinite, OrderingHoldsAll
            <4>2. Ahead(r) = i - 1
                BY <2>3, <4>1, SelectionIsFinite, PlaceOfAlone DEF ListingTypeOK
            <4>3. Ahead(r)' = Ahead(r)
                <5>1. Selection' = Selection /\ created' = created
                    BY <2>6 DEF ReadPage, tableVars, storeVars, Selection, Selected, Exists
                <5>2. QED
                    BY <5>1 DEF Ahead, Newer
            <4>4. CASE i <= offset'
                <5>1. i - offset \in 1..Len(page') /\ offset + (i - offset) = i
                    BY <1>1, <3>1, <3>4, <4>1, <4>2, <4>4
                <5>2. seen'[Len(seen) + (i - offset)] = r
                    BY <3>1, <3>2, <4>1, <5>1
                <5>3. QED
                    BY <3>2, <5>1, <5>2
            <4>5. CASE i > offset'
                <5>1. Len(page') = Limit
                    BY <1>1, <3>1, <4>1, <4>5, ListingAssumption
                <5>2. step' = "answered"
                    BY <3>1, <5>1
                <5>3. Ahead(r)' >= offset'
                    BY <1>1, <3>1, <4>1, <4>2, <4>3, <4>5
                <5>4. QED
                    BY <5>2, <5>3
            <4>6. QED
                BY <1>1, <3>1, <4>1, <4>4, <4>5
        <3>5. QED
            BY <2>4, <3>3, <3>4
    <2>7. QED
        BY <2>5, <2>6
<1>4. QED
    BY <1>2, <1>3

(* The reports of a page that are alone were not seen before.               *)
LEMMA PageIsNew ==
    ASSUME ListingTypeOK, WalkedInv, PassedInv, ~joined, ReadPage,
           Len(page') \in Nat, NEW s \in Ordered(Selection), NEW k \in 1..Len(page'),
           offset + k \in 1..Cardinality(Selection),
           NEW r \in Reports, r = s[offset + k], Alone(r)
    PROVE  /\ Ahead(r) = offset + k - 1
           /\ \A i \in 1..Len(seen) : seen[i] # r
<1>1. offset \in Nat /\ k \in Nat \ {0}
    BY DEF ListingTypeOK
<1>2. Ahead(r) = offset + k - 1
    BY SelectionIsFinite, PlaceOfAlone DEF ListingTypeOK
<1>3. ASSUME NEW i \in 1..Len(seen), seen[i] = r PROVE FALSE
    <2>1. Ahead(r) < offset
        BY <1>3 DEF PassedInv
    <2>2. QED
        BY <1>1, <1>2, <2>1
<1>4. QED
    BY <1>2, <1>3

LEMMA PassedNext ==
    ASSUME ListingTypeOK, WalkedInv, WalkedInv', PassedInv, ListingNext
    PROVE  PassedInv'
<1> SUFFICES ASSUME ~joined', NEW r \in Reports, NEW i \in 1..Len(seen'),
                    seen'[i] = r, Alone(r)'
             PROVE  /\ Ahead(r)' < offset'
                    /\ \A j \in 1..Len(seen') : seen'[j] = r => j = i
    BY DEF PassedInv
<1>1. offset \in Nat
    BY DEF ListingTypeOK
<1>2. \A j \in 1..Len(seen) : seen[j] \in Reports /\ created[seen[j]] # 0
    BY ElementOfSeq DEF ListingTypeOK, WalkedInv
<1>3. CASE ~ReadPage
    <2>1. seen' = seen /\ offset' = offset
        BY <1>3, NothingRead
    <2>2. step # "idle"
        <3>1. SUFFICES ASSUME step = "idle" PROVE FALSE
            OBVIOUS
        <3>2. seen = <<>>
            BY <3>1 DEF WalkedInv
        <3>3. QED
            BY <2>1, <3>2
    <2>3. ~joined /\ Selection' \subseteq Selection
        BY <2>2 DEF ListingNext, Observe
    <2>4. i \in 1..Len(seen) /\ seen[i] = r /\ created[r] # 0
        BY <1>2, <2>1
    <2>5. Alone(r) /\ Ahead(r) \in Nat /\ Ahead(r)' \in Nat /\ Ahead(r)' <= Ahead(r)
        BY <2>3, <2>4, AheadMoves
    <2>6. Ahead(r) < offset /\ \A j \in 1..Len(seen) : seen[j] = r => j = i
        BY <2>3, <2>4, <2>5 DEF PassedInv
    <2>7. Ahead(r)' < offset
        BY <1>1, <2>5, <2>6
    <2>8. QED
        BY <2>1, <2>6, <2>7
<1>4. CASE ReadPage
    <2>1. PICK s \in Ordered(Selection) :
              /\ page' \in Seq(Reports) /\ Len(page') \in Nat
              /\ offset' = offset + Len(page')
              /\ \A k \in 1..Len(page') :
                    offset + k \in 1..Cardinality(Selection) /\ page'[k] = s[offset + k]
        BY <1>4, SelectionIsFinite, PageRead
    <2>2. /\ Len(seen) \in Nat /\ Len(seen') = Len(seen) + Len(page')
          /\ \A j \in 1..Len(seen) : seen'[j] = seen[j]
          /\ \A k \in 1..Len(page') : seen'[Len(seen) + k] = page'[k]
          /\ \A j \in 1..Len(seen') :
                j \in 1..Len(seen) \/ \E k \in 1..Len(page') : j = Len(seen) + k
        BY <1>4, <2>1, SeenAfter
    <2>3. /\ Selection' = Selection /\ created' = created /\ step # "idle"
        BY <1>4 DEF ReadPage, tableVars, storeVars, Selection, Selected, Exists
    <2>4. ~joined
        BY <2>3 DEF ListingNext, Observe
    <2>5. Ahead(r)' = Ahead(r) /\ Alone(r)
        BY <2>3 DEF Ahead, Newer, Alone
    <2>6. CASE i \in 1..Len(seen)
        <3>1. seen[i] = r
            BY <2>2, <2>6
        <3>2. Ahead(r) < offset /\ \A j \in 1..Len(seen) : seen[j] = r => j = i
            BY <2>4, <2>5, <2>6, <3>1 DEF PassedInv
        <3>3. Ahead(r) < offset'
            <4>1. r \in Reports /\ created[r] # 0
                BY <1>2, <2>6, <3>1
            <4>2. Ahead(r) \in Nat
                BY <4>1, AheadMoves
            <4>3. QED
                BY <1>1, <2>1, <3>2, <4>2
        <3>4. \A k \in 1..Len(page') : page'[k] # r
            BY <1>4, <2>1, <2>4, <2>5, <2>6, <3>1, PageIsNew
        <3>5. ASSUME NEW j \in 1..Len(seen'), seen'[j] = r PROVE j = i
            <4>1. \A k \in 1..Len(page') : j # Len(seen) + k
                BY <2>2, <3>4, <3>5
            <4>2. j \in 1..Len(seen) /\ seen[j] = r
                BY <2>2, <3>5, <4>1
            <4>3. QED
                BY <3>2, <4>2
        <3>6. QED
            BY <2>5, <3>3, <3>5
    <2>7. CASE i \notin 1..Len(seen)
        <3>1. PICK k \in 1..Len(page') : i = Len(seen) + k
            BY <2>2, <2>7
        <3>2. r = page'[k] /\ offset + k \in 1..Cardinality(Selection) /\ r = s[offset + k]
            BY <2>1, <2>2, <3>1
        <3>3. Ahead(r) = offset + k - 1 /\ \A j \in 1..Len(seen) : seen[j] # r
            BY <1>4, <2>1, <2>4, <2>5, <3>2, PageIsNew
        <3>4. Ahead(r) < offset'
            BY <1>1, <2>1, <3>3
        <3>5. \A h \in 1..Len(page') : page'[h] = r => h = k
            <4>1. ASSUME NEW h \in 1..Len(page'), page'[h] = r PROVE h = k
                <5>1. /\ offset + h \in 1..Cardinality(Selection)
                      /\ s[offset + h] = s[offset + k]
                    BY <2>1, <3>2, <4>1
                <5>2. offset + h = offset + k
                    BY <3>2, <5>1, SelectionIsFinite, OrderingHoldsAll
                <5>3. h \in Nat /\ k \in Nat
                    BY <2>1
                <5>4. QED
                    BY <1>1, <5>2, <5>3
            <4>2. QED
                BY <4>1
        <3>6. ASSUME NEW j \in 1..Len(seen'), seen'[j] = r PROVE j = i
            <4>1. j \notin 1..Len(seen)
                BY <2>2, <3>3, <3>6
            <4>2. PICK h \in 1..Len(page') : j = Len(seen) + h
                BY <2>2, <4>1
            <4>3. h = k
                BY <2>2, <3>5, <3>6, <4>2
            <4>4. QED
                BY <3>1, <4>2, <4>3
        <3>7. QED
            BY <2>5, <3>4, <3>6
    <2>8. QED
        BY <2>6, <2>7
<1>5. QED
    BY <1>3, <1>4

LEMMA WalkInit == ListingInit => WalkInv
<1> SUFFICES ASSUME ListingInit PROVE WalkInv
    OBVIOUS
<1>1. step = "idle" /\ offset = 0 /\ seen = <<>> /\ Len(seen) = 0 /\ lasting = {} /\ ~steady
    BY DEF ListingInit
<1>2. Begun = {} /\ IsFiniteSet(Begun)
    <2>1. Begun = {}
        BY DEF ListingInit, Begun
    <2>2. QED
        BY <2>1, FS_EmptySet
<1>3. \A r \in Reports : ~Exists(r)
    BY DEF ListingInit, StoreInit, AbsentRow, NewRow, Exists
<1>4. ListingTypeOK
    BY ListingTypeInit
<1>5. WalkedInv
    BY <1>1, <1>2, <1>3 DEF WalkedInv
<1>6. TotalInv /\ FoundInv /\ PassedInv
    BY <1>1 DEF TotalInv, TotalGoesWithPage, FoundInv, PassedInv
<1>7. QED
    BY <1>4, <1>5, <1>6 DEF WalkInv

LEMMA WalkStutters == WalkInv /\ UNCHANGED listingVars => WalkInv'
<1> SUFFICES ASSUME WalkInv, UNCHANGED listingVars PROVE WalkInv'
    OBVIOUS
<1>1. UNCHANGED <<row, events, attempts, file, clock, created, expired, step, ended, total,
                  offset, page, seen, lasting, fled, joined, steady>>
    BY DEF listingVars, tableVars, storeVars, walkVars, historyVars
<1>2. Selection' = Selection /\ Begun' = Begun /\ \A r : Exists(r)' <=> Exists(r)
    BY <1>1 DEF Selection, Selected, Begun, Exists
<1>3. ListingTypeOK'
    BY <1>1 DEF WalkInv, ListingTypeOK, StoreTypeOK
<1>4. WalkedInv' /\ TotalInv'
    <2>1. WalkedInv'
        BY <1>1, <1>2 DEF WalkInv, WalkedInv
    <2>2. TotalInv'
        BY <1>1, <1>2 DEF WalkInv, TotalInv, TotalGoesWithPage
    <2>3. QED
        BY <2>1, <2>2
<1>5. FoundInv' /\ PassedInv'
    <2>1. \A r : Newer(r)' = Newer(r)
        BY <1>1, <1>2 DEF Newer
    <2>2. \A r : Ahead(r)' = Ahead(r) /\ Alone(r)' = Alone(r)
        BY <1>1, <2>1 DEF Ahead, Alone
    <2>3. FoundInv'
        BY <1>1, <2>2 DEF WalkInv, FoundInv
    <2>4. PassedInv'
        BY <1>1, <2>2 DEF WalkInv, PassedInv
    <2>5. QED
        BY <2>3, <2>4
<1>6. QED
    BY <1>3, <1>4, <1>5 DEF WalkInv

(* The walk as list_requests answers it, page after page, whatever the      *)
(* transactions of others do to the table between its queries.              *)
THEOREM WalkInvariance == ListingSpec => []WalkInv
<1>1. WalkInv /\ [ListingNext]_listingVars => WalkInv'
    BY ListingTypeNext, WalkedNext, TotalNext, FoundNext, PassedNext, WalkStutters DEF WalkInv
<1>2. QED
    BY <1>1, WalkInit, PTL DEF ListingSpec

-----------------------------------------------------------------------------
(* What a client may rely on                                                *)

(* The total of list_requests counts the reports its page was cut from      *)
(* whenever nothing changed between the two queries.                        *)
THEOREM TotalsGoWithPages == ListingSpec => []TotalGoesWithPage
<1>1. WalkInv => TotalGoesWithPage
    BY DEF WalkInv, TotalInv
<1>2. QED
    BY <1>1, WalkInvariance, PTL

(* The indices at which r was seen are finitely many.                       *)
LEMMA SightingsAreFinite ==
    ASSUME ListingTypeOK, NEW r
    PROVE  /\ IsFiniteSet({i \in DOMAIN seen : seen[i] = r}) /\ TimesSeen(r) \in Nat
           /\ DOMAIN seen = 1..Len(seen)
<1>1. DOMAIN seen = 1..Len(seen) /\ Len(seen) \in Nat
    BY LenProperties DEF ListingTypeOK
<1>2. IsFiniteSet(1..Len(seen))
    BY <1>1, FS_Interval
<1>3. IsFiniteSet({i \in DOMAIN seen : seen[i] = r})
    BY <1>1, <1>2, FS_Subset
<1>4. QED
    BY <1>1, <1>3, FS_CardinalityType DEF TimesSeen

(* A walk that ended without one leaving the selection has found every      *)
(* report that was in it all the time and shares its created_at with none:  *)
(* the order and the offsets of list_requests.                              *)
THEOREM WalksMissNothing == ListingSpec => []WalkMissesNothing
<1>1. WalkInv => WalkMissesNothing
    <2> SUFFICES ASSUME WalkInv, step = "done", ~fled, NEW r \in lasting, Alone(r)
                 PROVE  TimesSeen(r) > 0
        BY DEF WalkMissesNothing
    <2> DEFINE S == {i \in DOMAIN seen : seen[i] = r}
    <2>1. \E i \in 1..Len(seen) : seen[i] = r
        BY DEF WalkInv, FoundInv
    <2>2. IsFiniteSet(S) /\ TimesSeen(r) \in Nat /\ DOMAIN seen = 1..Len(seen)
        BY SightingsAreFinite DEF WalkInv
    <2>3. S # {}
        BY <2>1, <2>2
    <2>4. Cardinality(S) # 0
        BY <2>2, <2>3, FS_EmptySet
    <2>5. QED
        BY <2>2, <2>4 DEF TimesSeen
<1>2. QED
    BY <1>1, WalkInvariance, PTL

(* Unless one enters the selection during the walk, no page repeats what    *)
(* an earlier one showed.                                                   *)
THEOREM WalksRepeatNothing == ListingSpec => []WalkRepeatsNothing
<1>1. WalkInv => WalkRepeatsNothing
    <2> SUFFICES ASSUME WalkInv, ~joined, NEW r \in Reports, Alone(r)
                 PROVE  TimesSeen(r) <= 1
        BY DEF WalkRepeatsNothing
    <2> DEFINE S == {i \in DOMAIN seen : seen[i] = r}
    <2>1. DOMAIN seen = 1..Len(seen)
        BY SightingsAreFinite DEF WalkInv
    <2>2. \A i, j \in S : i = j
        BY <2>1 DEF WalkInv, PassedInv
    <2>3. CASE S = {}
        BY <2>3, FS_EmptySet DEF TimesSeen
    <2>4. CASE S # {}
        <3>1. PICK i : S = {i}
            BY <2>2, <2>4
        <3>2. Cardinality(S) = 1
            BY <3>1, FS_Singleton
        <3>3. QED
            BY <3>2 DEF TimesSeen
    <2>5. QED
        BY <2>3, <2>4
<1>2. QED
    BY <1>1, WalkInvariance, PTL
=============================================================================
