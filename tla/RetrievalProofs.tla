---------------------------- MODULE RetrievalProofs ----------------------------
(***************************************************************************)
(* Proofs about Retrieval for any scopes, responses, records and bounds.   *)
(***************************************************************************)
EXTENDS Retrieval, FiniteSetTheorems, SequenceTheorems, TLAPS

Pages == Seq(PageType)
ResolutionType == [status : {"none", "captured", "ingested"},
                   body : Contents \cup {Missing}, at : 0..MaxTime]
RowType == [at : 0..MaxTime, body : Contents \cup {Missing}, conflict : SUBSET Contents]

-----------------------------------------------------------------------------
(* The inductive invariant, in named parts.                                 *)

\* What the process holds is a scope and what it does there.
WorkFits ==
    \/ work = Idle
    \/ \E i : \E step \in {"parse", "mark", "resolve", "resolved", "replay"}, s \in Scopes,
                 replay \in BOOLEAN, all \in BOOLEAN :
          work = Busy(step, s, i, replay, all)

\* Every response in the ledger is one the provider gave in that scope.
PagesFit ==
    \A s \in Scopes : \A i \in DOMAIN pages[s] : pages[s][i].response \in Offered[s]

\* A resolution has a description and a time, or there is none.
ResolutionFits(r) ==
    IF r.status = "none" THEN r = NoResolution ELSE r.body \in Contents /\ r.at > 0

ResolutionsFit == \A s \in Scopes : \A d \in Ids : ResolutionFits(resolutions[s][d])

\* These records are in the queue: their receipt, their snapshots, and a row
\* for each that is not older.
Filed(records, at) ==
    Stored(records, at) /\ \A r \in records : rows[r.id].at >= at

\* What the ledger calls ingested is in the queue.
IngestedIsFiled ==
    \A s \in Scopes :
        /\ \A i \in Ingested(pages[s]) : Filed(Complete(pages[s][i].response.rows), pages[s][i].at)
        /\ \A d \in Resolved(s) : Filed({Resolution(s, d)}, resolutions[s][d].at)

\* What PagesEnumerateOnce says of the pages of one scope.
EnumeratesOnce(ps) ==
    /\ {ps[i].cursor : i \in Ingested(ps)} = 0..(Cardinality(Ingested(ps)) - 1)
    /\ \A i, j \in Ingested(ps) : i # j =>
          /\ IdsOf(ps[i].response.rows) \cap IdsOf(ps[j].response.rows) = {}
          /\ ps[i].response.last => ps[j].cursor < ps[i].cursor

\* Without pagination every page is the first, and shows what no other does.
ShownOnce(ps) ==
    \A i, j \in Ingested(ps) :
        /\ ps[i].cursor = 0
        /\ i # j => IdsOf(ps[i].response.rows) \cap IdsOf(ps[j].response.rows) = {}

Enumerates(s, ps) == IF s \in Supplementary THEN ShownOnce(ps) ELSE EnumeratesOnce(ps)

\* The page comes next in its scope and shows only what the others did not.
ComesNext(s, page, ps) ==
    /\ page.response.valid
    /\ ~Exhausted(s, ps) /\ page.cursor = NextCursor(s, ps)
    /\ IdsOf(Returned(ps)) \cap IdsOf(page.response.rows) = {}

\* Between the queue and the ledger: the records are in the queue, and the
\* page that is about to be marked still comes next.
InHand ==
    /\ work.step \in {"parse", "mark"} => Page.status # "ingested"
    /\ work.step = "mark" => /\ ComesNext(work.scope, Page, pages[work.scope])
                             /\ Filed(Complete(Page.response.rows), Page.at)
    /\ work.step = "resolved" =>
          Filed({Resolution(work.scope, work.at)}, resolutions[work.scope][work.at].at)

\* The posting of d was captured at this time with this description.
WasCaptured(d, at, body) ==
    \E s \in Scopes :
        \/ resolutions[s][d].at = at /\ resolutions[s][d].body = body
        \/ \E i \in DOMAIN pages[s] : \E r \in pages[s][i].response.rows :
              r.id = d /\ r.body = body /\ pages[s][i].at = at

\* A row shows a capture.
RowsFit ==
    \A d \in Ids : rows[d].at > 0 =>
        rows[d].body \in Contents /\ WasCaptured(d, rows[d].at, rows[d].body)

\* A checkpoint is of scopes that are enumerated to their end, and names what
\* is in the queue, all that is public of these scopes among it.
CheckpointFits ==
    /\ checkpoint.seen \subseteq IdsOf(Complete(observed))
    /\ \A s \in checkpoint.scopes :
          /\ Exhausted(s, pages[s])
          /\ \A r \in Returned(pages[s]) : r.body # Unlisted => r.id \in checkpoint.seen

\* All of it but the operation under way.
FilesFit ==
    /\ PagesFit /\ ResolutionsFit /\ IngestedIsFiled
    /\ \A s \in Scopes : Enumerates(s, pages[s])
    /\ RowsFit /\ CheckpointFits

Inv == TypeOK /\ WorkFits /\ InHand /\ FilesFit

-----------------------------------------------------------------------------
(* The pages of a scope.                                                    *)

\* A page that is a different one in nothing but its status.
Becomes(ps, qs, k, status) ==
    /\ qs \in Pages /\ DOMAIN qs = DOMAIN ps
    /\ \A i \in DOMAIN ps :
          /\ qs[i].response = ps[i].response /\ qs[i].cursor = ps[i].cursor /\ qs[i].at = ps[i].at
          /\ qs[i].status = IF i = k THEN status ELSE ps[i].status

\* What was captured stays as it was captured.
KeepsCaptures(ps, qs) ==
    /\ DOMAIN ps \subseteq DOMAIN qs
    /\ \A i \in DOMAIN ps : /\ qs[i].response = ps[i].response
                            /\ qs[i].cursor = ps[i].cursor /\ qs[i].at = ps[i].at

\* The numbers of the ingested pages are finitely many.
LEMMA IngestedIsFinite ==
    ASSUME NEW ps \in Pages
    PROVE  /\ IsFiniteSet(Ingested(ps)) /\ Cardinality(Ingested(ps)) \in Nat
           /\ Ingested(ps) \subseteq DOMAIN ps
<1>1. DOMAIN ps = 1..Len(ps) /\ Len(ps) \in Nat
    BY DEF Pages
<1>2. IsFiniteSet(1..Len(ps))
    BY <1>1, FS_Interval
<1>3. Ingested(ps) \subseteq 1..Len(ps)
    BY <1>1 DEF Ingested
<1>4. IsFiniteSet(Ingested(ps))
    BY <1>2, <1>3, FS_Subset
<1> QED BY <1>1, <1>3, <1>4, FS_CardinalityType

\* Setting the status of one page leaves everything else of the scope alone.
LEMMA StatusSet ==
    ASSUME NEW ps \in Pages, NEW k \in DOMAIN ps, NEW status \in {"captured", "invalid", "ingested"}
    PROVE  Becomes(ps, [ps EXCEPT ![k].status = status], k, status)
<1> DEFINE page == [ps[k] EXCEPT !.status = status]
           qs == [ps EXCEPT ![k] = page]
<1>1. k \in 1..Len(ps) /\ DOMAIN ps = 1..Len(ps) /\ \A i \in DOMAIN ps : ps[i] \in PageType
    BY DEF Pages
<1>2. /\ page \in PageType /\ page.status = status
      /\ page.response = ps[k].response /\ page.cursor = ps[k].cursor /\ page.at = ps[k].at
    BY <1>1 DEF PageType
<1> HIDE DEF page
<1>3. /\ qs \in Pages /\ Len(qs) = Len(ps)
      /\ \A i \in 1..Len(ps) : qs[i] = IF i = k THEN page ELSE ps[i]
    BY <1>1, <1>2, ExceptSeq DEF Pages
<1>4. DOMAIN qs = DOMAIN ps
    BY <1>1
<1>5. Becomes(ps, qs, k, status)
    BY <1>1, <1>2, <1>3, <1>4 DEF Becomes
<1> QED BY <1>5 DEF page

\* What such a change does to the evidence of the scope.
LEMMA EvidenceAfter ==
    ASSUME NEW ps \in Pages, NEW qs, NEW k \in DOMAIN ps, ps[k].status # "ingested",
           NEW status, Becomes(ps, qs, k, status)
    PROVE  /\ k \notin Ingested(ps) /\ KeepsCaptures(ps, qs)
           /\ status = "ingested" => /\ Ingested(qs) = Ingested(ps) \cup {k}
                                     /\ Returned(qs) = Returned(ps) \cup ps[k].response.rows
           /\ status # "ingested" => /\ Ingested(qs) = Ingested(ps)
                                     /\ Returned(qs) = Returned(ps)
<1>1. k \notin Ingested(ps) /\ KeepsCaptures(ps, qs) /\ Ingested(ps) \subseteq DOMAIN ps
    BY DEF Ingested, Becomes, KeepsCaptures
<1>2. CASE status = "ingested"
    <2>1. Ingested(qs) = Ingested(ps) \cup {k}
        BY <1>2 DEF Ingested, Becomes
    <2>2. \A i \in Ingested(qs) : qs[i].response.rows = ps[i].response.rows
        BY <1>1, <2>1 DEF Becomes
    <2>3. Returned(qs) = Returned(ps) \cup ps[k].response.rows
        BY <2>1, <2>2 DEF Returned
    <2> QED BY <1>1, <1>2, <2>1, <2>3
<1>3. CASE status # "ingested"
    <2>1. Ingested(qs) = Ingested(ps)
        BY <1>3 DEF Ingested, Becomes
    <2>2. \A i \in Ingested(qs) : qs[i].response.rows = ps[i].response.rows
        BY <1>1, <2>1 DEF Becomes
    <2>3. Returned(qs) = Returned(ps)
        BY <2>1, <2>2 DEF Returned
    <2> QED BY <1>1, <1>3, <2>1, <2>3
<1> QED BY <1>2, <1>3

\* A captured page at the end adds no evidence.
LEMMA EvidenceOfAppended ==
    ASSUME NEW ps \in Pages, NEW page \in PageType, page.status = "captured"
    PROVE  LET qs == Append(ps, page)
           IN  /\ qs \in Pages /\ KeepsCaptures(ps, qs)
               /\ DOMAIN qs = DOMAIN ps \cup {Len(ps) + 1}
               /\ qs[Len(ps) + 1] = page
               /\ \A i \in DOMAIN ps : qs[i] = ps[i]
               /\ Ingested(qs) = Ingested(ps) /\ Returned(qs) = Returned(ps)
<1> DEFINE qs == Append(ps, page)
<1>1. /\ qs \in Pages /\ Len(ps) \in Nat /\ DOMAIN ps = 1..Len(ps) /\ DOMAIN qs = 1..(Len(ps) + 1)
      /\ qs[Len(ps) + 1] = page /\ \A i \in 1..Len(ps) : qs[i] = ps[i]
    BY DEF Pages
<1> HIDE DEF qs
<1>2. DOMAIN qs = DOMAIN ps \cup {Len(ps) + 1} /\ KeepsCaptures(ps, qs)
    BY <1>1 DEF KeepsCaptures
<1>3. Ingested(qs) = Ingested(ps)
    BY <1>1, <1>2 DEF Ingested
<1>4. \A i \in Ingested(qs) : qs[i] = ps[i]
    BY <1>1, <1>3 DEF Ingested
<1>5. Returned(qs) = Returned(ps)
    BY <1>3, <1>4 DEF Returned
<1> QED BY <1>1, <1>2, <1>3, <1>5 DEF qs

\* The same evidence enumerates the same.
LEMMA SameEnumeration ==
    ASSUME NEW ps \in Pages, NEW qs, NEW s, KeepsCaptures(ps, qs), Ingested(qs) = Ingested(ps)
    PROVE  /\ Exhausted(s, qs) = Exhausted(s, ps)
           /\ Enumerates(s, ps) => Enumerates(s, qs)
<1>1. \A i \in Ingested(ps) : qs[i].response = ps[i].response /\ qs[i].cursor = ps[i].cursor
    BY DEF KeepsCaptures, Ingested
<1>2. Exhausted(s, qs) = Exhausted(s, ps)
    BY <1>1 DEF Exhausted
<1>3. {qs[i].cursor : i \in Ingested(qs)} = {ps[i].cursor : i \in Ingested(ps)}
    BY <1>1
<1>4. EnumeratesOnce(ps) => EnumeratesOnce(qs)
    BY <1>1, <1>3 DEF EnumeratesOnce
<1>5. ShownOnce(ps) => ShownOnce(qs)
    BY <1>1 DEF ShownOnce
<1> QED BY <1>2, <1>4, <1>5 DEF Enumerates

\* A page that comes next carries the enumeration on.
LEMMA NextEnumeratesOnce ==
    ASSUME NEW ps \in Pages, NEW qs, NEW k \in DOMAIN ps, NEW s \in Scopes \ Supplementary,
           ps[k].status # "ingested", Becomes(ps, qs, k, "ingested"),
           ComesNext(s, ps[k], ps), EnumeratesOnce(ps)
    PROVE  EnumeratesOnce(qs)
<1> DEFINE in == Ingested(ps)
           n == Cardinality(in)
<1>1. /\ k \notin in /\ Ingested(qs) = in \cup {k} /\ in \subseteq DOMAIN ps
      /\ IsFiniteSet(in) /\ n \in Nat
    BY EvidenceAfter, IngestedIsFinite
<1>2. Cardinality(Ingested(qs)) = n + 1
    BY <1>1, FS_AddElement
<1>3. /\ \A i \in in : ~ps[i].response.last
      /\ ps[k].cursor = n
    BY DEF ComesNext, Exhausted, NextCursor
<1>4. \A i \in in : IdsOf(ps[i].response.rows) \cap IdsOf(ps[k].response.rows) = {}
    BY DEF ComesNext, Returned, IdsOf
<1>5. \A i \in in \cup {k} : qs[i].response = ps[i].response /\ qs[i].cursor = ps[i].cursor
    BY <1>1 DEF Becomes
<1>6. {ps[i].cursor : i \in in} = 0..(n - 1)
    BY DEF EnumeratesOnce
<1> HIDE DEF in, n
<1>7. {qs[i].cursor : i \in in \cup {k}} = {ps[i].cursor : i \in in} \cup {n}
    BY <1>3, <1>5
<1>8. {qs[i].cursor : i \in in \cup {k}} = 0..((n + 1) - 1)
    <2>1. \A m \in Nat : (0..(m - 1)) \cup {m} = 0..((m + 1) - 1)
        OBVIOUS
    <2>2. (0..(n - 1)) \cup {n} = 0..((n + 1) - 1)
        BY <1>1, <2>1
    <2> QED BY <1>6, <1>7, <2>2, Zenon
<1>9. \A i \in in : ps[i].cursor < n
    <2>1. \A m \in Nat : \A x \in 0..(m - 1) : x < m
        OBVIOUS
    <2>2. \A i \in in : ps[i].cursor \in 0..(n - 1)
        BY <1>6, Zenon
    <2> QED BY <1>1, <2>1, <2>2
<1>10. \A i, j \in in : i # j =>
          IdsOf(ps[i].response.rows) \cap IdsOf(ps[j].response.rows) = {}
    BY DEF EnumeratesOnce, in
<1>11. ASSUME NEW i \in in \cup {k}, NEW j \in in \cup {k}, i # j
       PROVE  /\ IdsOf(qs[i].response.rows) \cap IdsOf(qs[j].response.rows) = {}
              /\ qs[i].response.last => qs[j].cursor < qs[i].cursor
    <2>1. CASE i = k
        BY <1>1, <1>3, <1>4, <1>5, <1>9, <1>11, <2>1
    <2>2. CASE i # k /\ j = k
        BY <1>3, <1>4, <1>5, <2>2
    <2>3. CASE i # k /\ j # k
        BY <1>3, <1>5, <1>10, <1>11, <2>3
    <2> QED BY <2>1, <2>2, <2>3
<1> QED BY <1>1, <1>2, <1>8, <1>11 DEF EnumeratesOnce

\* And in a scope without pagination it shows what no other does.
LEMMA NextIsShownOnce ==
    ASSUME NEW ps \in Pages, NEW qs, NEW k \in DOMAIN ps, NEW s \in Supplementary,
           ps[k].status # "ingested", Becomes(ps, qs, k, "ingested"),
           ComesNext(s, ps[k], ps), ShownOnce(ps)
    PROVE  ShownOnce(qs)
<1>1. /\ k \notin Ingested(ps) /\ Ingested(qs) = Ingested(ps) \cup {k}
      /\ Ingested(ps) \subseteq DOMAIN ps
    BY EvidenceAfter, IngestedIsFinite
<1>2. \A i \in Ingested(ps) : IdsOf(ps[i].response.rows) \cap IdsOf(ps[k].response.rows) = {}
    BY DEF ComesNext, Returned, IdsOf
<1>3. ps[k].cursor = 0
    BY DEF ComesNext, NextCursor
<1>4. \A i \in Ingested(ps) \cup {k} : qs[i].response = ps[i].response /\ qs[i].cursor = ps[i].cursor
    BY <1>1 DEF Becomes
<1>5. ASSUME NEW i \in Ingested(ps) \cup {k}, NEW j \in Ingested(ps) \cup {k}
      PROVE  /\ qs[i].cursor = 0
             /\ i # j => IdsOf(qs[i].response.rows) \cap IdsOf(qs[j].response.rows) = {}
    <2>1. CASE i = k
        BY <1>2, <1>3, <1>4, <2>1
    <2>2. CASE i # k /\ j = k
        BY <1>2, <1>4, <2>2 DEF ShownOnce
    <2>3. CASE i # k /\ j # k
        BY <1>4, <2>3 DEF ShownOnce
    <2> QED BY <2>1, <2>2, <2>3
<1> QED BY <1>1, <1>5 DEF ShownOnce

LEMMA NextEnumerates ==
    ASSUME NEW ps \in Pages, NEW qs, NEW k \in DOMAIN ps, NEW s \in Scopes,
           ps[k].status # "ingested", Becomes(ps, qs, k, "ingested"),
           ComesNext(s, ps[k], ps), Enumerates(s, ps)
    PROVE  Enumerates(s, qs)
BY NextEnumeratesOnce, NextIsShownOnce DEF Enumerates

-----------------------------------------------------------------------------
(* The review queue's side.                                                 *)

\* The queue forgets nothing and its rows do not become older.
QueueGrows ==
    /\ receipts \subseteq receipts' /\ observed \subseteq observed'
    /\ \A d \in Ids : rows[d].at \in Nat /\ rows'[d].at \in Nat /\ rows'[d].at >= rows[d].at

\* What a capture makes of a row is the row as it was, or the capture, and is
\* never older than either.
LEMMA MergedRow ==
    ASSUME NEW row \in RowType, row.at > 0 => row.body \in Contents,
           NEW body \in Contents, NEW at \in 1..MaxTime, NEW replay \in BOOLEAN
    PROVE  LET new == Merged(row, body, at, replay)
           IN  /\ new \in RowType /\ new.at >= at /\ new.at >= row.at /\ new.body \in Contents
               /\ \/ new.at = row.at /\ new.body = row.body
                  \/ new.at = at /\ new.body = body
<1> DEFINE ambiguous == at = row.at /\ (replay \/ row.conflict # {})
           beside == row.at > 0 /\ (at < row.at \/ ambiguous)
           new == Merged(row, body, at, replay)
<1>1. /\ row.at \in Nat /\ row.at <= MaxTime /\ at \in Nat /\ at > 0 /\ at <= MaxTime
      /\ MaxTime \in Nat /\ row.conflict \subseteq Contents
    BY BoundsAssumption DEF RowType
<1>2. CASE ~beside
    <2>1. new = [at |-> at, body |-> body, conflict |-> {}]
        BY <1>2 DEF Merged
    <2>2. at >= row.at
        BY <1>1, <1>2
    <2> HIDE DEF new
    <2> QED BY <1>1, <2>1, <2>2 DEF RowType, new
<1>3. CASE beside /\ ambiguous /\ body # row.body
    <2>1. new = [row EXCEPT !.conflict = @ \cup {row.body, body}]
        BY <1>3 DEF Merged
    <2>2. row.at >= at /\ row.body \in Contents
        BY <1>1, <1>3
    <2> HIDE DEF new, beside, ambiguous
    <2>3. /\ new.at = row.at /\ new.body = row.body /\ new \in RowType
        BY <1>1, <2>1, <2>2 DEF RowType
    <2> QED BY <1>1, <2>2, <2>3 DEF new
<1>4. CASE beside /\ ~(ambiguous /\ body # row.body)
    <2>1. new = row
        BY <1>4 DEF Merged
    <2>2. row.at >= at /\ row.body \in Contents
        BY <1>1, <1>4
    <2> HIDE DEF new
    <2> QED BY <1>1, <2>1, <2>2 DEF new
<1> QED BY <1>2, <1>3, <1>4

\* What ingest leaves: the batch is filed, nothing is forgotten, and each row
\* shows what it showed or a record of the batch.
LEMMA IngestFiles ==
    ASSUME TypeOK, RowsFit, NEW records \in SUBSET Record, NEW at \in 1..MaxTime,
           NEW replay \in BOOLEAN, \A r \in records : r.body \in Contents,
           \A x, y \in records : x.id = y.id => x = y,
           Ingest(records, at, replay)
    PROVE  /\ rows' \in [Ids -> RowType] /\ receipts' \subseteq ReceiptType
           /\ observed' \subseteq Record
           /\ QueueGrows /\ Filed(records, at)'
           /\ \A d \in Ids : rows'[d].at > 0 =>
                /\ rows'[d].body \in Contents
                /\ \/ rows[d].at > 0 /\ rows'[d].at = rows[d].at /\ rows'[d].body = rows[d].body
                   \/ \E r \in records : r.id = d /\ rows'[d].at = at /\ rows'[d].body = r.body
<1>1. /\ rows \in [Ids -> RowType] /\ receipts \subseteq ReceiptType /\ observed \subseteq Record
      /\ \A d \in Ids : rows[d].at > 0 => rows[d].body \in Contents
    BY DEF TypeOK, RowsFit, RowType
<1>2. \A r \in records : r.id \in Ids
    BY DEF Record
<1>3. /\ receipts' = receipts \cup {Receipt(records, at)} /\ observed' = observed \cup records
    BY DEF Ingest
<1>4. Receipt(records, at) \in ReceiptType
    BY DEF Receipt, ReceiptType
<1>5. ASSUME NEW r \in records
      PROVE  rows'[r.id] = Merged(rows[r.id], r.body, at, replay)
    <2>1. (CHOOSE x \in records : x.id = r.id) = r
        OBVIOUS
    <2>2. r.id \in IdsOf(records)
        BY DEF IdsOf
    <2> QED BY <1>2, <2>1, <2>2 DEF Ingest
<1>6. ASSUME NEW d \in Ids, d \notin IdsOf(records)
      PROVE  rows'[d] = rows[d]
    BY <1>6 DEF Ingest
<1>7. ASSUME NEW r \in records
      PROVE  /\ rows'[r.id] \in RowType /\ rows'[r.id].at >= at
             /\ rows'[r.id].at >= rows[r.id].at /\ rows'[r.id].body \in Contents
             /\ \/ rows'[r.id].at = rows[r.id].at /\ rows'[r.id].body = rows[r.id].body
                \/ rows'[r.id].at = at /\ rows'[r.id].body = r.body
    BY <1>1, <1>2, <1>5, MergedRow
<1>8. DOMAIN rows' = Ids
    BY DEF Ingest
<1>9. \A d \in Ids : rows'[d] \in RowType
    BY <1>1, <1>6, <1>7 DEF IdsOf
<1>10. rows' \in [Ids -> RowType]
    <2>1. rows' = [d \in Ids |-> rows'[d]]
        BY DEF Ingest
    <2> QED BY <1>9, <2>1
<1>11. QueueGrows
    <2>1. \A d \in Ids : rows[d].at \in Nat /\ rows'[d].at \in Nat
        BY <1>1, <1>9 DEF RowType
    <2>2. \A d \in Ids : rows'[d].at >= rows[d].at
        BY <1>6, <1>7, <2>1 DEF IdsOf
    <2> QED BY <1>3, <2>1, <2>2 DEF QueueGrows
<1>12. Filed(records, at)'
    BY <1>3, <1>7 DEF Filed, Stored
<1>13. ASSUME NEW d \in Ids, rows'[d].at > 0
       PROVE  /\ rows'[d].body \in Contents
              /\ \/ rows[d].at > 0 /\ rows'[d].at = rows[d].at /\ rows'[d].body = rows[d].body
                 \/ \E r \in records : r.id = d /\ rows'[d].at = at /\ rows'[d].body = r.body
    <2>1. CASE d \in IdsOf(records)
        <3>1. PICK r \in records : r.id = d
            BY <2>1 DEF IdsOf
        <3> QED BY <1>7, <1>13, <3>1
    <2>2. CASE d \notin IdsOf(records)
        BY <1>1, <1>6, <1>13, <2>2
    <2> QED BY <2>1, <2>2
<1> QED BY <1>1, <1>3, <1>4, <1>10, <1>11, <1>12, <1>13

\* What is filed stays filed.
LEMMA FiledStays ==
    ASSUME QueueGrows, NEW records \in SUBSET Record, NEW at \in Nat, Filed(records, at)
    PROVE  Filed(records, at)'
<1>1. Stored(records, at)'
    BY DEF QueueGrows, Filed, Stored
<1>2. \A r \in records : r.id \in Ids /\ rows[r.id].at >= at
    BY DEF Filed, Record
<1>3. \A r \in records : rows'[r.id].at >= at
    BY <1>2 DEF QueueGrows
<1> QED BY <1>1, <1>3 DEF Filed

\* The records and resolutions of the ledger have their types.
LEMMA LedgerTypes ==
    ASSUME TypeOK
    PROVE  /\ pages \in [Scopes -> Pages] /\ resolutions \in [Scopes -> [Ids -> ResolutionType]]
           /\ \A s \in Scopes : \A i \in DOMAIN pages[s] :
                /\ pages[s][i] \in PageType /\ pages[s][i].at \in Nat
                /\ pages[s][i].response.rows \in SUBSET Record
                /\ Complete(pages[s][i].response.rows) \in SUBSET Record
           /\ \A s \in Scopes : \A d \in Ids :
                /\ resolutions[s][d] \in ResolutionType /\ resolutions[s][d].at \in Nat
                /\ resolutions[s][d].body \in Contents => {Resolution(s, d)} \in SUBSET Record
<1>1. pages \in [Scopes -> Pages] /\ resolutions \in [Scopes -> [Ids -> ResolutionType]]
    BY DEF TypeOK, Pages, ResolutionType
<1>2. ASSUME NEW s \in Scopes, NEW i \in DOMAIN pages[s]
      PROVE  /\ pages[s][i] \in PageType /\ pages[s][i].at \in Nat
             /\ pages[s][i].response.rows \in SUBSET Record
             /\ Complete(pages[s][i].response.rows) \in SUBSET Record
    <2>1. pages[s][i] \in PageType
        BY <1>1 DEF Pages
    <2> QED BY <2>1, BoundsAssumption DEF PageType, Response, Complete
<1>3. ASSUME NEW s \in Scopes, NEW d \in Ids
      PROVE  /\ resolutions[s][d] \in ResolutionType /\ resolutions[s][d].at \in Nat
             /\ resolutions[s][d].body \in Contents => {Resolution(s, d)} \in SUBSET Record
    <2>1. resolutions[s][d] \in ResolutionType
        BY <1>1
    <2> QED BY <2>1, BoundsAssumption DEF ResolutionType, Resolution, Record
<1> QED BY <1>1, <1>2, <1>3

\* While the ledger stays as it is, a growing queue keeps what it files.
LEMMA IngestedStaysFiled ==
    ASSUME TypeOK, ResolutionsFit, IngestedIsFiled, QueueGrows, UNCHANGED <<pages, resolutions>>
    PROVE  IngestedIsFiled'
<1>1. ASSUME NEW s \in Scopes, NEW i \in Ingested(pages[s])
      PROVE  Filed(Complete(pages[s][i].response.rows), pages[s][i].at)'
    <2>1. i \in DOMAIN pages[s]
        BY DEF Ingested
    <2>2. Filed(Complete(pages[s][i].response.rows), pages[s][i].at)
        BY DEF IngestedIsFiled
    <2> DEFINE records == Complete(pages[s][i].response.rows)
               at == pages[s][i].at
    <2>3. records \in SUBSET Record /\ at \in Nat
        BY <2>1, LedgerTypes
    <2>4. records' = records /\ at' = at
        OBVIOUS
    <2>5. PICK R \in SUBSET Record, t \in Nat : R = records /\ t = at
        BY <2>3
    <2>6. Filed(R, t)'
        BY <2>2, <2>5, FiledStays
    <2> QED BY <2>4, <2>5, <2>6
<1>2. ASSUME NEW s \in Scopes, NEW d \in Resolved(s)
      PROVE  Filed({Resolution(s, d)}, resolutions[s][d].at)'
    <2>1. d \in Ids /\ resolutions[s][d].status = "ingested"
        BY DEF Resolved
    <2>2. {Resolution(s, d)} \in SUBSET Record /\ resolutions[s][d].at \in Nat
        BY <2>1, LedgerTypes DEF ResolutionsFit, ResolutionFits
    <2>3. Filed({Resolution(s, d)}, resolutions[s][d].at)
        BY DEF IngestedIsFiled
    <2>4. PICK R \in SUBSET Record, t \in Nat : R = {Resolution(s, d)} /\ t = resolutions[s][d].at
        BY <2>2
    <2>5. Filed(R, t)'
        BY <2>3, <2>4, FiledStays
    <2>6. {Resolution(s, d)}' = R /\ resolutions'[s][d].at = t
        BY <2>4 DEF Resolution
    <2> QED BY <2>5, <2>6
<1>3. \A s \in Scopes : Ingested(pages[s])' = Ingested(pages[s]) /\ Resolved(s)' = Resolved(s)
    BY DEF Resolved
<1> QED BY <1>1, <1>2, <1>3 DEF IngestedIsFiled

-----------------------------------------------------------------------------
(* The parts of a step: the files, and the operation under way.             *)

\* The types of the files and the counters.
FileTypes ==
    /\ registered \in 0..MaxScopes
    /\ pages \in [Scopes -> Pages]
    /\ resolutions \in [Scopes -> [Ids -> ResolutionType]]
    /\ failures \in [Scopes -> SUBSET [pointers : SUBSET Ids, cursor : Nat]]
    /\ receipts \subseteq ReceiptType /\ observed \subseteq Record
    /\ rows \in [Ids -> RowType]
    /\ checkpoint \in [at : 0..MaxTime, seen : SUBSET Ids, scopes : SUBSET Scopes]
    /\ results \subseteq [completed : 1..MaxTime, seen : SUBSET Ids,
                         scopes : SUBSET Scopes, intakes : SUBSET ReceiptType]
    /\ now \in 1..MaxTime /\ deaths \in 0..MaxDeaths

\* What the operation works on is there.
HandTypes ==
    /\ work.step \in {"idle", "parse", "mark", "resolve", "resolved", "replay"}
    /\ work.step \in {"parse", "mark"} => work.at \in DOMAIN pages[work.scope]
    /\ work.step \in {"resolve", "resolved"} => work.at \in CapturedResolutions(work.scope)

LEMMA TypesInTwo == TypeOK <=> FileTypes /\ HandTypes
BY DEF TypeOK, FileTypes, HandTypes, Pages, ResolutionType, RowType

LEMMA TypesInTwoNext == TypeOK' <=> FileTypes' /\ HandTypes'
BY DEF TypeOK, FileTypes, HandTypes, Pages, ResolutionType, RowType

\* Nothing is in hand: no operation, or a replay between two pages.
Free(w) == w = Idle \/ \E s \in Scopes : w = Busy("replay", s, 0, TRUE, TRUE)

LEMMA FreeHand ==
    ASSUME Free(work')
    PROVE  HandTypes' /\ WorkFits' /\ InHand'
<1>1. work'.step \in {"idle", "replay"}
    BY DEF Free, Idle, Busy
<1>2. WorkFits'
    BY DEF Free, WorkFits
<1> QED BY <1>1, <1>2 DEF HandTypes, InHand

\* What an operation holds.
LEMMA WorkHolds ==
    ASSUME WorkFits, work.step # "idle"
    PROVE  /\ work.scope \in Scopes /\ work.replay \in BOOLEAN /\ work.all \in BOOLEAN
           /\ \A step \in {"parse", "mark", "resolve", "resolved", "replay"} :
                [work EXCEPT !.step = step] = Busy(step, work.scope, work.at, work.replay, work.all)
           /\ Free(After)
<1>1. work # Idle
    BY DEF Idle
<1>2. PICK i : \E step \in {"parse", "mark", "resolve", "resolved", "replay"}, s \in Scopes,
           replay \in BOOLEAN, all \in BOOLEAN : work = Busy(step, s, i, replay, all)
    BY <1>1 DEF WorkFits
<1> PICK step \in {"parse", "mark", "resolve", "resolved", "replay"}, s \in Scopes,
         replay \in BOOLEAN, all \in BOOLEAN : work = Busy(step, s, i, replay, all)
    BY <1>2
<1>3. work.scope = s /\ work.replay = replay /\ work.all = all /\ work.at = i
    BY DEF Busy
<1>4. \A x \in {"parse", "mark", "resolve", "resolved", "replay"} :
          [work EXCEPT !.step = x] = Busy(x, s, i, replay, all)
    BY DEF Busy
<1>5. Free(After)
    BY <1>3 DEF Free, After
<1> QED BY <1>3, <1>4, <1>5

\* A step that leaves the ledger's evidence and the queue alone.
LEMMA QueueUntouchedFilesFit ==
    ASSUME FilesFit, UNCHANGED <<pages, resolutions, queue>>, CheckpointFits'
    PROVE  FilesFit'
<1>1. /\ pages' = pages /\ resolutions' = resolutions /\ receipts' = receipts
      /\ observed' = observed /\ rows' = rows
    BY DEF queue
<1>2. PagesFit' /\ ResolutionsFit'
    BY <1>1 DEF FilesFit, PagesFit, ResolutionsFit
<1>3. \A R, t : Filed(R, t) => Filed(R, t)'
    BY <1>1 DEF Filed, Stored
<1>4. IngestedIsFiled'
    <2>1. \A s, d : Resolution(s, d)' = Resolution(s, d)
        BY <1>1 DEF Resolution
    <2>2. \A s : Resolved(s)' = Resolved(s)
        BY <1>1 DEF Resolved
    <2> QED BY <1>1, <1>3, <2>1, <2>2 DEF FilesFit, IngestedIsFiled
<1>5. \A s \in Scopes : Enumerates(s, pages[s])'
    BY <1>1 DEF FilesFit
<1>6. RowsFit'
    <2>1. \A d, t, body : WasCaptured(d, t, body) => WasCaptured(d, t, body)'
        BY <1>1 DEF WasCaptured
    <2> QED BY <1>1, <2>1 DEF FilesFit, RowsFit
<1> QED BY <1>2, <1>4, <1>5, <1>6 DEF FilesFit

\* And the checkpoint with them.
LEMMA UntouchedFilesFit ==
    ASSUME FilesFit, UNCHANGED <<pages, resolutions, queue, checkpoint>>
    PROVE  FilesFit'
<1>1. CheckpointFits'
    BY DEF FilesFit, CheckpointFits, queue
<1> QED BY <1>1, QueueUntouchedFilesFit

\* A step that only writes to the queue what was captured.
LEMMA IngestKeepsFilesFit ==
    ASSUME TypeOK, FilesFit, NEW records \in SUBSET Record, NEW at \in 1..MaxTime,
           NEW replay \in BOOLEAN, \A r \in records : r.body \in Contents,
           \A x, y \in records : x.id = y.id => x = y,
           \A r \in records : WasCaptured(r.id, at, r.body),
           Ingest(records, at, replay), UNCHANGED <<pages, resolutions, checkpoint>>
    PROVE  /\ FilesFit' /\ Filed(records, at)'
           /\ rows' \in [Ids -> RowType] /\ receipts' \subseteq ReceiptType
           /\ observed' \subseteq Record
<1>1. /\ rows' \in [Ids -> RowType] /\ receipts' \subseteq ReceiptType
      /\ observed' \subseteq Record
      /\ QueueGrows /\ Filed(records, at)'
      /\ \A d \in Ids : rows'[d].at > 0 =>
           /\ rows'[d].body \in Contents
           /\ \/ rows[d].at > 0 /\ rows'[d].at = rows[d].at /\ rows'[d].body = rows[d].body
              \/ \E r \in records : r.id = d /\ rows'[d].at = at /\ rows'[d].body = r.body
    <2>1. RowsFit
        BY DEF FilesFit
    <2> QED BY <2>1, IngestFiles, ZenonT(30)
<1>2. PagesFit' /\ ResolutionsFit'
    BY DEF FilesFit, PagesFit, ResolutionsFit
<1>3. IngestedIsFiled'
    BY <1>1, IngestedStaysFiled DEF FilesFit
<1>4. \A s \in Scopes : Enumerates(s, pages[s])'
    BY DEF FilesFit
<1>5. RowsFit'
    <2>1. \A d, t, body : WasCaptured(d, t, body) => WasCaptured(d, t, body)'
        BY DEF WasCaptured
    <2>2. ASSUME NEW d \in Ids, rows'[d].at > 0
          PROVE  rows'[d].body \in Contents /\ WasCaptured(d, rows'[d].at, rows'[d].body)
        <3>1. CASE rows[d].at > 0 /\ rows'[d].at = rows[d].at /\ rows'[d].body = rows[d].body
            BY <1>1, <2>2, <3>1 DEF FilesFit, RowsFit
        <3>2. CASE \E r \in records : r.id = d /\ rows'[d].at = at /\ rows'[d].body = r.body
            BY <1>1, <2>2, <3>2
        <3> QED BY <1>1, <2>2, <3>1, <3>2
    <2>3. ASSUME NEW d \in Ids, rows'[d].at > 0
          PROVE  rows'[d].body \in Contents /\ WasCaptured(d, rows[d].at, rows[d].body)'
        <3>1. PICK t, body : t = rows'[d].at /\ body = rows'[d].body
            OBVIOUS
        <3>2. WasCaptured(d, t, body)'
            BY <2>1, <2>2, <2>3, <3>1
        <3> QED BY <2>2, <2>3, <3>1, <3>2 DEF WasCaptured
    <2> QED BY <2>3 DEF RowsFit
<1>6. CheckpointFits'
    <2>1. IdsOf(Complete(observed)) \subseteq IdsOf(Complete(observed'))
        BY <1>1 DEF QueueGrows, IdsOf, Complete
    <2> QED BY <2>1 DEF FilesFit, CheckpointFits
<1> QED BY <1>1, <1>2, <1>3, <1>4, <1>5, <1>6 DEF FilesFit

-----------------------------------------------------------------------------
(* The evidence has the types of what is derived from it.                   *)

LEMMA EvidenceTypes ==
    ASSUME TypeOK, ResolutionsFit, NEW s \in Scopes
    PROVE  /\ Returned(pages[s]) \subseteq Record
           /\ NextCursor(s, pages[s]) \in Nat
           /\ Unresolved(s, pages[s]) \subseteq Ids /\ Public(s) \subseteq Ids
           /\ Intakes(s) \subseteq ReceiptType
<1>1. pages[s] \in Pages
    BY LedgerTypes
<1>2. /\ Ingested(pages[s]) \subseteq DOMAIN pages[s]
      /\ Cardinality(Ingested(pages[s])) \in Nat
    BY <1>1, IngestedIsFinite
<1>3. \A i \in DOMAIN pages[s] : pages[s][i] \in PageType
    BY LedgerTypes
<1>4. Returned(pages[s]) \subseteq Record
    BY <1>2, LedgerTypes DEF Returned
<1>5. NextCursor(s, pages[s]) \in Nat
    BY <1>2 DEF NextCursor
<1>6. Unresolved(s, pages[s]) \subseteq Ids /\ Public(s) \subseteq Ids
    BY <1>4 DEF Unresolved, Public, IdsOf, Pointers, Complete, Resolved, Record
<1>7. Intakes(s) \subseteq ReceiptType
    <2>1. ASSUME NEW i \in Ingested(pages[s])
          PROVE  Receipt(Complete(pages[s][i].response.rows), pages[s][i].at) \in ReceiptType
        <3>1. pages[s][i].at \in 1..MaxTime /\ Complete(pages[s][i].response.rows) \in SUBSET Record
            BY <1>2, <1>3, LedgerTypes DEF PageType
        <3> QED BY <3>1 DEF Receipt, ReceiptType
    <2>2. ASSUME NEW d \in Resolved(s)
          PROVE  Receipt({Resolution(s, d)}, resolutions[s][d].at) \in ReceiptType
        <3>1. d \in Ids /\ resolutions[s][d].status = "ingested"
            BY DEF Resolved
        <3>2. resolutions[s][d] \in ResolutionType
            BY <3>1, LedgerTypes
        <3>3. resolutions[s][d].body \in Contents /\ resolutions[s][d].at > 0
            BY <3>1 DEF ResolutionsFit, ResolutionFits
        <3>4. resolutions[s][d].at \in 1..MaxTime
            BY <3>2, <3>3, BoundsAssumption DEF ResolutionType
        <3>5. {Resolution(s, d)} \in SUBSET Record
            BY <3>1, <3>3, LedgerTypes
        <3> QED BY <3>4, <3>5 DEF Receipt, ReceiptType
    <2> QED BY <2>1, <2>2 DEF Intakes
<1> QED BY <1>4, <1>5, <1>6, <1>7

LEMMA SelectedAreScopes ==
    ASSUME registered \in 0..MaxScopes
    PROVE  Registered \subseteq Scopes /\ Selected \subseteq Registered
BY ScopesAssumption DEF Registered, Scopes, Selected

\* What a step has to show.
LEMMA InParts == FileTypes' /\ HandTypes' /\ WorkFits' /\ InHand' /\ FilesFit' => Inv'
BY TypesInTwoNext DEF Inv

-----------------------------------------------------------------------------
(* The steps that leave the evidence, the queue and the checkpoint alone    *)
(* and nothing in hand.                                                     *)

LEMMA RegisterScopeKeepsInv == ASSUME Inv, RegisterScope PROVE Inv'
<1>1. FileTypes' /\ Free(work')
    BY TypesInTwo, ScopesAssumption DEF Inv, RegisterScope, FileTypes, queue, Free
<1>2. FilesFit'
    BY UntouchedFilesFit DEF Inv, RegisterScope
<1> QED BY <1>1, <1>2, FreeHand, InParts

LEMMA RecordFailureKeepsInv ==
    ASSUME Inv, NEW s \in Scopes, NEW of \in SUBSET Ids, RecordFailure(s, of)
    PROVE  Inv'
<1>1. Unresolved(s, pages[s]) \subseteq Ids /\ NextCursor(s, pages[s]) \in Nat
    BY EvidenceTypes DEF Inv, FilesFit
<1>2. FileTypes'
    <2> DEFINE failed == [pointers |-> IF of = {} /\ Exhausted(s, pages[s])
                                       THEN Unresolved(s, pages[s]) ELSE of,
                          cursor   |-> NextCursor(s, pages[s])]
    <2>1. failed \in [pointers : SUBSET Ids, cursor : Nat]
        BY <1>1
    <2>2. failures' = [failures EXCEPT ![s] = @ \cup {failed}]
        BY DEF RecordFailure
    <2> HIDE DEF failed
    <2>3. failures' \in [Scopes -> SUBSET [pointers : SUBSET Ids, cursor : Nat]]
        BY <2>1, <2>2, TypesInTwo DEF Inv, FileTypes
    <2> QED BY <2>3, TypesInTwo DEF Inv, RecordFailure, FileTypes, queue
<1>3. FilesFit' /\ Free(work')
    BY UntouchedFilesFit DEF Inv, RecordFailure, Free
<1> QED BY <1>2, <1>3, FreeHand, InParts

LEMMA StartReplayKeepsInv == ASSUME Inv, NEW s \in Scopes, StartReplay(s) PROVE Inv'
<1>1. FileTypes' /\ Free(work')
    BY TypesInTwo DEF Inv, StartReplay, FileTypes, ledger, queue, Free
<1>2. FilesFit'
    BY UntouchedFilesFit DEF Inv, StartReplay, ledger
<1> QED BY <1>1, <1>2, FreeHand, InParts

LEMMA FinishReplayKeepsInv == ASSUME Inv, FinishReplay PROVE Inv'
<1>1. work.scope \in Scopes
    BY WorkHolds DEF Inv, FinishReplay
<1>2. failures' \in [Scopes -> SUBSET [pointers : SUBSET Ids, cursor : Nat]]
    BY <1>1, TypesInTwo DEF Inv, FileTypes, FinishReplay
<1>3. FileTypes' /\ Free(work')
    BY <1>2, TypesInTwo DEF Inv, FinishReplay, FileTypes, queue, Free
<1>4. FilesFit'
    BY UntouchedFilesFit DEF Inv, FinishReplay
<1> QED BY <1>3, <1>4, FreeHand, InParts

LEMMA ReadResultKeepsInv == ASSUME Inv, ReadResult PROVE Inv'
<1>1. Selected \subseteq Scopes
    BY SelectedAreScopes DEF Inv, TypeOK
<1>2. \A s \in Selected : Public(s) \subseteq Ids /\ Intakes(s) \subseteq ReceiptType
    BY <1>1, EvidenceTypes DEF Inv, FilesFit
<1> DEFINE result == [completed |-> now, scopes |-> Selected,
                      seen |-> UNION {Public(s) : s \in Selected},
                      intakes |-> UNION {Intakes(s) : s \in Selected}]
           ResultType == [completed : 1..MaxTime, seen : SUBSET Ids,
                          scopes : SUBSET Scopes, intakes : SUBSET ReceiptType]
<1>3. result \in ResultType
    <2>1. /\ UNION {Public(s) : s \in Selected} \in SUBSET Ids
          /\ UNION {Intakes(s) : s \in Selected} \in SUBSET ReceiptType
        BY <1>2
    <2>2. now \in 1..MaxTime /\ Selected \in SUBSET Scopes
        BY <1>1 DEF Inv, TypeOK
    <2> QED BY <2>1, <2>2
<1>4. results' = results \cup {result}
    BY DEF ReadResult
<1> HIDE DEF result
<1>5. results' \subseteq ResultType
    BY <1>3, <1>4 DEF Inv, TypeOK
<1>6. FileTypes' /\ Free(work')
    BY <1>5, TypesInTwo DEF Inv, ReadResult, FileTypes, ledger, queue, Free
<1>7. FilesFit'
    BY UntouchedFilesFit DEF Inv, ReadResult, ledger
<1> QED BY <1>6, <1>7, FreeHand, InParts

LEMMA TickKeepsInv == ASSUME Inv, Tick PROVE Inv'
<1>1. now' \in 1..MaxTime
    BY BoundsAssumption DEF Inv, TypeOK, Tick
<1>2. FileTypes' /\ Free(work')
    BY <1>1, TypesInTwo DEF Inv, Tick, FileTypes, ledger, queue, Free
<1>3. FilesFit'
    BY UntouchedFilesFit DEF Inv, Tick, ledger
<1> QED BY <1>2, <1>3, FreeHand, InParts

LEMMA DieKeepsInv == ASSUME Inv, Die PROVE Inv'
<1>1. deaths' \in 0..MaxDeaths
    BY BoundsAssumption DEF Inv, TypeOK, Die
<1>2. FileTypes' /\ Free(work')
    BY <1>1, TypesInTwo DEF Inv, Die, FileTypes, ledger, queue, Free
<1>3. FilesFit'
    BY UntouchedFilesFit DEF Inv, Die, ledger
<1> QED BY <1>2, <1>3, FreeHand, InParts

LEMMA StutterKeepsInv == ASSUME Inv, UNCHANGED vars PROVE Inv'
<1>1. FilesFit'
    BY UntouchedFilesFit DEF Inv, vars, ledger
<1>2. FileTypes' /\ HandTypes' /\ WorkFits'
    BY TypesInTwo DEF Inv, vars, ledger, queue, FileTypes, HandTypes, WorkFits, CapturedResolutions
<1>3. InHand'
    <2>1. /\ pages' = pages /\ resolutions' = resolutions /\ work' = work
          /\ receipts' = receipts /\ observed' = observed /\ rows' = rows
        BY DEF vars, ledger, queue
    <2> QED BY <2>1 DEF Inv, InHand, Page, ComesNext, Filed, Stored, Resolution
<1> QED BY <1>1, <1>2, <1>3, InParts

-----------------------------------------------------------------------------
(* The steps that take something in hand.                                   *)

\* A page is in hand to be parsed.
LEMMA PageInHand ==
    ASSUME NEW s \in Scopes, NEW i, NEW replay \in BOOLEAN, NEW all \in BOOLEAN,
           work' = Busy("parse", s, i, replay, all),
           i \in DOMAIN pages'[s], pages'[s][i].status # "ingested"
    PROVE  HandTypes' /\ WorkFits' /\ InHand'
<1>1. work'.step = "parse" /\ work'.scope = s /\ work'.at = i
    BY DEF Busy
<1>2. WorkFits'
    BY DEF WorkFits
<1> QED BY <1>1, <1>2 DEF HandTypes, InHand, Page

\* A resolution is in hand to be filed.
LEMMA ResolutionInHand ==
    ASSUME NEW s \in Scopes, NEW d \in Ids, NEW replay \in BOOLEAN, NEW all \in BOOLEAN,
           work' = Busy("resolve", s, d, replay, all), resolutions'[s][d].status = "captured"
    PROVE  HandTypes' /\ WorkFits' /\ InHand'
<1>1. work'.step = "resolve" /\ work'.scope = s /\ work'.at = d
    BY DEF Busy
<1>2. WorkFits'
    BY DEF WorkFits
<1> QED BY <1>1, <1>2 DEF HandTypes, InHand, CapturedResolutions

LEMMA CaptureAgainKeepsInv ==
    ASSUME Inv, NEW s \in Scopes, NEW i, CaptureAgain(s, i)
    PROVE  Inv'
<1>1. FileTypes' /\ FilesFit'
    BY TypesInTwo, UntouchedFilesFit DEF Inv, CaptureAgain, FileTypes, ledger, queue
<1>2. HandTypes' /\ WorkFits' /\ InHand'
    BY PageInHand DEF CaptureAgain, ledger
<1> QED BY <1>1, <1>2, InParts

LEMMA ReplayPageKeepsInv ==
    ASSUME Inv, NEW i, ReplayPage(i)
    PROVE  Inv'
<1>1. FileTypes' /\ FilesFit'
    BY TypesInTwo, UntouchedFilesFit DEF Inv, ReplayPage, FileTypes, ledger, queue
<1>2. work.scope \in Scopes
    BY WorkHolds DEF Inv, ReplayPage
<1>3. i \in DOMAIN pages[work.scope] /\ pages[work.scope][i].status = "captured"
    BY DEF ReplayPage, CapturedPages
<1>4. HandTypes' /\ WorkFits' /\ InHand'
    BY <1>2, <1>3, PageInHand DEF ReplayPage, ledger
<1> QED BY <1>1, <1>4, InParts

LEMMA ReplayResolutionKeepsInv ==
    ASSUME Inv, NEW d \in Ids, ReplayResolution(d)
    PROVE  Inv'
<1>1. FileTypes' /\ FilesFit'
    BY TypesInTwo, UntouchedFilesFit DEF Inv, ReplayResolution, FileTypes, ledger, queue
<1>2. work.scope \in Scopes
    BY WorkHolds DEF Inv, ReplayResolution
<1>3. resolutions[work.scope][d].status = "captured"
    BY DEF ReplayResolution, CapturedResolutions
<1>4. HandTypes' /\ WorkFits' /\ InHand'
    BY <1>2, <1>3, ResolutionInHand DEF ReplayResolution, ledger
<1> QED BY <1>1, <1>4, InParts

-----------------------------------------------------------------------------
(* The steps that add to the evidence what was captured.                    *)

\* A capture that has a time stays as it is.
CapturesStay ==
    /\ \A s \in Scopes : KeepsCaptures(pages[s], pages'[s])
    /\ \A s \in Scopes : \A d \in Ids : resolutions[s][d].at > 0 =>
          resolutions'[s][d].at = resolutions[s][d].at /\ resolutions'[s][d].body = resolutions[s][d].body

LEMMA RowsStayFit ==
    ASSUME RowsFit, CapturesStay, rows' = rows
    PROVE  RowsFit'
<1>1. ASSUME NEW d \in Ids, NEW t, t > 0, NEW body, WasCaptured(d, t, body)
      PROVE  WasCaptured(d, t, body)'
    <2>1. PICK s \in Scopes :
              \/ resolutions[s][d].at = t /\ resolutions[s][d].body = body
              \/ \E i \in DOMAIN pages[s] : \E r \in pages[s][i].response.rows :
                    r.id = d /\ r.body = body /\ pages[s][i].at = t
        BY <1>1 DEF WasCaptured
    <2>2. CASE resolutions[s][d].at = t /\ resolutions[s][d].body = body
        BY <1>1, <2>2 DEF CapturesStay, WasCaptured
    <2>3. CASE \E i \in DOMAIN pages[s] : \E r \in pages[s][i].response.rows :
                    r.id = d /\ r.body = body /\ pages[s][i].at = t
        BY <2>3 DEF CapturesStay, KeepsCaptures, WasCaptured
    <2> QED BY <2>1, <2>2, <2>3
<1> QED BY <1>1 DEF RowsFit

LEMMA SameCaptures ==
    ASSUME NEW ps
    PROVE  KeepsCaptures(ps, ps)
BY DEF KeepsCaptures

\* A scope whose captured pages changed, and its ingested pages did not.
LEMMA SameIngestedFilesFit ==
    ASSUME TypeOK, FilesFit, NEW s \in Scopes, NEW qs \in Pages,
           pages' = [pages EXCEPT ![s] = qs],
           KeepsCaptures(pages[s], qs), Ingested(qs) = Ingested(pages[s]),
           \A i \in DOMAIN qs : qs[i].response \in Offered[s],
           UNCHANGED <<resolutions, queue, checkpoint>>
    PROVE  FilesFit'
<1>1. pages \in [Scopes -> Pages]
    BY LedgerTypes
<1>2. /\ pages'[s] = qs /\ \A t \in Scopes : t # s => pages'[t] = pages[t]
      /\ resolutions' = resolutions /\ checkpoint' = checkpoint
      /\ receipts' = receipts /\ observed' = observed /\ rows' = rows
    BY <1>1 DEF queue
<1>3. ASSUME NEW t \in Scopes
      PROVE  KeepsCaptures(pages[t], pages'[t]) /\ Ingested(pages'[t]) = Ingested(pages[t])
    BY <1>2, SameCaptures
<1>4. \A t \in Scopes : \A i \in Ingested(pages[t]) :
          pages'[t][i].response = pages[t][i].response /\ pages'[t][i].at = pages[t][i].at
    BY <1>3 DEF KeepsCaptures, Ingested
<1>5. PagesFit' /\ ResolutionsFit'
    BY <1>2 DEF FilesFit, PagesFit, ResolutionsFit
<1>6. IngestedIsFiled'
    <2>1. \A R, t : Filed(R, t) => Filed(R, t)'
        BY <1>2 DEF Filed, Stored
    <2>2. \A t, d : Resolution(t, d)' = Resolution(t, d)
        BY <1>2 DEF Resolution
    <2>3. \A t : Resolved(t)' = Resolved(t)
        BY <1>2 DEF Resolved
    <2>4. \A t \in Scopes : \A d \in Resolved(t)' :
              Filed({Resolution(t, d)}, resolutions[t][d].at)'
        BY <1>2, <2>1, <2>2, <2>3 DEF FilesFit, IngestedIsFiled
    <2>5. ASSUME NEW t \in Scopes, NEW i \in Ingested(pages'[t])
          PROVE  Filed(Complete(pages[t][i].response.rows), pages[t][i].at)'
        <3>1. Filed(Complete(pages[t][i].response.rows), pages[t][i].at)
            BY <1>3, <2>5 DEF FilesFit, IngestedIsFiled
        <3>2. /\ pages'[t][i].response = pages[t][i].response /\ pages'[t][i].at = pages[t][i].at
            BY <1>3, <1>4, <2>5
        <3> QED BY <2>1, <3>1, <3>2
    <2> QED BY <2>4, <2>5 DEF IngestedIsFiled
<1>7. \A t \in Scopes : /\ Exhausted(t, pages'[t]) = Exhausted(t, pages[t])
                        /\ Enumerates(t, pages[t]) => Enumerates(t, pages'[t])
    BY <1>1, <1>3, SameEnumeration
<1>8. RowsFit'
    BY <1>2, <1>3, RowsStayFit DEF FilesFit, CapturesStay
<1>9. CheckpointFits'
    <2>1. \A t \in Scopes : Returned(pages'[t]) = Returned(pages[t])
        BY <1>3, <1>4 DEF Returned
    <2>2. checkpoint.scopes \subseteq Scopes
        BY DEF TypeOK
    <2> QED BY <1>2, <1>7, <2>1, <2>2 DEF FilesFit, CheckpointFits
<1> QED BY <1>5, <1>6, <1>7, <1>8, <1>9 DEF FilesFit

LEMMA CaptureResponseKeepsInv ==
    ASSUME Inv, NEW s \in Scopes, NEW response \in Offered[s], NEW cursor \in 0..MaxCursor,
           CaptureResponse(s, response, cursor)
    PROVE  Inv'
<1> DEFINE page == [response |-> response, cursor |-> cursor, at |-> now, status |-> "captured"]
           ps == pages[s]
           qs == Append(ps, page)
<1>1. ps \in Pages /\ pages \in [Scopes -> Pages] /\ PagesFit
    BY LedgerTypes DEF Inv, FilesFit
<1>2. page \in PageType /\ page.status = "captured" /\ page.response = response
    BY ResponsesAssumption DEF Inv, TypeOK, PageType
<1>3. pages' = [pages EXCEPT ![s] = qs]
    BY DEF CaptureResponse
<1>4. work' = Busy("parse", s, Len(ps) + 1, FALSE, FALSE)
    BY DEF CaptureResponse
<1> HIDE DEF page
<1>5. /\ qs \in Pages /\ KeepsCaptures(ps, qs)
      /\ DOMAIN qs = DOMAIN ps \cup {Len(ps) + 1}
      /\ qs[Len(ps) + 1] = page
      /\ \A i \in DOMAIN ps : qs[i] = ps[i]
      /\ Ingested(qs) = Ingested(ps)
    BY <1>1, <1>2, EvidenceOfAppended
<1>6. \A i \in DOMAIN qs : qs[i].response \in Offered[s]
    BY <1>1, <1>2, <1>5 DEF PagesFit
<1> HIDE DEF qs
<1>7. FilesFit'
    BY <1>3, <1>5, <1>6, SameIngestedFilesFit DEF Inv, CaptureResponse
<1>8. pages' \in [Scopes -> Pages] /\ pages'[s] = qs
    BY <1>1, <1>3, <1>5
<1>9. FileTypes'
    BY <1>8, TypesInTwo DEF Inv, CaptureResponse, FileTypes, queue
<1>10. HandTypes' /\ WorkFits' /\ InHand'
    BY <1>2, <1>4, <1>5, <1>8, PageInHand
<1> QED BY <1>7, <1>9, <1>10, InParts

\* The status of one page of one scope is set.
LEMMA StatusSetInScope ==
    ASSUME Inv, NEW s \in Scopes, NEW k \in DOMAIN pages[s],
           NEW status \in {"captured", "invalid", "ingested"},
           pages' = [pages EXCEPT ![s][k].status = status]
    PROVE  /\ Becomes(pages[s], pages'[s], k, status) /\ pages'[s] \in Pages
           /\ pages' = [pages EXCEPT ![s] = pages'[s]]
           /\ pages' \in [Scopes -> Pages]
           /\ \A i \in DOMAIN pages'[s] : pages'[s][i].response \in Offered[s]
<1> DEFINE qs == [pages[s] EXCEPT ![k].status = status]
<1>1. pages \in [Scopes -> Pages]
    BY LedgerTypes DEF Inv
<1>2. pages' = [pages EXCEPT ![s] = qs]
    OBVIOUS
<1>3. Becomes(pages[s], qs, k, status)
    BY <1>1, StatusSet
<1> HIDE DEF qs
<1>4. pages'[s] = qs /\ qs \in Pages
    BY <1>1, <1>2, <1>3 DEF Becomes
<1>5. \A i \in DOMAIN qs : qs[i].response \in Offered[s]
    BY <1>3 DEF Becomes, Inv, FilesFit, PagesFit
<1> QED BY <1>1, <1>2, <1>3, <1>4, <1>5

LEMMA RejectPageKeepsInv == ASSUME Inv, RejectPage PROVE Inv'
<1> DEFINE s == work.scope
           k == work.at
<1>1. /\ s \in Scopes /\ k \in DOMAIN pages[s] /\ Free(After) /\ pages[s][k].status # "ingested"
    BY WorkHolds DEF Inv, TypeOK, RejectPage, InHand, Page
<1>2. pages' = [pages EXCEPT ![s][k].status = "invalid"]
    BY DEF RejectPage
<1> HIDE DEF s, k
<1>3. /\ Becomes(pages[s], pages'[s], k, "invalid") /\ pages'[s] \in Pages
      /\ pages' = [pages EXCEPT ![s] = pages'[s]]
      /\ pages' \in [Scopes -> Pages]
      /\ \A i \in DOMAIN pages'[s] : pages'[s][i].response \in Offered[s]
    BY <1>1, <1>2, StatusSetInScope
<1>4. pages[s] \in Pages
    BY <1>1, LedgerTypes DEF Inv
<1>5. KeepsCaptures(pages[s], pages'[s]) /\ Ingested(pages'[s]) = Ingested(pages[s])
    BY <1>1, <1>3, <1>4, EvidenceAfter
<1>6. FilesFit'
    BY <1>1, <1>3, <1>5, SameIngestedFilesFit DEF Inv, RejectPage
<1>7. FileTypes'
    BY <1>3, TypesInTwo DEF Inv, RejectPage, FileTypes, queue
<1>8. Free(work')
    BY <1>1 DEF RejectPage, Free
<1> QED BY <1>6, <1>7, <1>8, FreeHand, InParts

-----------------------------------------------------------------------------
(* The queue's file, and then the ledger's.                                 *)

LEMMA IngestPageKeepsInv == ASSUME Inv, IngestPage PROVE Inv'
<1> DEFINE s == work.scope
           k == work.at
           records == Complete(Page.response.rows)
           at == Page.at
<1>1. /\ s \in Scopes /\ k \in DOMAIN pages[s] /\ Page.status # "ingested"
      /\ work.replay \in BOOLEAN /\ work.all \in BOOLEAN /\ Page = pages[s][k]
    BY WorkHolds DEF Inv, TypeOK, IngestPage, InHand, Page
<1>2. Page \in PageType /\ at \in 1..MaxTime /\ records \in SUBSET Record
    BY <1>1, LedgerTypes DEF Inv, PageType
<1>3. ComesNext(s, Page, pages[s])
    BY DEF IngestPage, FollowsOn, ComesNext
<1>4. \A r \in records : r.body \in Contents
    BY DEF Complete
<1>5. \A x, y \in records : x.id = y.id => x = y
    <2>1. Page.response \in Offered[s] /\ Page.response.valid
        BY <1>1, <1>3 DEF Inv, FilesFit, PagesFit, ComesNext
    <2> QED BY <1>1, <2>1, ResponsesAssumption DEF Complete
<1>6. \A r \in records : WasCaptured(r.id, at, r.body)
    BY <1>1 DEF WasCaptured, Complete
<1>7. /\ Ingest(records, at, work.replay)
      /\ work' = [work EXCEPT !.step = "mark"] /\ UNCHANGED <<pages, resolutions, checkpoint>>
      /\ UNCHANGED <<registered, failures, results, now, deaths>>
    BY DEF IngestPage, ledger
<1>8. work.step # "idle"
    BY DEF IngestPage
<1>9. work' = Busy("mark", s, k, work.replay, work.all)
    BY <1>7, <1>8, WorkHolds DEF Inv
<1>10. PICK R \in SUBSET Record, t \in 1..MaxTime : R = records /\ t = at
    BY <1>2
<1> HIDE DEF records, at, s, k
<1>11. /\ FilesFit' /\ Filed(R, t)'
       /\ rows' \in [Ids -> RowType] /\ receipts' \subseteq ReceiptType
       /\ observed' \subseteq Record
    <2>1. TypeOK /\ FilesFit
        BY DEF Inv
    <2> QED BY <2>1, <1>1, <1>4, <1>5, <1>6, <1>7, <1>10, IngestKeepsFilesFit
<1>12. FileTypes'
    BY <1>7, <1>11, TypesInTwo DEF Inv, FileTypes
<1>13. work'.step = "mark" /\ work'.scope = s /\ work'.at = k
    BY <1>9 DEF Busy
<1>14. Page' = Page
    BY <1>1, <1>7, <1>13 DEF Page
<1>15. WorkFits'
    BY <1>1, <1>9 DEF WorkFits
<1>16. HandTypes'
    BY <1>1, <1>7, <1>13 DEF HandTypes
<1>17. InHand'
    <2>1. Complete(Page.response.rows)' = R /\ Page'.at = t
        BY <1>10, <1>14 DEF records, at
    <2>2. Filed(Complete(Page.response.rows), Page.at)'
        BY <1>11, <2>1
    <2>3. ComesNext(s, Page', pages'[s])
        BY <1>3, <1>7, <1>14
    <2> QED BY <1>1, <1>13, <1>14, <2>2, <2>3 DEF InHand
<1> QED BY <1>11, <1>12, <1>15, <1>16, <1>17, InParts

LEMMA IngestResolutionKeepsInv == ASSUME Inv, IngestResolution PROVE Inv'
<1> DEFINE s == work.scope
           d == work.at
           records == {Resolution(s, d)}
           at == resolutions[s][d].at
<1>1. /\ s \in Scopes /\ d \in Ids /\ resolutions[s][d].status = "captured"
      /\ work.replay \in BOOLEAN /\ work.all \in BOOLEAN
    BY WorkHolds DEF Inv, TypeOK, IngestResolution, CapturedResolutions
<1>2. resolutions[s][d].body \in Contents /\ at > 0
    BY <1>1 DEF Inv, FilesFit, ResolutionsFit, ResolutionFits
<1>3. at \in 1..MaxTime /\ records \in SUBSET Record
    <2>1. resolutions[s][d] \in ResolutionType
        BY <1>1, LedgerTypes DEF Inv
    <2> QED BY <1>1, <1>2, <2>1, LedgerTypes, BoundsAssumption DEF Inv, ResolutionType
<1>4. \A r \in records : r.body \in Contents /\ WasCaptured(r.id, at, r.body)
    BY <1>1, <1>2 DEF WasCaptured, Resolution
<1>5. /\ Ingest(records, at, work.replay)
      /\ work' = [work EXCEPT !.step = "resolved"] /\ UNCHANGED <<pages, resolutions, checkpoint>>
      /\ UNCHANGED <<registered, failures, results, now, deaths>>
    BY DEF IngestResolution, ledger
<1>6. work.step # "idle"
    BY DEF IngestResolution
<1>7. work' = Busy("resolved", s, d, work.replay, work.all)
    BY <1>5, <1>6, WorkHolds DEF Inv
<1>8. \A x, y \in records : x.id = y.id => x = y
    OBVIOUS
<1>9. PICK R \in SUBSET Record, t \in 1..MaxTime : R = records /\ t = at
    BY <1>3
<1> HIDE DEF records, at, s, d
<1>10. /\ FilesFit' /\ Filed(R, t)'
       /\ rows' \in [Ids -> RowType] /\ receipts' \subseteq ReceiptType
       /\ observed' \subseteq Record
    <2>1. TypeOK /\ FilesFit
        BY DEF Inv
    <2> QED BY <2>1, <1>1, <1>4, <1>5, <1>8, <1>9, IngestKeepsFilesFit
<1>11. FileTypes'
    BY <1>5, <1>10, TypesInTwo DEF Inv, FileTypes
<1>12. work'.step = "resolved" /\ work'.scope = s /\ work'.at = d
    BY <1>7 DEF Busy
<1>13. WorkFits'
    BY <1>1, <1>7 DEF WorkFits
<1>14. HandTypes'
    BY <1>1, <1>5, <1>12 DEF HandTypes, CapturedResolutions
<1>15. InHand'
    <2>1. {Resolution(work.scope, work.at)}' = R /\ resolutions'[s][d].at = t
        BY <1>5, <1>9, <1>12 DEF records, at, Resolution
    <2>2. Filed({Resolution(work.scope, work.at)}, resolutions[work.scope][work.at].at)'
        BY <1>10, <1>12, <2>1
    <2> QED BY <1>12, <2>2 DEF InHand
<1> QED BY <1>10, <1>11, <1>13, <1>14, <1>15, InParts

LEMMA MarkPageKeepsInv == ASSUME Inv, MarkPage PROVE Inv'
<1> DEFINE s == work.scope
           k == work.at
           ps == pages[s]
           qs == pages'[s]
<1>1. /\ s \in Scopes /\ k \in DOMAIN ps /\ Free(After) /\ ps[k].status # "ingested"
      /\ ComesNext(s, ps[k], ps) /\ Filed(Complete(ps[k].response.rows), ps[k].at)
    BY WorkHolds DEF Inv, TypeOK, MarkPage, InHand, Page
<1>2. pages' = [pages EXCEPT ![s][k].status = "ingested"]
    BY DEF MarkPage
<1>3. failures' = [failures EXCEPT ![s] = {f \in @ : f.pointers # {} \/ f.cursor # Page.cursor}]
    BY DEF MarkPage
<1> HIDE DEF s, k
<1>4. /\ Becomes(ps, qs, k, "ingested") /\ qs \in Pages
      /\ pages' = [pages EXCEPT ![s] = qs]
      /\ pages' \in [Scopes -> Pages]
      /\ \A i \in DOMAIN qs : qs[i].response \in Offered[s]
    BY <1>1, <1>2, StatusSetInScope
<1>5. ps \in Pages /\ pages \in [Scopes -> Pages]
    BY <1>1, LedgerTypes DEF Inv
<1>6. /\ KeepsCaptures(ps, qs) /\ Ingested(qs) = Ingested(ps) \cup {k}
    BY <1>1, <1>4, <1>5, EvidenceAfter
<1>7. /\ \A t \in Scopes : t # s => pages'[t] = pages[t]
      /\ resolutions' = resolutions /\ checkpoint' = checkpoint
      /\ receipts' = receipts /\ observed' = observed /\ rows' = rows
    BY <1>2, <1>5 DEF MarkPage, queue
<1> HIDE DEF ps, qs
<1>8. PagesFit' /\ ResolutionsFit'
    BY <1>1, <1>4, <1>7 DEF Inv, FilesFit, PagesFit, ResolutionsFit, qs
<1>9. IngestedIsFiled'
    <2>1. \A R, t : Filed(R, t) => Filed(R, t)'
        BY <1>7 DEF Filed, Stored
    <2>2. \A t, d : Resolution(t, d)' = Resolution(t, d)
        BY <1>7 DEF Resolution
    <2>3. \A t : Resolved(t)' = Resolved(t)
        BY <1>7 DEF Resolved
    <2>4. \A t \in Scopes : \A d \in Resolved(t)' :
              Filed({Resolution(t, d)}, resolutions[t][d].at)'
        BY <1>7, <2>1, <2>2, <2>3 DEF Inv, FilesFit, IngestedIsFiled
    <2>5. ASSUME NEW t \in Scopes, NEW i \in Ingested(pages'[t])
          PROVE  Filed(Complete(pages[t][i].response.rows), pages[t][i].at)'
        <3>1. CASE t # s
            BY <1>7, <2>1, <2>5, <3>1 DEF Inv, FilesFit, IngestedIsFiled
        <3>2. CASE t = s
            <4>1. i \in Ingested(ps) \cup {k}
                BY <1>6, <3>2 DEF qs
            <4>2. i \in DOMAIN ps
                BY <1>1, <4>1 DEF Ingested
            <4>3. Filed(Complete(ps[i].response.rows), ps[i].at)
                BY <1>1, <4>1 DEF Inv, FilesFit, IngestedIsFiled, ps
            <4>4. qs[i].response = ps[i].response /\ qs[i].at = ps[i].at
                BY <1>6, <4>2 DEF KeepsCaptures
            <4>5. PICK R, u : R = Complete(ps[i].response.rows) /\ u = ps[i].at
                OBVIOUS
            <4>6. Filed(R, u)'
                BY <2>1, <4>3, <4>5
            <4>7. Complete(pages'[t][i].response.rows) = R /\ pages'[t][i].at = u
                BY <3>2, <4>4, <4>5 DEF qs
            <4> QED BY <4>6, <4>7
        <3> QED BY <3>1, <3>2
    <2> QED BY <2>4, <2>5 DEF IngestedIsFiled
<1>10. ASSUME NEW t \in Scopes
       PROVE  Enumerates(t, pages'[t])
    <2>1. Enumerates(t, pages[t])
        BY DEF Inv, FilesFit
    <2>2. CASE t = s
        <3>1. Enumerates(s, ps)
            BY <2>1, <2>2 DEF ps
        <3>2. Enumerates(s, qs)
            BY <1>1, <1>4, <1>5, <3>1, NextEnumerates
        <3> QED BY <2>2, <3>2 DEF qs
    <2>3. CASE t # s
        BY <1>7, <2>1, <2>3
    <2> QED BY <2>2, <2>3
<1>11. RowsFit'
    <2>1. ASSUME NEW t \in Scopes
          PROVE  KeepsCaptures(pages[t], pages'[t])
        BY <1>6, <1>7, SameCaptures DEF ps, qs
    <2>2. CapturesStay
        BY <1>7, <2>1 DEF CapturesStay
    <2> QED BY <1>7, <2>2, RowsStayFit DEF Inv, FilesFit
<1>12. CheckpointFits'
    <2>1. s \notin checkpoint.scopes
        BY <1>1 DEF Inv, FilesFit, CheckpointFits, ComesNext, ps
    <2>2. checkpoint.scopes \subseteq Scopes
        BY DEF Inv, TypeOK
    <2> QED BY <1>7, <2>1, <2>2 DEF Inv, FilesFit, CheckpointFits
<1>13. FilesFit'
    BY <1>8, <1>9, <1>10, <1>11, <1>12 DEF FilesFit
<1>14. failures' \in [Scopes -> SUBSET [pointers : SUBSET Ids, cursor : Nat]]
    BY <1>1, <1>3, TypesInTwo DEF Inv, FileTypes
<1>15. FileTypes' /\ Free(work')
    BY <1>1, <1>4, <1>14, TypesInTwo DEF Inv, MarkPage, FileTypes, queue, Free
<1> QED BY <1>13, <1>15, FreeHand, InParts

-----------------------------------------------------------------------------
(* The pointers.                                                            *)

\* One resolution of one scope is another: those of every other are the same.
LEMMA OneResolution ==
    ASSUME TypeOK, NEW s \in Scopes, NEW d \in Ids, NEW r \in ResolutionType,
           resolutions' = [resolutions EXCEPT ![s][d] = r]
    PROVE  /\ resolutions' \in [Scopes -> [Ids -> ResolutionType]] /\ resolutions'[s][d] = r
           /\ \A t \in Scopes, e \in Ids : ~(t = s /\ e = d) => resolutions'[t][e] = resolutions[t][e]
<1>1. resolutions \in [Scopes -> [Ids -> ResolutionType]]
    BY LedgerTypes
<1>2. [resolutions[s] EXCEPT ![d] = r] \in [Ids -> ResolutionType]
    BY <1>1
<1> QED BY <1>1, <1>2

\* A step of one resolution that has a description and a time, or gets them.
LEMMA OneResolutionFilesFit ==
    ASSUME TypeOK, FilesFit, NEW s \in Scopes, NEW d \in Ids, NEW r \in ResolutionType,
           resolutions' = [resolutions EXCEPT ![s][d] = r],
           r.status # "none" /\ r.body \in Contents /\ r.at > 0,
           resolutions[s][d].at > 0 => resolutions[s][d].at = r.at /\ resolutions[s][d].body = r.body,
           resolutions[s][d].status # "ingested",
           r.status = "ingested" => Filed({[id |-> d, body |-> r.body]}, r.at),
           UNCHANGED <<pages, queue, checkpoint>>
    PROVE  FilesFit'
<1>1. /\ resolutions'[s][d] = r
      /\ \A t \in Scopes, e \in Ids : ~(t = s /\ e = d) => resolutions'[t][e] = resolutions[t][e]
    BY OneResolution, ZenonT(30)
<1>2. /\ pages' = pages /\ checkpoint' = checkpoint
      /\ receipts' = receipts /\ observed' = observed /\ rows' = rows
    BY DEF queue
<1>3. PagesFit'
    BY <1>2 DEF FilesFit, PagesFit
<1>4. ResolutionsFit'
    BY <1>1 DEF FilesFit, ResolutionsFit, ResolutionFits
<1>5. IngestedIsFiled'
    <2>1. \A R, t : Filed(R, t) => Filed(R, t)'
        BY <1>2 DEF Filed, Stored
    <2>2. \A t \in Scopes : \A i \in Ingested(pages[t])' :
              Filed(Complete(pages[t][i].response.rows), pages[t][i].at)'
        BY <1>2, <2>1 DEF FilesFit, IngestedIsFiled
    <2>3. ASSUME NEW t \in Scopes, NEW e \in Resolved(t)'
          PROVE  Filed({Resolution(t, e)}, resolutions[t][e].at)'
        <3>1. e \in Ids /\ resolutions'[t][e].status = "ingested"
            BY DEF Resolved
        <3>2. PICK R, u : /\ R = {[id |-> e, body |-> resolutions'[t][e].body]}
                          /\ u = resolutions'[t][e].at
            OBVIOUS
        <3>3. Filed(R, u)
            <4>1. CASE t = s /\ e = d
                BY <1>1, <3>1, <3>2, <4>1
            <4>2. CASE ~(t = s /\ e = d)
                <5>1. resolutions'[t][e] = resolutions[t][e] /\ e \in Resolved(t)
                    BY <1>1, <3>1, <4>2 DEF Resolved
                <5>2. Filed({Resolution(t, e)}, resolutions[t][e].at)
                    BY <5>1 DEF FilesFit, IngestedIsFiled
                <5> QED BY <3>2, <5>1, <5>2 DEF Resolution
            <4> QED BY <4>1, <4>2
        <3>4. Filed(R, u)'
            BY <2>1, <3>3
        <3>5. {Resolution(t, e)}' = R
            BY <3>2 DEF Resolution
        <3> QED BY <3>2, <3>4, <3>5
    <2> QED BY <2>2, <2>3 DEF IngestedIsFiled
<1>6. \A t \in Scopes : Enumerates(t, pages[t])'
    BY <1>2 DEF FilesFit
<1>7. RowsFit'
    <2>1. CapturesStay
        BY <1>1, <1>2, SameCaptures DEF CapturesStay
    <2> QED BY <1>2, <2>1, RowsStayFit DEF FilesFit
<1>8. CheckpointFits'
    BY <1>2 DEF FilesFit, CheckpointFits
<1> QED BY <1>3, <1>4, <1>5, <1>6, <1>7, <1>8 DEF FilesFit

LEMMA ResolvePointerKeepsInv ==
    ASSUME Inv, NEW s \in Scopes, NEW d \in Ids, NEW body \in Described[d],
           ResolvePointer(s, d, body)
    PROVE  Inv'
<1>1. CASE /\ resolutions[s][d].status = "none"
           /\ resolutions' = [resolutions EXCEPT ![s][d] =
                 [status |-> "captured", body |-> body, at |-> now]]
           /\ work' = Busy("resolve", s, d, FALSE, FALSE)
    <2>1. PICK r : r = [status |-> "captured", body |-> body, at |-> now]
        OBVIOUS
    <2>2. body \in Contents /\ now \in 1..MaxTime /\ now \in 0..MaxTime /\ now > 0
        BY ResponsesAssumption, BoundsAssumption DEF Inv, TypeOK
    <2>3. r \in ResolutionType /\ r.status = "captured" /\ r.body \in Contents /\ r.at > 0
        BY <2>1, <2>2 DEF ResolutionType
    <2>4. resolutions[s][d] = NoResolution
        BY <1>1 DEF Inv, FilesFit, ResolutionsFit, ResolutionFits
    <2>5. ~(resolutions[s][d].at > 0) /\ resolutions[s][d].status # "ingested"
        BY <2>4 DEF NoResolution
    <2>6. resolutions' = [resolutions EXCEPT ![s][d] = r]
        BY <1>1, <2>1
    <2>7. UNCHANGED <<pages, queue, checkpoint>>
        BY DEF ResolvePointer
    <2>8. FilesFit'
        <3>1. r.status # "ingested" /\ r.status # "none"
            BY <2>3
        <3> QED BY <2>3, <2>5, <2>6, <2>7, <3>1, OneResolutionFilesFit DEF Inv
    <2>9. /\ resolutions' \in [Scopes -> [Ids -> ResolutionType]] /\ resolutions'[s][d] = r
        BY <2>3, <2>6, OneResolution DEF Inv
    <2>10. FileTypes'
        BY <2>9, TypesInTwo DEF Inv, ResolvePointer, FileTypes, queue
    <2>11. HandTypes' /\ WorkFits' /\ InHand'
        BY <1>1, <2>3, <2>9, ResolutionInHand
    <2> QED BY <2>8, <2>10, <2>11, InParts
<1>2. CASE /\ resolutions[s][d].status = "captured"
           /\ work' = Busy("resolve", s, d, TRUE, FALSE)
           /\ UNCHANGED resolutions
    <2>1. FileTypes' /\ FilesFit'
        BY <1>2, TypesInTwo, UntouchedFilesFit DEF Inv, ResolvePointer, FileTypes, queue
    <2>2. HandTypes' /\ WorkFits' /\ InHand'
        BY <1>2, ResolutionInHand
    <2> QED BY <2>1, <2>2, InParts
<1> QED BY <1>1, <1>2 DEF ResolvePointer

LEMMA MarkResolutionKeepsInv == ASSUME Inv, MarkResolution PROVE Inv'
<1> DEFINE s == work.scope
           d == work.at
           r == [resolutions[s][d] EXCEPT !.status = "ingested"]
<1>1. /\ s \in Scopes /\ d \in Ids /\ resolutions[s][d].status = "captured" /\ Free(After)
      /\ Filed({Resolution(s, d)}, resolutions[s][d].at)
    BY WorkHolds DEF Inv, TypeOK, MarkResolution, CapturedResolutions, InHand
<1>2. /\ resolutions' = [resolutions EXCEPT ![s][d] = r]
      /\ failures' = [failures EXCEPT ![s] =
            {f \in @ : f.pointers = {} \/ ~(f.pointers \subseteq Resolved(s) \cup {d})}]
    BY DEF MarkResolution
<1> HIDE DEF s, d
<1>3. resolutions[s][d] \in ResolutionType /\ resolutions[s][d].body \in Contents
      /\ resolutions[s][d].at > 0
    BY <1>1, LedgerTypes DEF Inv, FilesFit, ResolutionsFit, ResolutionFits
<1>4. /\ r \in ResolutionType /\ r.status = "ingested"
      /\ r.body = resolutions[s][d].body /\ r.at = resolutions[s][d].at
    BY <1>3 DEF ResolutionType
<1> HIDE DEF r
<1>5. FilesFit'
    <2>1. {[id |-> d, body |-> r.body]} = {Resolution(s, d)}
        BY <1>4 DEF Resolution
    <2>2. Filed({[id |-> d, body |-> r.body]}, r.at)
        BY <1>1, <1>4, <2>1
    <2>3. UNCHANGED <<pages, queue, checkpoint>>
        BY DEF MarkResolution
    <2> QED BY <1>1, <1>2, <1>3, <1>4, <2>2, <2>3, OneResolutionFilesFit DEF Inv
<1>6. resolutions' \in [Scopes -> [Ids -> ResolutionType]]
    BY <1>1, <1>2, <1>4, OneResolution DEF Inv
<1>7. failures' \in [Scopes -> SUBSET [pointers : SUBSET Ids, cursor : Nat]]
    BY <1>1, <1>2, TypesInTwo DEF Inv, FileTypes
<1>8. FileTypes' /\ Free(work')
    BY <1>1, <1>6, <1>7, TypesInTwo DEF Inv, MarkResolution, FileTypes, queue
<1> QED BY <1>5, <1>8, FreeHand, InParts

-----------------------------------------------------------------------------
(* What completeness means, and the checkpoint that relies on it.           *)

LEMMA CompleteMeans ==
    ASSUME TypeOK, FilesFit, NEW s \in Scopes, CompleteScope(s)
    PROVE  /\ Exhausted(s, pages[s])
           /\ Public(s) \subseteq IdsOf(Complete(observed))
           /\ \A r \in Returned(pages[s]) : r.body # Unlisted => r.id \in Public(s)
<1>1. /\ Exhausted(s, pages[s]) /\ Receipted(s, pages[s]) /\ Unresolved(s, pages[s]) = {}
    BY DEF CompleteScope, Audited
<1>2. Complete(Returned(pages[s])) \subseteq observed
    BY <1>1 DEF Receipted, Stored, Returned, Complete
<1>3. \A d \in Resolved(s) : d \in IdsOf(Complete(observed))
    <2>1. ASSUME NEW d \in Resolved(s)
          PROVE  d \in IdsOf(Complete(observed))
        <3>1. d \in Ids /\ resolutions[s][d].status = "ingested"
            BY DEF Resolved
        <3>2. resolutions[s][d].body \in Contents
            BY <3>1 DEF FilesFit, ResolutionsFit, ResolutionFits
        <3>3. Resolution(s, d) \in observed
            BY <1>1 DEF Receipted, Stored
        <3>4. Resolution(s, d).id = d /\ Resolution(s, d).body \in Contents
            BY <3>2 DEF Resolution
        <3> QED BY <3>3, <3>4 DEF IdsOf, Complete
    <2> QED BY <2>1
<1>4. Public(s) \subseteq IdsOf(Complete(observed))
    BY <1>2, <1>3 DEF Public, IdsOf, Complete
<1>5. ASSUME NEW r \in Returned(pages[s]), r.body # Unlisted
      PROVE  r.id \in Public(s)
    <2>1. r \in Record
        BY EvidenceTypes DEF FilesFit
    <2>2. r.body \in Contents \/ r.body = Missing
        BY <1>5, <2>1 DEF Record
    <2>3. CASE r.body \in Contents
        BY <2>3 DEF Public, IdsOf, Complete
    <2>4. CASE r.body = Missing
        <3>1. r.id \in IdsOf(Pointers(Returned(pages[s])))
            BY <2>4 DEF IdsOf, Pointers
        <3> QED BY <1>1, <3>1 DEF Unresolved, Public
    <2> QED BY <2>2, <2>3, <2>4
<1> QED BY <1>1, <1>4, <1>5

LEMMA MergeDiscoveryStateKeepsInv ==
    ASSUME Inv, NEW r \in results, MergeDiscoveryState(r)
    PROVE  Inv'
<1>1. CASE checkpoint' = checkpoint
    <2>1. FileTypes' /\ Free(work')
        BY <1>1, TypesInTwo DEF Inv, MergeDiscoveryState, FileTypes, ledger, queue, Free
    <2>2. FilesFit'
        BY <1>1, UntouchedFilesFit DEF Inv, MergeDiscoveryState, ledger
    <2> QED BY <2>1, <2>2, FreeHand, InParts
<1>2. CASE checkpoint' = CompleteSource(r)
    <2>1. Registered \subseteq Scopes /\ Selected \subseteq Registered
        BY SelectedAreScopes DEF Inv, TypeOK
    <2>2. /\ r.scopes = Selected /\ r.seen = UNION {Public(s) : s \in Selected}
          /\ \A s \in Selected : CompleteScope(s)
        BY <2>1 DEF MergeDiscoveryState, ValidSourceResult
    <2>3. ASSUME NEW s \in Selected
          PROVE  /\ Exhausted(s, pages[s])
                 /\ Public(s) \subseteq IdsOf(Complete(observed))
                 /\ \A x \in Returned(pages[s]) : x.body # Unlisted => x.id \in Public(s)
        BY <2>1, <2>2, CompleteMeans DEF Inv
    <2>4. checkpoint'.seen = r.seen /\ checkpoint'.scopes = r.scopes
        BY <1>2 DEF CompleteSource
    <2>5. CheckpointFits'
        <3>1. /\ pages' = pages /\ observed' = observed
            BY DEF MergeDiscoveryState, ledger, queue
        <3>2. checkpoint'.seen \subseteq IdsOf(Complete(observed))
            BY <2>2, <2>3, <2>4
        <3>3. \A s \in checkpoint'.scopes :
                  /\ Exhausted(s, pages[s])
                  /\ \A x \in Returned(pages[s]) : x.body # Unlisted => x.id \in checkpoint'.seen
            BY <2>2, <2>3, <2>4
        <3> QED BY <3>1, <3>2, <3>3 DEF CheckpointFits
    <2>7. FilesFit'
        BY <2>5, QueueUntouchedFilesFit DEF Inv, MergeDiscoveryState, ledger
    <2>8. checkpoint' \in [at : 0..MaxTime, seen : SUBSET Ids, scopes : SUBSET Scopes]
        <3>1. r \in [completed : 1..MaxTime, seen : SUBSET Ids,
                     scopes : SUBSET Scopes, intakes : SUBSET ReceiptType]
            BY DEF Inv, TypeOK
        <3>2. r.completed \in 0..MaxTime /\ r.seen \in SUBSET Ids /\ r.scopes \in SUBSET Scopes
            BY <3>1, BoundsAssumption
        <3> QED BY <1>2, <3>2 DEF CompleteSource
    <2>9. FileTypes' /\ Free(work')
        BY <2>8, TypesInTwo DEF Inv, MergeDiscoveryState, FileTypes, ledger, queue, Free
    <2> QED BY <2>7, <2>9, FreeHand, InParts
<1> QED BY <1>1, <1>2 DEF MergeDiscoveryState

-----------------------------------------------------------------------------
(* The invariant holds.                                                     *)

LEMMA InitInv == Init => Inv
<1> SUFFICES ASSUME Init PROVE Inv
    OBVIOUS
<1>1. NoResolution \in ResolutionType /\ NoRow \in RowType
    BY BoundsAssumption DEF NoResolution, NoRow, ResolutionType, RowType
<1>2. FileTypes
    <2>1. pages \in [Scopes -> Pages]
        BY DEF Init, Pages
    <2>2. resolutions \in [Scopes -> [Ids -> ResolutionType]] /\ rows \in [Ids -> RowType]
        BY <1>1 DEF Init
    <2>3. checkpoint \in [at : 0..MaxTime, seen : SUBSET Ids, scopes : SUBSET Scopes]
        BY BoundsAssumption DEF Init, NoCheckpoint
    <2>4. registered \in 0..MaxScopes /\ now \in 1..MaxTime /\ deaths \in 0..MaxDeaths
        BY ScopesAssumption, BoundsAssumption DEF Init
    <2>5. failures \in [Scopes -> SUBSET [pointers : SUBSET Ids, cursor : Nat]]
        BY DEF Init
    <2> QED BY <2>1, <2>2, <2>3, <2>4, <2>5 DEF Init, FileTypes
<1>3. HandTypes /\ WorkFits /\ InHand
    BY DEF Init, Idle, HandTypes, WorkFits, InHand
<1>4. \A s \in Scopes : pages[s] = <<>> /\ Ingested(pages[s]) = {} /\ DOMAIN pages[s] = {}
    BY DEF Init, Ingested
<1>5. PagesFit /\ ResolutionsFit /\ IngestedIsFiled /\ RowsFit
    <2>1. PagesFit
        BY <1>4 DEF PagesFit
    <2>2. ResolutionsFit
        BY DEF Init, ResolutionsFit, ResolutionFits, NoResolution
    <2>3. \A s \in Scopes : Resolved(s) = {}
        BY DEF Init, Resolved, NoResolution
    <2>4. RowsFit
        BY DEF Init, RowsFit, NoRow
    <2> QED BY <1>4, <2>1, <2>2, <2>3, <2>4 DEF IngestedIsFiled
<1>6. \A s \in Scopes : Enumerates(s, pages[s])
    <2>1. ASSUME NEW s \in Scopes
          PROVE  Enumerates(s, pages[s])
        <3>1. Cardinality(Ingested(pages[s])) = 0
            BY <1>4, FS_EmptySet
        <3>2. 0..(0 - 1) = {}
            OBVIOUS
        <3> QED BY <1>4, <3>1, <3>2 DEF Enumerates, EnumeratesOnce, ShownOnce
    <2> QED BY <2>1
<1>7. CheckpointFits
    BY DEF Init, NoCheckpoint, CheckpointFits
<1> QED BY <1>2, <1>3, <1>5, <1>6, <1>7, TypesInTwo DEF Inv, FilesFit

LEMMA InvStep == Inv /\ [Next]_vars => Inv'
<1> SUFFICES ASSUME Inv, [Next]_vars PROVE Inv'
    OBVIOUS
<1>1. CASE RegisterScope
    BY <1>1, RegisterScopeKeepsInv
<1>2. ASSUME NEW s \in Scopes, NEW response \in Offered[s], NEW cursor \in 0..MaxCursor,
             CaptureResponse(s, response, cursor)
      PROVE  Inv'
    BY <1>2, CaptureResponseKeepsInv
<1>3. ASSUME NEW s \in Scopes, NEW i, CaptureAgain(s, i)
      PROVE  Inv'
    BY <1>3, CaptureAgainKeepsInv
<1>4. ASSUME NEW s \in Scopes, NEW of \in SUBSET Ids, RecordFailure(s, of)
      PROVE  Inv'
    BY <1>4, RecordFailureKeepsInv
<1>5. ASSUME NEW s \in Scopes, NEW d \in Ids, NEW body \in Described[d], ResolvePointer(s, d, body)
      PROVE  Inv'
    BY <1>5, ResolvePointerKeepsInv
<1>6. ASSUME NEW s \in Scopes, StartReplay(s)
      PROVE  Inv'
    BY <1>6, StartReplayKeepsInv
<1>7. CASE RejectPage
    BY <1>7, RejectPageKeepsInv
<1>8. CASE IngestPage
    BY <1>8, IngestPageKeepsInv
<1>9. CASE MarkPage
    BY <1>9, MarkPageKeepsInv
<1>10. CASE IngestResolution
    BY <1>10, IngestResolutionKeepsInv
<1>11. CASE MarkResolution
    BY <1>11, MarkResolutionKeepsInv
<1>12. CASE Replaying
    BY <1>12, FinishReplayKeepsInv, ReplayPageKeepsInv, ReplayResolutionKeepsInv DEF Replaying
<1>13. CASE ReadResult
    BY <1>13, ReadResultKeepsInv
<1>14. ASSUME NEW r \in results, MergeDiscoveryState(r)
       PROVE  Inv'
    BY <1>14, MergeDiscoveryStateKeepsInv
<1>15. CASE Tick
    BY <1>15, TickKeepsInv
<1>16. CASE Die
    BY <1>16, DieKeepsInv
<1>17. CASE UNCHANGED vars
    BY <1>17, StutterKeepsInv
<1>18. CASE Next
    BY <1>18, <1>1, <1>2, <1>3, <1>4, <1>5, <1>6, <1>7, <1>8, <1>9, <1>10, <1>11, <1>12,
       <1>13, <1>14, <1>15, <1>16 DEF Next, Working
<1> QED BY <1>17, <1>18

\* The inductive invariant: what the ledger calls ingested is in the queue with
\* a row that is not older, the ingested pages of a scope enumerate it once, a
\* page that is being marked still comes next, every row shows a capture, and a
\* checkpoint's scopes are exhausted (retrieval.py capture, replay and _audit;
\* checkpoints.py merge_discovery_state).
THEOREM RetrievalInvariant == Spec => []Inv
BY InitInv, InvStep, PTL DEF Spec

\* The ledger, the queue, the checkpoint and the operation under way keep their
\* shapes, and work on a page or a pointer names one that is there.
THEOREM RetrievalTypes == Spec => []TypeOK
<1>1. Inv => TypeOK
    BY DEF Inv
<1> QED BY <1>1, RetrievalInvariant, PTL

-----------------------------------------------------------------------------
(* What the invariant means.                                                *)

\* The ledger is sound however often the process died between its files: what
\* it calls ingested has its receipt and its snapshots in the review queue, and
\* the ingested pages of a paged scope are one for each cursor without a gap,
\* no record twice, nothing after the last (retrieval.py capture, _ingest_page
\* and replay, which _audit checks each time).
THEOREM LedgersAreSound == Spec => []LedgerIsSound
<1>1. ASSUME Inv PROVE LedgerIsSound
    <2>1. TypeOK
        BY <1>1 DEF Inv
    <2>2. LedgerIsHonest
        BY <1>1 DEF Inv, FilesFit, IngestedIsFiled, Filed, LedgerIsHonest, Receipted
    <2>3. PagesEnumerateOnce
        BY <1>1 DEF Inv, FilesFit, Enumerates, EnumeratesOnce, PagesEnumerateOnce
    <2> QED BY <2>1, <2>2, <2>3 DEF LedgerIsSound
<1> QED BY <1>1, RetrievalInvariant, PTL

\* A complete scope accounts for all that any of its responses showed, the
\* rejected ones too.
LEMMA CompleteAccounts ==
    ASSUME TypeOK, FilesFit, NEW s \in Scopes, CompleteScope(s)
    PROVE  ScopeAccountsForAll(s)
<1>1. /\ Public(s) \subseteq IdsOf(Complete(observed))
      /\ \A r \in Returned(pages[s]) : r.body # Unlisted => r.id \in Public(s)
    BY CompleteMeans
<1>2. ASSUME NEW d, NEW r \in Returned(pages[s]), r.id = d
      PROVE  \/ d \in IdsOf(Complete(observed))
             \/ [id |-> d, body |-> Unlisted] \in Returned(pages[s])
    <2>1. r \in Record
        BY EvidenceTypes DEF FilesFit
    <2>2. CASE r.body = Unlisted
        <3>1. r = [id |-> d, body |-> Unlisted]
            BY <1>2, <2>1, <2>2 DEF Record
        <3> QED BY <3>1
    <2>3. CASE r.body # Unlisted
        BY <1>1, <1>2, <2>3
    <2> QED BY <2>2, <2>3
<1>3. ASSUME NEW i \in DOMAIN pages[s], NEW d \in IdsOf(pages[s][i].response.rows)
      PROVE  \E r \in Returned(pages[s]) : r.id = d
    <2>1. CASE pages[s][i].status = "ingested"
        <3>1. pages[s][i].response.rows \subseteq Returned(pages[s])
            BY <2>1 DEF Returned, Ingested
        <3> QED BY <3>1 DEF IdsOf
    <2>2. CASE Retried(pages[s], i)
        <3>1. d \in IdsOf(UNION {pages[s][j].response.rows : j \in Retries(pages[s], i)})
            BY <2>2 DEF Retried
        <3>2. UNION {pages[s][j].response.rows : j \in Retries(pages[s], i)} \subseteq Returned(pages[s])
            BY DEF Retries, Returned
        <3> QED BY <3>1, <3>2 DEF IdsOf
    <2> QED BY <2>1, <2>2 DEF CompleteScope
<1> QED BY <1>2, <1>3 DEF ScopeAccountsForAll

\* Whatever _audit calls complete accounts for every record that any response
\* of the scope showed, and a saved checkpoint names every public record of its
\* scopes, all of them stored (retrieval.py _audit and source_result;
\* checkpoints.py merge_discovery_state).
THEOREM CompleteScopesAccountForAll == Spec => []CompleteAccountsForAll
<1>1. ASSUME Inv PROVE CompleteAccountsForAll
    <2>1. Registered \subseteq Scopes
        BY <1>1, SelectedAreScopes DEF Inv, TypeOK
    <2>2. \A s \in Registered : CompleteScope(s) => ScopeAccountsForAll(s)
        BY <1>1, <2>1, CompleteAccounts DEF Inv
    <2>3. CheckpointFits
        BY <1>1 DEF Inv, FilesFit
    <2> QED BY <2>2, <2>3 DEF CheckpointFits, CompleteAccountsForAll
<1> QED BY <1>1, RetrievalInvariant, PTL

\* What was captured is one of the captures.
LEMMA CapturedIsCapture ==
    ASSUME NEW d \in Ids, NEW t, NEW body, WasCaptured(d, t, body)
    PROVE  [at |-> t, body |-> body] \in CapturesOf(d)
<1>1. PICK s \in Scopes :
          \/ resolutions[s][d].at = t /\ resolutions[s][d].body = body
          \/ \E i \in DOMAIN pages[s] : \E r \in pages[s][i].response.rows :
                r.id = d /\ r.body = body /\ pages[s][i].at = t
    BY DEF WasCaptured
<1>2. CASE resolutions[s][d].at = t /\ resolutions[s][d].body = body
    BY <1>2 DEF CapturesOf
<1>3. CASE \E i \in DOMAIN pages[s] : \E r \in pages[s][i].response.rows :
                r.id = d /\ r.body = body /\ pages[s][i].at = t
    <2>1. PICK i \in DOMAIN pages[s] : \E r \in pages[s][i].response.rows :
                r.id = d /\ r.body = body /\ pages[s][i].at = t
        BY <1>3
    <2> DEFINE shown == {[at |-> pages[s][i].at, body |-> r.body] :
                            r \in {r \in pages[s][i].response.rows : r.id = d}}
    <2>2. [at |-> t, body |-> body] \in shown
        BY <2>1
    <2>3. shown \subseteq CapturesOf(d)
        BY DEF CapturesOf
    <2> QED BY <2>2, <2>3
<1> QED BY <1>1, <1>2, <1>3

\* What the review queue shows of a posting was captured at the time it says,
\* and nothing that is ingested is newer, whatever was replayed and in whatever
\* order (review_queue.py's merge of a posting, as retrieval.py's ingest and
\* replay call it).
THEOREM QueueRowsAreNewest == Spec => []QueueShowsNewestCapture
<1>1. ASSUME Inv PROVE QueueShowsNewestCapture
    <2>1. ASSUME NEW d \in Ids, rows[d].at > 0
          PROVE  [at |-> rows[d].at, body |-> rows[d].body] \in CapturesOf(d)
        <3>1. WasCaptured(d, rows[d].at, rows[d].body)
            BY <1>1, <2>1 DEF Inv, FilesFit, RowsFit
        <3>2. PICK t, body : t = rows[d].at /\ body = rows[d].body
            OBVIOUS
        <3> QED BY <3>1, <3>2, CapturedIsCapture
    <2>2. rows \in [Ids -> RowType] /\ \A d \in Ids : rows[d].at \in Nat
        BY <1>1, TypesInTwo, BoundsAssumption DEF Inv, FileTypes, RowType
    <2>3. ASSUME NEW d \in Ids, NEW s \in Scopes, NEW i \in Ingested(pages[s]),
                 d \in IdsOf(Complete(pages[s][i].response.rows))
          PROVE  pages[s][i].at <= rows[d].at
        <3>1. \A r \in Complete(pages[s][i].response.rows) : rows[r.id].at >= pages[s][i].at
            BY <1>1 DEF Inv, FilesFit, IngestedIsFiled, Filed
        <3>2. PICK r \in Complete(pages[s][i].response.rows) : r.id = d
            BY <2>3 DEF IdsOf
        <3>3. pages[s][i].at \in Nat
            BY <1>1, LedgerTypes DEF Inv, Ingested
        <3> QED BY <2>2, <3>1, <3>2, <3>3
    <2>4. ASSUME NEW d \in Ids, NEW s \in Scopes, d \in Resolved(s)
          PROVE  resolutions[s][d].at <= rows[d].at
        <3>1. \A r \in {Resolution(s, d)} : rows[r.id].at >= resolutions[s][d].at
            BY <1>1, <2>4 DEF Inv, FilesFit, IngestedIsFiled, Filed
        <3>2. rows[d].at >= resolutions[s][d].at
            BY <3>1 DEF Resolution
        <3>3. resolutions[s][d].at \in Nat
            BY <1>1, LedgerTypes DEF Inv
        <3> QED BY <2>2, <3>2, <3>3
    <2> QED BY <2>1, <2>3, <2>4 DEF QueueShowsNewestCapture
<1> QED BY <1>1, RetrievalInvariant, PTL

\* Results that are merged in any order, and again, never move a checkpoint
\* back (checkpoints.py merge_discovery_state).
THEOREM CheckpointsGoForward == Spec => CheckpointNeverBackwards
<1>1. ASSUME Inv, [Next]_vars PROVE checkpoint'.at >= checkpoint.at
    <2>1. checkpoint.at \in Nat /\ \A r \in results : r.completed \in Nat
        <3>1. checkpoint \in [at : 0..MaxTime, seen : SUBSET Ids, scopes : SUBSET Scopes]
            BY <1>1 DEF Inv, TypeOK
        <3>2. results \subseteq [completed : 1..MaxTime, seen : SUBSET Ids,
                                 scopes : SUBSET Scopes, intakes : SUBSET ReceiptType]
            BY <1>1 DEF Inv, TypeOK
        <3> QED BY <3>1, <3>2, BoundsAssumption
    <2>2. CASE checkpoint' = checkpoint
        BY <2>1, <2>2
    <2>3. ASSUME NEW r \in results, MergeDiscoveryState(r)
          PROVE  checkpoint'.at >= checkpoint.at
        <3>1. CASE checkpoint.at > r.completed
            BY <2>1, <2>3, <3>1 DEF MergeDiscoveryState
        <3>2. CASE ~(checkpoint.at > r.completed)
            <4>1. checkpoint'.at = r.completed
                BY <2>3, <3>2 DEF MergeDiscoveryState, CompleteSource
            <4> QED BY <2>1, <3>2, <4>1
        <3> QED BY <3>1, <3>2
    <2>4. CASE \A r \in results : ~MergeDiscoveryState(r)
        BY <1>1, <2>2, <2>4 DEF Next, vars, RegisterScope, CaptureResponse, CaptureAgain,
           RecordFailure, ResolvePointer, StartReplay, Working, RejectPage, IngestPage, MarkPage,
           IngestResolution, MarkResolution, Replaying, FinishReplay, ReplayPage,
           ReplayResolution, ReadResult, Tick, Die
    <2> QED BY <2>3, <2>4
<1>2. Inv /\ [Next]_vars => [checkpoint'.at >= checkpoint.at]_vars
    BY <1>1
<1> QED BY <1>2, RetrievalInvariant, PTL DEF Spec, CheckpointNeverBackwards

-----------------------------------------------------------------------------
(* What an audit can fail of.                                               *)

\* The ingested pages lie in the ledger in the order of their cursors.
InCursorOrder(ps) ==
    \A i, j \in Ingested(ps) : i < j => ps[i].cursor < ps[j].cursor

\* The pages of a scope are audited all of them, unless they lie in another order.
AuditFailsOnlyByOrder ==
    \A s \in Scopes :
        Audited(s, pages[s]) <=> (s \in Supplementary \/ InCursorOrder(pages[s]))

\* As many numbers as a cursor says come before it.
LEMMA CountByCursor ==
    ASSUME NEW ps, NEW in, NEW n \in Nat, NEW c \in 0..(n - 1),
           {ps[i].cursor : i \in in} = 0..(n - 1),
           \A i, j \in in : i # j => ps[i].cursor # ps[j].cursor,
           NEW below, below = {j \in in : ps[j].cursor < c}
    PROVE  Cardinality(below) = c
<1> DEFINE f == [x \in 0..(c - 1) |-> CHOOSE j \in in : ps[j].cursor = x]
<1>1. c \in Nat /\ \A x \in 0..(c - 1) : x \in 0..(n - 1) /\ x \in Nat /\ x < c
    OBVIOUS
<1>2. \A x \in 0..(c - 1) : \E j \in in : ps[j].cursor = x
    <2>1. \A x \in 0..(n - 1) : \E j \in in : ps[j].cursor = x
        OBVIOUS
    <2> QED BY <1>1, <2>1
<1>3. \A x \in 0..(c - 1) : f[x] \in in /\ ps[f[x]].cursor = x
    BY <1>2
<1>4. \A j \in below : ps[j].cursor \in 0..(c - 1)
    <2>1. \A j \in in : ps[j].cursor \in 0..(n - 1)
        OBVIOUS
    <2>2. \A x \in 0..(n - 1) : x < c => x \in 0..(c - 1)
        OBVIOUS
    <2> QED BY <2>1, <2>2
<1> HIDE DEF f
<1>5. DOMAIN f = 0..(c - 1) /\ f = [x \in 0..(c - 1) |-> f[x]]
    BY DEF f
<1>6. \A x \in 0..(c - 1) : f[x] \in below
    BY <1>1, <1>3
<1>7. f \in [0..(c - 1) -> below]
    BY <1>5, <1>6
<1>8. \A x, y \in 0..(c - 1) : f[x] = f[y] => x = y
    BY <1>3, Zenon
<1>9. \A j \in below : \E x \in 0..(c - 1) : f[x] = j
    <2>1. ASSUME NEW j \in below
          PROVE  f[ps[j].cursor] = j
        <3>1. ps[j].cursor \in 0..(c - 1) /\ j \in in
            BY <1>4
        <3>2. f[ps[j].cursor] \in in /\ ps[f[ps[j].cursor]].cursor = ps[j].cursor
            BY <1>3, <3>1
        <3> QED BY <3>1, <3>2
    <2> QED BY <1>4, <2>1
<1>10. ExistsBijection(0..(c - 1), below)
    BY <1>7, <1>8, <1>9 DEF ExistsBijection, Bijection, Injection, IsInjective, Surjection
<1>11. IsFiniteSet(0..(c - 1)) /\ Cardinality(0..(c - 1)) = c
    <2>1. c - 1 \in Int /\ (0 > c - 1 => c = 0) /\ (c - 1) - 0 + 1 = c
        BY <1>1
    <2> QED BY <2>1, FS_Interval
<1> QED BY <1>10, <1>11, FS_Bijection

\* Pages that enumerate their scope and lie in that order pass the audit.
LEMMA OrderedIsSequenced ==
    ASSUME NEW ps \in Pages, NEW s \in Scopes \ Supplementary,
           EnumeratesOnce(ps), InCursorOrder(ps)
    PROVE  Sequenced(s, ps)
<1> DEFINE in == Ingested(ps)
           n == Cardinality(in)
<1>1. n \in Nat /\ in \subseteq DOMAIN ps /\ \A i \in in : i \in Nat
    BY IngestedIsFinite DEF Pages
<1>2. \A i \in in : ps[i].cursor \in 0..(n - 1) /\ ps[i].cursor \in Nat
    BY DEF EnumeratesOnce
<1>3. {ps[i].cursor : i \in in} = 0..(n - 1)
    BY DEF EnumeratesOnce
<1>4. \A i, j \in in : i # j => ps[i].cursor # ps[j].cursor
    BY <1>1, <1>2 DEF InCursorOrder
<1>5. ASSUME NEW i \in in
      PROVE  /\ ps[i].cursor = Cardinality(Before(ps, i))
             /\ \A j \in Before(ps, i) :
                   /\ ~ps[j].response.last
                   /\ IdsOf(ps[j].response.rows) \cap IdsOf(ps[i].response.rows) = {}
    <2>1. Before(ps, i) = {j \in in : ps[j].cursor < ps[i].cursor}
        BY <1>1, <1>2 DEF InCursorOrder, Before
    <2>2. Cardinality(Before(ps, i)) = ps[i].cursor
        <3>1. PICK c : c = ps[i].cursor
            OBVIOUS
        <3>2. PICK B : B = Before(ps, i)
            OBVIOUS
        <3>3. c \in 0..(n - 1) /\ B = {j \in in : ps[j].cursor < c}
            BY <1>2, <2>1, <3>1, <3>2
        <3> HIDE DEF in, n
        <3>4. Cardinality(B) = c
            BY <1>1, <1>3, <1>4, <3>3, CountByCursor
        <3> QED BY <3>1, <3>2, <3>4
    <2>3. ASSUME NEW j \in Before(ps, i)
          PROVE  /\ ~ps[j].response.last
                 /\ IdsOf(ps[j].response.rows) \cap IdsOf(ps[i].response.rows) = {}
        <3>1. j \in in /\ j # i /\ ps[j].cursor < ps[i].cursor
            BY <1>1, <2>1 DEF Before
        <3>2. /\ IdsOf(ps[j].response.rows) \cap IdsOf(ps[i].response.rows) = {}
              /\ ps[j].response.last => ps[i].cursor < ps[j].cursor
            BY <3>1 DEF EnumeratesOnce
        <3> QED BY <1>2, <3>1, <3>2
    <2> QED BY <2>2, <2>3
<1> QED BY <1>5 DEF Sequenced

\* What passes the audit lies in that order.
LEMMA SequencedIsOrdered ==
    ASSUME NEW ps \in Pages, NEW s \in Scopes \ Supplementary, Sequenced(s, ps)
    PROVE  InCursorOrder(ps)
<1>1. /\ \A i \in Ingested(ps) : i \in Nat
      /\ \A i \in Ingested(ps) : ps[i].cursor = Cardinality(Before(ps, i))
    BY IngestedIsFinite DEF Pages, Sequenced
<1>2. ASSUME NEW i \in Ingested(ps), NEW j \in Ingested(ps), i < j
      PROVE  ps[i].cursor < ps[j].cursor
    <2>1. /\ Before(ps, i) \subseteq Ingested(ps) /\ Before(ps, j) \subseteq Ingested(ps)
          /\ i \notin Before(ps, i) /\ Before(ps, i) \cup {i} \subseteq Before(ps, j)
        <3>1. \A k \in Ingested(ps) : k < i => k < j
            BY <1>1, <1>2
        <3>2. ~(i < i)
            BY <1>1
        <3> QED BY <1>2, <3>1, <3>2 DEF Before
    <2>2. IsFiniteSet(Before(ps, i)) /\ IsFiniteSet(Before(ps, j))
        BY <2>1, IngestedIsFinite, FS_Subset
    <2>3. Cardinality(Before(ps, i) \cup {i}) = Cardinality(Before(ps, i)) + 1
        BY <2>1, <2>2, FS_AddElement
    <2>4. Cardinality(Before(ps, i) \cup {i}) <= Cardinality(Before(ps, j))
        BY <2>1, <2>2, FS_Subset
    <2>5. Cardinality(Before(ps, i)) \in Nat /\ Cardinality(Before(ps, j)) \in Nat
        BY <2>2, FS_CardinalityType
    <2> QED BY <1>1, <2>3, <2>4, <2>5
<1> QED BY <1>2 DEF InCursorOrder

\* What _audit can fail of is one thing only, whatever was captured, rejected,
\* replayed or cut short: that a scope's ingested pages lie in the ledger in
\* another order than that of their cursors (retrieval.py _audit).  Scopes
\* without pagination always pass it.
THEOREM AuditsFailOnlyByOrder == Spec => []AuditFailsOnlyByOrder
<1>1. ASSUME Inv PROVE AuditFailsOnlyByOrder
    <2>1. ASSUME NEW s \in Scopes
          PROVE  Audited(s, pages[s]) <=> (s \in Supplementary \/ InCursorOrder(pages[s]))
        <3>1. pages[s] \in Pages /\ Enumerates(s, pages[s])
            BY <1>1, LedgerTypes DEF Inv, FilesFit
        <3>2. Receipted(s, pages[s])
            BY <1>1 DEF Inv, FilesFit, IngestedIsFiled, Filed, Receipted
        <3>3. CASE s \in Supplementary
            <4>1. Sequenced(s, pages[s])
                <5>1. \A i \in Ingested(pages[s]) : i \in Nat
                    BY <3>1, IngestedIsFinite DEF Pages
                <5> QED BY <3>1, <3>3, <5>1 DEF Enumerates, ShownOnce, Sequenced, Before
            <4> QED BY <3>2, <3>3, <4>1 DEF Audited
        <3>4. CASE s \notin Supplementary
            <4>1. EnumeratesOnce(pages[s])
                BY <3>1, <3>4 DEF Enumerates
            <4>2. Sequenced(s, pages[s]) <=> InCursorOrder(pages[s])
                BY <3>1, <3>4, <4>1, OrderedIsSequenced, SequencedIsOrdered
            <4> QED BY <3>2, <3>4, <4>2 DEF Audited
        <3> QED BY <3>3, <3>4
    <2> QED BY <2>1 DEF AuditFailsOnlyByOrder
<1> QED BY <1>1, RetrievalInvariant, PTL

-----------------------------------------------------------------------------
(* What a row makes of the captures that reach it.                          *)

\* The outcomes of a capture, by its time and the row's.
LEMMA MergedCases ==
    ASSUME NEW row \in RowType, NEW body \in Contents, NEW at \in 1..MaxTime, NEW replay \in BOOLEAN
    PROVE  /\ at > row.at => Merged(row, body, at, replay) = [at |-> at, body |-> body, conflict |-> {}]
           /\ at < row.at => Merged(row, body, at, replay) = row
           /\ at = row.at => Merged(row, body, at, replay).at = at
<1>1. row.at \in Nat /\ at \in Nat /\ at > 0
    BY BoundsAssumption DEF RowType
<1>2. ASSUME at > row.at
      PROVE  Merged(row, body, at, replay) = [at |-> at, body |-> body, conflict |-> {}]
    BY <1>1, <1>2 DEF Merged
<1>3. ASSUME at < row.at
      PROVE  Merged(row, body, at, replay) = row
    BY <1>1, <1>3 DEF Merged
<1>4. ASSUME at = row.at
      PROVE  Merged(row, body, at, replay).at = at
    <2>1. [row EXCEPT !.conflict = @ \cup {row.body, body}].at = row.at
        BY DEF RowType
    <2> QED BY <1>1, <1>4, <2>1 DEF Merged
<1> QED BY <1>2, <1>3, <1>4

\* Two captures of different times leave a row the same in whichever order they
\* are filed, each of them fresh or replayed: the merge of a posting in
\* review_queue.py, as retrieval.py's ingest and replay call it.
THEOREM CapturesInAnyOrder ==
    ASSUME NEW row \in RowType, row.at > 0 => row.body \in Contents,
           NEW body1 \in Contents, NEW at1 \in 1..MaxTime, NEW replay1 \in BOOLEAN,
           NEW body2 \in Contents, NEW at2 \in 1..MaxTime, NEW replay2 \in BOOLEAN,
           at1 # at2
    PROVE  Merged(Merged(row, body1, at1, replay1), body2, at2, replay2)
             = Merged(Merged(row, body2, at2, replay2), body1, at1, replay1)
<1>1. row.at \in Nat /\ at1 \in Nat /\ at2 \in Nat
    BY BoundsAssumption DEF RowType
<1>2. ASSUME NEW b \in Contents, NEW t \in 1..MaxTime, NEW x \in BOOLEAN,
             NEW c \in Contents, NEW u \in 1..MaxTime, NEW y \in BOOLEAN, t < u
      PROVE  Merged(Merged(row, b, t, x), c, u, y) = Merged(Merged(row, c, u, y), b, t, x)
    <2> DEFINE early == Merged(row, b, t, x)
               late == Merged(row, c, u, y)
    <2>1. early \in RowType /\ late \in RowType /\ late.at >= u /\ early.at >= row.at
        BY MergedRow
    <2>2. t \in Nat /\ u \in Nat /\ early.at \in Nat /\ late.at \in Nat
        BY <2>1, BoundsAssumption DEF RowType
    <2>3. Merged(late, b, t, x) = late
        <3>1. t < late.at
            BY <1>2, <2>1, <2>2
        <3> HIDE DEF late
        <3> QED BY <2>1, <3>1, MergedCases
    <2>4. CASE t < row.at
        <3>1. early = row
            BY <2>4, MergedCases
        <3> QED BY <2>3, <3>1
    <2>5. CASE ~(t < row.at)
        <3>1. early.at = t
            <4>1. t > row.at \/ t = row.at
                BY <1>1, <2>2, <2>5
            <4> QED BY <4>1, MergedCases
        <3>2. Merged(early, c, u, y) = [at |-> u, body |-> c, conflict |-> {}]
            <4>1. u > early.at
                BY <1>2, <2>2, <3>1
            <4> HIDE DEF early
            <4> QED BY <2>1, <4>1, MergedCases
        <3>3. u > row.at
            BY <1>1, <1>2, <2>2, <2>5
        <3>4. late = [at |-> u, body |-> c, conflict |-> {}]
            BY <3>3, MergedCases
        <3> QED BY <2>3, <3>2, <3>4
    <2> QED BY <2>4, <2>5
<1>3. at1 < at2 \/ at2 < at1
    BY <1>1
<1> QED BY <1>2, <1>3

\* A capture that is filed again, fresh or replayed, leaves the row as it was
\* after the first time: the retry after a death between the queue and the
\* ledger changes no posting that nothing else came to meanwhile
\* (review_queue.py's merge of a posting; retrieval.py replay).
THEOREM FiledAgainChangesNothing ==
    ASSUME NEW row \in RowType, row.at > 0 => row.body \in Contents,
           NEW body \in Contents, NEW at \in 1..MaxTime, NEW first \in BOOLEAN, NEW again \in BOOLEAN
    PROVE  Merged(Merged(row, body, at, first), body, at, again) = Merged(row, body, at, first)
<1> DEFINE new == Merged(row, body, at, first)
<1>1. row.at \in Nat /\ at \in Nat /\ at > 0 /\ row.conflict \subseteq Contents
    BY BoundsAssumption DEF RowType
<1>2. new \in RowType /\ new.at >= at
    BY MergedRow
<1>3. CASE at < row.at
    BY <1>3, MergedCases
<1>4. CASE new = [at |-> at, body |-> body, conflict |-> {}]
    BY <1>4 DEF Merged
<1>5. CASE at = row.at /\ (first \/ row.conflict # {})
    <2>1. CASE body = row.body
        <3>1. new = row
            BY <1>1, <1>5, <2>1 DEF Merged
        <3>2. row = [at |-> row.at, body |-> row.body, conflict |-> row.conflict]
            BY DEF RowType
        <3> ~(at < row.at)
            BY <1>1, <1>5
        <3>3. CASE again \/ row.conflict # {}
            <4>1. Merged(row, body, at, again) = row
                BY <1>1, <1>5, <2>1, <3>3 DEF Merged
            <4> QED BY <3>1, <4>1
        <3>4. CASE ~again /\ row.conflict = {}
            <4>1. Merged(row, body, at, again) = [at |-> at, body |-> body, conflict |-> {}]
                BY <1>1, <1>5, <3>4 DEF Merged
            <4> QED BY <1>5, <2>1, <3>1, <3>2, <3>4, <4>1
        <3> QED BY <3>3, <3>4
    <2>2. CASE body # row.body
        <3>1. new = [row EXCEPT !.conflict = @ \cup {row.body, body}]
            BY <1>1, <1>5, <2>2 DEF Merged
        <3>2. /\ new.at = at /\ new.body = row.body /\ new.conflict = row.conflict \cup {row.body, body}
              /\ new = [new EXCEPT !.conflict = @ \cup {row.body, body}]
            BY <1>1, <1>5, <3>1 DEF RowType
        <3> HIDE DEF new
        <3>3. PICK c : c = new
            OBVIOUS
        <3>4. c.conflict # {} /\ c.at = at /\ body # c.body
            BY <2>2, <3>2, <3>3
        <3>5. Merged(c, body, at, again) = [c EXCEPT !.conflict = @ \cup {c.body, body}]
            BY <1>1, <3>4 DEF Merged
        <3>6. [c EXCEPT !.conflict = @ \cup {c.body, body}] = c
            BY <3>2, <3>3
        <3> QED BY <3>3, <3>5, <3>6 DEF new
    <2> QED BY <2>1, <2>2
<1>6. CASE ~(at < row.at) /\ ~(at = row.at /\ (first \/ row.conflict # {}))
    <2>1. new = [at |-> at, body |-> body, conflict |-> {}]
        BY <1>1, <1>6 DEF Merged
    <2> QED BY <1>4, <2>1
<1> QED BY <1>3, <1>5, <1>6
=============================================================================
