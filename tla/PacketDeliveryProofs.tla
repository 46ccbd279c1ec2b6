------------------------ MODULE PacketDeliveryProofs ------------------------
(***************************************************************************)
(* Proofs about PacketDelivery for any commands, inputs, evidence, PDFs    *)
(* and number of versions.                                                 *)
(***************************************************************************)
EXTENDS PacketDelivery, SequenceTheorems, WellFoundedInduction, TLAPS

-----------------------------------------------------------------------------
(* Versions have a newest one *)

LEMMA NewestIs ==
  ASSUME NEW S \in SUBSET (0..MaxVersion), S # {}
  PROVE  Newest(S) \in S /\ \A w \in S : w <= Newest(S)
<1> DEFINE Left == {MaxVersion - w : w \in S}
<1>1. Left \subseteq Nat /\ Left # {}
  <2>1. \A w \in S : w \in 0..MaxVersion
    OBVIOUS
  <2>2. \A w \in S : MaxVersion - w \in Nat
    BY <2>1, PacketAssumption
  <2> QED BY <2>2
<1>2. PICK x \in Left : \A y \in Left : ~(<<y, x>> \in OpToRel(<, Nat))
  <2> HIDE DEF Left
  <2> QED BY <1>1, WFMin, NatLessThanWellFounded
<1>3. \A y \in Left : ~(y < x)
  <2> TAKE y \in Left
  <2>1. y \in Nat /\ x \in Nat
    BY <1>1, <1>2
  <2>2. y < x => <<y, x>> \in OpToRel(<, Nat)
    <3> HIDE DEF Left
    <3> QED BY <2>1 DEF OpToRel
  <2> QED BY <1>2, <2>2
<1>4. PICK v \in S : x = MaxVersion - v
  BY <1>2
<1>5. \A w \in S : w <= v
  BY <1>3, <1>4, PacketAssumption
<1> QED BY <1>4, <1>5 DEF Newest

-----------------------------------------------------------------------------
(* Histories of receipts *)

LEMMA PrefixMeans ==
  ASSUME NEW S, NEW s \in Seq(S), NEW t \in Seq(S)
  PROVE  IsPrefix(s, t) <=> Len(s) <= Len(t) /\ \A k \in 1..Len(s) : s[k] = t[k]
<1>1. Len(s) \in Nat /\ Len(t) \in Nat
  BY LenProperties
<1>2. SubSeq(s, 1, Len(s)) = s
  BY LenProperties
<1>3. ASSUME Len(s) <= Len(t)
      PROVE  /\ SubSeq(t, 1, Len(s)) \in Seq(S)
             /\ Len(SubSeq(t, 1, Len(s))) = Len(s)
             /\ \A k \in 1..Len(s) : SubSeq(t, 1, Len(s))[k] = t[k]
  <2>1. \A i \in 1..Len(s) : t[i] \in S
    BY <1>1, <1>3, ElementOfSeq
  <2> QED BY <1>1, <1>3, <2>1
<1>4. ASSUME Len(s) <= Len(t), \A k \in 1..Len(s) : s[k] = t[k]
      PROVE  SubSeq(t, 1, Len(s)) = s
  BY <1>1, <1>3, <1>4
<1> QED BY <1>2, <1>3, <1>4 DEF IsPrefix

-----------------------------------------------------------------------------
(* Records that extend each other *)

LEMMA RecordHas ==
  ASSUME NEW r \in PacketRecord
  PROVE  /\ r.inputs \in Inputs
         /\ r.receipts \in Seq(Evidence \cup Approval \cup Hashes)
         /\ Stage(r) \in 0..Ready
         /\ \A k \in 1..Stage(r) : r.receipts[k] \in ReceiptOf(k)
         /\ DOMAIN r.receipts = 1..Stage(r)
<1>1. r.receipts \in Seq(Evidence \cup Approval \cup Hashes)
  BY DEF PacketRecord, ReceiptHistory
<1>2. DOMAIN r.receipts = 1..Len(r.receipts) /\ Len(r.receipts) \in Nat
  BY <1>1, LenProperties
<1>3. /\ Len(r.receipts) <= Ready
      /\ \A k \in DOMAIN r.receipts : r.receipts[k] \in ReceiptOf(k)
      /\ r.inputs \in Inputs
  BY DEF PacketRecord, ReceiptHistory
<1>4. Stage(r) = Len(r.receipts)
  BY DEF Stage
<1>5. Stage(r) \in 0..Ready
  <2>1. \A n \in Nat : n <= Ready => n \in 0..Ready
    BY DEF Ready
  <2> QED BY <1>2, <1>3, <1>4, <2>1, Zenon
<1>6. DOMAIN r.receipts = 1..Stage(r)
  BY <1>2, <1>4
<1> QED BY <1>1, <1>3, <1>5, <1>6, Zenon

LEMMA ExtendsMeans ==
  ASSUME NEW r \in PacketRecord, NEW q \in PacketRecord
  PROVE  Extends(r, q) <=>
           /\ r.inputs = q.inputs
           /\ Stage(q) <= Stage(r)
           /\ \A k \in 1..Stage(q) : q.receipts[k] = r.receipts[k]
BY RecordHas, PrefixMeans DEF Extends, Stage

LEMMA ExtendsItself ==
  ASSUME NEW r \in PacketRecord
  PROVE  Extends(r, r)
BY ExtendsMeans, RecordHas

LEMMA ExtendsOn ==
  ASSUME NEW r \in PacketRecord, NEW q \in PacketRecord, NEW s \in PacketRecord,
         Extends(r, q), Extends(q, s)
  PROVE  Extends(r, s)
BY ExtendsMeans, RecordHas

-----------------------------------------------------------------------------
(* Manifests *)

\* The quality approval is for the posting and the draft on record, and all
\* PDF hashes are the approved one.
Consistent(record) ==
  /\ Stage(record) >= QualityChecked =>
       /\ record.receipts[QualityChecked].posting = record.receipts[PostingVerified]
       /\ record.receipts[QualityChecked].draft = record.receipts[Drafted]
  /\ \A k \in Saved..Stage(record) :
       record.receipts[k] = record.receipts[QualityChecked].hash

WellFormed(m) == IsManifest(m) /\ \A v \in DOMAIN m : Consistent(m[v])

\* The manifest m has everything that n has.
Covers(m, n) ==
  DOMAIN n \subseteq DOMAIN m /\ \A v \in DOMAIN n : Extends(m[v], n[v])

LEMMA CoversItself ==
  ASSUME NEW m, WellFormed(m)
  PROVE  Covers(m, m)
BY ExtendsItself DEF Covers, WellFormed, IsManifest

LEMMA CoversOn ==
  ASSUME NEW m, NEW n, NEW o, WellFormed(m), WellFormed(n), WellFormed(o),
         Covers(m, n), Covers(n, o)
  PROVE  Covers(m, o)
BY ExtendsOn DEF Covers, WellFormed, IsManifest

LEMMA MergedMeans ==
  ASSUME NEW m, NEW n, WellFormed(m), WellFormed(n), Mergeable(m, n)
  PROVE  /\ WellFormed(Merged(m, n))
         /\ DOMAIN Merged(m, n) = DOMAIN m \cup DOMAIN n
         /\ Covers(Merged(m, n), m) /\ Covers(Merged(m, n), n)
         /\ \A v \in DOMAIN Merged(m, n) :
              \/ v \in DOMAIN m /\ Merged(m, n)[v] = m[v]
              \/ v \in DOMAIN n /\ Merged(m, n)[v] = n[v]
<1>1. DOMAIN Merged(m, n) = DOMAIN m \cup DOMAIN n
  BY DEF Merged
<1>2. \A v \in DOMAIN m \cup DOMAIN n : Merged(m, n)[v] =
        IF v \notin DOMAIN n THEN m[v]
        ELSE IF v \notin DOMAIN m THEN n[v]
        ELSE IF Extends(m[v], n[v]) THEN m[v] ELSE n[v]
  BY DEF Merged
<1>3. \A v \in DOMAIN Merged(m, n) :
        \/ v \in DOMAIN m /\ Merged(m, n)[v] = m[v]
        \/ v \in DOMAIN n /\ Merged(m, n)[v] = n[v]
  BY <1>1, <1>2
<1>4. WellFormed(Merged(m, n))
  BY <1>1, <1>3 DEF WellFormed, IsManifest
<1>5. \A v \in DOMAIN m : Extends(Merged(m, n)[v], m[v])
  BY <1>1, <1>2, ExtendsItself DEF Mergeable, WellFormed, IsManifest
<1>6. \A v \in DOMAIN n : Extends(Merged(m, n)[v], n[v])
  BY <1>1, <1>2, ExtendsItself DEF Mergeable, WellFormed, IsManifest
<1> QED BY <1>1, <1>3, <1>4, <1>5, <1>6 DEF Covers

\* A snapshot that the manifest covers adds nothing to it.
LEMMA CoveredAddsNothing ==
  ASSUME NEW m, NEW n, WellFormed(m), WellFormed(n), Covers(m, n)
  PROVE  /\ Mergeable(m, n)
         /\ DOMAIN Merged(m, n) = DOMAIN m
         /\ \A v \in DOMAIN m : Merged(m, n)[v] = m[v]
         /\ Covers(m, Merged(m, n))
<1>1. Mergeable(m, n)
  BY DEF Covers, Mergeable
<1>2. DOMAIN Merged(m, n) = DOMAIN m
  BY DEF Covers, Merged
<1>3. \A v \in DOMAIN m : Merged(m, n)[v] = m[v]
  BY DEF Covers, Merged
<1> QED BY <1>1, <1>2, <1>3, ExtendsItself DEF Covers, WellFormed, IsManifest

LEMMA LatestIs ==
  ASSUME NEW m, IsManifest(m), DOMAIN m # {}
  PROVE  /\ Latest(m) \in DOMAIN m /\ Latest(m) \in Versions
         /\ \A v \in DOMAIN m : v <= Latest(m)
<1>1. DOMAIN m \in SUBSET (0..MaxVersion)
  BY PacketAssumption DEF IsManifest, Versions
<1> QED BY <1>1, NewestIs DEF Latest, IsManifest

\* One more receipt, of the stage that is next and about the approved PDF.
LEMMA WithReceiptMeans ==
  ASSUME NEW m, WellFormed(m), NEW v \in DOMAIN m, NEW receipt,
         Stage(m[v]) < Ready,
         receipt \in ReceiptOf(Stage(m[v]) + 1),
         Stage(m[v]) + 1 = QualityChecked =>
           /\ receipt.posting = m[v].receipts[PostingVerified]
           /\ receipt.draft = m[v].receipts[Drafted],
         Stage(m[v]) + 1 > QualityChecked =>
           receipt = m[v].receipts[QualityChecked].hash
  PROVE  /\ WellFormed(WithReceipt(m, v, receipt))
         /\ DOMAIN WithReceipt(m, v, receipt) = DOMAIN m
         /\ \A w \in DOMAIN m : w # v => WithReceipt(m, v, receipt)[w] = m[w]
         /\ Stage(WithReceipt(m, v, receipt)[v]) = Stage(m[v]) + 1
         /\ \A k \in 1..Stage(m[v]) :
              WithReceipt(m, v, receipt)[v].receipts[k] = m[v].receipts[k]
         /\ Covers(WithReceipt(m, v, receipt), m)
<1> DEFINE new == [inputs |-> m[v].inputs, receipts |-> Append(m[v].receipts, receipt)]
           Receipt == Evidence \cup Approval \cup Hashes
<1>1. m[v] \in PacketRecord /\ Consistent(m[v])
  BY DEF WellFormed, IsManifest
<1>2. m[v].receipts \in Seq(Receipt) /\ Stage(m[v]) \in 0..Ready
  BY <1>1, RecordHas
<1>3. receipt \in Receipt
  <2>1. Stage(m[v]) + 1 \in 1..Ready
    BY <1>2 DEF Ready
  <2> QED BY <2>1 DEF ReceiptOf, PostingVerified, Drafted, QualityChecked, Ready
<1>4. WithReceipt(m, v, receipt) = [m EXCEPT ![v] = new]
  <2>1. WithReceipt(m, v, receipt) =
          [m EXCEPT ![v] = [m[v] EXCEPT !.receipts = Append(m[v].receipts, receipt)]]
    BY Zenon DEF WithReceipt
  <2>2. m[v] \in [inputs : Inputs, receipts : ReceiptHistory]
    BY <1>1 DEF PacketRecord
  <2>3. [m[v] EXCEPT !.receipts = Append(m[v].receipts, receipt)] = new
    BY <2>2
  <2> QED BY <2>1, <2>3, Zenon
<1>5. /\ new.receipts \in Seq(Receipt)
      /\ Len(new.receipts) = Len(m[v].receipts) + 1
      /\ \A k \in 1..Len(m[v].receipts) : new.receipts[k] = m[v].receipts[k]
      /\ new.receipts[Len(m[v].receipts) + 1] = receipt
  BY <1>2, <1>3, AppendProperties
<1>6. DOMAIN new.receipts = 1..(Stage(m[v]) + 1)
  BY <1>5, LenProperties DEF Stage
<1>7. \A k \in 1..Stage(m[v]) : m[v].receipts[k] \in ReceiptOf(k)
  BY <1>1, RecordHas
<1>8. \A k \in DOMAIN new.receipts : new.receipts[k] \in ReceiptOf(k)
  BY <1>2, <1>5, <1>6, <1>7 DEF Stage
<1>9. new \in PacketRecord
  <2>1. Len(new.receipts) <= Ready
    <3>1. Len(m[v].receipts) = Stage(m[v])
      BY DEF Stage
    <3> QED BY <1>2, <1>5, <3>1 DEF Ready
  <2>2. new.receipts \in ReceiptHistory
    BY <1>5, <1>8, <2>1, Zenon DEF ReceiptHistory
  <2>3. m[v].inputs \in Inputs
    BY <1>1, RecordHas
  <2>4. Append(m[v].receipts, receipt) \in ReceiptHistory
    BY <2>2
  <2> QED BY <2>3, <2>4 DEF PacketRecord
<1>10. Stage(new) = Stage(m[v]) + 1
  BY <1>5 DEF Stage
<1>11. Consistent(new)
  BY <1>1, <1>2, <1>5, <1>10
  DEF Consistent, Stage, PostingVerified, Drafted, QualityChecked, Saved, Ready
<1>12. Extends(new, m[v])
  BY <1>1, <1>2, <1>5, <1>9, <1>10, ExtendsMeans DEF Stage
<1> HIDE DEF new
<1>13. /\ DOMAIN WithReceipt(m, v, receipt) = DOMAIN m
       /\ WithReceipt(m, v, receipt)[v] = new
       /\ \A w \in DOMAIN m : w # v => WithReceipt(m, v, receipt)[w] = m[w]
  BY <1>4
<1>14. WellFormed(WithReceipt(m, v, receipt))
  BY <1>9, <1>11, <1>13 DEF WellFormed, IsManifest
<1>15. Covers(WithReceipt(m, v, receipt), m)
  BY <1>12, <1>13, ExtendsItself DEF Covers, WellFormed, IsManifest
<1> QED BY <1>5, <1>10, <1>13, <1>14, <1>15 DEF Stage

LEMMA CoversKeeps ==
  ASSUME NEW m, NEW n, WellFormed(m), WellFormed(n), Covers(m, n), NEW v \in DOMAIN n
  PROVE  /\ v \in DOMAIN m
         /\ Stage(n[v]) \in 0..Ready /\ Stage(m[v]) \in 0..Ready
         /\ Stage(n[v]) <= Stage(m[v])
         /\ \A k \in 1..Stage(n[v]) : m[v].receipts[k] = n[v].receipts[k]
<1>1. v \in DOMAIN m /\ m[v] \in PacketRecord /\ n[v] \in PacketRecord /\ Extends(m[v], n[v])
  BY DEF Covers, WellFormed, IsManifest
<1> QED BY <1>1, RecordHas, ExtendsMeans

-----------------------------------------------------------------------------
(* The inductive invariant, in named parts *)

\* The places from the load to the next receipt, at which the snapshot of a
\* command has nothing that the manifest lacks.
Following == {"start", "status", "reserve", "loaded", "verify", "record", "complete"}

\* The places at which the PDF was verified.
Verified == {"verified", "record", "complete", "ready"}

\* A version of m is ready only if d has it as delivered.
ReadyIn(m, d) ==
  \A v \in DOMAIN m : Stage(m[v]) = Ready => \E e \in d : e.version = v

\* What d says was delivered has a local verification in m and is approved.
DeliveredIn(m, d) ==
  \A e \in d :
    /\ e.version \in DOMAIN m
    /\ Stage(m[e.version]) >= LocalVerified
    /\ m[e.version].receipts[QualityChecked].hash = e.hash

\* The command c fits the manifest m and the deliveries d.
Fits(c, m, d) ==
  /\ IsCommand(c) /\ WellFormed(c.held)
  /\ DOMAIN c.held \subseteq DOMAIN m
  /\ ReadyIn(c.held, d)
  /\ c.at \in Following => Covers(m, c.held)
  /\ c.at \in {"start", "status", "reserve"} => c.opts \in Inputs
  /\ c.at = "loaded" => DOMAIN c.held # {}
  /\ c.at \in {"verify"} \cup Verified => c.version \in DOMAIN c.held
  /\ c.at = "verify" => Stage(c.held[c.version]) >= Saved
  /\ c.at \in Verified =>
       /\ Stage(c.held[c.version]) >= LocalVerified
       /\ c.held[c.version].receipts[QualityChecked].hash = c.hash
  /\ c.at \in {"complete", "ready"} =>
       [version |-> c.version, hash |-> c.hash] \in d

FilesFit(m, d) == WellFormed(m) /\ ReadyIn(m, d) /\ DeliveredIn(m, d)

StatusFits ==
  status = "packet_ready" /\ "packet_ready" \notin RequestedStatuses => delivered # {}

Inv ==
  /\ TypeOK
  /\ FilesFit(manifest, delivered)
  /\ \A p \in Procs : Fits(proc[p], manifest, delivered)
  /\ StatusFits

\* What a step keeps of all that: the manifest only grows, and files and
\* commands fit again.
Kept ==
  /\ Covers(manifest', manifest)
  /\ FilesFit(manifest', delivered')
  /\ DOMAIN proc' = Procs
  /\ \A p \in Procs : Fits(proc'[p], manifest', delivered')

-----------------------------------------------------------------------------
(* What fits goes on to fit *)

LEMMA FitsStays ==
  ASSUME NEW c, NEW m, NEW d, NEW n, NEW e,
         Fits(c, m, d), WellFormed(m), WellFormed(n), Covers(n, m), d \subseteq e
  PROVE  Fits(c, n, e)
<1>1. WellFormed(c.held) /\ DOMAIN c.held \subseteq DOMAIN n
  BY DEF Fits, Covers
<1>2. ReadyIn(c.held, e)
  BY DEF Fits, ReadyIn
<1>3. Covers(m, c.held) => Covers(n, c.held)
  BY <1>1, CoversOn
<1> QED BY <1>1, <1>2, <1>3, Zenon DEF Fits

LEMMA IdleFits ==
  ASSUME NEW m, NEW d
  PROVE  Fits(Idle, m, d)
<1>1. DOMAIN NoManifest = {}
  BY DEF NoManifest
<1>2. WellFormed(NoManifest) /\ ReadyIn(NoManifest, d)
  BY <1>1 DEF WellFormed, IsManifest, ReadyIn
<1>3. IsCommand(Idle)
  BY <1>2 DEF IsCommand, Idle, WellFormed, Places
<1>4. Idle.held = NoManifest /\ Idle.at = "idle"
  BY DEF Idle
<1> QED BY <1>1, <1>2, <1>3, <1>4 DEF Fits, Following, Verified

LEMMA ManifestsFit ==
  ASSUME NEW m, NEW n, NEW d, FilesFit(m, d), WellFormed(n), Covers(n, m), ReadyIn(n, d)
  PROVE  FilesFit(n, d)
<1>1. DeliveredIn(n, d)
  <2> SUFFICES ASSUME NEW e \in d
               PROVE  /\ e.version \in DOMAIN n
                      /\ Stage(n[e.version]) >= LocalVerified
                      /\ n[e.version].receipts[QualityChecked].hash = e.hash
    BY DEF DeliveredIn
  <2>1. /\ e.version \in DOMAIN m /\ Stage(m[e.version]) >= LocalVerified
        /\ m[e.version].receipts[QualityChecked].hash = e.hash
    BY DEF FilesFit, DeliveredIn
  <2> QED BY <2>1, CoversKeeps DEF FilesFit, LocalVerified, QualityChecked, Ready
<1> QED BY <1>1 DEF FilesFit

\* Merging a snapshot that fits leaves files that fit.
LEMMA MergedFits ==
  ASSUME NEW c, NEW m, NEW d, FilesFit(m, d), Fits(c, m, d), Mergeable(m, c.held)
  PROVE  /\ FilesFit(Merged(m, c.held), d)
         /\ Covers(Merged(m, c.held), m) /\ Covers(Merged(m, c.held), c.held)
         /\ DOMAIN Merged(m, c.held) = DOMAIN m
<1>1. WellFormed(m) /\ WellFormed(c.held) /\ DOMAIN c.held \subseteq DOMAIN m
  BY DEF Fits, FilesFit
<1> DEFINE h == c.held
<1>2. WellFormed(h) /\ Mergeable(m, h) /\ ReadyIn(m, d) /\ ReadyIn(h, d)
  BY <1>1 DEF Fits, FilesFit
<1> HIDE DEF h
<1>3. /\ WellFormed(Merged(m, h))
      /\ DOMAIN Merged(m, h) = DOMAIN m \cup DOMAIN h
      /\ Covers(Merged(m, h), m) /\ Covers(Merged(m, h), h)
      /\ \A v \in DOMAIN Merged(m, h) :
           \/ v \in DOMAIN m /\ Merged(m, h)[v] = m[v]
           \/ v \in DOMAIN h /\ Merged(m, h)[v] = h[v]
  BY <1>1, <1>2, MergedMeans
<1>4. ReadyIn(Merged(m, h), d)
  BY <1>2, <1>3 DEF ReadyIn
<1>5. FilesFit(Merged(m, h), d)
  BY <1>3, <1>4, ManifestsFit
<1> QED BY <1>1, <1>3, <1>5 DEF h

\* One command goes on while the files fit and grow.
LEMMA OthersFit ==
  ASSUME Inv, NEW p \in Procs, NEW c, Goes(p, c), Fits(c, manifest', delivered'),
         FilesFit(manifest', delivered'), Covers(manifest', manifest), delivered \subseteq delivered'
  PROVE  Kept
<1>1. DOMAIN proc = Procs
  BY DEF Inv, TypeOK
<1>2. DOMAIN proc' = Procs /\ proc'[p] = c /\ \A q \in Procs : q # p => proc'[q] = proc[q]
  BY <1>1 DEF Goes
<1>3. ASSUME NEW q \in Procs, q # p
      PROVE  Fits(proc'[q], manifest', delivered')
  <2>1. Fits(proc[q], manifest, delivered) /\ WellFormed(manifest) /\ WellFormed(manifest')
    BY DEF Inv, FilesFit
  <2>2. Fits(proc[q], manifest', delivered')
    BY <2>1, FitsStays
  <2> QED BY <1>2, <1>3, <2>2
<1> QED BY <1>2, <1>3 DEF Kept

\* A command goes on and writes nothing.
LEMMA NothingWritten ==
  ASSUME Inv, NEW p \in Procs, NEW c, Goes(p, c), Fits(c, manifest, delivered),
         UNCHANGED <<manifest, delivered>>
  PROVE  Kept
<1>1. FilesFit(manifest, delivered) /\ Covers(manifest, manifest)
  BY CoversItself DEF Inv, FilesFit
<1>2. Fits(c, manifest', delivered') /\ FilesFit(manifest', delivered') /\ Covers(manifest', manifest)
  BY <1>1
<1> QED BY <1>2, OthersFit

\* A command writes what it has merged.
LEMMA MergeWritten ==
  ASSUME Inv, NEW p \in Procs, NEW c, Goes(p, c), Agrees(p), manifest' = Current(p),
         Fits(c, Current(p), delivered), UNCHANGED delivered
  PROVE  Kept
<1>1. /\ FilesFit(Current(p), delivered)
      /\ Covers(Current(p), manifest)
  BY MergedFits DEF Inv, Agrees, Current
<1>2. Fits(c, manifest', delivered') /\ FilesFit(manifest', delivered') /\ Covers(manifest', manifest)
  BY <1>1
<1> QED BY <1>2, OthersFit

-----------------------------------------------------------------------------
(* Starts *)

LEMMA BeginStartKeeps ==
  ASSUME Inv, NEW p \in Procs, NEW restart \in BOOLEAN, BeginStart(p, restart)
  PROVE  Kept
<1> DEFINE c == [Idle EXCEPT !.at = "start", !.held = manifest,
                             !.opts = approved, !.restart = restart]
<1>1. /\ DOMAIN c = {"at", "held", "opts", "restart", "version", "hash"}
      /\ c.at = "start" /\ c.held = manifest /\ c.opts = approved
      /\ c.restart = restart /\ c.version = 0 /\ c.hash = NoFile
  BY DEF Idle
<1>2. FilesFit(manifest, delivered) /\ approved \in Inputs
  BY DEF Inv, TypeOK
<1> HIDE DEF c
<1>3. IsCommand(c)
  BY <1>1, <1>2 DEF IsCommand, Places, FilesFit, WellFormed
<1>4. Covers(manifest, manifest)
  BY <1>2, CoversItself DEF FilesFit
<1>5. Fits(c, manifest, delivered)
  BY <1>1, <1>2, <1>3, <1>4 DEF Fits, FilesFit, Following, Verified
<1>6. Goes(p, c) /\ UNCHANGED <<manifest, delivered>>
  BY DEF BeginStart, c
<1> QED BY <1>5, <1>6, NothingWritten

LEMMA ResumeKeeps ==
  ASSUME Inv, NEW p \in Procs, NEW foldersMade \in BOOLEAN, Resume(p, foldersMade)
  PROVE  Kept
BY IdleFits, MergeWritten DEF Resume

LEMMA NothingUnderWayKeeps ==
  ASSUME Inv, NEW p \in Procs, NothingUnderWay(p)
  PROVE  Kept
<1> DEFINE c == proc[p]
           e == [proc[p] EXCEPT !.at = "status", !.held = Current(p)]
<1>1. Fits(c, manifest, delivered) /\ FilesFit(manifest, delivered) /\ c.at = "start"
  BY DEF Inv, NothingUnderWay, At
<1>2. /\ FilesFit(Current(p), delivered)
      /\ DOMAIN Current(p) = DOMAIN manifest
  BY <1>1, MergedFits DEF NothingUnderWay, Agrees, Current
<1>3. Covers(manifest, Current(p))
  BY <1>1, CoveredAddsNothing DEF Fits, FilesFit, Following, Current
<1>4. /\ e.at = "status" /\ e.held = Current(p) /\ e.opts = c.opts /\ DOMAIN e = DOMAIN c
      /\ e.restart = c.restart /\ e.version = c.version /\ e.hash = c.hash
  BY <1>1 DEF Fits, IsCommand
<1> HIDE DEF c, e
<1>5. IsCommand(e)
  BY <1>1, <1>2, <1>4 DEF Fits, IsCommand, Places, FilesFit, WellFormed
<1>6. Fits(e, manifest, delivered)
  BY <1>1, <1>2, <1>3, <1>4, <1>5 DEF Fits, FilesFit, Following, Verified
<1>7. Goes(p, e) /\ UNCHANGED <<manifest, delivered>>
  BY DEF NothingUnderWay, e
<1> QED BY <1>6, <1>7, NothingWritten

LEMMA PrepareStatusKeeps ==
  ASSUME Inv, NEW p \in Procs, PrepareStatus(p)
  PROVE  Kept
<1> DEFINE c == proc[p]
           e == [proc[p] EXCEPT !.at = "reserve"]
<1>1. Fits(c, manifest, delivered) /\ c.at = "status"
  BY DEF Inv, PrepareStatus, At
<1>2. /\ e.at = "reserve" /\ e.held = c.held /\ e.opts = c.opts /\ DOMAIN e = DOMAIN c
      /\ e.restart = c.restart /\ e.version = c.version /\ e.hash = c.hash
  BY <1>1 DEF Fits, IsCommand
<1> HIDE DEF c, e
<1>3. IsCommand(e)
  BY <1>1, <1>2 DEF Fits, IsCommand, Places
<1>4. Fits(e, manifest, delivered)
  BY <1>1, <1>2, <1>3 DEF Fits, Following, Verified
<1>5. Goes(p, e) /\ UNCHANGED <<manifest, delivered>>
  BY DEF PrepareStatus, e
<1> QED BY <1>4, <1>5, NothingWritten

\* The number after all folders and records.
LEMMA NextNumberIsNew ==
  ASSUME Inv, NEW p \in Procs, Agrees(p)
  PROVE  NextNumber(p) \notin DOMAIN Current(p) /\ NextNumber(p) \notin dirs
<1> DEFINE S == dirs \cup DOMAIN Current(p) \cup {0}
<1>1. DOMAIN Current(p) \subseteq Versions /\ dirs \subseteq Versions
  BY MergedFits DEF Inv, TypeOK, Agrees, Current, FilesFit, WellFormed, IsManifest
<1>2. S \in SUBSET (0..MaxVersion) /\ S # {}
  <2>1. Versions \subseteq 0..MaxVersion /\ 0 \in 0..MaxVersion
    BY PacketAssumption DEF Versions
  <2> QED BY <1>1, <2>1
<1>3. Newest(S) \in S /\ \A w \in S : w <= Newest(S)
  <2> HIDE DEF S
  <2> QED BY <1>2, NewestIs
<1>4. Newest(S) + 1 \notin S
  <2> HIDE DEF S
  <2>1. Newest(S) \in Nat
    <3>1. Newest(S) \in 0..MaxVersion
      BY <1>2, <1>3
    <3> QED BY <3>1, PacketAssumption
  <2>2. ~(Newest(S) + 1 <= Newest(S))
    BY <2>1
  <2> QED BY <1>3, <2>2
<1> QED BY <1>4 DEF NextNumber

LEMMA ReserveKeeps ==
  ASSUME Inv, NEW p \in Procs, NEW foldersMade \in BOOLEAN, Reserve(p, foldersMade)
  PROVE  Kept
<1> DEFINE v == NextNumber(p)
           old == Current(p)
           fresh == [inputs |-> proc[p].opts, receipts |-> <<>>]
<1>1. Fits(proc[p], manifest, delivered) /\ FilesFit(manifest, delivered)
  BY DEF Inv
<1>2. FilesFit(old, delivered) /\ Covers(old, manifest) /\ DOMAIN old = DOMAIN manifest
  BY <1>1, MergedFits DEF Reserve, Agrees, Current
<1>3. v \in Versions /\ v \notin DOMAIN old
  BY NextNumberIsNew DEF Reserve
<1>4. fresh \in PacketRecord /\ Consistent(fresh) /\ Stage(fresh) = 0
  <2>1. proc[p].opts \in Inputs
    BY <1>1 DEF Fits, Reserve, At
  <2>2. <<>> \in ReceiptHistory /\ Len(<<>>) = 0
    BY DEF ReceiptHistory, Ready
  <2>3. fresh \in PacketRecord
    BY <2>1, <2>2 DEF PacketRecord
  <2>4. Stage(fresh) = 0
    BY <2>2 DEF Stage
  <2> QED BY <2>3, <2>4 DEF Consistent, QualityChecked, Saved
<1>5. manifest' = [w \in DOMAIN old \cup {v} |-> IF w = v THEN fresh ELSE old[w]]
  BY DEF Reserve
<1> HIDE DEF v, old, fresh
<1>6. /\ DOMAIN manifest' = DOMAIN old \cup {v} /\ manifest'[v] = fresh
      /\ \A w \in DOMAIN old : manifest'[w] = old[w]
  BY <1>3, <1>5
<1>7. WellFormed(manifest') /\ ReadyIn(manifest', delivered) /\ Covers(manifest', old)
  BY <1>2, <1>3, <1>4, <1>6, ExtendsItself
  DEF FilesFit, WellFormed, IsManifest, ReadyIn, Covers, Ready
<1>8. Covers(manifest', manifest)
  BY <1>1, <1>2, <1>7, CoversOn DEF FilesFit
<1>9. UNCHANGED delivered /\ Goes(p, Idle)
  BY DEF Reserve
<1>10. FilesFit(manifest', delivered')
  <2>1. FilesFit(manifest', delivered)
    BY <1>1, <1>7, <1>8, ManifestsFit
  <2> QED BY <1>9, <2>1
<1> QED BY <1>8, <1>9, <1>10, IdleFits, OthersFit

-----------------------------------------------------------------------------
(* Updates *)

LEMMA BeginUpdateKeeps ==
  ASSUME Inv, NEW p \in Procs, BeginUpdate(p)
  PROVE  Kept
<1> DEFINE c == [Idle EXCEPT !.at = "loaded", !.held = manifest]
<1>1. /\ DOMAIN c = {"at", "held", "opts", "restart", "version", "hash"}
      /\ c.at = "loaded" /\ c.held = manifest /\ c.opts = NoInputs
      /\ c.restart = FALSE /\ c.version = 0 /\ c.hash = NoFile
  BY DEF Idle
<1>2. FilesFit(manifest, delivered) /\ DOMAIN manifest # {}
  BY DEF Inv, BeginUpdate
<1>3. Goes(p, c) /\ UNCHANGED <<manifest, delivered>>
  BY DEF BeginUpdate
<1> HIDE DEF c
<1>4. IsCommand(c)
  BY <1>1, <1>2 DEF IsCommand, Places, FilesFit, WellFormed
<1>5. Covers(manifest, manifest)
  BY <1>2, CoversItself DEF FilesFit
<1>6. Fits(c, manifest, delivered)
  BY <1>1, <1>2, <1>4, <1>5 DEF Fits, FilesFit, Following, Verified
<1> QED BY <1>3, <1>6, NothingWritten

LEMMA AdvanceKeeps ==
  ASSUME Inv, NEW p \in Procs, Advance(p)
  PROVE  Kept
<1> DEFINE c == proc[p]
           v == Latest(c.held)
           record == c.held[v]
<1>1. Fits(c, manifest, delivered) /\ c.at = "loaded"
  BY DEF Inv, Advance, At
<1>2. PICK receipt \in AcceptableReceipts(record, v) :
        /\ Goes(p, [proc[p] EXCEPT !.at = "persist", !.held = WithReceipt(@, v, receipt)])
        /\ UNCHANGED <<manifest, delivered>>
  BY DEF Advance
<1> DEFINE e == [proc[p] EXCEPT !.at = "persist", !.held = WithReceipt(@, v, receipt)]
<1>3. /\ e.at = "persist" /\ e.held = WithReceipt(c.held, v, receipt) /\ DOMAIN e = DOMAIN c
      /\ e.opts = c.opts /\ e.restart = c.restart /\ e.version = c.version /\ e.hash = c.hash
  BY <1>1 DEF Fits, IsCommand
<1>4. Goes(p, e) /\ UNCHANGED <<manifest, delivered>>
  BY <1>2
<1>5. WellFormed(c.held) /\ v \in DOMAIN c.held /\ record \in PacketRecord
  BY <1>1, LatestIs DEF Fits, WellFormed, IsManifest
<1>6. Stage(record) \in 0..Ready
  BY <1>5, RecordHas
<1>7. /\ Stage(record) + 1 <= Saved
      /\ receipt \in ReceiptOf(Stage(record) + 1)
      /\ Stage(record) + 1 = QualityChecked =>
           /\ receipt.posting = record.receipts[PostingVerified]
           /\ receipt.draft = record.receipts[Drafted]
      /\ Stage(record) + 1 > QualityChecked => receipt = record.receipts[QualityChecked].hash
  <2>1. CASE Stage(record) + 1 \in {PostingVerified, Drafted}
    BY <1>2, <2>1 DEF AcceptableReceipts, ReceiptOf, PostingVerified, Drafted, QualityChecked, Saved
  <2>2. CASE Stage(record) + 1 = QualityChecked
    BY <1>2, <2>2 DEF AcceptableReceipts, ReceiptOf, PostingVerified, Drafted, QualityChecked, Saved
  <2>3. CASE Stage(record) + 1 = Saved
    <3>1. receipt = record.receipts[QualityChecked].hash
      BY <1>2, <2>3 DEF AcceptableReceipts, PostingVerified, Drafted, QualityChecked, Saved
    <3>2. QualityChecked \in 1..Stage(record)
      BY <1>6, <2>3 DEF QualityChecked, Saved, Ready
    <3>3. record.receipts[QualityChecked] \in ReceiptOf(QualityChecked)
      BY <1>5, <3>2, RecordHas
    <3>4. record.receipts[QualityChecked] \in Approval
      BY <3>3 DEF ReceiptOf, QualityChecked, PostingVerified, Drafted
    <3>5. receipt \in Hashes
      BY <3>1, <3>4 DEF Approval
    <3> QED BY <2>3, <3>1, <3>5 DEF ReceiptOf, PostingVerified, Drafted, QualityChecked, Saved
  <2>4. Stage(record) + 1 \in {PostingVerified, Drafted, QualityChecked, Saved}
    BY <1>2 DEF AcceptableReceipts
  <2> QED BY <2>1, <2>2, <2>3, <2>4
<1> HIDE DEF e, v, c
<1>8. /\ WellFormed(e.held) /\ DOMAIN e.held = DOMAIN c.held
      /\ Stage(e.held[v]) = Stage(record) + 1
      /\ \A w \in DOMAIN c.held : w # v => e.held[w] = c.held[w]
  <2>1. Stage(record) < Ready
    BY <1>6, <1>7 DEF Saved, Ready
  <2> QED BY <1>3, <1>5, <1>7, <2>1, WithReceiptMeans
<1>9. ReadyIn(e.held, delivered)
  BY <1>1, <1>6, <1>7, <1>8 DEF Fits, ReadyIn, Saved, Ready
<1>10. IsCommand(e)
  BY <1>1, <1>3, <1>8 DEF Fits, IsCommand, Places, WellFormed
<1>11. Fits(e, manifest, delivered)
  BY <1>1, <1>3, <1>8, <1>9, <1>10 DEF Fits, Following, Verified
<1> QED BY <1>4, <1>11, NothingWritten

LEMMA PersistKeeps ==
  ASSUME Inv, NEW p \in Procs, Persist(p) \/ PersistReady(p)
  PROVE  Kept
BY IdleFits, MergeWritten DEF Persist, PersistReady

-----------------------------------------------------------------------------
(* Deliveries *)

LEMMA BeginDeliveryKeeps ==
  ASSUME Inv, NEW p \in Procs, BeginDelivery(p)
  PROVE  Kept
<1> DEFINE c == proc[p]
           e == [proc[p] EXCEPT !.at = "verify", !.held = Current(p),
                                !.version = Latest(Current(p))]
<1>1. Fits(c, manifest, delivered) /\ FilesFit(manifest, delivered) /\ c.at = "loaded"
  BY DEF Inv, BeginDelivery, At
<1>2. FilesFit(Current(p), delivered) /\ DOMAIN Current(p) = DOMAIN manifest
  BY <1>1, MergedFits DEF BeginDelivery, Deliverable, Agrees, Current
<1>3. Covers(manifest, Current(p))
  BY <1>1, CoveredAddsNothing DEF Fits, FilesFit, Following, Current
<1>4. /\ e.at = "verify" /\ e.held = Current(p) /\ e.version = Latest(Current(p))
      /\ DOMAIN e = DOMAIN c /\ e.opts = c.opts /\ e.restart = c.restart /\ e.hash = c.hash
  BY <1>1 DEF Fits, IsCommand
<1>5. Goes(p, e) /\ UNCHANGED <<manifest, delivered>> /\ Stage(Current(p)[Latest(Current(p))]) >= Saved
  BY DEF BeginDelivery, Deliverable
<1> HIDE DEF c, e
<1>6. Latest(Current(p)) \in DOMAIN Current(p) /\ Latest(Current(p)) \in Versions
  <2>1. DOMAIN Current(p) # {} /\ IsManifest(Current(p))
    BY <1>1, <1>2 DEF Fits, FilesFit, WellFormed
  <2> QED BY <2>1, LatestIs
<1>7. IsCommand(e)
  BY <1>1, <1>2, <1>4, <1>6 DEF Fits, IsCommand, Places, FilesFit, WellFormed
<1>8. Fits(e, manifest, delivered)
  BY <1>1, <1>2, <1>3, <1>4, <1>5, <1>6, <1>7 DEF Fits, FilesFit, Following, Verified
<1> QED BY <1>5, <1>8, NothingWritten

\* The PDF is the approved one.
LEMMA IntactMeans ==
  ASSUME NEW record \in PacketRecord, Stage(record) >= Saved, NEW v, NEW readable,
         Intact(record, v, readable)
  PROVE  files[v] = record.receipts[QualityChecked].hash /\ files[v] # NoFile
<1>1. QualityChecked \in QualityChecked..Stage(record)
  BY RecordHas DEF QualityChecked, Saved, Ready
<1>2. record.receipts[QualityChecked].hash \in RecordedHashes(record)
  BY <1>1 DEF RecordedHashes
<1> QED BY <1>2 DEF Intact

LEMMA VerifyKeeps ==
  ASSUME Inv, NEW p \in Procs, Verify(p)
  PROVE  Kept
<1> DEFINE c == proc[p]
           v == c.version
           record == c.held[v]
<1>1. Fits(c, manifest, delivered) /\ c.at = "verify"
  BY DEF Inv, Verify, At
<1>2. /\ v \in DOMAIN c.held /\ v \in Versions /\ WellFormed(c.held)
      /\ record \in PacketRecord /\ Stage(record) >= Saved /\ Stage(record) \in 0..Ready
  <2>1. v \in DOMAIN c.held /\ WellFormed(c.held) /\ Stage(record) >= Saved
    BY <1>1 DEF Fits
  <2>2. v \in Versions /\ record \in PacketRecord
    BY <2>1 DEF WellFormed, IsManifest
  <2> QED BY <2>1, <2>2, RecordHas
<1>3. files[v] = record.receipts[QualityChecked].hash /\ files[v] \in Hashes
  <2>1. files[v] = record.receipts[QualityChecked].hash /\ files[v] # NoFile
    BY <1>2, IntactMeans DEF Verify
  <2> QED BY <1>2, <2>1 DEF Inv, TypeOK
<1>4. UNCHANGED <<manifest, delivered>>
  BY DEF Verify
<1>5. CASE Stage(record) = Saved
  <2> DEFINE e == [proc[p] EXCEPT !.at = "verified", !.hash = files[v],
                                  !.held = WithReceipt(@, v, files[v])]
  <2>1. Goes(p, e)
    BY <1>5 DEF Verify
  <2>2. /\ e.at = "verified" /\ e.held = WithReceipt(c.held, v, files[v]) /\ e.hash = files[v]
        /\ DOMAIN e = DOMAIN c /\ e.opts = c.opts /\ e.restart = c.restart /\ e.version = v
    BY <1>1 DEF Fits, IsCommand
  <2> HIDE DEF e, v, c
  <2>3. /\ WellFormed(e.held) /\ DOMAIN e.held = DOMAIN c.held
        /\ Stage(e.held[v]) = LocalVerified
        /\ e.held[v].receipts[QualityChecked] = record.receipts[QualityChecked]
        /\ \A w \in DOMAIN c.held : w # v => e.held[w] = c.held[w]
    <3>1. files[v] \in ReceiptOf(Stage(record) + 1)
      BY <1>3, <1>5 DEF ReceiptOf, PostingVerified, Drafted, QualityChecked, Saved
    <3>2. Stage(record) < Ready /\ Stage(record) + 1 # QualityChecked
          /\ Stage(record) + 1 = LocalVerified /\ QualityChecked \in 1..Stage(record)
      BY <1>5 DEF QualityChecked, Saved, LocalVerified, Ready
    <3> QED BY <1>2, <1>3, <2>2, <3>1, <3>2, WithReceiptMeans, SMTT(30)
  <2>4. ReadyIn(e.held, delivered)
    BY <1>1, <2>3 DEF Fits, ReadyIn, LocalVerified, Ready
  <2>5. IsCommand(e)
    BY <1>1, <1>2, <1>3, <2>2, <2>3 DEF Fits, IsCommand, Places, WellFormed
  <2>6. Fits(e, manifest, delivered)
    <3>1. /\ e.version \in DOMAIN e.held
          /\ Stage(e.held[e.version]) >= LocalVerified
          /\ e.held[e.version].receipts[QualityChecked].hash = e.hash
      <4>1. e.version \in DOMAIN e.held
        BY <1>2, <2>2, <2>3, Zenon
      <4>2. Stage(e.held[e.version]) = LocalVerified
        BY <2>2, <2>3, Zenon
      <4>3. e.held[e.version].receipts[QualityChecked].hash = e.hash
        BY <1>3, <2>2, <2>3, Zenon
      <4> QED BY <4>1, <4>2, <4>3 DEF LocalVerified
    <3>2. DOMAIN e.held \subseteq DOMAIN manifest
      BY <1>1, <2>3 DEF Fits
    <3> QED BY <2>2, <2>3, <2>4, <2>5, <3>1, <3>2 DEF Fits, Following, Verified
  <2> QED BY <1>4, <2>1, <2>6, NothingWritten
<1>6. CASE Stage(record) # Saved
  <2> DEFINE e == [proc[p] EXCEPT !.at = "record", !.hash = files[v]]
  <2>1. Goes(p, e)
    BY <1>6 DEF Verify
  <2>2. /\ e.at = "record" /\ e.held = c.held /\ e.hash = files[v]
        /\ DOMAIN e = DOMAIN c /\ e.opts = c.opts /\ e.restart = c.restart /\ e.version = v
    BY <1>1 DEF Fits, IsCommand
  <2>3. Stage(record) >= LocalVerified
    BY <1>2, <1>6 DEF Saved, LocalVerified, Ready
  <2> HIDE DEF e, v, c
  <2>4. IsCommand(e)
    BY <1>1, <1>2, <1>3, <2>2 DEF Fits, IsCommand, Places
  <2>5. Fits(e, manifest, delivered)
    BY <1>1, <1>2, <1>3, <2>2, <2>3, <2>4 DEF Fits, Following, Verified
  <2> QED BY <1>4, <2>1, <2>5, NothingWritten
<1> QED BY <1>5, <1>6

LEMMA PersistVerifiedKeeps ==
  ASSUME Inv, NEW p \in Procs, PersistVerified(p)
  PROVE  Kept
<1> DEFINE c == proc[p]
           e == [proc[p] EXCEPT !.at = "record", !.held = Current(p)]
<1>1. Fits(c, manifest, delivered) /\ FilesFit(manifest, delivered) /\ c.at = "verified"
  BY DEF Inv, PersistVerified, At
<1>2. /\ FilesFit(Current(p), delivered) /\ Covers(Current(p), c.held)
      /\ Covers(Current(p), Current(p))
  BY <1>1, MergedFits, CoversItself DEF PersistVerified, Agrees, Current, FilesFit
<1>3. /\ e.at = "record" /\ e.held = Current(p) /\ e.version = c.version
      /\ DOMAIN e = DOMAIN c /\ e.opts = c.opts /\ e.restart = c.restart /\ e.hash = c.hash
  BY <1>1 DEF Fits, IsCommand
<1>4. (Goes(p, e) \/ Goes(p, Idle)) /\ Agrees(p) /\ manifest' = Current(p) /\ UNCHANGED delivered
  BY DEF PersistVerified
<1> HIDE DEF c, e
<1>5. /\ c.version \in DOMAIN c.held /\ WellFormed(c.held)
      /\ Stage(c.held[c.version]) >= LocalVerified
      /\ c.held[c.version].receipts[QualityChecked].hash = c.hash
  BY <1>1 DEF Fits, Verified
<1>6. /\ e.version \in DOMAIN e.held
      /\ Stage(e.held[e.version]) >= LocalVerified
      /\ e.held[e.version].receipts[QualityChecked].hash = e.hash
  BY <1>2, <1>3, <1>5, CoversKeeps DEF FilesFit, LocalVerified, QualityChecked, Ready
<1>7. IsCommand(e)
  BY <1>1, <1>2, <1>3 DEF Fits, IsCommand, Places, FilesFit, WellFormed
<1>8. Fits(e, Current(p), delivered)
  BY <1>2, <1>3, <1>6, <1>7 DEF Fits, FilesFit, Following, Verified
<1> QED BY <1>4, <1>8, IdleFits, MergeWritten

LEMMA RecordVersionKeeps ==
  ASSUME Inv, NEW p \in Procs, RecordVersion(p)
  PROVE  Kept /\ delivered' \subseteq [version : Versions, hash : Hashes]
<1> DEFINE c == proc[p]
           e == [proc[p] EXCEPT !.at = "complete"]
           new == [version |-> c.version, hash |-> c.hash]
<1>1. Fits(c, manifest, delivered) /\ FilesFit(manifest, delivered) /\ c.at = "record"
  BY DEF Inv, RecordVersion, At
<1>2. /\ e.at = "complete" /\ e.held = c.held /\ e.version = c.version
      /\ DOMAIN e = DOMAIN c /\ e.opts = c.opts /\ e.restart = c.restart /\ e.hash = c.hash
  BY <1>1 DEF Fits, IsCommand
<1>3. Goes(p, e) /\ UNCHANGED manifest /\ delivered' = delivered \cup {new}
  BY DEF RecordVersion
<1>4. new.version = c.version /\ new.hash = c.hash
  OBVIOUS
<1> HIDE DEF c, e
<1>5. /\ c.version \in DOMAIN c.held /\ WellFormed(c.held) /\ Covers(manifest, c.held)
      /\ Stage(c.held[c.version]) >= LocalVerified
      /\ c.held[c.version].receipts[QualityChecked].hash = c.hash
  BY <1>1 DEF Fits, Verified, Following
<1>6. /\ c.version \in DOMAIN manifest
      /\ Stage(manifest[c.version]) >= LocalVerified
      /\ manifest[c.version].receipts[QualityChecked].hash = c.hash
  BY <1>1, <1>5, CoversKeeps DEF FilesFit, LocalVerified, QualityChecked, Ready
<1>7. new \in [version : Versions, hash : Hashes]
  <2>1. c.version \in Versions /\ manifest[c.version] \in PacketRecord
    BY <1>1, <1>6 DEF FilesFit, WellFormed, IsManifest
  <2>2. QualityChecked \in 1..Stage(manifest[c.version])
    BY <1>6, <2>1, RecordHas DEF QualityChecked, LocalVerified, Ready
  <2>3. manifest[c.version].receipts[QualityChecked] \in ReceiptOf(QualityChecked)
    BY <2>1, <2>2, RecordHas
  <2>4. c.hash \in Hashes
    BY <1>6, <2>3 DEF ReceiptOf, QualityChecked, PostingVerified, Drafted, Approval
  <2> QED BY <2>1, <2>4
<1> HIDE DEF new
<1>8. FilesFit(manifest, delivered')
  <2>1. DeliveredIn(manifest, delivered')
    BY <1>1, <1>3, <1>4, <1>6 DEF FilesFit, DeliveredIn
  <2>2. ReadyIn(manifest, delivered')
    BY <1>1, <1>3 DEF FilesFit, ReadyIn
  <2> QED BY <1>1, <2>1, <2>2 DEF FilesFit
<1>9. IsCommand(e)
  BY <1>1, <1>2 DEF Fits, IsCommand, Places
<1>10. Fits(e, manifest, delivered')
  <2>1. ReadyIn(e.held, delivered')
    BY <1>1, <1>2, <1>3 DEF Fits, ReadyIn
  <2>2. [version |-> e.version, hash |-> e.hash] \in delivered'
    BY <1>2, <1>3 DEF new
  <2>3. WellFormed(e.held) /\ DOMAIN e.held \subseteq DOMAIN manifest
    BY <1>1, <1>2 DEF Fits
  <2> QED BY <1>2, <1>5, <1>9, <2>1, <2>2, <2>3 DEF Fits, Following, Verified
<1>11. Kept
  <2>1. Covers(manifest, manifest)
    BY <1>1, CoversItself DEF FilesFit
  <2>2. /\ Covers(manifest', manifest) /\ FilesFit(manifest', delivered')
        /\ Fits(e, manifest', delivered') /\ delivered \subseteq delivered'
    BY <1>3, <1>8, <1>10, <2>1
  <2> QED BY <1>3, <2>2, OthersFit
<1>12. delivered \subseteq [version : Versions, hash : Hashes]
  BY DEF Inv, TypeOK
<1> QED BY <1>3, <1>7, <1>11, <1>12

LEMMA CompleteKeeps ==
  ASSUME Inv, NEW p \in Procs, Complete(p)
  PROVE  Kept
<1> DEFINE c == proc[p]
           v == c.version
           record == c.held[v]
<1>1. Fits(c, manifest, delivered) /\ c.at = "complete"
  BY DEF Inv, Complete, At
<1>2. /\ v \in DOMAIN c.held /\ WellFormed(c.held)
      /\ record \in PacketRecord /\ Stage(record) >= LocalVerified /\ Stage(record) \in 0..Ready
      /\ record.receipts[QualityChecked].hash = c.hash
      /\ [version |-> v, hash |-> c.hash] \in delivered
  <2>1. v \in DOMAIN c.held /\ WellFormed(c.held) /\ Stage(record) >= LocalVerified
        /\ record.receipts[QualityChecked].hash = c.hash
        /\ [version |-> v, hash |-> c.hash] \in delivered
    BY <1>1 DEF Fits, Verified
  <2>2. record \in PacketRecord
    BY <2>1 DEF WellFormed, IsManifest
  <2> QED BY <2>1, <2>2, RecordHas
<1>3. UNCHANGED <<manifest, delivered>>
  BY DEF Complete
<1>4. CASE Stage(record) = Ready
  <2> DEFINE e == [proc[p] EXCEPT !.at = "ready"]
  <2>1. Goes(p, e)
    BY <1>4 DEF Complete
  <2>2. /\ e.at = "ready" /\ e.held = c.held /\ e.hash = c.hash
        /\ DOMAIN e = DOMAIN c /\ e.opts = c.opts /\ e.restart = c.restart /\ e.version = v
    BY <1>1 DEF Fits, IsCommand
  <2> HIDE DEF e, v, c
  <2>3. IsCommand(e)
    BY <1>1, <2>2 DEF Fits, IsCommand, Places, v
  <2>4. Fits(e, manifest, delivered)
    BY <1>1, <1>2, <2>2, <2>3 DEF Fits, Following, Verified
  <2> QED BY <1>3, <2>1, <2>4, NothingWritten
<1>5. CASE Stage(record) # Ready
  <2> DEFINE e == [proc[p] EXCEPT !.at = "ready", !.held = WithReceipt(@, v, proc[p].hash)]
  <2>1. Goes(p, e)
    BY <1>5 DEF Complete
  <2>2. /\ e.at = "ready" /\ e.held = WithReceipt(c.held, v, c.hash) /\ e.hash = c.hash
        /\ DOMAIN e = DOMAIN c /\ e.opts = c.opts /\ e.restart = c.restart /\ e.version = v
    BY <1>1 DEF Fits, IsCommand
  <2>3. c.hash \in Hashes
    <3>1. QualityChecked \in 1..Stage(record)
      BY <1>2 DEF QualityChecked, LocalVerified, Ready
    <3>2. record.receipts[QualityChecked] \in ReceiptOf(QualityChecked)
      BY <1>2, <3>1, RecordHas
    <3> QED BY <1>2, <3>2 DEF ReceiptOf, QualityChecked, PostingVerified, Drafted, Approval
  <2> HIDE DEF e, v, c
  <2>4. /\ WellFormed(e.held) /\ DOMAIN e.held = DOMAIN c.held
        /\ Stage(e.held[v]) = Ready
        /\ e.held[v].receipts[QualityChecked] = record.receipts[QualityChecked]
        /\ \A w \in DOMAIN c.held : w # v => e.held[w] = c.held[w]
    <3>1. Stage(record) = LocalVerified
      BY <1>2, <1>5 DEF LocalVerified, Ready
    <3>2. c.hash \in ReceiptOf(Stage(record) + 1)
      BY <2>3, <3>1 DEF ReceiptOf, PostingVerified, Drafted, QualityChecked, LocalVerified
    <3>3. Stage(record) < Ready /\ Stage(record) + 1 # QualityChecked
          /\ Stage(record) + 1 = Ready /\ QualityChecked \in 1..Stage(record)
      BY <3>1 DEF QualityChecked, LocalVerified, Ready
    <3> QED BY <1>2, <2>2, <3>2, <3>3, WithReceiptMeans
  <2>5. ReadyIn(e.held, delivered)
    <3>1. ReadyIn(c.held, delivered)
      BY <1>1 DEF Fits
    <3>2. \E d \in delivered : d.version = v
      BY <1>2
    <3> QED BY <2>4, <3>1, <3>2 DEF ReadyIn
  <2>6. IsCommand(e)
    BY <1>1, <2>2, <2>4 DEF Fits, IsCommand, Places, WellFormed, v
  <2>7. Fits(e, manifest, delivered)
    <3>1. /\ e.version \in DOMAIN e.held
          /\ Stage(e.held[e.version]) >= LocalVerified
          /\ e.held[e.version].receipts[QualityChecked].hash = e.hash
          /\ [version |-> e.version, hash |-> e.hash] \in delivered
      BY <1>2, <2>2, <2>4 DEF LocalVerified, Ready
    <3>2. DOMAIN e.held \subseteq DOMAIN manifest
      BY <1>1, <2>4 DEF Fits
    <3> QED BY <2>2, <2>4, <2>5, <2>6, <3>1, <3>2 DEF Fits, Following, Verified
  <2> QED BY <1>3, <2>1, <2>7, NothingWritten
<1> QED BY <1>4, <1>5

-----------------------------------------------------------------------------
(* All steps *)

LEMMA StopKeeps ==
  ASSUME Inv, NEW p \in Procs, Refuse(p) \/ Die(p)
  PROVE  Kept
<1>1. Goes(p, Idle) /\ UNCHANGED <<manifest, delivered>>
  BY DEF Refuse, Die
<1> QED BY <1>1, IdleFits, NothingWritten

LEMMA UnchangedKeeps ==
  ASSUME Inv, UNCHANGED <<manifest, delivered, proc>>
  PROVE  Kept
<1>1. FilesFit(manifest, delivered) /\ Covers(manifest, manifest) /\ DOMAIN proc = Procs
  BY CoversItself DEF Inv, FilesFit, TypeOK
<1>2. \A p \in Procs : Fits(proc[p], manifest, delivered)
  BY DEF Inv
<1> QED BY <1>1, <1>2 DEF Kept

LEMMA StepKeeps ==
  ASSUME Inv, [Next]_vars
  PROVE  Kept
<1>1. ASSUME NEW p \in Procs, NEW restart \in BOOLEAN, BeginStart(p, restart)
      PROVE  Kept
  BY <1>1, BeginStartKeeps
<1>2. ASSUME NEW p \in Procs, BeginUpdate(p)
      PROVE  Kept
  BY <1>2, BeginUpdateKeeps
<1>3. ASSUME NEW p \in Procs, Continue(p)
      PROVE  Kept
  BY <1>3, ResumeKeeps, ReserveKeeps, NothingUnderWayKeeps, PrepareStatusKeeps, AdvanceKeeps,
     PersistKeeps, BeginDeliveryKeeps, VerifyKeeps, PersistVerifiedKeeps, RecordVersionKeeps,
     CompleteKeeps, StopKeeps
  DEF Continue
<1>4. ASSUME NEW p \in Procs, Die(p)
      PROVE  Kept
  BY <1>4, StopKeeps
<1>5. CASE People
  BY <1>5, UnchangedKeeps DEF People, Render, Approve, SetStatus
<1>6. CASE UNCHANGED vars
  BY <1>6, UnchangedKeeps DEF vars
<1> QED BY <1>1, <1>2, <1>3, <1>4, <1>5, <1>6 DEF Next

LEMMA FolderIsVersion ==
  ASSUME Inv, NEW p \in Procs, NEW foldersMade \in BOOLEAN,
         Resume(p, foldersMade) \/ Reserve(p, foldersMade)
  PROVE  dirs' \subseteq Versions
<1>1. dirs \subseteq Versions
  BY DEF Inv, TypeOK
<1>2. ASSUME Resume(p, foldersMade)
      PROVE  Latest(Current(p)) \in Versions
  <2>1. IsManifest(Current(p)) /\ DOMAIN Current(p) # {}
    BY <1>2, MergedFits DEF Inv, Resume, TakesUp, Agrees, Current, FilesFit, WellFormed
  <2> QED BY <2>1, LatestIs
<1> QED BY <1>1, <1>2 DEF Resume, Reserve

\* Only the delivery changes what was delivered, and nothing is taken back.
LEMMA DeliveredGrows ==
  ASSUME Inv, [Next]_vars
  PROVE  /\ delivered' \subseteq [version : Versions, hash : Hashes]
         /\ delivered \subseteq delivered'
         /\ delivered' # delivered => \E p \in Procs : RecordVersion(p)
<1>1. (\E p \in Procs : RecordVersion(p)) \/ UNCHANGED delivered
  BY DEF Next, Continue, People, BeginStart, Resume, NothingUnderWay, PrepareStatus, Reserve,
         BeginUpdate, Advance, Persist, BeginDelivery, Verify, PersistVerified, Complete,
         PersistReady, Refuse, Die, Render, Approve, SetStatus, vars
<1>2. ASSUME NEW p \in Procs, RecordVersion(p)
      PROVE  delivered' \subseteq [version : Versions, hash : Hashes] /\ delivered \subseteq delivered'
  BY <1>2, RecordVersionKeeps DEF RecordVersion
<1> QED BY <1>1, <1>2 DEF Inv, TypeOK

\* Who changes the status.
LEMMA StatusChanges ==
  ASSUME [Next]_vars, status' # status
  PROVE  \/ \E p \in Procs : PrepareStatus(p) \/ RecordVersion(p)
         \/ \E s \in RequestedStatuses : SetStatus(s)
BY DEF Next, Continue, People, BeginStart, Resume, NothingUnderWay, Reserve,
       BeginUpdate, Advance, Persist, BeginDelivery, Verify, PersistVerified, Complete,
       PersistReady, Refuse, Die, Render, Approve, vars

LEMMA TypesKept ==
  ASSUME Inv, [Next]_vars
  PROVE  TypeOK'
<1>1. Kept
  BY StepKeeps
<1>2. IsManifest(manifest') /\ DOMAIN proc' = Procs /\ \A p \in Procs : IsCommand(proc'[p])
  BY <1>1 DEF Kept, FilesFit, WellFormed, Fits
<1>3. delivered' \subseteq [version : Versions, hash : Hashes]
  BY DeliveredGrows
<1>4. status' \in Statuses
  <2>1. status \in Statuses
    BY DEF Inv, TypeOK
  <2>2. ASSUME NEW p \in Procs, PrepareStatus(p) \/ RecordVersion(p)
        PROVE  status' \in Statuses
    BY <2>1, <2>2 DEF PrepareStatus, RecordVersion, Statuses, PreApplication
  <2>3. ASSUME NEW s \in RequestedStatuses, SetStatus(s)
        PROVE  status' \in Statuses
    BY <2>3, PacketAssumption DEF SetStatus
  <2> QED BY <2>1, <2>2, <2>3, StatusChanges
<1>5. approved' \in Inputs
  BY DEF Inv, TypeOK, Next, Continue, People, BeginStart, Resume, NothingUnderWay, PrepareStatus,
         Reserve, BeginUpdate, Advance, Persist, BeginDelivery, Verify, PersistVerified,
         RecordVersion, Complete, PersistReady, Refuse, Die, Render, Approve, SetStatus, vars
<1>6. files' \in [Versions -> Hashes \cup {NoFile}]
  <2>1. files \in [Versions -> Hashes \cup {NoFile}]
    BY DEF Inv, TypeOK
  <2>2. UNCHANGED files \/ \E v \in Versions, hash \in Hashes : Render(v, hash)
    BY DEF Next, Continue, People, BeginStart, Resume, NothingUnderWay, PrepareStatus,
           Reserve, BeginUpdate, Advance, Persist, BeginDelivery, Verify, PersistVerified,
           RecordVersion, Complete, PersistReady, Refuse, Die, Approve, SetStatus, vars
  <2> QED BY <2>1, <2>2 DEF Render
<1>7. dirs' \subseteq Versions
  <2>1. \/ UNCHANGED dirs
        \/ \E p \in Procs, foldersMade \in BOOLEAN : Resume(p, foldersMade) \/ Reserve(p, foldersMade)
    BY DEF Next, Continue, People, BeginStart, NothingUnderWay, PrepareStatus,
           BeginUpdate, Advance, Persist, BeginDelivery, Verify, PersistVerified,
           RecordVersion, Complete, PersistReady, Refuse, Die, Render, Approve, SetStatus, vars
  <2> QED BY <2>1, FolderIsVersion DEF Inv, TypeOK
<1> QED BY <1>2, <1>3, <1>4, <1>5, <1>6, <1>7 DEF TypeOK

LEMMA InvInitially ==
  ASSUME Init
  PROVE  Inv
<1>1. DOMAIN NoManifest = {}
  BY DEF NoManifest
<1>2. FilesFit(manifest, delivered)
  BY <1>1 DEF Init, FilesFit, WellFormed, IsManifest, ReadyIn, DeliveredIn
<1>3. DOMAIN proc = Procs /\ \A p \in Procs : proc[p] = Idle
  BY DEF Init
<1>4. \A p \in Procs : Fits(proc[p], manifest, delivered)
  BY <1>3, IdleFits
<1>5. TypeOK
  BY <1>2, <1>3, <1>4 DEF Init, TypeOK, FilesFit, WellFormed, Fits, Statuses, PreApplication
<1>6. StatusFits
  BY DEF Init, StatusFits
<1> QED BY <1>2, <1>4, <1>5, <1>6 DEF Inv

LEMMA InvStays ==
  ASSUME Inv, [Next]_vars
  PROVE  Inv'
<1>1. Kept /\ TypeOK' /\ delivered \subseteq delivered'
  BY StepKeeps, TypesKept, DeliveredGrows
<1>2. StatusFits'
  <2>1. CASE status' = status
    BY <1>1, <2>1 DEF Inv, StatusFits
  <2>2. ASSUME NEW p \in Procs, PrepareStatus(p)
        PROVE  StatusFits'
    BY <1>1, <2>2 DEF PrepareStatus, Inv, StatusFits
  <2>3. ASSUME NEW p \in Procs, RecordVersion(p)
        PROVE  StatusFits'
    BY <2>3 DEF RecordVersion, StatusFits
  <2>4. ASSUME NEW s \in RequestedStatuses, SetStatus(s)
        PROVE  StatusFits'
    BY <2>4 DEF SetStatus, StatusFits
  <2> QED BY <2>1, <2>2, <2>3, <2>4, StatusChanges
<1> QED BY <1>1, <1>2 DEF Kept, Inv

-----------------------------------------------------------------------------
(* Theorems *)

\* The inductive invariant holds of every run of commands and people.
THEOREM PacketInvariant == Spec => []Inv
<1> QED BY InvInitially, InvStays, PTL DEF Spec

\* Type correctness of manifest, files, job and commands, for any commands and
\* versions (the models of _load_manifest and _merge_manifests).
THEOREM PacketTypes == Spec => []TypeOK
<1>1. Inv => TypeOK
  BY DEF Inv
<1> QED BY <1>1, PacketInvariant, PTL

LEMMA ApprovedReceipts ==
  ASSUME NEW record \in PacketRecord, Consistent(record), Stage(record) >= QualityChecked
  PROVE  RecordedHashes(record) = {record.receipts[QualityChecked].hash}
<1>1. Stage(record) \in 0..Ready
  BY RecordHas
<1>2. \A k \in QualityChecked..Stage(record) : k # QualityChecked => k \in Saved..Stage(record)
  BY <1>1 DEF QualityChecked, Saved, Ready
<1>3. QualityChecked \in QualityChecked..Stage(record)
  BY <1>1 DEF QualityChecked, Ready
<1> QED BY <1>2, <1>3 DEF RecordedHashes, Consistent

\* Whatever is delivered is what was approved, whichever commands raced, died
\* or were repeated and however PDFs were edited meanwhile (advance_packet,
\* complete_local_delivery, verify_local_artifacts).
THEOREM DeliveriesAreApproved == Spec => []DeliveredAsApproved
<1>1. ASSUME Inv
      PROVE  DeliveredAsApproved
  <2> SUFFICES ASSUME NEW d \in delivered
               PROVE  /\ d.version \in DOMAIN manifest
                      /\ Len(manifest[d.version].receipts) >= LocalVerified
                      /\ manifest[d.version].receipts[QualityChecked].posting
                           = manifest[d.version].receipts[PostingVerified]
                      /\ manifest[d.version].receipts[QualityChecked].draft
                           = manifest[d.version].receipts[Drafted]
                      /\ RecordedHashes(manifest[d.version]) = {d.hash}
    BY DEF DeliveredAsApproved
  <2> DEFINE record == manifest[d.version]
  <2>1. /\ d.version \in DOMAIN manifest /\ Stage(record) >= LocalVerified
        /\ record.receipts[QualityChecked].hash = d.hash
    BY <1>1 DEF Inv, FilesFit, DeliveredIn
  <2>2. record \in PacketRecord /\ Consistent(record)
    BY <1>1, <2>1 DEF Inv, FilesFit, WellFormed, IsManifest
  <2>3. Stage(record) >= QualityChecked
    BY <2>1, <2>2, RecordHas DEF LocalVerified, QualityChecked, Ready
  <2> HIDE DEF record
  <2>4. RecordedHashes(record) = {d.hash}
    BY <2>1, <2>2, <2>3, ApprovedReceipts
  <2>5. /\ record.receipts[QualityChecked].posting = record.receipts[PostingVerified]
        /\ record.receipts[QualityChecked].draft = record.receipts[Drafted]
    BY <2>2, <2>3 DEF Consistent
  <2> QED BY <2>1, <2>4, <2>5 DEF record, Stage
<1> QED BY <1>1, PacketInvariant, PTL

\* The manifest calls a version ready only when the job has exactly its PDF as
\* delivered, and only a delivery makes a job packet_ready
\* (record_application_version, then the ready receipt).
THEOREM ReadyVersionsAreDelivered == Spec => []ReadyMeansDelivered
<1>1. ASSUME Inv, NEW v \in DOMAIN manifest, Stage(manifest[v]) = Ready
      PROVE  DeliveredHashes(v) = {manifest[v].receipts[Ready]}
  <2>1. PICK e \in delivered : e.version = v
    BY <1>1 DEF Inv, FilesFit, ReadyIn
  <2>2. Consistent(manifest[v])
    BY <1>1 DEF Inv, FilesFit, WellFormed
  <2>3. manifest[v].receipts[Ready] = manifest[v].receipts[QualityChecked].hash
    BY <1>1, <2>2 DEF Consistent, Saved, Ready
  <2>4. \A d \in delivered : d.version = v => d.hash = manifest[v].receipts[Ready]
    BY <1>1, <2>3 DEF Inv, FilesFit, DeliveredIn
  <2> QED BY <2>1, <2>4 DEF DeliveredHashes
<1>2. Inv => ReadyMeansDelivered
  BY <1>1 DEF Inv, StatusFits, ReadyMeansDelivered
<1> QED BY <1>2, PacketInvariant, PTL

\* No stale snapshot takes a version, its inputs or a receipt back
\* (_merge_manifests, persist_manifest).
THEOREM HistoriesAreKept == Spec => PacketHistoryKept
<1>1. ASSUME Inv, [Next]_vars
      PROVE  \A v \in DOMAIN manifest : v \in DOMAIN manifest' /\ Extends(manifest'[v], manifest[v])
  BY <1>1, StepKeeps DEF Kept, Covers
<1> QED BY <1>1, PacketInvariant, PTL DEF Spec, PacketHistoryKept

\* Starts that race share a reservation: only a restart reserves a further
\* version (the second look of start_packet).
THEOREM ReservationsAreShared == Spec => OneReservationPerRequest
<1> DEFINE A == DOMAIN manifest # {} /\ DOMAIN manifest' # DOMAIN manifest =>
                  \E p \in Procs : proc[p].restart /\ proc'[p] # proc[p]
<1>1. ASSUME Inv, [Next]_vars, DOMAIN manifest # {}, DOMAIN manifest' # DOMAIN manifest
      PROVE  \E p \in Procs : proc[p].restart /\ proc'[p] # proc[p]
  <2>1. \/ \E p \in Procs : Agrees(p) /\ manifest' = Current(p)
        \/ \E p \in Procs, foldersMade \in BOOLEAN : Reserve(p, foldersMade)
    BY <1>1
    DEF Next, Continue, People, BeginStart, Resume, NothingUnderWay, PrepareStatus,
        BeginUpdate, Advance, Persist, BeginDelivery, Verify, PersistVerified,
        RecordVersion, Complete, PersistReady, Refuse, Die, Render, Approve, SetStatus, vars
  <2>2. ASSUME NEW p \in Procs, Agrees(p)
        PROVE  DOMAIN Current(p) = DOMAIN manifest
    BY <1>1, <2>2, MergedFits DEF Inv, Agrees, Current
  <2>3. PICK p \in Procs, foldersMade \in BOOLEAN : Reserve(p, foldersMade)
    BY <1>1, <2>1, <2>2
  <2>4. proc[p].restart
    BY <1>1, <2>2, <2>3 DEF Reserve, TakesUp
  <2>5. proc'[p] = Idle /\ proc[p].at = "reserve"
    BY <1>1, <2>3 DEF Reserve, At, Goes, Inv, TypeOK
  <2> QED BY <2>4, <2>5 DEF Idle
<1>2. ASSUME Inv, [Next]_vars
      PROVE  A
  BY <1>1, <1>2
<1> QED BY <1>2, PacketInvariant, PTL DEF Spec, OneReservationPerRequest

\* A start that was overtaken by a delivery leaves the delivered job alone, if
\* nobody sets it back by hand (update_job_status in start_packet).
THEOREM DeliveriesOutliveStarts ==
  ASSUME "prepare_application" \notin RequestedStatuses
  PROVE  Spec => StartKeepsDelivery
<1> DEFINE A == status = "packet_ready" /\ delivered # {} /\ status' = "prepare_application" =>
                  \E p \in Procs : proc[p].restart /\ proc'[p] # proc[p]
<1>1. ASSUME Inv, [Next]_vars, status = "packet_ready", delivered # {},
             status' = "prepare_application"
      PROVE  \E p \in Procs : proc[p].restart /\ proc'[p] # proc[p]
  <2>1. PICK p \in Procs : PrepareStatus(p)
    BY <1>1, StatusChanges DEF RecordVersion, SetStatus
  <2>2. DOMAIN manifest # {}
    BY <1>1 DEF Inv, FilesFit, DeliveredIn
  <2>3. proc[p].restart
    BY <1>1, <2>1, <2>2 DEF PrepareStatus
  <2>4. IsCommand(proc[p]) /\ DOMAIN proc = Procs
    BY <1>1 DEF Inv, TypeOK
  <2>5. proc[p].at = "status" /\ proc'[p].at = "reserve"
    BY <2>1, <2>4 DEF PrepareStatus, At, Goes, IsCommand
  <2> QED BY <2>3, <2>5
<1>2. ASSUME Inv, [Next]_vars
      PROVE  A
  BY <1>1, <1>2
<1> QED BY <1>2, PacketInvariant, PTL DEF Spec, StartKeepsDelivery

\* A version that was superseded before its delivery was recorded is never
\* recorded (_require_delivery_version, record_application_version).
THEOREM SupersededIsNotDelivered == Spec => SupersededStaysUndelivered
<1> DEFINE A == \A v \in DOMAIN manifest :
                  v # Latest(manifest) /\ DeliveredHashes(v) = {} => DeliveredHashes(v)' = {}
<1>1. ASSUME Inv, [Next]_vars, NEW v \in DOMAIN manifest, v # Latest(manifest),
             DeliveredHashes(v) = {}
      PROVE  DeliveredHashes(v)' = {}
  <2>1. CASE delivered' = delivered
    BY <1>1, <2>1 DEF DeliveredHashes
  <2>2. ASSUME NEW p \in Procs, RecordVersion(p)
        PROVE  DeliveredHashes(v)' = {}
    <3>1. delivered' = delivered \cup {[version |-> proc[p].version, hash |-> proc[p].hash]}
          /\ proc[p].version # v
      BY <1>1, <2>2 DEF RecordVersion, Recordable
    <3> QED BY <1>1, <3>1 DEF DeliveredHashes
  <2> QED BY <1>1, <2>1, <2>2, DeliveredGrows
<1>2. ASSUME Inv, [Next]_vars
      PROVE  A
  BY <1>1, <1>2
<1> QED BY <1>2, PacketInvariant, PTL DEF Spec, SupersededStaysUndelivered
=============================================================================
