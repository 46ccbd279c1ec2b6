-------------------------- MODULE ReviewQueueProofs -------------------------
(***************************************************************************)
(* Proofs about ReviewQueue for any postings, captures, times, contexts    *)
(* and reviewers.                                                          *)
(***************************************************************************)
EXTENDS ReviewQueue, TLAPS

-----------------------------------------------------------------------------
(* What holds of one row and of the captures of its posting.                *)

DecisionFits(row) ==
  row.decision # NoDecision => row.decision.about = row.content

JobFits(row) ==
  row.job # NoJob =>
    /\ row.decision # NoDecision /\ row.decision.status = "qualifying"
    /\ row.job.body = row.content.body
    /\ row.urlChanged => row.job.url = row.content.url

\* The row has the newest of its captures, or waits.
Witnessed(row, seen) ==
  /\ row.first = seen.first /\ row.last = seen.last /\ row.first <= row.last
  /\ \E c \in seen.shown : c.content = row.content
  /\ (\E c \in seen.shown : ~c.fresh /\ c.content # row.content) =>
       row.conflict \/ \E c \in seen.shown : c.fresh /\ c.content = row.content

\* Content does not change under a revision.
Evolves(old, new) ==
  /\ new.revision >= old.revision
  /\ new.revision = old.revision => new.content = old.content

Manual(row) == row.decision # NoDecision /\ ~row.decision.automatic

\* Manual decisions give way to manual decisions and to evidence only.
Respects(old, new) ==
  Manual(old) =>
    \/ new.decision = old.decision
    \/ Manual(new)
    \/ new.content # old.content
    \/ new.last > old.last

-----------------------------------------------------------------------------
(* Lemmas about what happens to one row.                                    *)

\* A first capture makes a well-formed row that fits its capture.
LEMMA NewRowFits ==
  ASSUME NEW s \in Snapshots, NEW now \in Times
  PROVE  /\ NewRow(s, now) \in Row
         /\ NewRow(s, now).revision = 1
         /\ NewRow(s, now).content = s
         /\ NewRow(s, now).first = now /\ NewRow(s, now).last = now
         /\ NewRow(s, now).decision = NoDecision /\ NewRow(s, now).job = NoJob
         /\ NewRow(s, now).conflict = FALSE
<1>1. 1 \in 1..MaxRevision
  BY QueueAssumption
<1> QED BY <1>1 DEF NewRow, Row

\* Evidence beside the active one changes neither content nor decision.
LEMMA BesideFits ==
  ASSUME NEW row \in Row, NEW s \in Snapshots, NEW now \in Times,
         NEW replay \in BOOLEAN
  PROVE  LET new == Beside(row, s, now, replay)
         IN  /\ new \in Row
             /\ new.revision = row.revision
             /\ new.content = row.content
             /\ new.decision = row.decision
             /\ new.job = row.job
             /\ new.urlChanged = row.urlChanged
             /\ new.last = row.last
             /\ new.first = Earlier(row.first, now)
             /\ new.conflict = (row.conflict \/ (AmbiguousTime(row, now, replay) /\ s # row.content))
<1>1. Earlier(row.first, now) \in Times
  BY DEF Earlier, Row
<1>2. (row.conflict \/ (AmbiguousTime(row, now, replay) /\ s # row.content)) \in BOOLEAN
  OBVIOUS
<1>3. row.observations \cup {s} \in SUBSET Snapshots
  BY DEF Row
<1> QED BY <1>1, <1>2, <1>3 DEF Beside, Row

\* The newest evidence keeps decision and delivery only with the content.
LEMMA ActiveFits ==
  ASSUME NEW row \in Row, NEW s \in Snapshots, NEW now \in Times,
         row.revision < MaxRevision
  PROVE  LET new == Active(row, s, now)
         IN  /\ new \in Row
             /\ new.revision \in {row.revision, row.revision + 1}
             /\ Evolves(row, new)
             /\ new.content = s
             /\ new.last = now /\ new.first = row.first /\ new.conflict = FALSE
             /\ new.job \in {row.job, NoJob}
             /\ DecisionFits(row) => DecisionFits(new)
             /\ JobFits(row) => JobFits(new)
             /\ (s = row.content /\ ~row.conflict => new.decision = row.decision)
<1> DEFINE changed == s # row.content \/ row.conflict
           new == Active(row, s, now)
<1>1. row.revision \in Nat /\ row.revision + 1 \in 1..MaxRevision
  BY QueueAssumption DEF Row
<1>2. CASE changed
  <2>1. new = [row EXCEPT !.observations = row.observations \cup {s}, !.last = now,
                          !.conflict = FALSE,
                          !.urlChanged = row.urlChanged \/ s.url # row.content.url,
                          !.content = s, !.revision = row.revision + 1,
                          !.decision = NoDecision, !.job = NoJob]
    BY <1>2 DEF Active
  <2>2. /\ row.observations \cup {s} \in SUBSET Snapshots
        /\ (row.urlChanged \/ s.url # row.content.url) \in BOOLEAN
    BY DEF Row
  <2>3. /\ new \in Row /\ new.revision = row.revision + 1 /\ new.content = s
        /\ new.last = now /\ new.first = row.first /\ new.conflict = FALSE
        /\ new.decision = NoDecision /\ new.job = NoJob
    BY <1>1, <2>1, <2>2 DEF Row
  <2> QED BY <1>1, <1>2, <2>3 DEF Evolves, DecisionFits, JobFits
<1>3. CASE ~changed
  <2>1. s = row.content /\ row.conflict = FALSE
    BY <1>3 DEF Row
  <2>2. new = [row EXCEPT !.observations = row.observations \cup {s}, !.last = now,
                          !.conflict = FALSE,
                          !.urlChanged = row.urlChanged \/ s.url # row.content.url,
                          !.content = s, !.revision = row.revision,
                          !.decision = row.decision, !.job = row.job]
    BY <1>3 DEF Active
  <2>3. /\ row.observations \cup {s} \in SUBSET Snapshots
        /\ (row.urlChanged \/ s.url # row.content.url) = row.urlChanged
        /\ row.urlChanged \in BOOLEAN
    BY <2>1 DEF Row
  <2>4. /\ new \in Row /\ new.revision = row.revision /\ new.content = s
        /\ new.last = now /\ new.first = row.first /\ new.conflict = FALSE
        /\ new.decision = row.decision /\ new.job = row.job
        /\ new.urlChanged = row.urlChanged
    BY <2>2, <2>3 DEF Row
  <2> QED BY <1>1, <2>1, <2>4 DEF Evolves, DecisionFits, JobFits
<1> QED BY <1>2, <1>3

\* A decision is a well-formed change of the row that takes the delivery back.
LEMMA WithDecisionFits ==
  ASSUME NEW row \in Row, NEW d \in Decision \cup {NoDecision},
         row.revision < MaxRevision
  PROVE  LET new == WithDecision(row, d)
         IN  /\ new \in Row
             /\ new.revision = row.revision + 1
             /\ new.content = row.content /\ new.decision = d /\ new.job = NoJob
             /\ new.first = row.first /\ new.last = row.last
             /\ new.conflict = row.conflict
             /\ Evolves(row, new)
             /\ JobFits(new)
<1>1. row.revision \in Nat /\ row.revision + 1 \in 1..MaxRevision
  BY QueueAssumption DEF Row
<1>2. WithDecision(row, d) =
        [row EXCEPT !.decision = d, !.job = NoJob, !.revision = row.revision + 1]
  BY DEF WithDecision
<1>3. /\ WithDecision(row, d) \in Row
      /\ WithDecision(row, d).revision = row.revision + 1
      /\ WithDecision(row, d).content = row.content
      /\ WithDecision(row, d).decision = d /\ WithDecision(row, d).job = NoJob
      /\ WithDecision(row, d).first = row.first
      /\ WithDecision(row, d).last = row.last
      /\ WithDecision(row, d).conflict = row.conflict
  BY <1>1, <1>2 DEF Row
<1> QED BY <1>1, <1>3 DEF Evolves, JobFits

\* The prefilter excludes or reopens, and leaves manual decisions alone.
LEMMA PrefilteredFits ==
  ASSUME NEW row \in Row, row.revision < MaxRevision, context \in Contexts
  PROVE  LET new == Prefiltered(row)
         IN  /\ new \in Row
             /\ new.content = row.content
             /\ new.first = row.first /\ new.last = row.last
             /\ new.conflict = row.conflict
             /\ Evolves(row, new)
             /\ new.job \in {row.job, NoJob}
             /\ DecisionFits(row) => DecisionFits(new)
             /\ JobFits(row) => JobFits(new)
             /\ Manual(row) => new = row
<1> DEFINE exclusion == [status |-> "excluded", automatic |-> TRUE,
                         approval |-> context, about |-> row.content]
<1>1. row.revision \in Nat
  BY DEF Row
<1>2. exclusion \in Decision
  BY QueueAssumption DEF Decision, Row
<1>3. Manual(row) => ~Considered(row)
  BY DEF Manual, Considered, StaleAutomatic
<1>4. CASE ~Considered(row) \/ context \notin Approved
  <2>1. Prefiltered(row) = row
    BY <1>4 DEF Prefiltered
  <2> QED BY <1>1, <2>1 DEF Evolves
<1>5. CASE Considered(row) /\ context \in Approved /\ <<context, row.content.body>> \in Excluded
  <2>1. Prefiltered(row) = WithDecision(row, exclusion)
    BY <1>5 DEF Prefiltered
  <2>2. exclusion \in Decision \cup {NoDecision}
    BY <1>2
  <2> HIDE DEF exclusion
  <2>3. /\ Prefiltered(row) \in Row
        /\ Prefiltered(row).content = row.content
        /\ Prefiltered(row).decision = exclusion /\ Prefiltered(row).job = NoJob
        /\ Prefiltered(row).first = row.first /\ Prefiltered(row).last = row.last
        /\ Prefiltered(row).conflict = row.conflict
        /\ Evolves(row, Prefiltered(row))
        /\ JobFits(Prefiltered(row))
    BY <2>1, <2>2, WithDecisionFits
  <2>4. DecisionFits(Prefiltered(row))
    BY <2>3 DEF DecisionFits, exclusion
  <2> QED BY <1>3, <1>5, <2>3, <2>4
<1>6. CASE /\ Considered(row) /\ context \in Approved
           /\ <<context, row.content.body>> \notin Excluded /\ StaleAutomatic(row)
  <2>1. Prefiltered(row) = WithDecision(row, NoDecision)
    BY <1>6 DEF Prefiltered
  <2>2. /\ Prefiltered(row) \in Row
        /\ Prefiltered(row).content = row.content
        /\ Prefiltered(row).decision = NoDecision /\ Prefiltered(row).job = NoJob
        /\ Prefiltered(row).first = row.first /\ Prefiltered(row).last = row.last
        /\ Prefiltered(row).conflict = row.conflict
        /\ Evolves(row, Prefiltered(row))
        /\ JobFits(Prefiltered(row))
    BY <2>1, WithDecisionFits
  <2>3. DecisionFits(Prefiltered(row))
    BY <2>2 DEF DecisionFits
  <2> QED BY <1>3, <1>6, <2>2, <2>3
<1>7. CASE /\ Considered(row) /\ context \in Approved
           /\ <<context, row.content.body>> \notin Excluded /\ ~StaleAutomatic(row)
  <2>1. Prefiltered(row) = row
    BY <1>7 DEF Prefiltered
  <2> QED BY <1>1, <2>1 DEF Evolves
<1> QED BY <1>4, <1>5, <1>6, <1>7

-----------------------------------------------------------------------------
(* The inductive invariant.                                                 *)

RowsInv ==
  \A p \in Known :
    /\ DecisionFits(rows[p])
    /\ JobFits(rows[p])
    /\ rows[p].job # NoJob => p \in jobs
    /\ Witnessed(rows[p], captured[p])

\* What a reviewer holds is what the row still has, or had under a revision
\* that is gone.
ReadsInv ==
  \A r \in Reviewers : reads[r] # NoRead =>
    /\ reads[r].posting \in Known
    /\ Evolves(reads[r], rows[reads[r].posting])

\* A delivery keeps the row it validated.
DeliveryInv ==
  delivery # Idle =>
    /\ delivery.posting \in Known
    /\ CandidateMatches(rows[delivery.posting], delivery.candidate)
    /\ delivery.step \in {"delivered", "recorded"} => delivery.posting \in jobs

CapturedInv == \A p \in Postings : captured[p] = NoRow <=> rows[p] = NoRow

IInv == TypeOK /\ RowsInv /\ ReadsInv /\ DeliveryInv /\ CapturedInv

\* Rows are records exactly of the known postings.
LEMMA KnownRows ==
  ASSUME TypeOK, NEW p \in Postings
  PROVE  p \in Known <=> rows[p] \in Row
  BY SentinelAssumption DEF TypeOK, Known

\* The first and the last capture time are kept as numbers.
LEMMA EarlierType ==
  ASSUME NEW t \in Times, NEW u \in Times
  PROVE  Earlier(t, u) \in Times
  BY DEF Earlier

\* Evidence beside the active one: the row still has what the newest captures
\* showed, or waits.
LEMMA StillWitnessed ==
  ASSUME NEW row \in Row, NEW new \in Row, NEW seen \in Captured, NEW then \in Captured,
         NEW shown \in Shown,
         Witnessed(row, seen),
         new.content = row.content,
         new.first = then.first, new.last = then.last, new.first <= new.last,
         row.conflict => new.conflict,
         \/ then.shown = seen.shown
         \/ then.shown = seen.shown \cup {shown}
            /\ (shown.content = row.content \/ new.conflict)
  PROVE  Witnessed(new, then)
<1>1. \E c \in seen.shown : c.content = row.content
  BY DEF Witnessed
<1>2. \E c \in then.shown : c.content = new.content
  BY <1>1
<1>3. ASSUME NEW c \in then.shown, ~c.fresh, c.content # new.content, ~new.conflict
      PROVE  \E d \in then.shown : d.fresh /\ d.content = new.content
  <2>1. c \in seen.shown
    BY <1>3
  <2>2. \E d \in seen.shown : d.fresh /\ d.content = row.content
    BY <1>3, <2>1 DEF Witnessed
  <2> QED BY <2>2
<1> QED BY <1>2, <1>3 DEF Witnessed

\* Evidence that becomes active was shown last, and alone or fetched fresh.
LEMMA NowWitnessed ==
  ASSUME NEW new \in Row, NEW then \in Captured, NEW shown \in then.shown,
         new.content = shown.content,
         new.first = then.first, new.last = then.last, new.first <= new.last,
         then.shown = {shown} \/ shown.fresh
  PROVE  Witnessed(new, then)
  BY DEF Witnessed

\* A capture leaves a row that fits all captures of its posting, and keeps
\* content, manual decisions and deliveries as the row's revision demands.
LEMMA TakenFits ==
  ASSUME IInv, NEW p \in Postings, NEW s \in Snapshots, NEW now \in Times,
         NEW replay \in BOOLEAN, Capture(p, s, now, replay)
  PROVE  LET new == Taken(p, s, now, replay)
         IN  /\ new \in Row
             /\ new.revision < MaxRevision
             /\ DecisionFits(new) /\ JobFits(new)
             /\ new.job # NoJob => p \in jobs
             /\ captured' \in [Postings -> Captured \cup {NoRow}]
             /\ captured'[p] # NoRow
             /\ \A q \in Postings \ {p} : captured'[q] = captured[q]
             /\ Witnessed(new, captured'[p])
             /\ p \in Known => Evolves(rows[p], new) /\ Respects(rows[p], new)
<1> DEFINE new == Taken(p, s, now, replay)
           shown == [content |-> s, fresh |-> ~replay]
           row == rows[p]
           seen == captured[p]
           then == [first |-> Earlier(seen.first, now),
                    last |-> IF now > seen.last THEN now ELSE seen.last,
                    shown |-> IF now > seen.last THEN {shown}
                              ELSE IF now = seen.last THEN seen.shown \cup {shown}
                              ELSE seen.shown]
<1>1. shown \in Shown /\ shown.content = s /\ shown.fresh = ~replay
  BY DEF Shown
<1>2. now \in Nat
  BY QueueAssumption
<1>3. CASE rows[p] = NoRow
  <2>1. new = NewRow(s, now)
    BY <1>3 DEF Taken
  <2>2. captured' = [captured EXCEPT ![p] = [first |-> now, last |-> now, shown |-> {shown}]]
    BY <1>3 DEF Capture
  <2>3. [first |-> now, last |-> now, shown |-> {shown}] \in Captured
    BY <1>1 DEF Captured
  <2>4. /\ captured' \in [Postings -> Captured \cup {NoRow}]
        /\ captured'[p] = [first |-> now, last |-> now, shown |-> {shown}]
        /\ \A q \in Postings \ {p} : captured'[q] = captured[q]
    BY <2>2, <2>3 DEF IInv, TypeOK
  <2>5. /\ NewRow(s, now) \in Row
        /\ NewRow(s, now).revision = 1
        /\ NewRow(s, now).content = s
        /\ NewRow(s, now).first = now /\ NewRow(s, now).last = now
        /\ NewRow(s, now).decision = NoDecision /\ NewRow(s, now).job = NoJob
    BY NewRowFits
  <2> HIDE DEF shown
  <2>6. /\ new \in Row /\ new.revision = 1 /\ new.content = s
        /\ new.first = now /\ new.last = now
        /\ new.decision = NoDecision /\ new.job = NoJob
    BY ONLY <2>1, <2>5
  <2> HIDE DEF new
  <2>7. Witnessed(new, captured'[p])
    BY <1>1, <1>2, <2>3, <2>4, <2>6, NowWitnessed
  <2>8. DecisionFits(new) /\ JobFits(new) /\ new.job = NoJob
    BY <2>6 DEF DecisionFits, JobFits
  <2>9. new \in Row /\ new.revision < MaxRevision
    BY <2>6, QueueAssumption
  <2>10. captured'[p] # NoRow
    BY <2>3, <2>4, SentinelAssumption
  <2> QED BY <1>3, <2>4, <2>7, <2>8, <2>9, <2>10 DEF Known, new
<1>4. CASE rows[p] # NoRow
  <2>1. /\ p \in Known /\ row \in Row /\ seen \in Captured
        /\ DecisionFits(row) /\ JobFits(row) /\ (row.job # NoJob => p \in jobs)
        /\ Witnessed(row, seen)
    BY <1>4 DEF IInv, TypeOK, RowsInv, CapturedInv, Known
  <2>2. row.revision < MaxRevision /\ row.revision + 1 < MaxRevision /\ row.revision \in Nat
    BY <1>4, <2>1, QueueAssumption DEF Capture, Row
  <2>3. captured' = [captured EXCEPT ![p] = then]
    BY <1>4 DEF Capture
  <2>4. seen.first \in Times /\ seen.last \in Times /\ seen.shown \subseteq Shown
    BY <2>1 DEF Captured
  <2>5. then \in Captured
    BY <1>1, <2>4, EarlierType DEF Captured
  <2> HIDE DEF shown
  <2>6. /\ then.first = Earlier(seen.first, now)
        /\ then.last = IF now > seen.last THEN now ELSE seen.last
        /\ now > seen.last => then.shown = {shown}
        /\ now = seen.last => then.shown = seen.shown \cup {shown}
        /\ now < seen.last => then.shown = seen.shown
    <3>1. seen.last \in Nat
      BY <2>4, QueueAssumption
    <3> HIDE DEF seen
    <3>2. now > seen.last => then.shown = {shown}
      OBVIOUS
    <3>3. now = seen.last => then.shown = seen.shown \cup {shown}
      BY <1>2, <3>1
    <3>4. now < seen.last => then.shown = seen.shown
      BY <1>2, <3>1
    <3> QED BY <3>2, <3>3, <3>4
  <2> HIDE DEF then
  <2>7. /\ captured' \in [Postings -> Captured \cup {NoRow}]
        /\ captured'[p] = then /\ captured'[p] # NoRow
        /\ \A q \in Postings \ {p} : captured'[q] = captured[q]
    BY <2>3, <2>5, SentinelAssumption DEF IInv, TypeOK
  <2>8. /\ seen.last \in Nat /\ row.last = seen.last
        /\ seen.first \in Nat /\ row.first = seen.first /\ row.first <= row.last
        /\ row.conflict \in BOOLEAN
    BY <2>1, <2>4, QueueAssumption DEF Witnessed, Row
  <2>9. CASE Late(row, now, replay)
    <3>1. new = Beside(row, s, now, replay)
      BY <1>4, <2>9 DEF Taken
    <3>2. LET b == Beside(row, s, now, replay)
          IN  /\ b \in Row /\ b.revision = row.revision /\ b.content = row.content
              /\ b.decision = row.decision /\ b.job = row.job
              /\ b.urlChanged = row.urlChanged /\ b.last = row.last
              /\ b.first = Earlier(row.first, now)
              /\ b.conflict = (row.conflict \/ (AmbiguousTime(row, now, replay) /\ s # row.content))
      BY <2>1, BesideFits
    <3>3. now < seen.last \/ (now = seen.last /\ AmbiguousTime(row, now, replay))
      BY <2>8, <2>9 DEF Late, AmbiguousTime
    <3>4. /\ new \in Row /\ new.revision = row.revision /\ new.content = row.content
          /\ new.decision = row.decision /\ new.job = row.job
          /\ new.urlChanged = row.urlChanged /\ new.last = row.last
          /\ new.first = Earlier(row.first, now)
          /\ row.conflict => new.conflict
          /\ AmbiguousTime(row, now, replay) => s = row.content \/ new.conflict
      BY ONLY <3>1, <3>2
    <3> HIDE DEF new, row, seen
    <3>5. DecisionFits(new) /\ JobFits(new) /\ Evolves(row, new) /\ Respects(row, new)
      BY <2>1, <2>2, <3>4 DEF DecisionFits, JobFits, Evolves, Respects
    <3>6. then.first = new.first /\ then.last = new.last /\ new.first <= new.last
      BY <1>2, <2>6, <2>8, <3>3, <3>4 DEF Earlier
    <3>7. \/ then.shown = seen.shown
          \/ then.shown = seen.shown \cup {shown}
             /\ (shown.content = row.content \/ new.conflict)
      BY <1>1, <2>6, <3>3, <3>4
    <3>8. Witnessed(new, then)
      BY <1>1, <2>1, <2>5, <3>4, <3>6, <3>7, StillWitnessed
    <3>9. new.revision < MaxRevision /\ (new.job # NoJob => p \in jobs)
      BY <2>1, <2>2, <3>4
    <3> QED BY <2>7, <3>4, <3>5, <3>8, <3>9 DEF new, row, seen
  <2>10. CASE ~Late(row, now, replay)
    <3>1. new = Active(row, s, now)
      BY <1>4, <2>10 DEF Taken
    <3>2. LET a == Active(row, s, now)
          IN  /\ a \in Row
              /\ a.revision \in {row.revision, row.revision + 1}
              /\ Evolves(row, a)
              /\ a.content = s
              /\ a.last = now /\ a.first = row.first /\ a.conflict = FALSE
              /\ a.job \in {row.job, NoJob}
              /\ DecisionFits(row) => DecisionFits(a)
              /\ JobFits(row) => JobFits(a)
              /\ (s = row.content /\ ~row.conflict => a.decision = row.decision)
      <4> HIDE DEF row
      <4>1. row \in Row /\ row.revision < MaxRevision
        BY <2>1, <2>2
      <4> QED BY <4>1, ActiveFits
    <3>3. now > seen.last \/ (now = seen.last /\ ~replay /\ ~row.conflict)
      BY <1>2, <2>8, <2>10 DEF Late, AmbiguousTime
    <3>4. /\ new \in Row /\ new.revision \in {row.revision, row.revision + 1}
          /\ Evolves(row, new) /\ new.content = s
          /\ new.last = now /\ new.first = row.first
          /\ new.job \in {row.job, NoJob}
          /\ DecisionFits(row) => DecisionFits(new)
          /\ JobFits(row) => JobFits(new)
          /\ (s = row.content /\ ~row.conflict => new.decision = row.decision)
      BY ONLY <3>1, <3>2
    <3> HIDE DEF new, row, seen
    <3>5. Respects(row, new)
      BY <1>2, <2>8, <3>3, <3>4 DEF Respects
    <3>6. /\ then.last = now /\ then.first = seen.first /\ shown \in then.shown
          /\ row.first <= now
      BY <1>2, <2>6, <2>8, <3>3 DEF Earlier
    <3>7. then.shown = {shown} \/ shown.fresh
      BY <1>1, <2>6, <3>3
    <3>8. Witnessed(new, then)
      BY <1>1, <2>5, <2>8, <3>4, <3>6, <3>7, NowWitnessed
    <3>9. new.revision < MaxRevision /\ (new.job # NoJob => p \in jobs)
      BY <2>1, <2>2, <3>4
    <3> QED BY <2>1, <2>7, <3>4, <3>5, <3>8, <3>9 DEF new, row, seen
  <2> QED BY <2>9, <2>10
<1> QED BY <1>3, <1>4

\* How one posting may come out of a step: its row fits, and respects what was
\* there before.
RowStep(p) ==
  /\ rows'[p] \in Row
  /\ captured'[p] # NoRow
  /\ DecisionFits(rows'[p])
  /\ JobFits(rows'[p])
  /\ rows'[p].job # NoJob => p \in jobs'
  /\ Witnessed(rows'[p], captured'[p])
  /\ p \in Known => Evolves(rows[p], rows'[p]) /\ Respects(rows[p], rows'[p])

Quiet(p) == rows'[p] = rows[p] /\ captured'[p] = captured[p]

Answered == \A p \in Known : Respects(rows[p], rows'[p])

LEMMA EvolvesOn ==
  ASSUME NEW read \in Read \cup Row, NEW old \in Row, NEW new \in Row,
         Evolves(read, old), Evolves(old, new)
  PROVE  Evolves(read, new)
<1>1. read.revision \in Nat /\ old.revision \in Nat /\ new.revision \in Nat
  BY QueueAssumption DEF Read, Row
<1> QED BY <1>1 DEF Evolves

\* When every posting is left alone or comes out well, the invariants of rows,
\* captures and reads are kept.
LEMMA RowsKept ==
  ASSUME IInv, TypeOK', jobs \subseteq jobs',
         \A r \in Reviewers : reads'[r] = reads[r] \/ reads'[r] = NoRead,
         \A p \in Postings : Quiet(p) \/ RowStep(p)
  PROVE  RowsInv' /\ ReadsInv' /\ CapturedInv' /\ Answered
<1>1. ASSUME NEW p \in Postings, p \in Known
      PROVE  /\ rows[p] \in Row /\ rows'[p] \in Row
             /\ Evolves(rows[p], rows'[p]) /\ Respects(rows[p], rows'[p])
  <2>1. rows[p] \in Row
    BY <1>1, KnownRows DEF IInv
  <2>2. CASE Quiet(p)
    <3>1. rows[p].revision \in Nat
      BY <2>1, QueueAssumption DEF Row
    <3> QED BY <2>1, <2>2, <3>1 DEF Quiet, Evolves, Respects
  <2>3. CASE RowStep(p)
    BY <1>1, <2>1, <2>3 DEF RowStep
  <2> QED BY <2>2, <2>3
<1>2. RowsInv'
  <2> SUFFICES ASSUME NEW p \in Postings, rows'[p] # NoRow
               PROVE  /\ DecisionFits(rows'[p])
                      /\ JobFits(rows'[p])
                      /\ rows'[p].job # NoJob => p \in jobs'
                      /\ Witnessed(rows'[p], captured'[p])
    BY DEF RowsInv, Known
  <2>1. CASE Quiet(p)
    BY <2>1 DEF Quiet, IInv, RowsInv, Known
  <2>2. CASE RowStep(p)
    BY <2>2 DEF RowStep
  <2> QED BY <2>1, <2>2
<1>3. CapturedInv'
  <2> SUFFICES ASSUME NEW p \in Postings
               PROVE  captured'[p] = NoRow <=> rows'[p] = NoRow
    BY DEF CapturedInv
  <2>1. CASE Quiet(p)
    BY <2>1 DEF Quiet, IInv, CapturedInv
  <2>2. CASE RowStep(p)
    BY <2>2, SentinelAssumption DEF RowStep
  <2> QED BY <2>1, <2>2
<1>4. ReadsInv'
  <2> SUFFICES ASSUME NEW r \in Reviewers, reads'[r] # NoRead
               PROVE  /\ reads'[r].posting \in Known'
                      /\ Evolves(reads'[r], rows'[reads'[r].posting])
    BY DEF ReadsInv
  <2>1. reads'[r] = reads[r] /\ reads[r] # NoRead
    OBVIOUS
  <2>2. reads[r] \in Read /\ reads[r].posting \in Known /\ reads[r].posting \in Postings
        /\ Evolves(reads[r], rows[reads[r].posting])
    BY <2>1 DEF IInv, TypeOK, ReadsInv, Known
  <2> DEFINE p == reads[r].posting
  <2>3. rows[p] \in Row /\ rows'[p] \in Row /\ Evolves(rows[p], rows'[p])
    BY <1>1, <2>2
  <2>4. Evolves(reads[r], rows'[p])
    BY <2>2, <2>3, EvolvesOn
  <2>5. p \in Known'
    BY <2>2, <2>3, SentinelAssumption DEF Known
  <2> QED BY <2>1, <2>4, <2>5
<1>5. Answered
  BY <1>1 DEF Answered, Known
<1> QED BY <1>2, <1>3, <1>4, <1>5

-----------------------------------------------------------------------------
(* Each action keeps the invariant.                                         *)

LEMMA InitIInv == Init => IInv
<1> SUFFICES ASSUME Init PROVE IInv
  OBVIOUS
<1>1. TypeOK
  BY DEF Init, TypeOK
<1>2. Known = {}
  BY DEF Init, Known
<1>3. RowsInv /\ ReadsInv /\ DeliveryInv /\ CapturedInv
  BY <1>2 DEF Init, RowsInv, ReadsInv, DeliveryInv, CapturedInv
<1> QED BY <1>1, <1>3 DEF IInv

\* The prefilter leaves a fitting row, whatever the row had before.
LEMMA PrefilterAfter ==
  ASSUME NEW seen, NEW row \in Row, row.revision < MaxRevision, context \in Contexts,
         DecisionFits(row), JobFits(row), Witnessed(row, seen)
  PROVE  LET new == Prefiltered(row)
         IN  /\ new \in Row
             /\ DecisionFits(new) /\ JobFits(new)
             /\ new.job \in {row.job, NoJob}
             /\ Witnessed(new, seen)
             /\ \A old \in Row : Evolves(old, row) /\ Respects(old, row) =>
                  Evolves(old, new) /\ Respects(old, new)
<1> DEFINE new == Prefiltered(row)
<1>1. /\ new \in Row
      /\ new.content = row.content
      /\ new.first = row.first /\ new.last = row.last
      /\ new.conflict = row.conflict
      /\ Evolves(row, new)
      /\ new.job \in {row.job, NoJob}
      /\ DecisionFits(row) => DecisionFits(new)
      /\ JobFits(row) => JobFits(new)
      /\ Manual(row) => new = row
  BY PrefilteredFits
<1> HIDE DEF new
<1>2. Witnessed(new, seen)
  BY <1>1 DEF Witnessed
<1>3. ASSUME NEW old \in Row, Evolves(old, row), Respects(old, row)
      PROVE  Evolves(old, new) /\ Respects(old, new)
  <2>1. Evolves(old, new)
    BY <1>1, <1>3, EvolvesOn
  <2>2. CASE Manual(row)
    BY <1>1, <1>3, <2>2
  <2>3. CASE ~Manual(row)
    BY <1>1, <1>3, <2>1, <2>3 DEF Respects, Manual
  <2> QED BY <2>1, <2>2, <2>3
<1> QED BY <1>1, <1>2, <1>3 DEF new

LEMMA IngestKeeps ==
  ASSUME IInv, NEW p \in Postings, NEW s \in Snapshots, NEW now \in Times,
         NEW replay \in BOOLEAN, Ingest(p, s, now, replay)
  PROVE  IInv' /\ Answered
<1> DEFINE taken == Taken(p, s, now, replay)
<1>1. Capture(p, s, now, replay)
  BY DEF Ingest
<1>2. /\ taken \in Row
      /\ taken.revision < MaxRevision
      /\ DecisionFits(taken) /\ JobFits(taken)
      /\ taken.job # NoJob => p \in jobs
      /\ captured' \in [Postings -> Captured \cup {NoRow}]
      /\ captured'[p] # NoRow
      /\ \A q \in Postings \ {p} : captured'[q] = captured[q]
      /\ Witnessed(taken, captured'[p])
      /\ p \in Known => Evolves(rows[p], taken) /\ Respects(rows[p], taken)
  BY <1>1, TakenFits
<1>3. PICK new : new \in {taken, Prefiltered(taken)} /\ rows' = [rows EXCEPT ![p] = new]
  BY DEF Ingest
<1> HIDE DEF taken
<1>4. context \in Contexts /\ rows \in [Postings -> Row \cup {NoRow}]
  BY DEF IInv, TypeOK
<1>5. p \in Known => rows[p] \in Row
  BY KnownRows DEF IInv
<1>6. /\ new \in Row
      /\ DecisionFits(new) /\ JobFits(new)
      /\ new.job # NoJob => p \in jobs
      /\ Witnessed(new, captured'[p])
      /\ p \in Known => Evolves(rows[p], new) /\ Respects(rows[p], new)
  BY <1>2, <1>3, <1>4, <1>5, PrefilterAfter
<1>7. /\ rows' \in [Postings -> Row \cup {NoRow}] /\ rows'[p] = new
      /\ \A q \in Postings \ {p} : rows'[q] = rows[q]
  BY <1>3, <1>4, <1>6
<1>8. UNCHANGED <<reads, jobs, delivery, context>> /\ delivery = Idle
  BY <1>1 DEF Ingest, Capture
<1>9. TypeOK'
  BY <1>2, <1>7, <1>8 DEF IInv, TypeOK
<1>10. \A q \in Postings : Quiet(q) \/ RowStep(q)
  BY <1>2, <1>6, <1>7, <1>8 DEF Quiet, RowStep
<1>11. RowsInv' /\ ReadsInv' /\ CapturedInv' /\ Answered
  BY <1>8, <1>9, <1>10, RowsKept
<1>12. DeliveryInv'
  BY <1>8 DEF DeliveryInv
<1> QED BY <1>9, <1>11, <1>12 DEF IInv

LEMMA IngestDuringApprovalKeeps ==
  ASSUME IInv, NEW p \in Postings, NEW s \in Snapshots, NEW now \in Times,
         NEW replay \in BOOLEAN, NEW c \in Contexts,
         IngestDuringApproval(p, s, now, replay, c)
  PROVE  IInv' /\ Answered
<1> DEFINE taken == Taken(p, s, now, replay)
<1>1. Capture(p, s, now, replay)
  BY DEF IngestDuringApproval
<1>2. /\ taken \in Row
      /\ taken.revision < MaxRevision
      /\ DecisionFits(taken) /\ JobFits(taken)
      /\ taken.job # NoJob => p \in jobs
      /\ captured' \in [Postings -> Captured \cup {NoRow}]
      /\ captured'[p] # NoRow
      /\ \A q \in Postings \ {p} : captured'[q] = captured[q]
      /\ Witnessed(taken, captured'[p])
      /\ p \in Known => Evolves(rows[p], taken) /\ Respects(rows[p], taken)
  BY <1>1, TakenFits
<1>3. rows' = [rows EXCEPT ![p] = taken]
  BY DEF IngestDuringApproval
<1> HIDE DEF taken
<1>4. rows \in [Postings -> Row \cup {NoRow}]
  BY DEF IInv, TypeOK
<1>5. /\ rows' \in [Postings -> Row \cup {NoRow}] /\ rows'[p] = taken
      /\ \A q \in Postings \ {p} : rows'[q] = rows[q]
  BY <1>2, <1>3, <1>4
<1>6. UNCHANGED <<reads, jobs, delivery>> /\ context' = c /\ delivery = Idle
  BY <1>1 DEF IngestDuringApproval, Capture
<1>7. TypeOK'
  BY <1>2, <1>5, <1>6 DEF IInv, TypeOK
<1>8. \A q \in Postings : Quiet(q) \/ RowStep(q)
  BY <1>2, <1>5, <1>6 DEF Quiet, RowStep
<1>9. RowsInv' /\ ReadsInv' /\ CapturedInv' /\ Answered
  BY <1>6, <1>7, <1>8, RowsKept
<1>10. DeliveryInv'
  BY <1>6 DEF DeliveryInv
<1> QED BY <1>7, <1>9, <1>10 DEF IInv

LEMMA ApplyPrefilterKeeps ==
  ASSUME IInv, ApplyPrefilter
  PROVE  IInv' /\ Answered
<1>1. /\ UNCHANGED <<context, reads, jobs, delivery, captured>> /\ delivery = Idle
      /\ context \in Contexts
  BY DEF ApplyPrefilter, IInv, TypeOK
<1>2. ASSUME NEW p \in Postings, p \notin Known
      PROVE  rows'[p] \in Row \cup {NoRow} /\ Quiet(p)
  BY <1>1, <1>2 DEF ApplyPrefilter, Known, Quiet
<1>3. ASSUME NEW p \in Postings, p \in Known
      PROVE  rows'[p] \in Row \cup {NoRow} /\ RowStep(p)
  <2>1. /\ rows[p] \in Row /\ rows[p].revision < MaxRevision
        /\ rows'[p] = Prefiltered(rows[p])
    BY <1>3, KnownRows DEF ApplyPrefilter, IInv
  <2>2. /\ DecisionFits(rows[p]) /\ JobFits(rows[p])
        /\ rows[p].job # NoJob => p \in jobs
        /\ Witnessed(rows[p], captured[p])
        /\ captured[p] # NoRow
    BY <1>3 DEF IInv, RowsInv, CapturedInv, Known
  <2>3. Evolves(rows[p], rows[p]) /\ Respects(rows[p], rows[p])
    <3>1. rows[p].revision \in Nat
      BY <2>1, QueueAssumption DEF Row
    <3> QED BY <3>1 DEF Evolves, Respects
  <2> DEFINE new == Prefiltered(rows[p])
  <2>4. /\ new \in Row
        /\ DecisionFits(new) /\ JobFits(new)
        /\ new.job \in {rows[p].job, NoJob}
        /\ Witnessed(new, captured[p])
        /\ Evolves(rows[p], new) /\ Respects(rows[p], new)
    BY <1>1, <2>1, <2>2, <2>3, PrefilterAfter
  <2> QED BY <1>1, <2>1, <2>2, <2>4 DEF RowStep
<1>4. rows' \in [Postings -> Row \cup {NoRow}]
  <2>1. rows' = [p \in Postings |-> rows'[p]]
    BY DEF ApplyPrefilter
  <2> QED BY <1>2, <1>3, <2>1
<1>5. TypeOK'
  BY <1>1, <1>4 DEF IInv, TypeOK
<1>6. RowsInv' /\ ReadsInv' /\ CapturedInv' /\ Answered
  BY <1>1, <1>2, <1>3, <1>5, RowsKept
<1>7. DeliveryInv'
  BY <1>1 DEF DeliveryInv
<1> QED BY <1>5, <1>6, <1>7 DEF IInv

\* Steps that leave rows, captures and reads alone keep the invariant when the
\* delivery is in order.
LEMMA DeliveryKeeps ==
  ASSUME IInv, UNCHANGED <<rows, reads, captured>>, TypeOK', jobs \subseteq jobs', DeliveryInv'
  PROVE  IInv' /\ Answered
<1>1. \A p \in Postings : Quiet(p)
  BY DEF Quiet
<1>2. RowsInv' /\ ReadsInv' /\ CapturedInv' /\ Answered
  BY <1>1, RowsKept
<1> QED BY <1>2 DEF IInv

LEMMA ReadItemKeeps ==
  ASSUME IInv, NEW r \in Reviewers, NEW p \in Postings, ReadItem(r, p)
  PROVE  IInv' /\ Answered
<1> DEFINE read == [posting |-> p, revision |-> rows[p].revision,
                    context |-> context, content |-> rows[p].content]
<1>1. UNCHANGED <<rows, context, jobs, delivery, captured>> /\ p \in Known
  BY DEF ReadItem
<1>2. rows[p] \in Row /\ context \in Contexts
  BY <1>1, KnownRows DEF IInv, TypeOK
<1>3. read \in Read /\ Evolves(read, rows[p])
  BY <1>2, QueueAssumption DEF Read, Row, Evolves
<1>4. reads' = [reads EXCEPT ![r] = read]
  BY DEF ReadItem
<1>5. read.posting = p
  OBVIOUS
<1> HIDE DEF read
<1>6. TypeOK'
  BY <1>1, <1>3, <1>4 DEF IInv, TypeOK
<1>7. ReadsInv'
  <2> SUFFICES ASSUME NEW q \in Reviewers, reads'[q] # NoRead
               PROVE  /\ reads'[q].posting \in Known
                      /\ Evolves(reads'[q], rows[reads'[q].posting])
    BY <1>1 DEF ReadsInv, Known
  <2>1. CASE q = r
    BY <1>1, <1>3, <1>4, <1>5, <2>1 DEF IInv, TypeOK
  <2>2. CASE q # r
    BY <1>4, <2>2 DEF IInv, TypeOK, ReadsInv
  <2> QED BY <2>1, <2>2
<1>8. RowsInv' /\ CapturedInv' /\ DeliveryInv'
  BY <1>1 DEF IInv, RowsInv, CapturedInv, DeliveryInv, Known
<1>9. Answered
  BY <1>1 DEF Answered, Respects
<1> QED BY <1>6, <1>7, <1>8, <1>9 DEF IInv

LEMMA RecordDecisionKeeps ==
  ASSUME IInv, NEW r \in Reviewers, NEW status \in Outcomes, RecordDecision(r, status)
  PROVE  IInv' /\ Answered
<1> DEFINE read == reads[r]
           p == read.posting
           decision == [status |-> status, automatic |-> FALSE,
                        approval |-> context, about |-> read.content]
           new == WithDecision(rows[p], decision)
<1>1. /\ UNCHANGED <<context, jobs, delivery, captured>> /\ delivery = Idle
      /\ reads' = [reads EXCEPT ![r] = NoRead]
      /\ reads[r] # NoRead /\ read.revision = rows[p].revision
      /\ rows[p].revision < MaxRevision
      /\ rows' = [rows EXCEPT ![p] = new]
  BY DEF RecordDecision, Current
<1>2. /\ read \in Read /\ p \in Known /\ p \in Postings /\ Evolves(read, rows[p])
      /\ context \in Contexts
  BY <1>1 DEF IInv, TypeOK, ReadsInv, Known
<1>3. rows[p] \in Row /\ captured[p] # NoRow /\ Witnessed(rows[p], captured[p])
  BY <1>2, KnownRows DEF IInv, RowsInv, CapturedInv, Known
<1>4. read.content = rows[p].content
  BY <1>1, <1>2 DEF Evolves
<1>5. /\ decision \in Decision \cup {NoDecision}
      /\ decision.about = read.content /\ ~decision.automatic /\ decision # NoDecision
  <2>1. read.content \in Snapshots
    BY <1>2 DEF Read
  <2>2. decision \in Decision
    BY <1>2, <2>1 DEF Decision
  <2>3. decision.about = read.content /\ ~decision.automatic
    OBVIOUS
  <2> QED BY <2>2, <2>3, SentinelAssumption
<1> HIDE DEF decision
<1>6. LET d == WithDecision(rows[p], decision)
      IN  /\ d \in Row
          /\ d.revision = rows[p].revision + 1
          /\ d.content = rows[p].content /\ d.decision = decision /\ d.job = NoJob
          /\ d.first = rows[p].first /\ d.last = rows[p].last
          /\ d.conflict = rows[p].conflict
          /\ Evolves(rows[p], d)
          /\ JobFits(d)
  BY <1>1, <1>3, <1>5, WithDecisionFits
<1>7. /\ new \in Row
      /\ new.content = rows[p].content /\ new.decision = decision /\ new.job = NoJob
      /\ new.first = rows[p].first /\ new.last = rows[p].last
      /\ new.conflict = rows[p].conflict
      /\ Evolves(rows[p], new)
      /\ JobFits(new)
  BY <1>6
<1> HIDE DEF new, p
<1>8. DecisionFits(new) /\ Respects(rows[p], new)
  BY <1>4, <1>5, <1>7 DEF DecisionFits, Respects, Manual
<1>9. Witnessed(new, captured[p])
  BY <1>3, <1>7 DEF Witnessed
<1>10. /\ rows' \in [Postings -> Row \cup {NoRow}] /\ rows'[p] = new
       /\ \A q \in Postings \ {p} : rows'[q] = rows[q]
  BY <1>1, <1>2, <1>7 DEF IInv, TypeOK
<1>11. reads' \in [Reviewers -> Read \cup {NoRead}]
       /\ \A q \in Reviewers : reads'[q] = reads[q] \/ reads'[q] = NoRead
  BY <1>1 DEF IInv, TypeOK
<1>12. TypeOK'
  BY <1>1, <1>10, <1>11 DEF IInv, TypeOK
<1>13. RowStep(p)
  BY <1>1, <1>3, <1>7, <1>8, <1>9, <1>10 DEF RowStep
<1>14. \A q \in Postings : Quiet(q) \/ RowStep(q)
  BY <1>1, <1>10, <1>13 DEF Quiet
<1>15. RowsInv' /\ ReadsInv' /\ CapturedInv' /\ Answered
  BY <1>1, <1>11, <1>12, <1>14, RowsKept
<1>16. DeliveryInv'
  BY <1>1 DEF DeliveryInv
<1> QED BY <1>12, <1>15, <1>16 DEF IInv

LEMMA BeginDeliveryKeeps ==
  ASSUME IInv, NEW p \in Postings, NEW s \in Snapshots, BeginDelivery(p, s)
  PROVE  IInv' /\ Answered
<1> DEFINE new == [posting |-> p, candidate |-> s, approved |-> NotYet, step |-> "validated"]
<1>1. /\ UNCHANGED <<rows, context, reads, jobs, captured>> /\ delivery' = new
      /\ p \in Known /\ CandidateMatches(rows[p], s)
  BY DEF BeginDelivery
<1>2. new \in Delivery
  BY DEF Delivery
<1>3. TypeOK'
  BY <1>1, <1>2 DEF IInv, TypeOK
<1>4. DeliveryInv'
  BY <1>1 DEF DeliveryInv, Known
<1> QED BY <1>1, <1>3, <1>4, DeliveryKeeps

\* A step of a delivery that goes on or ends, and leaves the rows alone.
LEMMA QuietDeliveryKeeps ==
  ASSUME IInv,
         LoadApproved \/ DeliverJob \/ LeaveUndelivered \/ RecordRun \/ Refuse \/ Die
  PROVE  IInv' /\ Answered
<1>1. /\ UNCHANGED <<rows, context, reads, captured>> /\ jobs \subseteq jobs'
      /\ delivery \in Delivery
      /\ delivery.posting \in Known /\ delivery.posting \in Postings
  BY DEF IInv, TypeOK, DeliveryInv, Known, LoadApproved, DeliverJob, LeaveUndelivered,
         RecordRun, Refuse, Die, At
<1>2. CASE LoadApproved
  <2>1. /\ delivery' \in Delivery /\ delivery'.posting = delivery.posting
        /\ delivery'.candidate = delivery.candidate
        /\ delivery'.step = "loaded" /\ jobs' = jobs
    BY <1>1, <1>2 DEF LoadApproved, Delivery, IInv, TypeOK
  <2>2. TypeOK' /\ DeliveryInv'
    BY <1>1, <1>2, <2>1 DEF IInv, TypeOK, DeliveryInv, Known, LoadApproved, At
  <2> QED BY <1>1, <2>2, DeliveryKeeps
<1>3. CASE DeliverJob
  <2>1. /\ delivery' \in Delivery /\ delivery'.posting = delivery.posting
        /\ delivery'.candidate = delivery.candidate
        /\ delivery'.step = "delivered" /\ jobs' = jobs \cup {delivery.posting}
    BY <1>1, <1>3 DEF DeliverJob, Delivery
  <2>2. TypeOK' /\ DeliveryInv'
    BY <1>1, <1>3, <2>1 DEF IInv, TypeOK, DeliveryInv, Known, DeliverJob, At
  <2> QED BY <1>1, <2>2, DeliveryKeeps
<1>4. CASE RecordRun
  <2>1. /\ delivery' \in Delivery /\ delivery'.posting = delivery.posting
        /\ delivery'.candidate = delivery.candidate
        /\ delivery'.step = "recorded" /\ jobs' = jobs
    BY <1>1, <1>4 DEF RecordRun, Delivery
  <2>2. TypeOK' /\ DeliveryInv'
    BY <1>1, <1>4, <2>1 DEF IInv, TypeOK, DeliveryInv, Known, RecordRun, At
  <2> QED BY <1>1, <2>2, DeliveryKeeps
<1>5. CASE LeaveUndelivered \/ Refuse \/ Die
  <2>1. delivery' = Idle /\ jobs' = jobs
    BY <1>5 DEF LeaveUndelivered, Refuse, Die
  <2>2. TypeOK' /\ DeliveryInv'
    BY <1>1, <2>1 DEF IInv, TypeOK, DeliveryInv
  <2> QED BY <1>1, <2>2, DeliveryKeeps
<1> QED BY <1>2, <1>3, <1>4, <1>5

LEMMA MarkDeliveredKeeps ==
  ASSUME IInv, MarkDelivered
  PROVE  IInv' /\ Answered
<1> DEFINE p == delivery.posting
           s == delivery.candidate
           new == [rows[p] EXCEPT !.job = s]
<1>1. /\ UNCHANGED <<context, reads, jobs, captured>> /\ delivery' = Idle
      /\ delivery # Idle /\ delivery.step = "recorded"
  BY DEF MarkDelivered, At
<1>2. /\ delivery \in Delivery /\ p \in Known /\ p \in Postings /\ s \in Snapshots
      /\ CandidateMatches(rows[p], s) /\ p \in jobs
  BY <1>1 DEF IInv, TypeOK, DeliveryInv, Known, Delivery
<1>3. DeliveryInv'
  BY <1>1 DEF DeliveryInv
<1>4. CASE Effective(p) # "qualifying"
  <2>1. UNCHANGED rows
    BY <1>4 DEF MarkDelivered
  <2>2. TypeOK'
    BY <1>1, <2>1 DEF IInv, TypeOK
  <2> QED BY <1>1, <1>3, <2>1, <2>2, DeliveryKeeps
<1>5. CASE Effective(p) = "qualifying"
  <2>1. rows' = [rows EXCEPT ![p] = new]
    BY <1>5 DEF MarkDelivered
  <2>2. rows[p] \in Row /\ captured[p] # NoRow /\ Witnessed(rows[p], captured[p])
        /\ DecisionFits(rows[p])
    BY <1>2, KnownRows DEF IInv, RowsInv, CapturedInv, Known
  <2>3. rows[p].decision # NoDecision /\ rows[p].decision.status = "qualifying"
    BY <1>5 DEF Effective
  <2>4. /\ new \in Row /\ new.job = s /\ new.content = rows[p].content
        /\ new.decision = rows[p].decision /\ new.revision = rows[p].revision
        /\ new.urlChanged = rows[p].urlChanged /\ new.conflict = rows[p].conflict
        /\ new.first = rows[p].first /\ new.last = rows[p].last
    BY <1>2, <2>2 DEF Row
  <2>5. rows[p].revision \in Nat
    BY <2>2, QueueAssumption DEF Row
  <2> HIDE DEF new, p, s
  <2>6. JobFits(new)
    BY <1>2, <2>3, <2>4 DEF JobFits, CandidateMatches
  <2>7. DecisionFits(new) /\ Witnessed(new, captured[p])
    BY <2>2, <2>4 DEF DecisionFits, Witnessed
  <2>8. Evolves(rows[p], new) /\ Respects(rows[p], new)
    BY <2>4, <2>5 DEF Evolves, Respects
  <2>9. /\ rows' \in [Postings -> Row \cup {NoRow}] /\ rows'[p] = new
        /\ \A q \in Postings \ {p} : rows'[q] = rows[q]
    BY <1>2, <2>1, <2>4 DEF IInv, TypeOK
  <2>10. TypeOK'
    BY <1>1, <2>9 DEF IInv, TypeOK
  <2>11. RowStep(p)
    BY <1>1, <1>2, <2>2, <2>4, <2>6, <2>7, <2>8, <2>9 DEF RowStep
  <2>12. \A q \in Postings : Quiet(q) \/ RowStep(q)
    BY <1>1, <2>9, <2>11 DEF Quiet
  <2>13. RowsInv' /\ ReadsInv' /\ CapturedInv' /\ Answered
    BY <1>1, <2>10, <2>12, RowsKept
  <2> QED BY <1>3, <2>10, <2>13 DEF IInv
<1> QED BY <1>4, <1>5

LEMMA ApproveKeeps ==
  ASSUME IInv, NEW c \in Contexts, Approve(c)
  PROVE  IInv' /\ Answered
<1>1. UNCHANGED <<rows, reads, jobs, delivery, captured>> /\ context' = c
  BY DEF Approve
<1>2. TypeOK'
  BY <1>1 DEF IInv, TypeOK
<1>3. DeliveryInv'
  BY <1>1 DEF IInv, DeliveryInv, Known
<1> QED BY <1>1, <1>2, <1>3, DeliveryKeeps

LEMMA NextKeeps ==
  ASSUME IInv, [Next]_vars
  PROVE  IInv' /\ [Answered]_vars
<1>1. CASE Next
  <2>1. CASE Intake
    BY <2>1, IngestKeeps, IngestDuringApprovalKeeps DEF Intake
  <2>2. CASE Review
    BY <2>2, ReadItemKeeps, RecordDecisionKeeps DEF Review
  <2>3. CASE ApplyPrefilter
    BY <2>3, ApplyPrefilterKeeps
  <2>4. CASE \E c \in Contexts : Approve(c)
    BY <2>4, ApproveKeeps
  <2>5. CASE \E p \in Postings, s \in Snapshots : BeginDelivery(p, s)
    BY <2>5, BeginDeliveryKeeps
  <2>6. CASE DeliveryStep \/ Die
    BY <2>6, QuietDeliveryKeeps, MarkDeliveredKeeps DEF DeliveryStep
  <2> QED BY <1>1, <2>1, <2>2, <2>3, <2>4, <2>5, <2>6 DEF Next
<1>2. CASE UNCHANGED vars
  <2>1. IInv'
    BY <1>2 DEF vars, IInv, TypeOK, RowsInv, ReadsInv, DeliveryInv, CapturedInv, Known
  <2> QED BY <1>2, <2>1
<1> QED BY <1>1, <1>2

\* The invariant holds in every run.
THEOREM QueueInvariant == Spec => []IInv
<1>1. IInv /\ [Next]_vars => IInv'
  BY NextKeeps
<1> QED BY InitIInv, <1>1, PTL DEF Spec

-----------------------------------------------------------------------------
(* Theorems.                                                                *)

\* Every variable has its type, in every run.
THEOREM QueueTypes == Spec => []TypeOK
<1>1. IInv => TypeOK
  BY DEF IInv
<1> QED BY QueueInvariant, <1>1, PTL

\* No decision is about evidence other than the active one: the revision that
\* record_decision compares tells all captures, replays and decisions apart.
THEOREM DecisionsFollowEvidence == Spec => []DecisionIsOfActiveEvidence
<1>1. IInv => DecisionIsOfActiveEvidence
  BY DEF IInv, RowsInv, DecisionFits, DecisionIsOfActiveEvidence
<1> QED BY QueueInvariant, <1>1, PTL

\* Whatever the order of the captures, ingest leaves content that was shown at
\* the latest time.
THEOREM NewestEvidenceWins == Spec => []NewestEvidenceIsActive
<1>1. IInv => NewestEvidenceIsActive
  BY DEF IInv, RowsInv, Witnessed, NewestEvidenceIsActive
<1> QED BY QueueInvariant, <1>1, PTL

\* A replay at the latest time leaves the row in conflict unless a fresh
\* capture shows what is active.
THEOREM ReplaysAreInconclusive == Spec => []ReplaysSettleNothing
<1>1. IInv => ReplaysSettleNothing
  BY DEF IInv, RowsInv, Witnessed, ReplaysSettleNothing
<1> QED BY QueueInvariant, <1>1, PTL

\* mark_delivered marks reviewed, qualifying text of which a job exists,
\* although the candidate was validated several writes earlier.
THEOREM DeliveriesWereReviewed == Spec => []DeliveredWasReviewed
<1>1. IInv => DeliveredWasReviewed
  BY DEF IInv, RowsInv, JobFits, DeliveredWasReviewed
<1> QED BY QueueInvariant, <1>1, PTL

\* No step replaces a manual decision by an automatic one or by none, unless
\* there is new evidence.
THEOREM ManualDecisionsStand == Spec => PeopleHaveTheLastWord
<1>1. IInv /\ [Next]_vars =>
        [\A p \in Known :
           rows[p].decision # NoDecision /\ ~rows[p].decision.automatic =>
             \/ rows'[p].decision = rows[p].decision
             \/ rows'[p].decision # NoDecision /\ ~rows'[p].decision.automatic
             \/ rows'[p].content # rows[p].content
             \/ rows'[p].last > rows[p].last]_vars
  BY NextKeeps DEF Answered, Respects, Manual
<1> QED BY QueueInvariant, <1>1, PTL DEF Spec, PeopleHaveTheLastWord
=============================================================================
