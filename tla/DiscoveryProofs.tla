--------------------------- MODULE DiscoveryProofs ---------------------------
(***************************************************************************)
(* Proofs about Filters and Discovery for any postings, criteria           *)
(* documents, evidence and batches.                                        *)
(***************************************************************************)
EXTENDS Discovery, SequenceTheorems, TLAPS

-----------------------------------------------------------------------------
(* What the hard filters decide of every posting, rule and evidence: a      *)
(* posting is rejected exactly when it is excluded beyond doubt.            *)

\* A range is judged by all that it leaves possible: "pass" when every amount
\* satisfies the rule, "confirmed_mismatch" when none does (_evaluate_rule).
THEOREM RangesAreJudgedByAllTheyAllow ==
  ASSUME NEW rule \in RangeRule, NEW v \in RangeValue, v.unit = rule.unit
  PROVE  /\ EvaluateRange(rule, v) = "pass"
              <=> \A x \in v.lower..v.upper : Satisfies(rule, x)
         /\ EvaluateRange(rule, v) = "confirmed_mismatch"
              <=> \A x \in v.lower..v.upper : ~Satisfies(rule, x)
<1>1. /\ v.lower \in Nat /\ v.upper \in Nat /\ v.lower <= v.upper
      /\ rule.target \in Nat /\ rule.minimum \in BOOLEAN
      /\ rule.subject \in RangeSubjects
  BY DEF RangeRule, RangeValue
<1>2. rule.subject \notin TextSubjects
  BY <1>1, FiltersAssumption
<1>3. v.lower \in v.lower..v.upper /\ v.upper \in v.lower..v.upper
  BY <1>1
<1>4. CASE rule.minimum
  BY <1>1, <1>2, <1>3, <1>4 DEF EvaluateRange, Satisfies
<1>5. CASE ~rule.minimum
  BY <1>1, <1>2, <1>3, <1>5 DEF EvaluateRange, Satisfies
<1>6. QED
  BY <1>4, <1>5

\* A value is a mismatch exactly when it can be compared and nothing that it
\* leaves possible satisfies the rule.
LEMMA MismatchIsBeyondDoubt ==
  ASSUME NEW rule \in Rule, NEW v \in ValuesOf(rule.subject)
  PROVE  Evaluate(rule, [status |-> "known", value |-> v]) = "confirmed_mismatch"
           <=> Comparable(rule, v) /\ \A x \in Possible(rule, v) : ~Satisfies(rule, x)
<1>1. CASE rule \in TextRule
  <2>1. rule.subject \in TextSubjects /\ rule.subject \notin RangeSubjects
    BY <1>1, FiltersAssumption DEF TextRule
  <2>2. QED
    BY <2>1 DEF Evaluate, EvaluateText, Comparable, Possible, Satisfies
<1>2. CASE rule \in RangeRule
  <2>1. rule.subject \notin TextSubjects /\ rule.subject \in RangeSubjects
    BY <1>2, FiltersAssumption DEF RangeRule
  <2>2. v \in RangeValue
    BY <2>1 DEF ValuesOf
  <2>3. Evaluate(rule, [status |-> "known", value |-> v]) = EvaluateRange(rule, v)
    BY <2>1 DEF Evaluate
  <2>4. CASE v.unit = rule.unit
    BY <1>2, <2>1, <2>2, <2>3, <2>4, RangesAreJudgedByAllTheyAllow DEF Comparable, Possible
  <2>5. CASE v.unit # rule.unit
    BY <2>1, <2>3, <2>5 DEF EvaluateRange, Comparable
  <2>6. QED
    BY <2>4, <2>5
<1>3. QED
  BY <1>1, <1>2 DEF Rule

\* What counts as known has a value of its subject.
LEMMA KnownHasAValue ==
  ASSUME NEW p \in Postings, NEW s \in Subjects, NEW evidence \in SUBSET Evidence,
         NEW e \in Given(p, s, evidence), Status(e) = "known"
  PROVE  e.value \in ValuesOf(s)
<1>1. e \in Evidence /\ e.subject = s /\ Valid(p, e)
  BY DEF Given
<1>2. e.status = "known"
  BY DEF Status
<1>3. e.value # NoValue
  BY <1>1, <1>2 DEF Valid
<1>4. CASE e \in EvidenceOn(TextSubjects, TextValue)
  BY <1>1, <1>3, <1>4 DEF EvidenceOn, ValuesOf
<1>5. CASE e \in EvidenceOn(RangeSubjects, RangeValue)
  BY <1>1, <1>3, <1>5, FiltersAssumption DEF EvidenceOn, ValuesOf
<1>6. QED
  BY <1>1, <1>4, <1>5 DEF Evidence

LEMMA OwnHasAValue ==
  ASSUME NEW p \in Postings, NEW s \in Subjects
  PROVE  /\ Own(p, s) = [status |-> Own(p, s).status, value |-> Own(p, s).value]
         /\ Own(p, s).status = "known" => Own(p, s).value \in ValuesOf(s)
  BY FiltersAssumption DEF Own

\* Something is observed of a subject exactly when all statements about it
\* agree on it (_validated_evidence, _select_evidence).
LEMMA ObservedIsWhatAllState ==
  ASSUME NEW p \in Postings, NEW s \in Subjects, NEW evidence \in SUBSET Evidence, NEW v
  PROVE  Observed(p, s, evidence) = [status |-> "known", value |-> v]
           <=> Statements(p, s, evidence) = {[status |-> "known", value |-> v]}
<1> DEFINE given == Given(p, s, evidence)
           own == Own(p, s)
           known == [status |-> "known", value |-> v]
           stated == {[status |-> Status(e), value |-> e.value] : e \in given}
           mine == {o \in {own} : o.status = "known"}
<1>1. own = [status |-> own.status, value |-> own.value]
  BY OwnHasAValue
<1>2. Statements(p, s, evidence) = mine \cup stated
  BY DEF Statements
<1>3. Observed(p, s, evidence) = Select(own, given)
  BY DEF Observed
<1> HIDE DEF own, given
<1>4. CASE given = {}
  <2>1. stated = {} /\ Select(own, given) = own
    BY <1>4 DEF Select
  <2>2. own = known <=> mine = {known}
    <3>1. known.status = "known"
      OBVIOUS
    <3>2. ASSUME own = known PROVE mine = {known}
      BY <3>1, <3>2
    <3>3. ASSUME mine = {known} PROVE own = known
      <4>1. known \in mine
        BY <3>3
      <4>2. QED
        BY <4>1
    <3>4. QED
      BY <3>2, <3>3
  <2>3. QED
    BY <1>2, <1>3, <2>1, <2>2
<1>5. CASE given # {}
  <2>1. stated # {}
    BY <1>5
  <2>2. Supplied(given) = known <=> stated = {known}
    <3>1. ASSUME Supplied(given) = known PROVE stated = {known}
      <4>1. Agreed(given)
        BY <3>1 DEF Supplied
      <4>2. v = (CHOOSE e \in given : TRUE).value
        BY <3>1, <4>1 DEF Supplied
      <4>3. \A e \in given : Status(e) = "known" /\ e.value = v
        BY <1>5, <4>1, <4>2 DEF Agreed
      <4>4. QED
        BY <2>1, <4>3
    <3>2. ASSUME stated = {known} PROVE Supplied(given) = known
      <4>1. \A e \in given : [status |-> Status(e), value |-> e.value] = known
        BY <3>2
      <4>2. \A e \in given : Status(e) = "known" /\ e.value = v
        BY <4>1
      <4>3. Agreed(given)
        BY <4>2 DEF Agreed
      <4>4. (CHOOSE e \in given : TRUE).value = v
        BY <1>5, <4>2
      <4>5. QED
        BY <4>3, <4>4 DEF Supplied
    <3>3. QED
      BY <3>1, <3>2
  <2>3. Supplied(given) = [status |-> Supplied(given).status, value |-> Supplied(given).value]
    BY DEF Supplied
  <2>4. CASE own.status # "known"
    <3>1. mine = {} /\ Select(own, given) = Supplied(given)
      BY <1>5, <2>4 DEF Select
    <3>2. QED
      BY <1>2, <1>3, <2>2, <3>1
  <2>5. CASE own.status = "known"
    <3>1. mine = {own}
      BY <2>5
    <3>2. mine \cup stated = {known} <=> own = known /\ stated = {known}
      BY <2>1, <3>1
    <3>3. Select(own, given) = known <=> own = known /\ Supplied(given) = known
      <4>1. CASE Supplied(given).status # "known"
        BY <1>5, <4>1 DEF Select
      <4>2. CASE Supplied(given).status = "known" /\ own.value = Supplied(given).value
        <5>1. Select(own, given) = own /\ own = Supplied(given)
          BY <1>1, <1>5, <2>3, <2>5, <4>2 DEF Select
        <5>2. QED
          BY <5>1
      <4>3. CASE Supplied(given).status = "known" /\ own.value # Supplied(given).value
        <5>1. Select(own, given).status = "conflicting"
          BY <1>5, <2>5, <4>3 DEF Select
        <5>2. QED
          BY <4>3, <5>1
      <4>4. QED
        BY <4>1, <4>2, <4>3
    <3>4. QED
      BY <1>2, <1>3, <2>2, <3>2, <3>3
  <2>6. QED
    BY <2>4, <2>5
<1>6. QED
  BY <1>4, <1>5

\* The observation is a record of a status and a value, of the subject when known.
LEMMA ObservedHasAValue ==
  ASSUME NEW p \in Postings, NEW s \in Subjects, NEW evidence \in SUBSET Evidence
  PROVE  LET o == Observed(p, s, evidence) IN
           /\ o = [status |-> o.status, value |-> o.value]
           /\ o.status = "known" => o.value \in ValuesOf(s)
<1> DEFINE given == Given(p, s, evidence)
           own == Own(p, s)
<1>1. own = [status |-> own.status, value |-> own.value]
      /\ (own.status = "known" => own.value \in ValuesOf(s))
  BY OwnHasAValue
<1>2. given # {} /\ Supplied(given).status = "known" => Supplied(given).value \in ValuesOf(s)
  <2>1. SUFFICES ASSUME given # {}, Agreed(given)
                 PROVE  Supplied(given).value \in ValuesOf(s)
    BY DEF Supplied
  <2>2. PICK e \in given : e = (CHOOSE f \in given : TRUE)
    BY <2>1
  <2>3. Status(e) = "known" /\ Supplied(given).value = e.value
    BY <2>1, <2>2 DEF Agreed, Supplied
  <2>4. QED
    BY <2>3, KnownHasAValue
<1>3. Supplied(given) = [status |-> Supplied(given).status, value |-> Supplied(given).value]
  BY DEF Supplied
<1> HIDE DEF own, given
<1>4. /\ Select(own, given) = [status |-> Select(own, given).status, value |-> Select(own, given).value]
      /\ Select(own, given).status = "known" => Select(own, given).value \in ValuesOf(s)
  BY <1>1, <1>2, <1>3 DEF Select
<1>5. QED
  BY <1>4 DEF Observed, own, given

\* A rule rejects a posting exactly when it excludes it beyond doubt
\* (evaluate_hard_filters).
LEMMA RuleIsExact ==
  ASSUME NEW p \in Postings, NEW rule \in Rule, NEW evidence \in SUBSET Evidence
  PROVE  Evaluate(rule, Observed(p, rule.subject, evidence)) = "confirmed_mismatch"
           <=> Excludes(rule, p, evidence)
<1> DEFINE o == Observed(p, rule.subject, evidence)
           S == Statements(p, rule.subject, evidence)
<1>1. rule.subject \in Subjects
  BY DEF Rule, TextRule, RangeRule, Subjects
<1>2. o = [status |-> o.status, value |-> o.value]
      /\ (o.status = "known" => o.value \in ValuesOf(rule.subject))
  BY <1>1, ObservedHasAValue
<1>3. \A v : o = [status |-> "known", value |-> v] <=> S = {[status |-> "known", value |-> v]}
  BY <1>1, ObservedIsWhatAllState
<1> HIDE DEF o, S
<1>4. CASE o.status = "known"
  <2>1. S = {o} /\ o = [status |-> "known", value |-> o.value]
    BY <1>2, <1>3, <1>4
  <2>2. Evaluate(rule, o) = "confirmed_mismatch"
          <=> Comparable(rule, o.value) /\ \A x \in Possible(rule, o.value) : ~Satisfies(rule, x)
    BY <1>2, <1>4, <2>1, MismatchIsBeyondDoubt
  <2>3. Excludes(rule, p, evidence)
          <=> Comparable(rule, o.value) /\ \A x \in Possible(rule, o.value) : ~Satisfies(rule, x)
    BY <1>4, <2>1 DEF Excludes, S
  <2>4. QED
    BY <2>2, <2>3 DEF o
<1>5. CASE o.status # "known"
  <2>1. Evaluate(rule, o) = "unknown"
    BY <1>5 DEF Evaluate
  <2>2. ~Excludes(rule, p, evidence)
    <3>1. SUFFICES ASSUME NEW st \in S, S = {st}, st.status = "known" PROVE FALSE
      BY DEF Excludes, S
    <3>2. st = [status |-> "known", value |-> st.value]
      <4>1. CASE st = Own(p, rule.subject)
        BY <1>1, <3>1, <4>1, OwnHasAValue
      <4>2. CASE \E e \in Given(p, rule.subject, evidence) :
                    st = [status |-> Status(e), value |-> e.value]
        BY <3>1, <4>2
      <4>3. QED
        BY <4>1, <4>2 DEF Statements, S
    <3>3. o = [status |-> "known", value |-> st.value]
      BY <1>3, <3>1, <3>2
    <3>4. QED
      BY <1>5, <3>3
  <2>3. QED
    BY <2>1, <2>2 DEF o
<1>6. QED
  BY <1>4, <1>5

\* A posting is rejected by the filters exactly when a hard exclusion applies
\* to it beyond doubt: whatever is missing, vague, disputed, of another posting
\* or in another unit rejects nothing, and nothing else lets it pass
\* (evaluate_hard_filters).
THEOREM RejectedExactlyWhenExcluded ==
  ASSUME NEW p \in Postings, NEW rules \in SUBSET Rule, NEW evidence \in SUBSET Evidence
  PROVE  Outcome(rules, p, evidence) = "confirmed_mismatch"
           <=> Exclusions(rules, p, evidence) # {}
<1>1. Outcome(rules, p, evidence) = "confirmed_mismatch"
        <=> "confirmed_mismatch" \in Results(rules, p, evidence)
  BY DEF Outcome
<1>2. "confirmed_mismatch" \in Results(rules, p, evidence)
        <=> \E r \in rules : /\ r.hard
                            /\ Evaluate(r, Observed(p, r.subject, evidence)) = "confirmed_mismatch"
  BY DEF Results
<1>3. \A r \in rules : Evaluate(r, Observed(p, r.subject, evidence)) = "confirmed_mismatch"
                         <=> Excludes(r, p, evidence)
  BY RuleIsExact
<1>4. QED
  BY <1>1, <1>2, <1>3 DEF Exclusions

-----------------------------------------------------------------------------

Under == Documents \cup {NoDocument}

-----------------------------------------------------------------------------
(* What is said of jobs and of the jobs that keys stand for, by value *)

\* None of these jobs is excluded, unless somebody called it a non-match.
Fits(job) ==
  job.disposition # "non_match" => Exclusions(RulesOf(job.under), job.posting, job.evidence) = {}

Sound(js) == \A id \in DOMAIN js : Fits(js[id])

\* Every key that stands for a job stands for one that is there, and a
\* requisition for a job that carries it.
Names(canon, js) ==
  \A key \in Keys : canon[key] # NoJob =>
    /\ canon[key] \in DOMAIN js
    /\ key \in Reqs => js[canon[key]].req = key

\* Jobs are added, and none loses its requisition.
Grown(old, new) ==
  /\ Len(old) <= Len(new)
  /\ \A id \in DOMAIN old : old[id].req # NoReq => new[id].req = old[id].req

\* What an item that was dealt with has behind it
Dealt(item, under, canon, left, js, rs) ==
  IF HardRejected(item, under) \/ item.disposition = "non_match"
  THEN \E r \in rs : r.posting = item.posting /\ r.under = under /\ r.evidence = item.evidence
  ELSE IF left THEN Len(js) > 1 ELSE canon[Key(item.posting)] # NoJob

\* The key of a posting with a requisition is that requisition.
LEMMA KeyFits ==
  ASSUME NEW p \in Postings
  PROVE  /\ IdentityOf[p] \in Identity
         /\ Key(p) \in Keys
         /\ IdentityOf[p].req # NoReq <=> Key(p) \in Reqs
         /\ Key(p) \in Reqs => Key(p) = IdentityOf[p].req
<1>1. /\ IdentityOf[p].req \in Reqs \cup {NoReq} /\ IdentityOf[p].fallback \in Fallbacks
      /\ IdentityOf[p] \in Identity
  BY DiscoveryAssumption DEF Identity
<1> QED BY <1>1, DiscoveryAssumption, NoReqAssumption DEF Key, Keys

\* What keys stand for stays true while jobs grow.
LEMMA NamesStay ==
  ASSUME NEW old \in Seq(Job), NEW new \in Seq(Job), Grown(old, new),
         NEW canon \in [Keys -> Nat], Names(canon, old)
  PROVE  Names(canon, new)
<1> SUFFICES ASSUME NEW key \in Keys, canon[key] # NoJob
             PROVE  /\ canon[key] \in DOMAIN new
                    /\ key \in Reqs => new[canon[key]].req = key
  BY DEF Names
<1>1. canon[key] \in DOMAIN old /\ (key \in Reqs => old[canon[key]].req = key)
  BY DEF Names
<1>2. DOMAIN old \subseteq DOMAIN new
  BY DEF Grown
<1>3. key \in Reqs => key # NoReq
  BY NoReqAssumption
<1> QED BY <1>1, <1>2, <1>3 DEF Grown

\* A key may be made to stand for a job that carries it.
LEMMA NamesAdded ==
  ASSUME NEW js \in Seq(Job), NEW canon \in [Keys -> Nat], Names(canon, js),
         NEW key \in Keys, NEW id \in DOMAIN js, key \in Reqs => js[id].req = key,
         NEW next \in [Keys -> Nat], next[key] = id,
         \A k \in Keys : k # key => next[k] = canon[k]
  PROVE  /\ Names(next, js)
         /\ next[key] # NoJob
         /\ \A k \in Keys : canon[k] # NoJob => next[k] # NoJob
<1>1. id \in Nat /\ id # NoJob
  BY DEF NoJob
<1> QED BY <1>1 DEF Names

\* What was dealt with stays so while jobs, receipts and keys are only added.
LEMMA DealtStays ==
  ASSUME NEW item \in Review, NEW under, NEW left, NEW canon, NEW next,
         NEW old, NEW new, NEW rs, NEW more,
         \A key \in Keys : canon[key] # NoJob => next[key] # NoJob,
         Len(old) \in Nat, Len(new) \in Nat, Len(old) <= Len(new), rs \subseteq more,
         Dealt(item, under, canon, left, old, rs)
  PROVE  Dealt(item, under, next, left, new, more)
<1>1. Key(item.posting) \in Keys
  BY KeyFits DEF Review
<1>2. Len(old) > 1 => Len(new) > 1
  OBVIOUS
<1> QED BY <1>1, <1>2 DEF Dealt

\* What was dealt with is accounted for.
LEMMA DealtIsAccounted ==
  ASSUME NEW item \in Review, NEW under, NEW left, NEW canon, Names(canon, jobs),
         Dealt(item, under, canon, left, jobs, receipts)
  PROVE  Accounted(item, under, canon, left)
<1>1. /\ Key(item.posting) \in Keys
      /\ IdentityOf[item.posting].req # NoReq
           => Key(item.posting) \in Reqs /\ Key(item.posting) = IdentityOf[item.posting].req
  BY KeyFits DEF Review
<1> QED BY <1>1 DEF Dealt, Accounted, Names

-----------------------------------------------------------------------------
(* The inductive invariant, in named parts *)

\* What is under way has its type, nothing was left that was not reached, and no
\* item lacks an assessment unless the filters reject it.
BatchFits ==
  batch # Idle =>
    /\ batch \in Delivery
    /\ batch.at \in 1..(Len(batch.items) + 1)
    /\ \A k \in batch.left : k < batch.at
    /\ batch.due # "validate" =>
         \A k \in DOMAIN batch.items :
           batch.items[k].disposition = Unassessed => HardRejected(batch.items[k], batch.under)

\* What is due is due for the item under way, or for the whole batch, and only
\* that was checked which needs it.
DueFits ==
  batch # Idle =>
    /\ batch.due \in {"validate", "start"} => batch.at = 1
    /\ batch.due \in {"reverify", "receipt", "leave", "create"} => batch.at \in DOMAIN batch.items
    /\ batch.due = "receipt" => Rejected(Item)
    /\ batch.due = "leave" => ~Rejected(Item) /\ Ambiguous(Denoted(Item.posting))
    /\ batch.due = "create" => ~Rejected(Item)
    /\ batch.due = "record" => Finished
    /\ batch.passed # {} => batch.due \in Guarded

\* Keys stand for jobs that are there: in the state of discovery, in the batch
\* and in every run.
KeysFit ==
  /\ Names(canonical, jobs)
  /\ batch # Idle => Names(batch.canonical, jobs)
  /\ \A run \in runs : Names(run.canonical, jobs)

ItemsBeforeAreDealtWith ==
  batch # Idle =>
    \A k \in DOMAIN batch.items : k < batch.at =>
      Dealt(batch.items[k], batch.under, batch.canonical, k \in batch.left, jobs, receipts)

RunsAreDealtWith ==
  \A run \in runs : \A k \in DOMAIN run.items :
    Dealt(run.items[k], run.under, run.canonical, k \in run.left, jobs, receipts)

\* The index files describe the jobs as far as they were written for this item.
IndexesFollow ==
  batch # Idle =>
    /\ batch.due = "deduplication" => backlog = jobs
    /\ batch.due = "record" => backlog = jobs /\ deduplication = jobs

\* Nothing is late of an input that stands, or that the check before has passed,
\* and otherwise at most one write.
LateFits ==
  /\ ChangedCriteriaStopTheBatch
  /\ batch = Idle => late = NoneLate
  /\ batch # Idle =>
       /\ batch.due = "validate" => late = NoneLate
       /\ \A i \in Inputs : Standing(i) \/ i \in batch.passed => late[i] = 0

Delivered ==
  /\ TypeOK
  /\ BatchFits
  /\ DueFits
  /\ KeysFit
  /\ ItemsBeforeAreDealtWith
  /\ RunsAreDealtWith
  /\ IndexesFollow
  /\ Sound(jobs)
  /\ OnlyTheExcludedAreRejected

Inv == Delivered /\ LateFits

-----------------------------------------------------------------------------
(* Lemmas about one item *)

\* The rules of a document are rules, and it rejects what they exclude.
LEMMA DocumentRejects ==
  ASSUME NEW item \in Review, NEW d \in Under
  PROVE  HardRejected(item, d)
           <=> Exclusions(RulesOf(d), item.posting, item.evidence) # {}
<1>1. RulesOf(d) \in SUBSET Rule
  BY DiscoveryAssumption DEF RulesOf, Under, Document
<1>2. item.posting \in Postings /\ item.evidence \in SUBSET Evidence
  BY DEF Review
<1> QED BY <1>1, <1>2, RejectedExactlyWhenExcluded DEF HardRejected

\* What an item makes of a job is not excluded, or no match.
LEMMA AssessedFits ==
  ASSUME NEW item \in Review, batch.under \in Under,
         item.disposition = Unassessed => HardRejected(item, batch.under)
  PROVE  /\ Assessed(item) \in [posting : Postings, disposition : Dispositions,
                                under : Under, evidence : SUBSET Evidence]
         /\ Fits(Assessed(item))
<1> DEFINE j == Assessed(item)
<1>1. /\ j.posting = item.posting /\ j.under = batch.under /\ j.evidence = item.evidence
      /\ j.disposition = IF HardRejected(item, batch.under) THEN "non_match" ELSE item.disposition
  BY DEF Assessed
<1>2. j \in [posting : Postings, disposition : Dispositions, under : Under, evidence : SUBSET Evidence]
  BY DEF Assessed, Review, Dispositions
<1>3. j.disposition # "non_match" => ~HardRejected(item, batch.under)
  BY <1>1
<1> HIDE DEF j
<1>4. Fits(j)
  BY <1>1, <1>3, DocumentRejects DEF Fits
<1> QED BY <1>2, <1>4 DEF j

\* A job that is made of an item carries its identity.
LEMMA CreatedFits ==
  ASSUME NEW item \in Review, batch.under \in Under,
         item.disposition = Unassessed => HardRejected(item, batch.under)
  PROVE  /\ Created(item) \in Job /\ Fits(Created(item))
         /\ Created(item).req = IdentityOf[item.posting].req
<1> DEFINE made == Assessed(item)
<1>1. /\ made \in [posting : Postings, disposition : Dispositions, under : Under, evidence : SUBSET Evidence]
      /\ Fits(made)
  BY AssessedFits
<1>2. IdentityOf[item.posting] \in Identity
  BY KeyFits DEF Review
<1>3. Created(item) = [posting |-> made.posting, disposition |-> made.disposition,
                       under |-> made.under, evidence |-> made.evidence,
                       req |-> IdentityOf[item.posting].req,
                       fallback |-> IdentityOf[item.posting].fallback]
  BY DEF Created
<1> HIDE DEF made
<1>4. Created(item) \in Job
  BY <1>1, <1>2, <1>3 DEF Job, Under, Identity
<1>5. Fits(Created(item))
  BY <1>1, <1>3 DEF Fits
<1> QED BY <1>3, <1>4, <1>5

\* A job that is re-verified keeps a requisition that is known, and has that of
\* the posting afterwards if the posting states one.
LEMMA ReverifiedFits ==
  ASSUME NEW item \in Review, batch.under \in Under,
         item.disposition = Unassessed => HardRejected(item, batch.under),
         jobs \in Seq(Job), Sound(jobs), NEW id \in Denoted(item.posting),
         NEW replaced \in BOOLEAN, NEW reassessed \in BOOLEAN,
         NEW j, j = Reverified(jobs[id], item, replaced, reassessed)
  PROVE  /\ id \in DOMAIN jobs
         /\ j \in Job /\ Fits(j)
         /\ jobs[id].req # NoReq => j.req = jobs[id].req
         /\ IdentityOf[item.posting].req # NoReq => j.req = IdentityOf[item.posting].req
<1> DEFINE made == Assessed(item)
           stated == IdentityOf[item.posting]
           job == jobs[id]
           base == IF reassessed THEN made ELSE job
<1>1. /\ made \in [posting : Postings, disposition : Dispositions, under : Under, evidence : SUBSET Evidence]
      /\ Fits(made)
  BY AssessedFits
<1>2. stated \in Identity
  BY KeyFits DEF Review
<1>3. id \in DOMAIN jobs /\ (stated.req # NoReq => job.req = stated.req \/ job.req = NoReq)
  BY DEF Denoted, ResolveIdentity, SameRequisition, SameFallback
<1>4. job \in Job /\ Fits(job)
  BY <1>3 DEF Sound
<1>5. j = [posting |-> base.posting, disposition |-> base.disposition,
           under |-> base.under, evidence |-> base.evidence,
           req |-> Requisition(job.req, stated.req, replaced),
           fallback |-> IF replaced THEN stated.fallback ELSE job.fallback]
  BY DEF Reverified
<1>6. /\ base.posting \in Postings /\ base.disposition \in Dispositions
      /\ base.under \in Under /\ base.evidence \in SUBSET Evidence
      /\ Fits(base)
  BY <1>1, <1>4 DEF Job, Under
<1>7. /\ job.req \in Reqs \cup {NoReq} /\ job.fallback \in Fallbacks
      /\ stated.req \in Reqs \cup {NoReq} /\ stated.fallback \in Fallbacks
  BY <1>2, <1>4 DEF Job, Identity
<1> HIDE DEF made, stated, job, base
<1>8. j \in Job
  BY <1>5, <1>6, <1>7 DEF Job, Under, Requisition
<1>9. Fits(j)
  BY <1>5, <1>6 DEF Fits
<1>10. (job.req # NoReq => j.req = job.req) /\ (stated.req # NoReq => j.req = stated.req)
  BY <1>3, <1>5 DEF Requisition, stated, job
<1> QED BY <1>3, <1>8, <1>9, <1>10 DEF stated, job

-----------------------------------------------------------------------------
(* The invariant: what is delivered *)

LEMMA InvInit == Init => Inv
<1> SUFFICES ASSUME Init PROVE Inv
  OBVIOUS
<1>1. /\ batch = Idle /\ receipts = {} /\ runs = {} /\ jobs = << >>
      /\ canonical = [k \in Keys |-> NoJob] /\ late = NoneLate
  BY DEF Init
<1>2. TypeOK
  BY <1>1, DiscoveryAssumption DEF Init, TypeOK, NoJob, NoneLate
<1>3. KeysFit /\ Sound(jobs)
  BY <1>1 DEF KeysFit, Names, Sound
<1>4. LateFits
  BY <1>1 DEF LateFits, ChangedCriteriaStopTheBatch, NoneLate
<1> QED BY <1>1, <1>2, <1>3, <1>4 DEF Inv, Delivered, BatchFits, DueFits, ItemsBeforeAreDealtWith,
     RunsAreDealtWith, IndexesFollow, OnlyTheExcludedAreRejected

\* A batch under way, its reviews and its type
LEMMA BatchIsTyped ==
  ASSUME Delivered, batch # Idle
  PROVE  /\ batch \in Delivery /\ batch.items \in Seq(Review) /\ batch.under \in Under
         /\ batch.at \in 1..(Len(batch.items) + 1)
         /\ batch.canonical \in [Keys -> Nat] /\ batch.left \in SUBSET Nat
         /\ jobs \in Seq(Job) /\ Sound(jobs) /\ canonical \in [Keys -> Nat]
BY DiscoveryAssumption DEF Delivered, TypeOK, BatchFits, Delivery, Under

\* The item under way is a review that stands.
LEMMA ItemFits ==
  ASSUME Delivered, batch # Idle, batch.at \in DOMAIN batch.items, batch.due # "validate"
  PROVE  /\ Item \in Review
         /\ batch.under \in Under
         /\ Item.disposition = Unassessed => HardRejected(Item, batch.under)
BY BatchIsTyped DEF Delivered, BatchFits, Item

\* Before the end of the batch there is an item.
LEMMA UnfinishedHasItem ==
  ASSUME Delivered, batch # Idle, ~Finished
  PROVE  batch.at \in DOMAIN batch.items
BY BatchIsTyped DEF Finished

\* Runs stay accounted for while jobs and receipts are only added.
LEMMA RunsStay ==
  ASSUME Delivered, jobs' \in Seq(Job), Grown(jobs, jobs'), receipts \subseteq receipts',
         NEW run \in runs
  PROVE  /\ Names(run.canonical, jobs')
         /\ \A k \in DOMAIN run.items :
              Dealt(run.items[k], run.under, run.canonical, k \in run.left, jobs', receipts')
<1>1. /\ run.items \in Seq(Review) /\ run.canonical \in [Keys -> Nat] /\ jobs \in Seq(Job)
      /\ Names(run.canonical, jobs)
  BY DiscoveryAssumption DEF Delivered, TypeOK, KeysFit
<1>2. Names(run.canonical, jobs')
  BY <1>1, NamesStay
<1>3. Len(jobs) \in Nat /\ Len(jobs') \in Nat /\ Len(jobs) <= Len(jobs')
  BY <1>1 DEF Grown
<1>4. ASSUME NEW k \in DOMAIN run.items
      PROVE  Dealt(run.items[k], run.under, run.canonical, k \in run.left, jobs', receipts')
  <2>1. /\ run.items[k] \in Review
        /\ Dealt(run.items[k], run.under, run.canonical, k \in run.left, jobs, receipts)
    BY <1>1 DEF Delivered, RunsAreDealtWith
  <2> DEFINE item == run.items[k] under == run.under canon == run.canonical left == k \in run.left
  <2>2. item \in Review /\ Dealt(item, under, canon, left, jobs, receipts)
    BY <2>1
  <2> HIDE DEF item, under, canon, left
  <2>3. Dealt(item, under, canon, left, jobs', receipts')
    BY <1>3, <2>2, DealtStays
  <2> QED BY <2>3 DEF item, under, canon, left
<1> QED BY <1>2, <1>4

\* A step of a batch that goes on
LEMMA GoingOn ==
  ASSUME Delivered, batch # Idle,
         UNCHANGED <<text, document, onboarded, approval, canonical, runs, begun>>,
         batch' \in Delivery, batch'.due # "validate",
         batch'.items = batch.items, batch'.under = batch.under,
         batch'.at \in 1..(Len(batch.items) + 1), \A k \in batch'.left : k < batch'.at,
         \/ batch.due # "validate"
         \/ \A k \in DOMAIN batch.items :
              batch.items[k].disposition = Unassessed => HardRejected(batch.items[k], batch.under),
         jobs' \in Seq(Job), Sound(jobs'), Grown(jobs, jobs'),
         backlog' \in Seq(Job) \cup {NoIndex}, deduplication' \in Seq(Job) \cup {NoIndex},
         receipts \subseteq receipts', receipts' \subseteq Receipt,
         late' \in [Inputs -> Nat],
         Names(batch'.canonical, jobs'),
         \A key \in Keys : batch.canonical[key] # NoJob => batch'.canonical[key] # NoJob,
         \A k \in DOMAIN batch.items : k < batch'.at =>
           \/ k < batch.at /\ (k \in batch'.left <=> k \in batch.left)
           \/ Dealt(batch.items[k], batch.under, batch'.canonical, k \in batch'.left, jobs', receipts'),
         DueFits', IndexesFollow', OnlyTheExcludedAreRejected'
  PROVE  Delivered'
<1>1. /\ batch.items \in Seq(Review) /\ jobs \in Seq(Job) /\ canonical \in [Keys -> Nat]
      /\ Len(jobs) \in Nat /\ Len(jobs') \in Nat /\ Len(jobs) <= Len(jobs')
  BY BatchIsTyped DEF Grown
<1>2. TypeOK'
  BY DEF Delivered, TypeOK
<1>3. BatchFits'
  BY DEF Delivered, BatchFits
<1>4. KeysFit'
  <2>1. Names(canonical, jobs')
    BY <1>1, NamesStay DEF Delivered, KeysFit
  <2>2. \A run \in runs : Names(run.canonical, jobs')
    BY RunsStay
  <2> QED BY <2>1, <2>2 DEF KeysFit
<1>5. ItemsBeforeAreDealtWith'
  <2> SUFFICES ASSUME NEW k \in DOMAIN batch.items, k < batch'.at
               PROVE  Dealt(batch.items[k], batch.under, batch'.canonical, k \in batch'.left, jobs', receipts')
    BY DEF ItemsBeforeAreDealtWith
  <2>1. CASE k < batch.at /\ (k \in batch'.left <=> k \in batch.left)
    <3> DEFINE item == batch.items[k] under == batch.under
               canon == batch.canonical next == batch'.canonical left == k \in batch.left
    <3>1. /\ item \in Review /\ Dealt(item, under, canon, left, jobs, receipts)
          /\ \A key \in Keys : canon[key] # NoJob => next[key] # NoJob
      BY <1>1, <2>1 DEF Delivered, ItemsBeforeAreDealtWith
    <3> HIDE DEF item, under, canon, next, left
    <3>2. Dealt(item, under, next, left, jobs', receipts')
      BY <1>1, <3>1, DealtStays
    <3>3. (k \in batch'.left) = left
      BY <2>1 DEF left
    <3> QED BY <3>2, <3>3 DEF item, under, next
  <2>2. CASE Dealt(batch.items[k], batch.under, batch'.canonical, k \in batch'.left, jobs', receipts')
    BY <2>2
  <2> QED BY <2>1, <2>2
<1>6. RunsAreDealtWith'
  BY RunsStay DEF RunsAreDealtWith
<1> QED BY <1>2, <1>3, <1>4, <1>5, <1>6 DEF Delivered

\* A step after which no batch is under way
LEMMA GoingIdle ==
  ASSUME Delivered, batch' = Idle,
         UNCHANGED <<text, document, onboarded, approval, jobs, receipts, runs, begun>>,
         backlog' \in Seq(Job) \cup {NoIndex}, deduplication' \in Seq(Job) \cup {NoIndex},
         canonical' \in [Keys -> Nat], Names(canonical', jobs), late' \in [Inputs -> Nat]
  PROVE  Delivered'
<1>1. TypeOK'
  BY DEF Delivered, TypeOK
<1>2. KeysFit'
  BY DEF Delivered, KeysFit
<1>3. RunsAreDealtWith' /\ OnlyTheExcludedAreRejected'
  BY DEF Delivered, RunsAreDealtWith, OnlyTheExcludedAreRejected
<1> QED BY <1>1, <1>2, <1>3 DEF Delivered, BatchFits, DueFits, ItemsBeforeAreDealtWith, IndexesFollow

\* People change the criteria: nothing that is delivered changes.
LEMMA CriteriaKeep ==
  ASSUME Delivered, Criteria
  PROVE  Delivered'
<1>1. UNCHANGED <<jobs, backlog, deduplication, receipts, runs, canonical, batch, begun>>
  BY DEF Criteria, EditReadable, EditStructured, ApproveReadable, ApproveStructured
<1>2. late' \in [Inputs -> Nat]
  <2>1. Overtake
    BY DEF Criteria, EditReadable, EditStructured, ApproveReadable, ApproveStructured
  <2> QED BY <2>1 DEF Overtake, Delivered, TypeOK
<1>3. TypeOK'
  BY <1>1, <1>2 DEF Delivered, TypeOK, Criteria, EditReadable, EditStructured, ApproveReadable,
     ApproveStructured
<1>4. BatchFits' /\ DueFits' /\ IndexesFollow'
  BY <1>1 DEF Delivered, BatchFits, DueFits, IndexesFollow, Rejected, Item, Denoted, Finished, HardRejected
<1>5. KeysFit' /\ ItemsBeforeAreDealtWith' /\ RunsAreDealtWith'
  BY <1>1 DEF Delivered, KeysFit, ItemsBeforeAreDealtWith, RunsAreDealtWith
<1>6. Sound(jobs)' /\ OnlyTheExcludedAreRejected'
  BY <1>1 DEF Delivered, OnlyTheExcludedAreRejected
<1> QED BY <1>3, <1>4, <1>5, <1>6 DEF Delivered

LEMMA BeginKeeps ==
  ASSUME Delivered, NEW items \in Batches, Begin(items)
  PROVE  Delivered'
<1> DEFINE begun1 == [items |-> items, at |-> 1, under |-> document, version |-> text,
                      due |-> "validate", passed |-> {}, canonical |-> canonical, left |-> {}]
<1>1. /\ items \in Seq(Review) /\ Len(items) \in Nat /\ MaxDeliveries \in Nat
      /\ canonical \in [Keys -> Nat]
  BY DiscoveryAssumption DEF Delivered, TypeOK
<1>2. /\ batch' = begun1 /\ begun' = begun + 1 /\ begun < MaxDeliveries
      /\ UNCHANGED <<text, document, onboarded, approval, jobs, backlog, deduplication,
                     receipts, runs, canonical, late>>
  BY DEF Begin
<1>3. begun1 \in Delivery
  BY <1>1 DEF Delivery, Delivered, TypeOK
<1>4. TypeOK'
  <2>1. begun' \in 0..MaxDeliveries
    BY <1>1, <1>2 DEF Delivered, TypeOK
  <2>2. batch'.at \in 1..(Len(batch'.items) + 1)
    BY <1>1, <1>2
  <2> QED BY <1>2, <1>3, <2>1, <2>2 DEF Delivered, TypeOK
<1>5. BatchFits' /\ DueFits' /\ IndexesFollow' /\ ItemsBeforeAreDealtWith'
  BY <1>1, <1>2, <1>3 DEF BatchFits, DueFits, IndexesFollow, ItemsBeforeAreDealtWith
<1>6. KeysFit' /\ RunsAreDealtWith'
  BY <1>2 DEF Delivered, KeysFit, RunsAreDealtWith
<1>7. Sound(jobs)' /\ OnlyTheExcludedAreRejected'
  BY <1>2 DEF Delivered, OnlyTheExcludedAreRejected
<1> QED BY <1>4, <1>5, <1>6, <1>7 DEF Delivered

\* Steps that change only what is due, what was checked, and the index files
LEMMA QuietKeeps ==
  ASSUME Delivered, batch # Idle,
         UNCHANGED <<text, document, onboarded, approval, jobs, receipts, runs, canonical, begun, late>>,
         batch' \in Delivery, batch'.due # "validate",
         batch'.items = batch.items, batch'.under = batch.under, batch'.at = batch.at,
         batch'.canonical = batch.canonical, batch'.left = batch.left,
         \/ batch.due # "validate"
         \/ \A k \in DOMAIN batch.items :
              batch.items[k].disposition = Unassessed => HardRejected(batch.items[k], batch.under),
         backlog' \in Seq(Job) \cup {NoIndex}, deduplication' \in Seq(Job) \cup {NoIndex},
         DueFits', IndexesFollow'
  PROVE  Delivered'
<1>1. /\ jobs' \in Seq(Job) /\ Sound(jobs') /\ Grown(jobs, jobs')
      /\ receipts \subseteq receipts' /\ receipts' \subseteq Receipt
      /\ late' \in [Inputs -> Nat] /\ OnlyTheExcludedAreRejected'
  <2>1. jobs \in Seq(Job) /\ Len(jobs) \in Nat
    BY BatchIsTyped
  <2>2. jobs' \in Seq(Job) /\ Sound(jobs')
    BY <2>1 DEF Delivered
  <2>3. Grown(jobs, jobs')
    BY <2>1 DEF Grown
  <2>4. receipts \subseteq receipts' /\ receipts' \subseteq Receipt /\ late' \in [Inputs -> Nat]
    BY DEF Delivered, TypeOK
  <2>5. OnlyTheExcludedAreRejected'
    BY DEF Delivered, OnlyTheExcludedAreRejected
  <2> QED BY <2>2, <2>3, <2>4, <2>5
<1>2. /\ Names(batch'.canonical, jobs') /\ batch'.at \in 1..(Len(batch.items) + 1)
      /\ \A k \in batch'.left : k < batch'.at
  BY BatchIsTyped DEF Delivered, KeysFit, BatchFits
<1> QED BY <1>1, <1>2, GoingOn

\* _validate_review_batch, the checks, and the beginning of the items
LEMMA CheckingKeeps ==
  ASSUME Delivered, Validate \/ CheckReadable \/ CheckStructured \/ Start
  PROVE  Delivered' /\ batch' \in Delivery
<1>1. /\ batch # Idle
      /\ UNCHANGED <<text, document, onboarded, approval, jobs, backlog, deduplication,
                     receipts, runs, canonical, begun, late>>
  BY DEF Validate, CheckReadable, CheckStructured, Start, Checked, In
<1>2. /\ batch \in Delivery /\ text \in Versions /\ batch.items \in Seq(Review)
      /\ batch.under \in Under
  BY <1>1, BatchIsTyped DEF Delivered, TypeOK
<1>3. /\ backlog' \in Seq(Job) \cup {NoIndex} /\ deduplication' \in Seq(Job) \cup {NoIndex}
  BY <1>1 DEF Delivered, TypeOK
<1>4. CASE Validate
  <2>1. batch' = [batch EXCEPT !.version = text, !.due = "start"] /\ batch.due = "validate"
    BY <1>4 DEF Validate, In
  <2>2. \A k \in DOMAIN batch.items :
          batch.items[k].disposition = Unassessed => HardRejected(batch.items[k], batch.under)
    BY <1>4 DEF Validate, Stands
  <2>3. batch' \in Delivery /\ batch'.due = "start"
    BY <1>2, <2>1 DEF Delivery
  <2>4. DueFits' /\ IndexesFollow'
    BY <1>1, <1>2, <2>1, <2>3 DEF Delivered, DueFits, IndexesFollow, Delivery, Guarded
  <2>5. /\ batch'.items = batch.items /\ batch'.under = batch.under /\ batch'.at = batch.at
        /\ batch'.canonical = batch.canonical /\ batch'.left = batch.left
    BY <1>2, <2>1 DEF Delivery
  <2> QED BY <1>1, <1>3, <2>2, <2>3, <2>4, <2>5, QuietKeeps
<1>5. CASE CheckReadable \/ CheckStructured
  <2>1. PICK p \in SUBSET Inputs : batch' = [batch EXCEPT !.passed = p]
    BY <1>5 DEF CheckReadable, CheckStructured, Inputs
  <2>2. batch.due \in Guarded
    BY <1>5, <1>1 DEF CheckReadable, CheckStructured, Delivered, DueFits
  <2>3. batch' \in Delivery /\ batch'.due = batch.due /\ batch.due # "validate"
    BY <1>2, <2>1, <2>2 DEF Delivery, Guarded
  <2>4. /\ batch'.items = batch.items /\ batch'.under = batch.under /\ batch'.at = batch.at
        /\ batch'.canonical = batch.canonical /\ batch'.left = batch.left
    BY <1>2, <2>1 DEF Delivery
  <2>5. DueFits' /\ IndexesFollow'
    BY <1>1, <2>2, <2>3, <2>4 DEF Delivered, DueFits, IndexesFollow, Rejected, Item, Denoted,
       Finished, HardRejected
  <2> QED BY <1>1, <1>3, <2>3, <2>4, <2>5, QuietKeeps
<1>6. CASE Start
  <2>1. batch' = [batch EXCEPT !.due = "backlog", !.passed = {}] /\ batch.due = "start"
    BY <1>6 DEF Start, Onward, Checked, In
  <2>2. batch' \in Delivery /\ batch'.due = "backlog" /\ batch'.passed = {}
    BY <1>2, <2>1 DEF Delivery
  <2>3. DueFits' /\ IndexesFollow'
    BY <1>1, <2>2 DEF DueFits, IndexesFollow
  <2>4. /\ batch'.items = batch.items /\ batch'.under = batch.under /\ batch'.at = batch.at
        /\ batch'.canonical = batch.canonical /\ batch'.left = batch.left
    BY <1>2, <2>1 DEF Delivery
  <2> QED BY <1>1, <1>3, <2>1, <2>2, <2>3, <2>4, QuietKeeps
<1> QED BY <1>4, <1>5, <1>6

\* rebuild_indexes: after it is due what the item under way calls for, or the
\* evidence of the run.
LEMMA IndexingKeeps ==
  ASSUME Delivered, WriteBacklog \/ WriteDeduplication
  PROVE  Delivered' /\ batch' \in Delivery
<1>1. /\ batch # Idle /\ batch.due \in {"backlog", "deduplication"}
      /\ UNCHANGED <<text, document, onboarded, approval, jobs, receipts, runs, canonical, begun, late>>
  BY DEF WriteBacklog, WriteDeduplication, In
<1>2. /\ batch \in Delivery /\ batch.items \in Seq(Review) /\ jobs \in Seq(Job)
      /\ batch.passed = {}
  BY <1>1, BatchIsTyped DEF Delivered, DueFits, Guarded
<1>3. backlog' \in Seq(Job) \cup {NoIndex} /\ deduplication' \in Seq(Job) \cup {NoIndex}
  BY <1>2 DEF Delivered, TypeOK, WriteBacklog, WriteDeduplication
<1>4. CASE WriteBacklog
  <2>1. batch' = [batch EXCEPT !.due = "deduplication"] /\ backlog' = jobs
    BY <1>4 DEF WriteBacklog
  <2>2. batch' \in Delivery /\ batch'.due = "deduplication" /\ batch'.passed = {}
    BY <1>2, <2>1 DEF Delivery
  <2>3. DueFits' /\ IndexesFollow'
    BY <1>1, <2>1, <2>2 DEF DueFits, IndexesFollow
  <2>4. /\ batch'.items = batch.items /\ batch'.under = batch.under /\ batch'.at = batch.at
        /\ batch'.canonical = batch.canonical /\ batch'.left = batch.left
    BY <1>2, <2>1 DEF Delivery
  <2> QED BY <1>1, <1>3, <2>2, <2>3, <2>4, QuietKeeps
<1>5. CASE WriteDeduplication
  <2> DEFINE due == IF Finished THEN "record" ELSE DueOf(Item)
  <2>1. /\ batch' = [batch EXCEPT !.due = due] /\ deduplication' = jobs /\ backlog' = backlog
        /\ backlog = jobs
    BY <1>1, <1>5 DEF WriteDeduplication, In, Delivered, IndexesFollow
  <2>2. due \in {"reverify", "receipt", "leave", "create", "record"}
    BY DEF DueOf
  <2>3. /\ due = "record" => Finished
        /\ due # "record" => batch.at \in DOMAIN batch.items
        /\ due = "receipt" => Rejected(Item)
        /\ due = "leave" => ~Rejected(Item) /\ Ambiguous(Denoted(Item.posting))
        /\ due = "create" => ~Rejected(Item)
    BY <1>1, UnfinishedHasItem DEF DueOf
  <2> HIDE DEF due
  <2>4. batch' \in Delivery /\ batch'.due = due /\ batch'.passed = {}
    BY <1>2, <2>1, <2>2 DEF Delivery
  <2>5. /\ batch'.items = batch.items /\ batch'.under = batch.under /\ batch'.at = batch.at
        /\ batch'.canonical = batch.canonical /\ batch'.left = batch.left
    BY <1>2, <2>1 DEF Delivery
  <2>6. DueFits'
    BY <1>1, <2>2, <2>3, <2>4, <2>5 DEF DueFits, Rejected, Item, Denoted, Finished, HardRejected
  <2>7. IndexesFollow'
    BY <1>1, <2>1 DEF IndexesFollow
  <2>8. batch'.due # "validate"
    BY <2>2, <2>4
  <2> QED BY <1>1, <1>3, <2>4, <2>5, <2>6, <2>7, <2>8, QuietKeeps
<1> QED BY <1>4, <1>5

\* What GoingOn needs of a step on to the next item that has dealt with this one
LEMMA Advancing ==
  ASSUME Delivered, batch # Idle, batch.at \in DOMAIN batch.items, batch.due # "validate",
         UNCHANGED <<text, document, onboarded, approval, backlog, deduplication, runs, canonical, begun>>,
         batch'.items = batch.items, batch'.under = batch.under, batch'.at = batch.at + 1,
         batch'.due = "backlog", batch'.passed = {}, batch' \in Delivery,
         \A k \in Nat : k # batch.at => (k \in batch'.left <=> k \in batch.left),
         jobs' \in Seq(Job), Sound(jobs'), Grown(jobs, jobs'),
         receipts \subseteq receipts', receipts' \subseteq Receipt, OnlyTheExcludedAreRejected',
         late' \in [Inputs -> Nat],
         Names(batch'.canonical, jobs'),
         \A key \in Keys : batch.canonical[key] # NoJob => batch'.canonical[key] # NoJob,
         Dealt(Item, batch.under, batch'.canonical, batch.at \in batch'.left, jobs', receipts')
  PROVE  Delivered'
<1>1. /\ batch.items \in Seq(Review) /\ batch.at \in Nat /\ Len(batch.items) \in Nat
  BY BatchIsTyped
<1>2. batch'.at \in 1..(Len(batch.items) + 1)
  BY <1>1
<1>3. \A k \in DOMAIN batch.items : k < batch'.at =>
        \/ k < batch.at /\ (k \in batch'.left <=> k \in batch.left)
        \/ Dealt(batch.items[k], batch.under, batch'.canonical, k \in batch'.left, jobs', receipts')
  <2> SUFFICES ASSUME NEW k \in DOMAIN batch.items, k < batch'.at
               PROVE  \/ k < batch.at /\ (k \in batch'.left <=> k \in batch.left)
                      \/ Dealt(batch.items[k], batch.under, batch'.canonical, k \in batch'.left,
                               jobs', receipts')
    OBVIOUS
  <2>1. k \in Nat /\ (k < batch.at \/ k = batch.at)
    BY <1>1
  <2>2. CASE k = batch.at
    BY <2>2 DEF Item
  <2>3. CASE k < batch.at
    <3>1. k # batch.at
      BY <1>1, <2>1, <2>3
    <3> QED BY <2>1, <2>3, <3>1
  <2> QED BY <2>1, <2>2, <2>3
<1>4. DueFits' /\ IndexesFollow'
  BY DEF DueFits, IndexesFollow
<1>5. backlog' \in Seq(Job) \cup {NoIndex} /\ deduplication' \in Seq(Job) \cup {NoIndex}
  BY DEF Delivered, TypeOK
<1>6. batch'.due # "validate"
  OBVIOUS
<1>7. \A k \in batch'.left : k < batch'.at
  <2>1. batch'.left \in SUBSET Nat /\ \A k \in batch.left : k < batch.at
    BY DEF Delivered, BatchFits, Delivery
  <2>2. \A k \in Nat : k < batch.at \/ k = batch.at => k < batch.at + 1
    BY <1>1
  <2> QED BY <1>1, <2>1, <2>2
<1> QED BY <1>2, <1>3, <1>4, <1>5, <1>6, <1>7, GoingOn

LEMMA WritingCounts ==
  ASSUME Delivered, Write
  PROVE  late' \in [Inputs -> Nat]
BY DEF Delivered, TypeOK, Write

\* _persist_rejection_receipt
LEMMA PersistReceiptKeeps ==
  ASSUME Delivered, PersistReceipt
  PROVE  Delivered' /\ batch' \in Delivery
<1>1. /\ batch # Idle /\ batch.due = "receipt" /\ batch.at \in DOMAIN batch.items
      /\ Rejected(Item) /\ batch' = Advance
      /\ receipts' = receipts \cup {ReceiptOf(Item)}
      /\ UNCHANGED <<text, document, onboarded, approval, jobs, backlog, deduplication,
                     runs, canonical, begun>>
  BY DEF PersistReceipt, Checked, In, Delivered, DueFits
<1>2. /\ batch \in Delivery /\ jobs \in Seq(Job) /\ Sound(jobs) /\ batch.at \in Nat
      /\ batch.items \in Seq(Review)
  BY <1>1, BatchIsTyped
<1>3. Item \in Review /\ batch.under \in Under
  BY <1>1, ItemFits
<1>4. /\ batch' \in Delivery /\ batch'.items = batch.items /\ batch'.under = batch.under
      /\ batch'.at = batch.at + 1 /\ batch'.due = "backlog" /\ batch'.passed = {}
      /\ batch'.canonical = batch.canonical /\ batch'.left = batch.left
  <2>1. batch' = [items |-> batch.items, at |-> batch.at + 1, under |-> batch.under,
                  version |-> batch.version, due |-> "backlog", passed |-> {},
                  canonical |-> batch.canonical, left |-> batch.left]
    BY <1>1, <1>2 DEF Advance, Delivery
  <2>2. /\ batch.items \in Batches /\ batch.at + 1 \in Nat /\ batch.under \in Under
        /\ batch.version \in Versions
        /\ batch.canonical \in [Keys -> Nat] /\ batch.left \in SUBSET Nat
    BY <1>1, <1>2 DEF Delivery, Under
  <2> QED BY <2>1, <2>2 DEF Delivery, Under
<1>5. /\ ReceiptOf(Item) \in Receipt
      /\ ReceiptOf(Item).posting = Item.posting /\ ReceiptOf(Item).under = batch.under
      /\ ReceiptOf(Item).evidence = Item.evidence
      /\ ReceiptOf(Item).decision = "hard_filter_rejection" <=> HardRejected(Item, batch.under)
  BY <1>3 DEF ReceiptOf, Receipt, Review, Under
<1>6. OnlyTheExcludedAreRejected'
  <2> DEFINE r == ReceiptOf(Item)
  <2>1. r.decision = "hard_filter_rejection"
          <=> Exclusions(RulesOf(r.under), r.posting, r.evidence) # {}
    BY <1>3, <1>5, DocumentRejects
  <2> HIDE DEF r
  <2> QED BY <1>1, <2>1 DEF r, Delivered, OnlyTheExcludedAreRejected
<1>7. jobs' \in Seq(Job) /\ Sound(jobs') /\ Grown(jobs, jobs')
  BY <1>1, <1>2 DEF Grown
<1>8. receipts \subseteq receipts' /\ receipts' \subseteq Receipt
  BY <1>1, <1>5 DEF Delivered, TypeOK
<1>9. Names(batch'.canonical, jobs')
  BY <1>1, <1>4 DEF Delivered, KeysFit
<1>10. Dealt(Item, batch.under, batch'.canonical, batch.at \in batch'.left, jobs', receipts')
  BY <1>1, <1>5 DEF Dealt, Rejected
<1>11. late' \in [Inputs -> Nat]
  BY WritingCounts DEF PersistReceipt
<1> QED BY <1>1, <1>4, <1>6, <1>7, <1>8, <1>9, <1>10, <1>11, Advancing

LEMMA LeaveAmbiguousKeeps ==
  ASSUME Delivered, LeaveAmbiguous
  PROVE  Delivered' /\ batch' \in Delivery
<1>1. /\ batch # Idle /\ batch.due = "leave" /\ batch.at \in DOMAIN batch.items
      /\ ~Rejected(Item) /\ Ambiguous(Denoted(Item.posting))
      /\ batch' = [Advance EXCEPT !.left = @ \cup {batch.at}]
      /\ UNCHANGED <<text, document, onboarded, approval, jobs, backlog, deduplication,
                     receipts, runs, canonical, begun, late>>
  BY DEF LeaveAmbiguous, In, Delivered, DueFits
<1>2. /\ batch \in Delivery /\ jobs \in Seq(Job) /\ Sound(jobs) /\ batch.at \in Nat
      /\ batch.items \in Seq(Review) /\ batch.left \in SUBSET Nat
  BY <1>1, BatchIsTyped
<1>3. /\ batch' \in Delivery /\ batch'.items = batch.items /\ batch'.under = batch.under
      /\ batch'.at = batch.at + 1 /\ batch'.due = "backlog" /\ batch'.passed = {}
      /\ batch'.canonical = batch.canonical /\ batch'.left = batch.left \cup {batch.at}
  <2>1. batch' = [items |-> batch.items, at |-> batch.at + 1, under |-> batch.under,
                  version |-> batch.version, due |-> "backlog", passed |-> {},
                  canonical |-> batch.canonical, left |-> (batch.left \cup {batch.at})]
    BY <1>1, <1>2 DEF Advance, Delivery
  <2>2. /\ batch.items \in Batches /\ batch.at + 1 \in Nat /\ batch.under \in Under
        /\ batch.version \in Versions
        /\ batch.canonical \in [Keys -> Nat] /\ (batch.left \cup {batch.at}) \in SUBSET Nat
    BY <1>1, <1>2 DEF Delivery, Under
  <2> QED BY <2>1, <2>2 DEF Delivery, Under
<1>4. Len(jobs) > 1
  <2>1. PICK one \in Denoted(Item.posting), other \in Denoted(Item.posting) : one # other
    BY <1>1 DEF Ambiguous, Matched
  <2>2. one \in DOMAIN jobs /\ other \in DOMAIN jobs
    BY DEF Denoted, ResolveIdentity, SameRequisition, SameFallback
  <2>3. one \in 1..Len(jobs) /\ other \in 1..Len(jobs) /\ Len(jobs) \in Nat
    BY <1>2, <2>2
  <2> QED BY <2>1, <2>3
<1>5. Dealt(Item, batch.under, batch'.canonical, batch.at \in batch'.left, jobs', receipts')
  BY <1>1, <1>3, <1>4 DEF Dealt, Rejected
<1>6. jobs' \in Seq(Job) /\ Sound(jobs') /\ Grown(jobs, jobs')
  BY <1>1, <1>2 DEF Grown
<1>7. receipts \subseteq receipts' /\ receipts' \subseteq Receipt
  BY <1>1 DEF Delivered, TypeOK
<1>8. Names(batch'.canonical, jobs')
  BY <1>1, <1>3 DEF Delivered, KeysFit
<1>9. late' \in [Inputs -> Nat] /\ OnlyTheExcludedAreRejected'
  BY <1>1 DEF Delivered, TypeOK, OnlyTheExcludedAreRejected
<1>10. \A k \in Nat : k # batch.at => (k \in batch'.left <=> k \in batch.left)
  BY <1>3
<1> QED BY <1>1, <1>3, <1>5, <1>6, <1>7, <1>8, <1>9, <1>10, Advancing

\* create_job: the new job stands for the key of the posting.
LEMMA CreateKeeps ==
  ASSUME Delivered, Create
  PROVE  Delivered' /\ batch' \in Delivery
<1> DEFINE key == Key(Item.posting) id == Len(jobs) + 1 job == Created(Item)
<1>1. /\ batch # Idle /\ batch.due = "create" /\ batch.at \in DOMAIN batch.items
      /\ ~Rejected(Item)
      /\ jobs' = Append(jobs, job)
      /\ batch' = [Advance EXCEPT !.canonical[key] = id]
      /\ UNCHANGED <<text, document, onboarded, approval, backlog, deduplication,
                     receipts, runs, canonical, begun>>
  BY DEF Create, Checked, In, Delivered, DueFits
<1>2. /\ batch \in Delivery /\ jobs \in Seq(Job) /\ Sound(jobs) /\ batch.at \in Nat
      /\ batch.items \in Seq(Review) /\ Len(jobs) \in Nat /\ batch.canonical \in [Keys -> Nat]
  BY <1>1, BatchIsTyped
<1>3. /\ Item \in Review /\ batch.under \in Under
      /\ Item.disposition = Unassessed => HardRejected(Item, batch.under)
  BY <1>1, ItemFits
<1>4. job \in Job /\ Fits(job) /\ job.req = IdentityOf[Item.posting].req
  BY <1>3, CreatedFits
<1>5. key \in Keys /\ (key \in Reqs => key = IdentityOf[Item.posting].req)
  BY <1>3, KeyFits DEF Review
<1> DEFINE next == [batch.canonical EXCEPT ![key] = id]
<1> HIDE DEF key, id, job
<1>6. /\ batch' = [items |-> batch.items, at |-> batch.at + 1, under |-> batch.under,
                  version |-> batch.version, due |-> "backlog", passed |-> {},
                  canonical |-> next, left |-> batch.left]
      /\ next \in [Keys -> Nat]
  <2>1. batch' = [Advance EXCEPT !.canonical = [batch.canonical EXCEPT ![key] = id]]
    BY <1>1, <1>2 DEF Advance, Delivery
  <2>2. next \in [Keys -> Nat]
    BY <1>2, <1>5 DEF id
  <2> HIDE DEF next
  <2> QED BY <1>2, <2>1, <2>2 DEF Advance, Delivery, next
<1> HIDE DEF next
<1>7. /\ batch' \in Delivery /\ batch'.items = batch.items /\ batch'.under = batch.under
      /\ batch'.at = batch.at + 1 /\ batch'.due = "backlog" /\ batch'.passed = {}
      /\ batch'.canonical = next /\ batch'.left = batch.left
  <2>1. /\ batch.items \in Batches /\ batch.at + 1 \in Nat /\ batch.under \in Under
        /\ batch.version \in Versions /\ batch.left \in SUBSET Nat
    BY <1>2 DEF Delivery, Under
  <2> QED BY <1>6, <2>1 DEF Delivery, Under
<1>8. /\ jobs' \in Seq(Job) /\ Len(jobs') = Len(jobs) + 1
      /\ \A k \in 1..Len(jobs) : jobs'[k] = jobs[k]
      /\ jobs'[Len(jobs) + 1] = job
  BY <1>1, <1>2, <1>4, AppendProperties
<1>9. Sound(jobs') /\ Grown(jobs, jobs') /\ id \in DOMAIN jobs' /\ jobs'[id] = job
  <2>1. DOMAIN jobs' = 1..(Len(jobs) + 1) /\ DOMAIN jobs = 1..Len(jobs)
    BY <1>2, <1>8
  <2>2. \A m \in Nat : \A k \in 1..(m + 1) : k \in 1..m \/ k = m + 1
    OBVIOUS
  <2>3. Sound(jobs')
    BY <1>2, <1>4, <1>8, <2>1, <2>2 DEF Sound
  <2>4. Grown(jobs, jobs')
    BY <1>2, <1>8, <2>1 DEF Grown
  <2> QED BY <1>2, <1>8, <2>1, <2>3, <2>4 DEF id
<1>10. Names(batch.canonical, jobs')
  BY <1>1, <1>2, <1>8, <1>9, NamesStay DEF Delivered, KeysFit
<1>11. /\ Names(next, jobs') /\ next[key] # NoJob
       /\ \A k \in Keys : batch.canonical[k] # NoJob => next[k] # NoJob
  <2>1. key \in Reqs => jobs'[id].req = key
    BY <1>4, <1>5, <1>9
  <2>2. id \in Nat
    BY <1>2 DEF id
  <2>3. PICK js \in Seq(Job), canon \in [Keys -> Nat], k1 \in Keys, n \in Nat :
          js = jobs' /\ canon = batch.canonical /\ k1 = key /\ n = id
    BY <1>2, <1>5, <1>8, <2>2
  <2>4. n \in DOMAIN js /\ Names(canon, js) /\ (k1 \in Reqs => js[n].req = k1)
    BY <1>9, <1>10, <2>1, <2>3
  <2>5. PICK nx \in [Keys -> Nat] : nx = next
    BY <1>6
  <2>6. nx[k1] = n /\ \A k \in Keys : k # k1 => nx[k] = canon[k]
    BY <1>2, <1>5, <2>3, <2>5 DEF next
  <2>7. /\ Names(nx, js) /\ nx[k1] # NoJob
        /\ \A k \in Keys : canon[k] # NoJob => nx[k] # NoJob
    BY <2>4, <2>6, NamesAdded
  <2>8. Names(next, jobs')
    BY <2>3, <2>5, <2>7
  <2>9. next[key] # NoJob
    BY <2>3, <2>5, <2>7
  <2>10. \A k \in Keys : batch.canonical[k] # NoJob => next[k] # NoJob
    BY <2>3, <2>5, <2>7
  <2> QED BY <2>8, <2>9, <2>10
<1>12. Dealt(Item, batch.under, batch'.canonical, batch.at \in batch'.left, jobs', receipts')
  <2>1. next[Key(Item.posting)] # NoJob
    BY <1>11 DEF key
  <2>2. batch.at \notin batch'.left
    BY <1>1, <1>2, <1>7 DEF Delivered, BatchFits
  <2> QED BY <1>1, <1>7, <2>1, <2>2 DEF Dealt, Rejected
<1>13. receipts \subseteq receipts' /\ receipts' \subseteq Receipt /\ OnlyTheExcludedAreRejected'
  BY <1>1 DEF Delivered, TypeOK, OnlyTheExcludedAreRejected
<1>14. late' \in [Inputs -> Nat]
  BY WritingCounts DEF Create
<1> QED BY <1>1, <1>7, <1>8, <1>9, <1>11, <1>12, <1>13, <1>14, Advancing

\* reverify_job: the job it found stands for the key of the posting.  A rejected
\* posting is not done with yet.
LEMMA ReverifyKeeps ==
  ASSUME Delivered, Reverify
  PROVE  Delivered' /\ batch' \in Delivery
<1> DEFINE key == Key(Item.posting)
<1>1. /\ batch # Idle /\ batch.due = "reverify" /\ batch.at \in DOMAIN batch.items
      /\ UNCHANGED <<text, document, onboarded, approval, backlog, deduplication,
                     receipts, runs, canonical, begun>>
  BY DEF Reverify, Checked, In, Delivered, DueFits
<1>2. /\ batch \in Delivery /\ jobs \in Seq(Job) /\ Sound(jobs) /\ batch.at \in Nat
      /\ batch.items \in Seq(Review) /\ Len(jobs) \in Nat /\ batch.canonical \in [Keys -> Nat]
  BY <1>1, BatchIsTyped
<1>3. /\ Item \in Review /\ batch.under \in Under
      /\ Item.disposition = Unassessed => HardRejected(Item, batch.under)
  BY <1>1, ItemFits
<1>4. key \in Keys /\ (key \in Reqs => key = IdentityOf[Item.posting].req /\ key # NoReq)
  BY <1>3, KeyFits, NoReqAssumption DEF Review
<1>5. PICK id \in Denoted(Item.posting), replaced \in BOOLEAN, reassessed \in BOOLEAN :
        /\ jobs' = [jobs EXCEPT ![id] = Reverified(jobs[id], Item, replaced, reassessed)]
        /\ batch' = [IF Rejected(Item) THEN Onward("receipt") ELSE Advance
                       EXCEPT !.canonical[key] = id]
  BY DEF Reverify
<1>6. PICK j : j = Reverified(jobs[id], Item, replaced, reassessed)
  OBVIOUS
<1>7. /\ id \in DOMAIN jobs /\ j \in Job /\ Fits(j)
      /\ jobs[id].req # NoReq => j.req = jobs[id].req
      /\ IdentityOf[Item.posting].req # NoReq => j.req = IdentityOf[Item.posting].req
  BY <1>2, <1>3, <1>6, ReverifiedFits
<1>8. /\ id \in 1..Len(jobs) /\ jobs' = [jobs EXCEPT ![id] = j]
      /\ jobs' \in Seq(Job) /\ Len(jobs') = Len(jobs) /\ DOMAIN jobs' = DOMAIN jobs
      /\ \A k \in DOMAIN jobs : jobs'[k] = IF k = id THEN j ELSE jobs[k]
  <2>1. id \in 1..Len(jobs) /\ jobs' = [jobs EXCEPT ![id] = j]
    BY <1>2, <1>5, <1>6, <1>7
  <2> QED BY <1>2, <1>7, <2>1, ExceptSeq
<1>9. Sound(jobs') /\ Grown(jobs, jobs')
  BY <1>2, <1>7, <1>8 DEF Sound, Grown
<1> DEFINE next == [batch.canonical EXCEPT ![key] = id]
<1> HIDE DEF key
<1>10. next \in [Keys -> Nat]
  <2>1. id \in Nat
    BY <1>2, <1>8
  <2> QED BY <1>2, <1>4, <2>1
<1>11. Names(batch.canonical, jobs')
  BY <1>1, <1>2, <1>8, <1>9, NamesStay DEF Delivered, KeysFit
<1>12. /\ Names(next, jobs') /\ next[key] # NoJob
       /\ \A k \in Keys : batch.canonical[k] # NoJob => next[k] # NoJob
  <2>1. key \in Reqs => jobs'[id].req = key
    BY <1>4, <1>7, <1>8 DEF key
  <2>2. PICK js \in Seq(Job), canon \in [Keys -> Nat], k1 \in Keys :
          js = jobs' /\ canon = batch.canonical /\ k1 = key
    BY <1>2, <1>4, <1>8
  <2>3. id \in DOMAIN js /\ Names(canon, js) /\ (k1 \in Reqs => js[id].req = k1)
    BY <1>7, <1>8, <1>11, <2>1, <2>2
  <2>4. PICK nx \in [Keys -> Nat] : nx = next
    BY <1>10
  <2>5. nx[k1] = id /\ \A k \in Keys : k # k1 => nx[k] = canon[k]
    BY <1>2, <1>4, <2>2, <2>4
  <2>6. /\ Names(nx, js) /\ nx[k1] # NoJob
        /\ \A k \in Keys : canon[k] # NoJob => nx[k] # NoJob
    BY <2>3, <2>5, NamesAdded
  <2>7. Names(next, jobs')
    BY <2>2, <2>4, <2>6
  <2>8. next[key] # NoJob
    BY <2>2, <2>4, <2>6
  <2>9. \A k \in Keys : batch.canonical[k] # NoJob => next[k] # NoJob
    BY <2>2, <2>4, <2>6
  <2> QED BY <2>7, <2>8, <2>9
<1>13. /\ late' \in [Inputs -> Nat] /\ OnlyTheExcludedAreRejected'
       /\ receipts \subseteq receipts' /\ receipts' \subseteq Receipt
       /\ backlog' \in Seq(Job) \cup {NoIndex} /\ deduplication' \in Seq(Job) \cup {NoIndex}
  <2>1. late' \in [Inputs -> Nat]
    BY WritingCounts DEF Reverify
  <2>2. OnlyTheExcludedAreRejected'
    BY <1>1 DEF Delivered, OnlyTheExcludedAreRejected
  <2> QED BY <1>1, <2>1, <2>2 DEF Delivered, TypeOK
<1>14. /\ batch.items \in Batches /\ batch.at + 1 \in Nat /\ batch.under \in Under
       /\ batch.version \in Versions /\ batch.left \in SUBSET Nat
  BY <1>2 DEF Delivery, Under
<1>15. CASE Rejected(Item)
  <2>1. batch' = [Onward("receipt") EXCEPT !.canonical = next]
    BY <1>2, <1>5, <1>15 DEF Onward, Delivery
  <2> HIDE DEF next
  <2>2. batch' = [items |-> batch.items, at |-> batch.at, under |-> batch.under,
                  version |-> batch.version, due |-> "receipt", passed |-> {},
                  canonical |-> next, left |-> batch.left]
    BY <1>2, <2>1 DEF Onward, Delivery
  <2>3. batch' \in Delivery
    BY <1>2, <1>10, <1>14, <2>2 DEF Delivery, Under
  <2>4. /\ batch'.items = batch.items /\ batch'.under = batch.under /\ batch'.at = batch.at
        /\ batch'.due = "receipt" /\ batch'.passed = {} /\ batch'.canonical = next
        /\ batch'.left = batch.left
    BY <2>2
  <2>5. DueFits' /\ IndexesFollow'
    BY <1>1, <1>15, <2>4 DEF DueFits, IndexesFollow, Rejected, Item, HardRejected
  <2>6. /\ batch'.at \in 1..(Len(batch.items) + 1) /\ \A k \in batch'.left : k < batch'.at
    BY <1>1, <2>4 DEF Delivered, BatchFits
  <2>7. Names(batch'.canonical, jobs')
    BY <1>12, <2>4
  <2>8. \A k \in Keys : batch.canonical[k] # NoJob => batch'.canonical[k] # NoJob
    BY <1>12, <2>4
  <2>9. \A k \in DOMAIN batch.items : k < batch'.at =>
          k < batch.at /\ (k \in batch'.left <=> k \in batch.left)
    BY <2>4
  <2>10. batch.due # "validate" /\ batch'.due # "validate"
    BY <1>1, <2>4
  <2> QED BY <1>1, <1>8, <1>9, <1>13, <2>3, <2>4, <2>5, <2>6, <2>7, <2>8, <2>9, <2>10, GoingOn
<1>16. CASE ~Rejected(Item)
  <2>1. batch' = [Advance EXCEPT !.canonical = next]
    BY <1>2, <1>5, <1>16 DEF Advance, Delivery
  <2> HIDE DEF next
  <2>2. batch' = [items |-> batch.items, at |-> batch.at + 1, under |-> batch.under,
                  version |-> batch.version, due |-> "backlog", passed |-> {},
                  canonical |-> next, left |-> batch.left]
    BY <1>2, <2>1 DEF Advance, Delivery
  <2>3. batch' \in Delivery
    BY <1>2, <1>10, <1>14, <2>2 DEF Delivery, Under
  <2>4. /\ batch'.items = batch.items /\ batch'.under = batch.under /\ batch'.at = batch.at + 1
        /\ batch'.due = "backlog" /\ batch'.passed = {} /\ batch'.canonical = next
        /\ batch'.left = batch.left
    BY <2>2
  <2>5. batch.at \notin batch'.left
    BY <1>1, <1>2, <2>4 DEF Delivered, BatchFits
  <2>6. Dealt(Item, batch.under, batch'.canonical, batch.at \in batch'.left, jobs', receipts')
    BY <1>12, <1>16, <2>4, <2>5 DEF Dealt, Rejected, key
  <2>7. Names(batch'.canonical, jobs')
    BY <1>12, <2>4
  <2>8. \A k \in Keys : batch.canonical[k] # NoJob => batch'.canonical[k] # NoJob
    BY <1>12, <2>4
  <2> QED BY <1>1, <1>8, <1>9, <1>13, <2>3, <2>4, <2>6, <2>7, <2>8, Advancing
<1> QED BY <1>15, <1>16

\* The evidence of the run names what every item left behind.
LEMMA RecordRunKeeps ==
  ASSUME Delivered, RecordRun
  PROVE  Delivered' /\ batch' \in Delivery
<1> DEFINE run == [items |-> batch.items, under |-> batch.under,
                   canonical |-> batch.canonical, left |-> batch.left]
<1>1. /\ batch # Idle /\ batch.due = "record" /\ Finished
      /\ runs' = runs \cup {run} /\ batch' = Onward("merge") /\ Write
      /\ UNCHANGED <<text, document, onboarded, approval, jobs, backlog, deduplication,
                     receipts, canonical, begun>>
  BY DEF RecordRun, Checked, In, Delivered, DueFits
<1>2. /\ batch \in Delivery /\ jobs \in Seq(Job) /\ batch.at \in Nat
      /\ batch.items \in Seq(Review) /\ Len(batch.items) \in Nat
  BY <1>1, BatchIsTyped
<1>3. /\ batch' \in Delivery /\ batch'.items = batch.items /\ batch'.under = batch.under
      /\ batch'.at = batch.at /\ batch'.due = "merge" /\ batch'.passed = {}
      /\ batch'.canonical = batch.canonical /\ batch'.left = batch.left
  BY <1>1, <1>2 DEF Onward, Delivery
<1>4. run \in [items : Batches, under : Under, canonical : [Keys -> Nat], left : SUBSET Nat]
  BY <1>2 DEF Delivery, Under
<1>5. /\ Names(run.canonical, jobs)
      /\ \A k \in DOMAIN run.items :
           Dealt(run.items[k], run.under, run.canonical, k \in run.left, jobs, receipts)
  <2>1. \A k \in DOMAIN batch.items : k < batch.at
    BY <1>1, <1>2 DEF Finished
  <2> QED BY <1>1, <2>1 DEF Delivered, KeysFit, ItemsBeforeAreDealtWith
<1>6. late' \in [Inputs -> Nat]
  BY <1>1, WritingCounts
<1> HIDE DEF run
<1>7. TypeOK'
  <2>1. runs' \subseteq [items : Batches, under : Under, canonical : [Keys -> Nat], left : SUBSET Nat]
    BY <1>1, <1>4 DEF Delivered, TypeOK, Under
  <2>2. batch'.at \in 1..(Len(batch'.items) + 1)
    BY <1>1, <1>3 DEF Delivered, BatchFits
  <2> QED BY <1>1, <1>3, <1>6, <2>1, <2>2 DEF Delivered, TypeOK, Under
<1>8. BatchFits'
  BY <1>1, <1>3 DEF Delivered, BatchFits
<1>9. DueFits' /\ IndexesFollow'
  BY <1>3 DEF DueFits, IndexesFollow
<1>10. KeysFit' /\ ItemsBeforeAreDealtWith'
  BY <1>1, <1>3, <1>5 DEF Delivered, KeysFit, ItemsBeforeAreDealtWith
<1>11. RunsAreDealtWith'
  BY <1>1, <1>5 DEF Delivered, RunsAreDealtWith
<1>12. Sound(jobs)' /\ OnlyTheExcludedAreRejected'
  BY <1>1 DEF Delivered, OnlyTheExcludedAreRejected
<1> QED BY <1>3, <1>7, <1>8, <1>9, <1>10, <1>11, <1>12 DEF Delivered

\* The end of a batch, and the repair of the index files without one
LEMMA EndKeeps ==
  ASSUME Delivered, Merge \/ Stop \/ LoadIndexes
  PROVE  Delivered'
<1>1. /\ backlog \in Seq(Job) \cup {NoIndex} /\ deduplication \in Seq(Job) \cup {NoIndex}
      /\ jobs \in Seq(Job) /\ canonical \in [Keys -> Nat] /\ late \in [Inputs -> Nat]
      /\ NoneLate \in [Inputs -> Nat] /\ Names(canonical, jobs)
  BY DEF Delivered, TypeOK, NoneLate, KeysFit
<1>2. CASE Merge
  <2>1. batch.canonical \in [Keys -> Nat] /\ Names(batch.canonical, jobs)
    BY <1>2, BatchIsTyped DEF Merge, In, Delivered, KeysFit
  <2>2. canonical' \in [Keys -> Nat] /\ Names(canonical', jobs)
    BY <1>1, <1>2, <2>1 DEF Merge, Names
  <2> QED BY <1>1, <1>2, <2>2, GoingIdle DEF Merge
<1>3. CASE Stop
  BY <1>1, <1>3, GoingIdle DEF Stop
<1>4. CASE LoadIndexes
  BY <1>1, <1>4, GoingIdle DEF LoadIndexes
<1> QED BY <1>2, <1>3, <1>4

LEMMA DeliveredStep == Delivered /\ [Next]_vars => Delivered'
<1> SUFFICES ASSUME Delivered, [Next]_vars PROVE Delivered'
  OBVIOUS
<1>1. CASE Criteria
  BY <1>1, CriteriaKeep
<1>2. CASE \E items \in Batches : Begin(items)
  BY <1>2, BeginKeeps
<1>3. CASE Validate \/ CheckReadable \/ CheckStructured \/ Start
  BY <1>3, CheckingKeeps
<1>4. CASE WriteBacklog \/ WriteDeduplication
  BY <1>4, IndexingKeeps
<1>5. CASE Reverify
  BY <1>5, ReverifyKeeps
<1>6. CASE PersistReceipt
  BY <1>6, PersistReceiptKeeps
<1>7. CASE LeaveAmbiguous
  BY <1>7, LeaveAmbiguousKeeps
<1>8. CASE Create
  BY <1>8, CreateKeeps
<1>9. CASE RecordRun
  BY <1>9, RecordRunKeeps
<1>10. CASE Merge \/ Stop \/ LoadIndexes
  BY <1>10, EndKeeps
<1>11. CASE UNCHANGED vars
  <2>1. TypeOK' /\ BatchFits' /\ DueFits' /\ IndexesFollow'
    BY <1>11 DEF vars, Delivered, TypeOK, BatchFits, DueFits, IndexesFollow, Rejected, Item,
       Denoted, Finished, HardRejected
  <2>2. KeysFit' /\ ItemsBeforeAreDealtWith' /\ RunsAreDealtWith'
    BY <1>11 DEF vars, Delivered, KeysFit, ItemsBeforeAreDealtWith, RunsAreDealtWith
  <2>3. Sound(jobs)' /\ OnlyTheExcludedAreRejected'
    BY <1>11 DEF vars, Delivered, OnlyTheExcludedAreRejected
  <2> QED BY <2>1, <2>2, <2>3 DEF Delivered
<1> QED BY <1>1, <1>2, <1>3, <1>4, <1>5, <1>6, <1>7, <1>8, <1>9, <1>10, <1>11 DEF Next, Deliver

-----------------------------------------------------------------------------
(* The invariant: what is written late *)

\* A step that writes nothing keeps what is late.
LEMMA LateStays ==
  ASSUME Inv, batch # Idle, batch' # Idle,
         UNCHANGED <<text, document, onboarded, approval, late>>,
         batch'.version = batch.version, batch'.under = batch.under,
         batch'.due # "validate",
         \A i \in batch'.passed : i \in batch.passed \/ (i \in Inputs /\ Standing(i))
  PROVE  LateFits'
<1>1. \A i \in Inputs : Standing(i)' <=> Standing(i)
  BY DEF Standing, ReadableApproved, StructuredApproved
<1>2. \A i \in Inputs : Standing(i)' \/ i \in batch'.passed => late'[i] = 0
  BY <1>1 DEF Inv, LateFits
<1> QED BY <1>2 DEF Inv, LateFits, ChangedCriteriaStopTheBatch

\* A write was checked: nothing was late before it, and the next is checked.
LEMMA WritesAreChecked ==
  ASSUME Inv, batch # Idle, batch.passed = Inputs, Write, batch' # Idle,
         UNCHANGED <<text, document, onboarded, approval>>,
         batch'.version = batch.version, batch'.under = batch.under,
         batch'.due # "validate", batch'.passed = {}
  PROVE  LateFits'
<1>1. \A i \in Inputs : Standing(i)' <=> Standing(i)
  BY DEF Standing, ReadableApproved, StructuredApproved
<1>2. \A i \in Inputs : late[i] = 0 /\ late'[i] = IF Standing(i) THEN 0 ELSE 1
  BY DEF Write, Inv, LateFits
<1> QED BY <1>1, <1>2 DEF LateFits, ChangedCriteriaStopTheBatch

LEMMA LateStep == Inv /\ [Next]_vars => LateFits'
<1> SUFFICES ASSUME Inv, [Next]_vars PROVE LateFits'
  OBVIOUS
<1>1. /\ batch \in Delivery \cup {Idle} /\ late \in [Inputs -> Nat] /\ Idle \notin Delivery
      /\ batch # Idle => batch \in Delivery
      /\ batch # Idle /\ batch.due \notin Guarded => batch.passed = {}
  BY DiscoveryAssumption DEF Inv, Delivered, TypeOK, DueFits
<1>2. \A i \in Inputs : NoneLate[i] = 0
  BY DEF NoneLate
<1>3. CASE Criteria
  <2>1. Overtake /\ batch' = batch
    BY <1>3 DEF Criteria, EditReadable, EditStructured, ApproveReadable, ApproveStructured
  <2>2. \A i \in Inputs : late'[i] = IF batch = Idle \/ Standing(i)' THEN 0 ELSE late[i]
    BY <2>1 DEF Overtake
  <2>3. late = NoneLate => late' = NoneLate
    BY <1>2, <2>1 DEF Overtake, NoneLate
  <2>4. batch = Idle => late' = NoneLate
    BY <2>1 DEF Overtake, NoneLate
  <2> QED BY <2>1, <2>2, <2>3, <2>4 DEF Inv, LateFits, ChangedCriteriaStopTheBatch
<1>4. CASE \E items \in Batches : Begin(items)
  <2>1. late = NoneLate /\ late' = NoneLate
    BY <1>4 DEF Begin, Inv, LateFits
  <2> QED BY <1>2, <2>1 DEF LateFits, ChangedCriteriaStopTheBatch
<1>5. CASE Validate
  <2>1. late = NoneLate /\ late' = NoneLate /\ batch # Idle
    BY <1>5 DEF Validate, In, Inv, LateFits
  <2>2. batch' # Idle
    <3>1. batch' = [batch EXCEPT !.version = text, !.due = "start"] /\ text \in Versions
      BY <1>5 DEF Validate, Inv, Delivered, TypeOK
    <3>2. batch' \in Delivery
      BY <1>1, <2>1, <3>1 DEF Delivery
    <3> QED BY <1>1, <3>2
  <2> QED BY <1>2, <2>1, <2>2 DEF LateFits, ChangedCriteriaStopTheBatch
<1> DEFINE Turned == /\ batch' \in Delivery /\ batch'.version = batch.version
                     /\ batch'.under = batch.under
<1>6. ASSUME CheckReadable \/ CheckStructured
      PROVE  LateFits'
  <2>1. PICK p \in SUBSET Inputs :
          /\ batch' = [batch EXCEPT !.passed = p]
          /\ \A i \in p : i \in batch.passed \/ Standing(i)
    BY <1>6 DEF CheckReadable, CheckStructured, Inputs
  <2>2. batch # Idle /\ batch.due # "validate"
        /\ UNCHANGED <<text, document, onboarded, approval, late>>
    BY <1>6 DEF CheckReadable, CheckStructured, Guarded, Inv, Delivered, DueFits
  <2>3. /\ Turned /\ batch'.due = batch.due /\ batch'.passed = p
    BY <1>1, <2>1, <2>2 DEF Delivery
  <2> QED BY <1>1, <2>1, <2>2, <2>3, LateStays
<1>7. ASSUME Start \/ WriteBacklog \/ WriteDeduplication \/ LeaveAmbiguous
      PROVE  LateFits'
  <2>1. /\ batch # Idle /\ batch \in Delivery
        /\ UNCHANGED <<text, document, onboarded, approval, late>>
    BY <1>1, <1>7 DEF Start, WriteBacklog, WriteDeduplication, LeaveAmbiguous, Checked, In
  <2>2. batch' \in Delivery
    BY <1>7, CheckingKeeps, IndexingKeeps, LeaveAmbiguousKeeps DEF Inv
  <2>3. /\ batch'.version = batch.version /\ batch'.under = batch.under
        /\ batch'.due # "validate" /\ batch'.passed \subseteq batch.passed
    BY <2>1, <1>7 DEF Start, WriteBacklog, WriteDeduplication, LeaveAmbiguous, Onward, Advance,
       Delivery, DueOf
  <2> QED BY <1>1, <2>1, <2>2, <2>3, LateStays
<1>8. ASSUME Reverify \/ PersistReceipt \/ Create \/ RecordRun
      PROVE  LateFits'
  <2>1. /\ batch # Idle /\ batch \in Delivery /\ batch.passed = Inputs /\ Write
        /\ UNCHANGED <<text, document, onboarded, approval>>
    BY <1>1, <1>8 DEF Reverify, PersistReceipt, Create, RecordRun, Checked, In
  <2>2. /\ batch'.version = batch.version /\ batch'.under = batch.under
        /\ batch'.due # "validate" /\ batch'.passed = {}
    <3>1. CASE Reverify
      BY <2>1, <3>1 DEF Reverify, Onward, Advance, Delivery
    <3>2. CASE PersistReceipt
      BY <2>1, <3>2 DEF PersistReceipt, Advance, Delivery
    <3>3. CASE Create
      BY <2>1, <3>3 DEF Create, Advance, Delivery
    <3>4. CASE RecordRun
      BY <2>1, <3>4 DEF RecordRun, Onward, Delivery
    <3> QED BY <1>8, <3>1, <3>2, <3>3, <3>4
  <2>3. batch' \in Delivery
    BY <1>8, ReverifyKeeps, PersistReceiptKeeps, CreateKeeps, RecordRunKeeps DEF Inv
  <2> QED BY <1>1, <2>1, <2>2, <2>3, WritesAreChecked
<1>9. ASSUME Merge \/ Stop
      PROVE  LateFits'
  BY <1>2, <1>9 DEF Merge, Stop, LateFits, ChangedCriteriaStopTheBatch
<1>10. CASE LoadIndexes
  BY <1>2, <1>10 DEF LoadIndexes, Inv, LateFits, ChangedCriteriaStopTheBatch
<1>11. CASE UNCHANGED vars
  BY <1>11 DEF vars, Inv, LateFits, ChangedCriteriaStopTheBatch, Standing, ReadableApproved,
     StructuredApproved
<1> QED BY <1>3, <1>4, <1>5, <1>6, <1>7, <1>8, <1>9, <1>10, <1>11 DEF Next, Deliver

LEMMA InvStep == Inv /\ [Next]_vars => Inv'
BY DeliveredStep, LateStep DEF Inv

-----------------------------------------------------------------------------
(* The theorems *)

\* The inductive invariant: the types, what the batch under way and every run
\* have behind them, the jobs that keys stand for, and what may be late.
THEOREM DeliveryInvariant == Spec => []Inv
BY InvInit, InvStep, PTL DEF Spec

\* Every variable has its type (the files that discovery.py, criteria.py,
\* indexes.py and checkpoints.py write).
THEOREM DeliveryTypes == Spec => []TypeOK
<1>1. Inv => TypeOK
  BY DEF Inv, Delivered
<1> QED BY <1>1, DeliveryInvariant, PTL

\* However batches, edits and approvals interleave and die, no job that nobody
\* called a non-match is excluded by the criteria it was assessed under
\* (_validate_review_batch, _evaluate_rule).
THEOREM JobsAreNotExcluded == Spec => []NoJobIsExcluded
<1>1. Inv => NoJobIsExcluded
  BY DEF Inv, Delivered, Sound, Fits, NoJobIsExcluded
<1> QED BY <1>1, DeliveryInvariant, PTL

\* A receipt names a hard filter exactly when one excludes the posting beyond
\* doubt (evaluate_hard_filters, _persist_rejection_receipt).
THEOREM ReceiptsAreEarned == Spec => []OnlyTheExcludedAreRejected
<1>1. Inv => OnlyTheExcludedAreRejected
  BY DEF Inv, Delivered
<1> QED BY <1>1, DeliveryInvariant, PTL

\* A run's evidence accounts for each of its items, whatever was cut short
\* before it and whatever is filled in or replaced in the jobs after it
\* (_deliver_reviewed_jobs_locked, reverify_job).
THEOREM RunsAreComplete == Spec => []RunsAccountForEveryItem
<1>1. Inv => RunsAccountForEveryItem
  <2> SUFFICES ASSUME Inv, NEW run \in runs, NEW k \in DOMAIN run.items
               PROVE  Accounted(run.items[k], run.under, run.canonical, k \in run.left)
    BY DEF RunsAccountForEveryItem
  <2>1. run.items \in Seq(Review)
    BY DiscoveryAssumption DEF Inv, Delivered, TypeOK
  <2>2. /\ run.items[k] \in Review /\ Names(run.canonical, jobs)
        /\ Dealt(run.items[k], run.under, run.canonical, k \in run.left, jobs, receipts)
    BY <2>1 DEF Inv, Delivered, KeysFit, RunsAreDealtWith
  <2> QED BY <2>2, DealtIsAccounted
<1> QED BY <1>1, DeliveryInvariant, PTL

\* Whenever people change the criteria or withdraw their approval, a batch under
\* way writes at most what it had checked already (_revalidate_approved_inputs).
THEOREM LateWritesAreBounded == Spec => []ChangedCriteriaStopTheBatch
<1>1. Inv => ChangedCriteriaStopTheBatch
  BY DEF Inv, LateFits
<1> QED BY <1>1, DeliveryInvariant, PTL

\* When a run is recorded both index files describe every job
\* (rebuild_indexes, _write_indexes).
THEOREM RecordedRunsAreIndexed == Spec => RecordedMeansIndexed
<1>1. Inv /\ [Next]_vars
        => [runs' # runs => backlog = jobs /\ deduplication = jobs]_vars
  <2> SUFFICES ASSUME Inv, Next, runs' # runs
               PROVE  backlog = jobs /\ deduplication = jobs
    BY DEF vars
  <2>1. RecordRun
    BY DEF Next, Criteria, EditReadable, EditStructured, ApproveReadable, ApproveStructured,
       Begin, Deliver, Validate, CheckReadable, CheckStructured, Start, WriteBacklog,
       WriteDeduplication, Reverify, PersistReceipt, LeaveAmbiguous, Create, Merge, Stop,
       LoadIndexes
  <2> QED BY <2>1 DEF Inv, Delivered, IndexesFollow, RecordRun, Checked, In
<1> QED BY <1>1, DeliveryInvariant, PTL DEF Spec, RecordedMeansIndexed
=============================================================================
