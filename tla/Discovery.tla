------------------------------ MODULE Discovery ------------------------------
(***************************************************************************)
(* Delivery of a reviewed batch (src/career_pipeline/discovery.py) with    *)
(* the criteria in force (criteria.py), its receipts of rejections, the    *)
(* two derived index files (indexes.py) and the state of discovery that it *)
(* merges at the end (checkpoints.py).  The batch holds the workspace      *)
(* lock; people edit the criteria and approve the readable ones again      *)
(* without it, also between a check of the criteria and the write that     *)
(* follows it.  The process may die between any two writes, and the batch  *)
(* is then delivered again.                                                *)
(*                                                                         *)
(* A job is its identity and what its last assessment rests on.  Its       *)
(* creation and re-verification are one step each (JobStore shows that     *)
(* their journals make them so); whether a re-verification replaces the    *)
(* evidence or the assessment is decided by the timestamps and sources of  *)
(* JobRecord and left open here.  The readable and the structured criteria *)
(* are versions; the profile is checked like the readable criteria.        *)
(***************************************************************************)
EXTENDS Filters, Dedupe, Sequences, FiniteSets

CONSTANTS Documents,   \* structured criteria: [readable, rules]
          NoDocument,  \* no structured criteria, or none approved yet
          Versions,    \* of the readable criteria
          IdentityOf,  \* the requisition and the fingerprint of a posting
          Batches,     \* sequences of reviews
          NoIndex, Idle,
          MaxDeliveries   \* bound: deliveries begun, those cut short included

Dispositions == {"strong_match", "non_match"}
Unassessed == "not_assessed"

\* ReviewedJob.  "bound" is the version its assessment was made under.
Review == [posting : Postings, disposition : Dispositions \cup {Unassessed},
           bound : Versions, evidence : SUBSET Evidence]

Document == [readable : Versions, rules : SUBSET Rule]

Job == [posting : Postings, disposition : Dispositions,
        under : Documents \cup {NoDocument}, evidence : SUBSET Evidence,
        req : Reqs \cup {NoReq}, fallback : Fallbacks]

\* What candidate_key makes of a posting
Keys == Reqs \cup Fallbacks
NoJob == 0

\* What a batch was checked against
Inputs == {"readable", "structured"}

\* A batch under way, what is due next in it, and which inputs the check before
\* that found unchanged.  "canonical" is the job of each key, "left" the items
\* that denoted several jobs.
Delivery == [items : Batches, at : Nat, under : Documents \cup {NoDocument}, version : Versions,
             due : {"validate", "start", "backlog", "deduplication",
                    "reverify", "receipt", "leave", "create", "record", "merge"},
             passed : SUBSET Inputs, canonical : [Keys -> Nat], left : SUBSET Nat]

ASSUME DiscoveryAssumption ==
  /\ Documents \subseteq Document
  /\ NoDocument \notin Document
  /\ IdentityOf \in [Postings -> Identity]
  /\ Reqs \cap Fallbacks = {}
  /\ Batches \subseteq Seq(Review)
  /\ MaxDeliveries \in Nat
  /\ NoIndex \notin Seq(Job) /\ Idle \notin Delivery

VARIABLES text,       \* Profile/Search_Criteria.md
          document,   \* Profile/Search_Criteria.json
          onboarded,  \* the readable version approved in onboarding
          approval,   \* State/search-criteria-approval.json
          jobs,       \* in the order of their IDs
          backlog, deduplication,   \* the index files: the jobs they describe
          receipts,   \* Runs/discovery/sources/
          runs,       \* Runs/discovery/, with the canonical jobs of the run
          canonical,  \* canonical_jobs of State/discovery-state.json
          batch,
          begun,      \* deliveries begun
          late        \* history: the writes since an input is no longer the batch's

vars == <<text, document, onboarded, approval, jobs, backlog, deduplication,
          receipts, runs, canonical, batch, begun, late>>

Receipt == [posting : Postings, decision : {"hard_filter_rejection", "semantic_non_match"},
            under : Documents \cup {NoDocument}, evidence : SUBSET Evidence]

NoneLate == [i \in Inputs |-> 0]

Init ==
  /\ text \in Versions /\ onboarded = text
  /\ document = NoDocument /\ approval = NoDocument
  /\ jobs = << >>
  /\ backlog = NoIndex /\ deduplication = NoIndex
  /\ receipts = {} /\ runs = {}
  /\ canonical = [k \in Keys |-> NoJob]
  /\ batch = Idle /\ begun = 0
  /\ late = NoneLate

-----------------------------------------------------------------------------
(* The criteria *)

\* load_approved_assessment_inputs
ReadableApproved == onboarded = text

\* resolve_workspace_criteria: there are none, or they are approved with the
\* readable ones they belong to.
StructuredApproved ==
  document # NoDocument =>
    approval = document /\ document.readable = text /\ onboarded = text

\* An input is still what the batch took at its beginning, and approved.
Standing(input) ==
  IF input = "readable"
  THEN ReadableApproved /\ text = batch.version
  ELSE StructuredApproved /\ document = batch.under

\* Whoever changes the criteria may end or begin the time of late writes.
Overtake == late' = [i \in Inputs |-> IF batch = Idle \/ Standing(i)' THEN 0 ELSE late[i]]

EditReadable ==
  /\ text' \in Versions \ {text}
  /\ UNCHANGED <<document, onboarded, approval, batch>>
  /\ Overtake
  /\ UNCHANGED <<jobs, backlog, deduplication, receipts, runs, canonical, begun>>

EditStructured ==
  /\ document' \in Documents \ {document}
  /\ UNCHANGED <<text, onboarded, approval, batch>>
  /\ Overtake
  /\ UNCHANGED <<jobs, backlog, deduplication, receipts, runs, canonical, begun>>

\* Onboarding's approval of the readable criteria, saved without the lock
ApproveReadable ==
  /\ onboarded # text
  /\ onboarded' = text
  /\ UNCHANGED <<text, document, approval, batch>>
  /\ Overtake
  /\ UNCHANGED <<jobs, backlog, deduplication, receipts, runs, canonical, begun>>

\* approve_workspace_criteria, under the lock
ApproveStructured ==
  /\ batch = Idle
  /\ document # NoDocument /\ document.readable = text /\ onboarded = text
  /\ approval # document
  /\ approval' = document
  /\ UNCHANGED <<text, document, onboarded, batch>>
  /\ Overtake
  /\ UNCHANGED <<jobs, backlog, deduplication, receipts, runs, canonical, begun>>

-----------------------------------------------------------------------------
(* The beginning of a batch *)

RulesOf(d) == IF d = NoDocument THEN {} ELSE d.rules

\* Slip: only what nobody has assessed is filtered.
HardRejectedUnassessed(item, d) ==
  /\ item.disposition = Unassessed
  /\ Outcome(RulesOf(d), item.posting, item.evidence) = "confirmed_mismatch"

HardRejected(item, d) ==
  Outcome(RulesOf(d), item.posting, item.evidence) = "confirmed_mismatch"

\* _validate_review_batch: one item that does not stand refuses the batch.
Stands(item, d, version) ==
  IF item.disposition = Unassessed THEN HardRejected(item, d) ELSE item.bound = version

\* deliver_reviewed_jobs, under the lock: the structured criteria in force and
\* the state of discovery are taken.  The version is read by Validate.
Begin(items) ==
  /\ batch = Idle
  /\ begun < MaxDeliveries
  /\ StructuredApproved
  /\ batch' = [items |-> items, at |-> 1, under |-> document, version |-> text,
               due |-> "validate", passed |-> {}, canonical |-> canonical, left |-> {}]
  /\ begun' = begun + 1
  /\ UNCHANGED <<text, document, onboarded, approval, jobs, backlog, deduplication,
                 receipts, runs, canonical, late>>

In(due) == batch # Idle /\ batch.due = due

\* The readable criteria are taken and every item is checked against both.
Validate ==
  /\ In("validate")
  /\ ReadableApproved
  /\ \A k \in DOMAIN batch.items : Stands(batch.items[k], batch.under, text)
  /\ batch' = [batch EXCEPT !.version = text, !.due = "start"]
  /\ UNCHANGED <<text, document, onboarded, approval, jobs, backlog, deduplication,
                 receipts, runs, canonical, begun, late>>

-----------------------------------------------------------------------------
(* Checks and what they allow *)

\* _revalidate_approved_inputs looks at the readable criteria first and then at
\* the structured ones; what fails raises (Stop).
Guarded == {"start", "reverify", "receipt", "create", "record"}

CheckReadable ==
  /\ batch # Idle /\ batch.due \in Guarded /\ batch.passed = {}
  /\ Standing("readable")
  /\ batch' = [batch EXCEPT !.passed = {"readable"}]
  /\ UNCHANGED <<text, document, onboarded, approval, jobs, backlog, deduplication,
                 receipts, runs, canonical, begun, late>>

CheckStructured ==
  /\ batch # Idle /\ batch.passed = {"readable"}
  /\ Standing("structured")
  /\ batch' = [batch EXCEPT !.passed = Inputs]
  /\ UNCHANGED <<text, document, onboarded, approval, jobs, backlog, deduplication,
                 receipts, runs, canonical, begun, late>>

\* What is due was checked.  The criteria may have changed since.
Checked(due) == In(due) /\ batch.passed = Inputs

\* Slip: one check does for all that is written about an item.
OnwardChecked(due) == [batch EXCEPT !.due = due]

\* A check does for one write.
Onward(due) == [batch EXCEPT !.due = due, !.passed = {}]

\* Every write of a job, a receipt or a run is counted against the inputs that
\* no longer stand.
Write == late' = [i \in Inputs |-> IF Standing(i) THEN 0 ELSE late[i] + 1]

\* The indexes that load_indexes brings up to date here are rebuilt once more
\* for the first item.
Start ==
  /\ Checked("start")
  /\ batch' = Onward("backlog")
  /\ UNCHANGED <<text, document, onboarded, approval, jobs, backlog, deduplication,
                 receipts, runs, canonical, begun, late>>

-----------------------------------------------------------------------------
(* The items of a batch *)

Item == batch.items[batch.at]
\* Slip: the last item is not reached.
FinishedEarly == batch.at >= Len(batch.items)
Finished == batch.at = Len(batch.items) + 1

\* resolve_duplicate_job_ids on the indexes just built
Denoted(p) == ResolveIdentity(IdentityOf[p], jobs)

\* candidate_key
Key(p) == IF IdentityOf[p].req # NoReq THEN IdentityOf[p].req ELSE IdentityOf[p].fallback

Rejected(item) == HardRejected(item, batch.under) \/ item.disposition = "non_match"

\* What the item under way calls for
DueOf(item) ==
  LET ids == Denoted(item.posting)
  IN IF Matched(ids) THEN "reverify"
     ELSE IF Rejected(item) THEN "receipt"
     ELSE IF Ambiguous(ids) THEN "leave" ELSE "create"

\* rebuild_indexes, before every item and after the last
WriteBacklog ==
  /\ In("backlog")
  /\ backlog' = jobs
  /\ batch' = [batch EXCEPT !.due = "deduplication"]
  /\ UNCHANGED <<text, document, onboarded, approval, jobs, deduplication,
                 receipts, runs, canonical, begun, late>>

WriteDeduplication ==
  /\ In("deduplication")
  /\ deduplication' = jobs
  /\ batch' = [batch EXCEPT !.due = IF Finished THEN "record" ELSE DueOf(Item)]
  /\ UNCHANGED <<text, document, onboarded, approval, jobs, backlog,
                 receipts, runs, canonical, begun, late>>

\* Slip: only the second index is rebuilt for every item.
AdvanceUnindexed == [batch EXCEPT !.at = @ + 1, !.due = "deduplication", !.passed = {}]

\* On to the next item
Advance == [batch EXCEPT !.at = @ + 1, !.due = "backlog", !.passed = {}]

\* The assessment that the item leaves in a job
Assessed(item) ==
  [posting |-> item.posting,
   disposition |-> IF HardRejected(item, batch.under) THEN "non_match" ELSE item.disposition,
   under |-> batch.under, evidence |-> item.evidence]

\* Slip: replaced evidence without a requisition takes away a known one.
RequisitionReplaced(known, stated, replaced) ==
  IF replaced \/ known = NoReq THEN stated ELSE known

\* A requisition is filled in or replaced by another, and never lost.
Requisition(known, stated, replaced) ==
  IF stated # NoReq /\ (replaced \/ known = NoReq) THEN stated ELSE known

\* reverify_job, which may or may not replace the evidence (and the title and
\* the place with it) and the assessment
Reverified(job, item, replaced, reassessed) ==
  LET stated == IdentityOf[item.posting]
      made == IF reassessed THEN Assessed(item) ELSE job
  IN [posting |-> made.posting, disposition |-> made.disposition,
      under |-> made.under, evidence |-> made.evidence,
      req |-> Requisition(job.req, stated.req, replaced),
      fallback |-> IF replaced THEN stated.fallback ELSE job.fallback]

\* _build_record
Created(item) ==
  LET stated == IdentityOf[item.posting] made == Assessed(item)
  IN [posting |-> made.posting, disposition |-> made.disposition,
      under |-> made.under, evidence |-> made.evidence,
      req |-> stated.req, fallback |-> stated.fallback]

\* An accepted posting is done with its job; a rejected one has its receipt
\* checked and written next.
Reverify ==
  /\ Checked("reverify")
  /\ \E id \in Denoted(Item.posting), replaced \in BOOLEAN, reassessed \in BOOLEAN :
       /\ jobs' = [jobs EXCEPT ![id] = Reverified(jobs[id], Item, replaced, reassessed)]
       /\ batch' = [IF Rejected(Item) THEN Onward("receipt") ELSE Advance
                      EXCEPT !.canonical[Key(Item.posting)] = id]
  /\ Write
  /\ UNCHANGED <<text, document, onboarded, approval, backlog, deduplication,
                 receipts, runs, canonical, begun>>

ReceiptOf(item) ==
  [posting |-> item.posting,
   decision |-> IF HardRejected(item, batch.under)
                THEN "hard_filter_rejection" ELSE "semantic_non_match",
   under |-> batch.under, evidence |-> item.evidence]

\* _persist_rejection_receipt
PersistReceipt ==
  /\ Checked("receipt")
  /\ receipts' = receipts \cup {ReceiptOf(Item)}
  /\ batch' = Advance
  /\ Write
  /\ UNCHANGED <<text, document, onboarded, approval, jobs, backlog, deduplication,
                 runs, canonical, begun>>

\* A posting that denotes several jobs is left alone.
LeaveAmbiguous ==
  /\ In("leave")
  /\ batch' = [Advance EXCEPT !.left = @ \cup {batch.at}]
  /\ UNCHANGED <<text, document, onboarded, approval, jobs, backlog, deduplication,
                 receipts, runs, canonical, begun, late>>

\* create_job.  It finds no duplicate: the batch holds the lock since the
\* indexes were built.
Create ==
  /\ Checked("create")
  /\ jobs' = Append(jobs, Created(Item))
  /\ batch' = [Advance EXCEPT !.canonical[Key(Item.posting)] = Len(jobs) + 1]
  /\ Write
  /\ UNCHANGED <<text, document, onboarded, approval, backlog, deduplication,
                 receipts, runs, canonical, begun>>

-----------------------------------------------------------------------------
(* The end of a batch *)

\* The evidence of the run is written last.
RecordRun ==
  /\ Checked("record")
  /\ runs' = runs \cup {[items |-> batch.items, under |-> batch.under,
                         canonical |-> batch.canonical, left |-> batch.left]}
  /\ batch' = Onward("merge")
  /\ Write
  /\ UNCHANGED <<text, document, onboarded, approval, jobs, backlog, deduplication,
                 receipts, canonical, begun>>

\* merge_discovery_state: a key that stands for another job already is refused.
Agrees ==
  \A k \in Keys : \/ NoJob \in {canonical[k], batch.canonical[k]}
                 \/ batch.canonical[k] = canonical[k]

Merge ==
  /\ In("merge")
  /\ Agrees
  /\ canonical' = [k \in Keys |-> IF batch.canonical[k] = NoJob THEN canonical[k]
                                  ELSE batch.canonical[k]]
  /\ batch' = Idle /\ late' = NoneLate
  /\ UNCHANGED <<text, document, onboarded, approval, jobs, backlog, deduplication,
                 receipts, runs, begun>>

\* A check or the merge raises, or the process dies: what was written stays.
Stop ==
  /\ batch # Idle
  /\ batch' = Idle /\ late' = NoneLate
  /\ UNCHANGED <<text, document, onboarded, approval, jobs, backlog, deduplication,
                 receipts, runs, canonical, begun>>

\* load_indexes, by whoever reads them
LoadIndexes ==
  /\ batch = Idle
  /\ backlog # jobs \/ deduplication # jobs
  /\ backlog' = jobs /\ deduplication' = jobs
  /\ UNCHANGED <<text, document, onboarded, approval, jobs, receipts, runs,
                 canonical, batch, begun, late>>

-----------------------------------------------------------------------------
Criteria == EditReadable \/ EditStructured \/ ApproveReadable \/ ApproveStructured

Deliver ==
  \/ Validate \/ CheckReadable \/ CheckStructured \/ Start
  \/ WriteBacklog \/ WriteDeduplication
  \/ Reverify \/ PersistReceipt \/ LeaveAmbiguous \/ Create
  \/ RecordRun \/ Merge

Next ==
  \/ Criteria
  \/ \E items \in Batches : Begin(items)
  \/ Deliver
  \/ Stop
  \/ LoadIndexes

Spec == Init /\ [][Next]_vars

-----------------------------------------------------------------------------
TypeOK ==
  /\ text \in Versions /\ onboarded \in Versions
  /\ document \in Documents \cup {NoDocument}
  /\ approval \in Documents \cup {NoDocument}
  /\ jobs \in Seq(Job)
  /\ backlog \in Seq(Job) \cup {NoIndex}
  /\ deduplication \in Seq(Job) \cup {NoIndex}
  /\ receipts \subseteq Receipt
  /\ begun \in 0..MaxDeliveries
  /\ runs \subseteq [items : Batches, under : Documents \cup {NoDocument},
                     canonical : [Keys -> Nat], left : SUBSET Nat]
  /\ canonical \in [Keys -> Nat]
  /\ batch \in Delivery \cup {Idle}
  /\ batch # Idle => batch.at \in 1..(Len(batch.items) + 1)
  /\ late \in [Inputs -> Nat]

\* A job on which no person or assessor has decided "non_match" is not beyond
\* doubt excluded by the criteria under which it was last assessed, whatever
\* its assessment said (_validate_review_batch, _evaluate_rule).
NoJobIsExcluded ==
  \A id \in DOMAIN jobs :
    LET j == jobs[id] IN
      j.disposition # "non_match" => Exclusions(RulesOf(j.under), j.posting, j.evidence) = {}

\* A receipt says that a hard filter rejected a posting exactly when nothing
\* which its evidence leaves possible satisfies some exclusion: missing,
\* disputed, foreign or open evidence rejects nothing (_select_evidence,
\* _validated_evidence, _persist_rejection_receipt).
OnlyTheExcludedAreRejected ==
  \A r \in receipts :
    r.decision = "hard_filter_rejection"
      <=> Exclusions(RulesOf(r.under), r.posting, r.evidence) # {}

\* What an item leaves behind: a rejected one its receipt, any other the job
\* that the run calls canonical for it, which carries the requisition of the
\* posting if that states one, unless several jobs came into question.
Accounted(item, under, canon, left) ==
  IF HardRejected(item, under) \/ item.disposition = "non_match"
  THEN \E r \in receipts : /\ r.posting = item.posting /\ r.under = under
                          /\ r.evidence = item.evidence
  ELSE IF left THEN Len(jobs) > 1
  ELSE /\ canon[Key(item.posting)] \in DOMAIN jobs
       /\ IdentityOf[item.posting].req # NoReq
            => jobs[canon[Key(item.posting)]].req = IdentityOf[item.posting].req

\* The evidence of a run is there only when each of its items is accounted for,
\* whatever died before, and remains so whatever later deliveries fill in or
\* replace in its jobs (_deliver_reviewed_jobs_locked, reverify_job).
RunsAccountForEveryItem ==
  \A run \in runs : \A k \in DOMAIN run.items :
    Accounted(run.items[k], run.under, run.canonical, k \in run.left)

\* When people change the criteria or their approval while a batch is being
\* delivered, it writes at most what its last check had passed already: one
\* job, receipt or run, for as long as the change stands
\* (_revalidate_approved_inputs).
ChangedCriteriaStopTheBatch == \A i \in Inputs : late[i] <= 1

\* When a run is recorded, both index files describe every job, although a
\* delivery that died may have left them of different jobs (rebuild_indexes,
\* _write_indexes).
RecordedMeansIndexed ==
  [][runs' # runs => backlog = jobs /\ deduplication = jobs]_vars

\* "An interrupted delivery is safe to replay through canonical deduplication."
\* (src/career_pipeline/review_queue.py:655): what a delivery has written can be
\* merged into the state of discovery.
FinishedDeliveriesMerge == In("merge") => Agrees
=============================================================================
