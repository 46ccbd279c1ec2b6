--------------------------- MODULE JobStoreProofs ---------------------------
(***************************************************************************)
(* Proofs about JobStore for every number of processes, jobs, captures and *)
(* times.                                                                  *)
(***************************************************************************)
EXTENDS JobStore, TLAPS

-----------------------------------------------------------------------------
(* The record operators.                                                    *)

\* A later record of the same job: no time went back, no requisition was lost.
Follows(old, new) ==
  /\ new.verifiedAt >= old.verifiedAt
  /\ new.assessedAt >= old.assessedAt
  /\ new.reverifiedAt >= old.reverifiedAt
  /\ old.req # NoReq => new.req = old.req

\* A fresh record is a well-formed "new" record of its posting and assessment.
LEMMA BuildRecordType ==
  ASSUME NEW candidate \in Candidate, NEW a \in Assessments, NEW at \in Nat
  PROVE  /\ BuildRecord(candidate, a, at) \in Job
         /\ BuildRecord(candidate, a, at).status = "new"
         /\ BuildRecord(candidate, a, at).evidence = candidate.evidence
         /\ BuildRecord(candidate, a, at).assessment = a
  BY DEF BuildRecord, Job, Candidate, Statuses

\* Changing only the status keeps a record well formed and its documents named.
LEMMA StatusUpdateType ==
  ASSUME NEW job \in Job, NEW status \in Statuses
  PROVE  /\ [job EXCEPT !.status = status] \in Job
         /\ [job EXCEPT !.status = status].status = status
         /\ [job EXCEPT !.status = status].evidence = job.evidence
         /\ [job EXCEPT !.status = status].assessment = job.assessment
         /\ [job EXCEPT !.status = status].req = job.req
         /\ Follows(job, [job EXCEPT !.status = status])
  BY DEF Job, Follows

\* A record with the same times and requisition follows.
LEMMA SameTimesFollow ==
  ASSUME NEW job \in Job, NEW new,
         new.verifiedAt = job.verifiedAt, new.assessedAt = job.assessedAt,
         new.reverifiedAt = job.reverifiedAt, new.req = job.req
  PROVE  Follows(job, new)
<1>1. job.verifiedAt \in Nat /\ job.assessedAt \in Nat /\ job.reverifiedAt \in Nat
  BY DEF Job
<1> QED BY <1>1 DEF Follows

\* Adding a version and moving the status leaves the rest of a record alone.
LEMMA VersionUpdateType ==
  ASSUME NEW job \in Job, NEW status \in Statuses, NEW version \in Version
  PROVE  LET new == [job EXCEPT !.versions = @ \cup {version}, !.status = status]
         IN  /\ new \in Job
             /\ new.status = status
             /\ new.evidence = job.evidence
             /\ new.assessment = job.assessment
             /\ new.req = job.req
             /\ Follows(job, new)
<1> DEFINE new == [job EXCEPT !.versions = @ \cup {version}, !.status = status]
<1>1. /\ new \in Job /\ new.status = status
      /\ new.evidence = job.evidence /\ new.assessment = job.assessment
      /\ new.verifiedAt = job.verifiedAt /\ new.assessedAt = job.assessedAt
      /\ new.reverifiedAt = job.reverifiedAt /\ new.req = job.req
  BY DEF Job
<1>2. Follows(job, new)
  BY <1>1, SameTimesFollow
<1> QED BY <1>1, <1>2

\* Adding an export receipt leaves the rest of a record alone.
LEMMA ExportUpdateType ==
  ASSUME NEW job \in Job, NEW receipt \in Receipts
  PROVE  LET new == [job EXCEPT !.exports = @ \cup {receipt}]
         IN  /\ new \in Job
             /\ new.status = job.status
             /\ new.evidence = job.evidence
             /\ new.assessment = job.assessment
             /\ new.req = job.req
             /\ Follows(job, new)
  BY DEF Job, Follows

\* What a re-verification leaves: its evidence and assessment are the fresh ones
\* exactly when the documents are rewritten, its times do not go back, and its
\* requisition survives when the posting denotes the same opportunity.
LEMMA ReverifiedType ==
  ASSUME NEW job \in Job, NEW candidate \in Candidate, NEW a \in Assessments,
         NEW at \in Nat,
         candidate.req # NoReq => job.req \in {NoReq, candidate.req}
  PROVE  LET new == Reverified(job, candidate, a, at)
         IN  /\ new \in Job
             /\ new.status = job.status
             /\ new.evidence = IF ReplacesEvidence(job, candidate)
                               THEN candidate.evidence ELSE job.evidence
             /\ new.assessment = IF ReplacesAssessment(job, a, at)
                                 THEN a ELSE job.assessment
             /\ new.req \in {job.req} \cup ({candidate.req} \ {NoReq})
             /\ Follows(job, new)
<1> DEFINE new == Reverified(job, candidate, a, at)
<1>1. RequisitionAfter(job, candidate) \in Reqs \cup {NoReq}
  BY DEF RequisitionAfter, Job, Candidate
<1>2. \A t, u \in Nat : Latest(t, u) \in Nat /\ Latest(t, u) >= t
  BY DEF Latest
<1>3. ReplacesEvidence(job, candidate) \/ ConfirmsEvidence(job, candidate)
        => candidate.verifiedAt >= job.verifiedAt
  BY DEF ReplacesEvidence, ConfirmsEvidence, EvidenceIsCurrent
<1>4. new \in Job
  BY <1>1, <1>2, ZenonT(60) DEF Reverified, Job, Candidate
<1>5. /\ new.status = job.status
      /\ new.evidence = IF ReplacesEvidence(job, candidate)
                        THEN candidate.evidence ELSE job.evidence
      /\ new.assessment = IF ReplacesAssessment(job, a, at)
                          THEN a ELSE job.assessment
  BY DEF Reverified, Job
<1>6. /\ new.verifiedAt >= job.verifiedAt
      /\ new.assessedAt >= job.assessedAt
      /\ new.reverifiedAt >= job.reverifiedAt
  BY <1>2, <1>3 DEF Reverified, Job, Candidate
<1>7. new.req = RequisitionAfter(job, candidate)
  BY DEF Reverified, Job
<1>8. job.req # NoReq => new.req = job.req
  BY <1>7 DEF RequisitionAfter
<1>9. new.req \in {job.req} \cup ({candidate.req} \ {NoReq})
  BY <1>7 DEF RequisitionAfter
<1> QED BY <1>4, <1>5, <1>6, <1>8, <1>9 DEF Follows

\* A posting with a requisition denotes only a job with the same requisition or
\* one that has none.
LEMMA DenotedRequisition ==
  ASSUME NEW candidate, NEW existing, NEW j,
         ResolveIdentity(candidate, existing) = {j}, candidate.req # NoReq
  PROVE  existing[j].req \in {NoReq, candidate.req}
  BY DEF ResolveIdentity, SameRequisition, SameFallback

-----------------------------------------------------------------------------
(* The inductive invariant.                                                 *)

\* A process is past the lock exactly when it holds it.
LockInv == \A p \in Procs : pc[p] # "idle" <=> lock = p

\* A process that replays has the only journal there is; one that operates
\* has none before it.
ReplayInv ==
  \A p \in Procs :
    /\ pc[p] \in ReplaySteps => target[p] \in Ids /\ Pending = {target[p]}
    /\ pc[p] \in {"open", "batch", "create", "done"} => Pending = {}

\* There is at most one journal in the workspace.
OneJournal == \A i, j \in Pending : i = j

\* What the journal of a job says is a legal successor of the job: its event
\* ends in its status, and the documents it rewrites, with those it leaves
\* alone, are the ones its record names.
JournalFits(j) ==
  /\ Exists(j)
  /\ Follows(jobs[j], journal[j].job)
  /\ journal[j].event.status = journal[j].job.status
  /\ journal[j].posting # NoText => journal[j].posting = journal[j].job.evidence
  /\ journal[j].posting = NoText => posting[j] = journal[j].job.evidence
  /\ journal[j].assessment # NoText => journal[j].assessment = journal[j].job.assessment
  /\ journal[j].assessment = NoText => assessment[j] = journal[j].job.assessment

JournalInv == \A j \in Pending : JournalFits(j)

\* What a replay has written so far.
ProgressInv ==
  \A p \in Procs :
    LET j == target[p]
    IN  /\ pc[p] \in {"assessment", "posting", "record", "clear"} =>
             Recorded(events[j], journal[j].event)
        /\ pc[p] \in {"posting", "record", "clear"} =>
             assessment[j] = journal[j].job.assessment
        /\ pc[p] \in {"record", "clear"} => posting[j] = journal[j].job.evidence
        /\ pc[p] = "clear" => jobs[j] = journal[j].job

\* The counter is ahead of every folder and of the folder being created.
CounterInv ==
  /\ \A j \in Existing : j < nextId
  /\ \A p \in Procs : pc[p] = "create" =>
       /\ draft[p] \in DraftJob
       /\ draft[p].id < nextId
       /\ ~Exists(draft[p].id)

IInv == /\ TypeOK
        /\ LockInv
        /\ ReplayInv
        /\ OneJournal
        /\ JournalInv
        /\ ProgressInv
        /\ CounterInv
        /\ FilesAgree

-----------------------------------------------------------------------------
(* Lemmas about the pieces of an action.                                    *)

\* The only pending job is the first one.
LEMMA FirstOfOne ==
  ASSUME NEW j \in Ids
  PROVE  First({j}) = j
  BY DEF First, Ids

\* An event is recorded once WithEvent was applied, and nothing is lost.
LEMMA WithEventFacts ==
  ASSUME NEW log \in Seq(Event), NEW event \in Event
  PROVE  /\ WithEvent(log, event) \in Seq(Event)
         /\ Recorded(WithEvent(log, event), event)
         /\ WithEvent(WithEvent(log, event), event) = WithEvent(log, event)
         /\ Len(log) <= Len(WithEvent(log, event))
         /\ \A k \in DOMAIN log : /\ k \in DOMAIN WithEvent(log, event)
                                  /\ WithEvent(log, event)[k] = log[k]
<1>1. CASE Recorded(log, event)
  BY <1>1 DEF WithEvent
<1>2. CASE ~Recorded(log, event)
  <2>1. WithEvent(log, event) = Append(log, event)
    BY <1>2 DEF WithEvent
  <2>2. /\ Append(log, event) \in Seq(Event)
        /\ Len(Append(log, event)) = Len(log) + 1
        /\ Append(log, event)[Len(log) + 1] = event
        /\ \A k \in 1..Len(log) : Append(log, event)[k] = log[k]
        /\ DOMAIN log = 1..Len(log)
        /\ DOMAIN Append(log, event) = 1..(Len(log) + 1)
        /\ Len(log) \in Nat
    OBVIOUS
  <2>3. Recorded(Append(log, event), event)
    BY <2>2 DEF Recorded
  <2>4. WithEvent(Append(log, event), event) = Append(log, event)
    BY <2>3 DEF WithEvent
  <2>5. Len(log) <= Len(Append(log, event))
    BY <2>2
  <2>6. \A k \in DOMAIN log : /\ k \in DOMAIN Append(log, event)
                              /\ Append(log, event)[k] = log[k]
    BY <2>2
  <2> QED
    BY <2>1, <2>2, <2>3, <2>4, <2>5, <2>6
<1> QED BY <1>1, <1>2

\* A commit that the invariant can rely on.
ValidCommit(p, j, job, event, newPosting, newAssessment, place) ==
  /\ pc[p] \in {"open", "batch"}
  /\ j \in Ids
  /\ Exists(j)
  /\ job \in Job
  /\ Follows(jobs[j], job)
  /\ job.req = jobs[j].req \/ \A k \in Existing : jobs[k].req # job.req
  /\ event \in Event
  /\ event.prior = jobs[j].status
  /\ event.status = job.status
  /\ newPosting \in Evidence \cup {NoText}
  /\ newPosting # NoText => newPosting = job.evidence
  /\ newPosting = NoText => job.evidence = jobs[j].evidence
  /\ newAssessment \in Assessments \cup {NoText}
  /\ newAssessment # NoText => newAssessment = job.assessment
  /\ newAssessment = NoText => job.assessment = jobs[j].assessment
  /\ place \in {"batch", "done"}

\* One of the operations that commit through the journal.
CommitStep(p) ==
  \E j, job, event, newPosting, newAssessment, place :
    /\ ValidCommit(p, j, job, event, newPosting, newAssessment, place)
    /\ CommitMutation(p, j, job, event, newPosting, newAssessment, place)

\* MakeEvent makes well-formed events.
LEMMA EventType ==
  ASSUME NEW type \in EventTypes, NEW at \in Nat, NEW prior \in Statuses,
         NEW status \in Statuses, NEW detail \in Detail
  PROVE  /\ MakeEvent(type, at, prior, status, detail) \in Event
         /\ MakeEvent(type, at, prior, status, detail).prior = prior
         /\ MakeEvent(type, at, prior, status, detail).status = status
  BY DEF MakeEvent, Event

\* An existing job has a well-formed record.
LEMMA ExistingJob ==
  ASSUME TypeOK, NEW j \in Ids, Exists(j)
  PROVE  /\ jobs[j] \in Job
         /\ jobs[j].status \in Statuses
         /\ jobs[j].evidence \in Evidence
         /\ jobs[j].assessment \in Assessments
<1>1. jobs[j] \in Job
  BY DEF TypeOK, Exists
<1> QED BY <1>1 DEF Job

\* update_job_status, whoever calls it, is a valid commit.
LEMMA ChangeStatusCommits ==
  ASSUME TypeOK, NEW p \in Procs, NEW j \in Ids, NEW status \in Statuses,
         NEW at \in Stamps, NEW allowed, ChangeStatus(p, j, status, at, allowed)
  PROVE  CommitStep(p)
<1> DEFINE job == [jobs[j] EXCEPT !.status = status]
           event == MakeEvent("status_changed", at, jobs[j].status, status, NoDetail)
<1>1. Exists(j) /\ pc[p] = "open"
  BY DEF ChangeStatus, Admissible
<1>2. jobs[j] \in Job /\ jobs[j].status \in Statuses
  BY <1>1, ExistingJob
<1>3. job \in Job /\ job.status = status /\ job.evidence = jobs[j].evidence
      /\ job.assessment = jobs[j].assessment /\ Follows(jobs[j], job)
      /\ job.req = jobs[j].req
  BY <1>2, StatusUpdateType
<1>4. event \in Event /\ event.prior = jobs[j].status /\ event.status = status
  <2>1. NoDetail \in Detail /\ at \in Nat /\ "status_changed" \in EventTypes
    BY StoreAssumption DEF NoDetail, Detail, EventTypes
  <2> QED BY <2>1, <1>2, EventType
<1>5. ValidCommit(p, j, job, event, NoText, NoText, "done")
  BY <1>1, <1>3, <1>4 DEF ValidCommit
<1>6. CommitMutation(p, j, job, event, NoText, NoText, "done")
  BY DEF ChangeStatus
<1> QED BY <1>5, <1>6 DEF CommitStep

\* _record_lifecycle_status_observation_locked is a valid commit.
LEMMA ObserveStatusCommits ==
  ASSUME TypeOK, NEW p \in Procs, NEW j \in Ids, NEW at \in Stamps,
         ObserveStatus(p, j, at)
  PROVE  CommitStep(p)
<1> DEFINE event == MakeEvent("lifecycle_status_observed", at, jobs[j].status,
                              jobs[j].status, NoDetail)
<1>1. Exists(j) /\ pc[p] = "open"
  BY DEF ObserveStatus, Admissible
<1>2. jobs[j] \in Job /\ jobs[j].status \in Statuses
  BY <1>1, ExistingJob
<1>3. event \in Event /\ event.prior = jobs[j].status /\ event.status = jobs[j].status
  <2>1. /\ NoDetail \in Detail /\ at \in Nat
        /\ "lifecycle_status_observed" \in EventTypes
    BY StoreAssumption DEF NoDetail, Detail, EventTypes
  <2> QED BY <2>1, <1>2, EventType
<1>4. Follows(jobs[j], jobs[j])
  BY <1>2 DEF Follows, Job
<1>5. ValidCommit(p, j, jobs[j], event, NoText, NoText, "done")
  BY <1>1, <1>2, <1>3, <1>4 DEF ValidCommit
<1>6. CommitMutation(p, j, jobs[j], event, NoText, NoText, "done")
  BY DEF ObserveStatus
<1> QED BY <1>5, <1>6 DEF CommitStep

\* record_application_version is a valid commit.
LEMMA RecordVersionCommits ==
  ASSUME TypeOK, NEW p \in Procs, NEW j \in Ids, NEW version \in Version,
         NEW at \in Stamps, RecordVersion(p, j, version, at)
  PROVE  CommitStep(p)
<1> DEFINE status == StatusAfterDelivery(jobs[j].status)
           job == [jobs[j] EXCEPT !.versions = @ \cup {version}, !.status = status]
           type == IF status = "packet_ready" THEN "packet_ready"
                   ELSE "application_version_recorded"
           event == MakeEvent(type, at, jobs[j].status, status,
                              [version |-> version.version])
<1>1. Exists(j) /\ pc[p] = "open"
  BY DEF RecordVersion, Admissible
<1>2. jobs[j] \in Job /\ jobs[j].status \in Statuses
  BY <1>1, ExistingJob
<1>3. status \in Statuses
  BY <1>2 DEF StatusAfterDelivery, Statuses
<1>4. job \in Job /\ job.status = status /\ job.evidence = jobs[j].evidence
      /\ job.assessment = jobs[j].assessment /\ Follows(jobs[j], job)
      /\ job.req = jobs[j].req
  BY <1>2, <1>3, VersionUpdateType
<1>5. event \in Event /\ event.prior = jobs[j].status /\ event.status = status
  <2>1. [version |-> version.version] \in Detail
    BY DEF Detail, Version
  <2>2. at \in Nat /\ type \in EventTypes
    BY StoreAssumption DEF EventTypes
  <2> QED BY <2>1, <2>2, <1>2, <1>3, EventType
<1>6. ValidCommit(p, j, job, event, NoText, NoText, "done")
  BY <1>1, <1>4, <1>5 DEF ValidCommit
<1>7. CommitMutation(p, j, job, event, NoText, NoText, "done")
  BY DEF RecordVersion
<1> QED BY <1>6, <1>7 DEF CommitStep

\* record_export_receipt is a valid commit.
LEMMA RecordExportCommits ==
  ASSUME TypeOK, NEW p \in Procs, NEW j \in Ids, NEW receipt \in Receipts,
         NEW at \in Stamps, RecordExport(p, j, receipt, at)
  PROVE  CommitStep(p)
<1> DEFINE job == [jobs[j] EXCEPT !.exports = @ \cup {receipt}]
           event == MakeEvent("export_verified", at, jobs[j].status, jobs[j].status,
                              [receipt |-> receipt])
<1>1. Exists(j) /\ pc[p] = "open"
  BY DEF RecordExport, Admissible
<1>2. jobs[j] \in Job /\ jobs[j].status \in Statuses
  BY <1>1, ExistingJob
<1>3. job \in Job /\ job.status = jobs[j].status /\ job.evidence = jobs[j].evidence
      /\ job.assessment = jobs[j].assessment /\ Follows(jobs[j], job)
      /\ job.req = jobs[j].req
  BY <1>2, ExportUpdateType
<1>4. event \in Event /\ event.prior = jobs[j].status /\ event.status = jobs[j].status
  <2>1. [receipt |-> receipt] \in Detail
    BY DEF Detail
  <2>2. at \in Nat /\ "export_verified" \in EventTypes
    BY StoreAssumption DEF EventTypes
  <2> QED BY <2>1, <2>2, <1>2, EventType
<1>5. ValidCommit(p, j, job, event, NoText, NoText, "done")
  BY <1>1, <1>3, <1>4 DEF ValidCommit
<1>6. CommitMutation(p, j, job, event, NoText, NoText, "done")
  BY DEF RecordExport
<1> QED BY <1>5, <1>6 DEF CommitStep

\* reverify_job, for the job that its posting denotes, is a valid commit.
LEMMA ReverifyCommits ==
  ASSUME TypeOK, NEW p \in Procs, NEW candidate \in Candidates,
         NEW a \in Assessments, NEW at \in Stamps, Reverify(p, candidate, a, at)
  PROVE  CommitStep(p)
<1>1. PICK j \in Ids :
        /\ Exists(j)
        /\ ResolveIdentity(candidate, [k \in Existing |-> jobs[k]]) = {j}
        /\ CommitMutation(p, j, Reverified(jobs[j], candidate, a, at),
              MakeEvent("job_reverified", at, jobs[j].status, jobs[j].status,
                ReverificationDetail(jobs[j], Reverified(jobs[j], candidate, a, at),
                                     candidate, a, at)),
              IF ReplacesEvidence(jobs[j], candidate) THEN candidate.evidence ELSE NoText,
              IF ReplacesAssessment(jobs[j], a, at) THEN a ELSE NoText,
              "batch")
  <2>1. PICK j \in Ids :
          /\ ResolveIdentity(candidate, [k \in Existing |-> jobs[k]]) = {j}
          /\ Admissible(j, at)
          /\ LET updated == Reverified(jobs[j], candidate, a, at)
             IN  CommitMutation(p, j, updated,
                   MakeEvent("job_reverified", at, jobs[j].status, jobs[j].status,
                     ReverificationDetail(jobs[j], updated, candidate, a, at)),
                   IF ReplacesEvidence(jobs[j], candidate)
                   THEN candidate.evidence ELSE NoText,
                   IF ReplacesAssessment(jobs[j], a, at) THEN a ELSE NoText,
                   "batch")
    BY Zenon DEF Reverify
  <2>2. Exists(j)
    BY <2>1 DEF Admissible
  <2> QED BY <2>1, <2>2, Zenon
<1> DEFINE job == Reverified(jobs[j], candidate, a, at)
           detail == ReverificationDetail(jobs[j], job, candidate, a, at)
           event == MakeEvent("job_reverified", at, jobs[j].status, jobs[j].status, detail)
           newPosting == IF ReplacesEvidence(jobs[j], candidate)
                         THEN candidate.evidence ELSE NoText
           newAssessment == IF ReplacesAssessment(jobs[j], a, at) THEN a ELSE NoText
<1>2. jobs[j] \in Job /\ jobs[j].status \in Statuses
      /\ jobs[j].assessment \in Assessments
  BY <1>1, ExistingJob
<1>3. candidate \in Candidate /\ at \in Nat /\ pc[p] \in {"open", "batch"}
  BY RecordAssumption, StoreAssumption DEF Reverify
<1>4. candidate.req # NoReq => jobs[j].req \in {NoReq, candidate.req}
  <2>1. [k \in Existing |-> jobs[k]][j] = jobs[j]
    BY <1>1 DEF Existing
  <2>2. ResolveIdentity(candidate, [k \in Existing |-> jobs[k]]) = {j}
    BY <1>1
  <2> QED BY <2>1, <2>2, DenotedRequisition
<1>5. /\ job \in Job
      /\ Follows(jobs[j], job)
      /\ job.req \in {jobs[j].req} \cup ({candidate.req} \ {NoReq})
      /\ job.status = jobs[j].status
      /\ job.evidence = IF ReplacesEvidence(jobs[j], candidate)
                        THEN candidate.evidence ELSE jobs[j].evidence
      /\ job.assessment = IF ReplacesAssessment(jobs[j], a, at)
                          THEN a ELSE jobs[j].assessment
  BY <1>2, <1>3, <1>4, ReverifiedType
<1>6. job.req = jobs[j].req \/ \A k \in Existing : jobs[k].req # job.req
  <2> SUFFICES ASSUME job.req # jobs[j].req, NEW k \in Existing
               PROVE  jobs[k].req # job.req
    OBVIOUS
  <2>1. job.req = candidate.req /\ candidate.req # NoReq
    BY <1>5
  <2>2. jobs[j].req # candidate.req
    BY <2>1
  <2> DEFINE existing == [i \in Existing |-> jobs[i]]
  <2>3. existing[j] = jobs[j] /\ existing[k] = jobs[k] /\ DOMAIN existing = Existing
    BY <1>1 DEF Existing
  <2>4. ResolveIdentity(candidate, existing) = {j}
    BY <1>1
  <2> HIDE DEF existing
  <2>5. SameRequisition(candidate, existing) = {}
    BY <2>1, <2>2, <2>3, <2>4 DEF ResolveIdentity, SameRequisition
  <2> QED BY <2>1, <2>3, <2>5 DEF SameRequisition
<1>7. detail \in Detail
  <2>1. job.assessment \in Assessments /\ candidate.source \in STRING
    BY <1>3, <1>5, <1>2 DEF Candidate
  <2>2. {f \in ReportedFields : job[f] # jobs[j][f]} \in SUBSET ReportedFields
    <3> HIDE DEF job
    <3> QED OBVIOUS
  <2>3. EvidenceIsCurrent(jobs[j], candidate) \in BOOLEAN
    BY DEF EvidenceIsCurrent
  <2> QED BY <2>1, <2>2, <2>3, <1>2 DEF ReverificationDetail, Detail
<1>8. event \in Event /\ event.prior = jobs[j].status /\ event.status = jobs[j].status
  <2>1. "job_reverified" \in EventTypes
    BY DEF EventTypes
  <2> QED BY <2>1, <1>2, <1>3, <1>7, EventType
<1>9. candidate.evidence \in Evidence /\ NoText \notin Evidence \cup Assessments
  BY <1>3, StoreAssumption DEF Candidate
<1>10. ValidCommit(p, j, job, event, newPosting, newAssessment, "batch")
  <2> HIDE DEF event
  <2> QED BY <1>1, <1>3, <1>5, <1>8, <1>9, <1>6 DEF ValidCommit
<1> QED BY <1>1, <1>10 DEF CommitStep

\* Every operation is a valid commit, a reservation or a step of create_job.
LEMMA OperationCases ==
  ASSUME TypeOK, NEW p \in Procs, Operation(p)
  PROVE  \/ CommitStep(p)
         \/ \E j \in Ids : ReserveVersion(p, j)
         \/ \E candidate \in Candidates, at \in Stamps, a \in Qualifying :
               AllocateId(p, candidate, a, at)
         \/ PublishJob(p)
<1>1. ASSUME NEW j \in Ids, NEW at \in Stamps, NEW status \in RequestedStatuses,
             UpdateStatus(p, j, status, at)
      PROVE  CommitStep(p)
  BY <1>1, ChangeStatusCommits, StoreAssumption DEF UpdateStatus
<1>2. ASSUME NEW j \in Ids, NEW at \in Stamps, NEW restart \in BOOLEAN,
             PrepareApplication(p, j, at, restart)
      PROVE  CommitStep(p)
  <2>1. "prepare_application" \in Statuses
    BY DEF Statuses
  <2> QED BY <1>2, <2>1, ChangeStatusCommits DEF PrepareApplication
<1> QED
  BY <1>1, <1>2, ObserveStatusCommits, RecordVersionCommits, RecordExportCommits,
     ReverifyCommits DEF Operation

-----------------------------------------------------------------------------
(* The invariant is inductive.                                              *)

\* The empty workspace satisfies the invariant.
LEMMA InitIInv == Init => IInv
<1> SUFFICES ASSUME Init PROVE IInv
  OBVIOUS
<1>1. Pending = {} /\ Existing = {}
  BY DEF Init, Pending, Existing, Exists
<1>2. TypeOK
  <2>1. 1 \in 1..(MaxId + 1) /\ 0 \in 0..MaxVersion
    BY StoreAssumption, RecordAssumption
  <2>2. \A j \in Ids : <<>> \in Seq(Event)
    OBVIOUS
  <2> QED BY <2>1, <2>2 DEF Init, TypeOK, Places
<1>3. LockInv
  BY StoreAssumption DEF Init, LockInv
<1>4. ReplayInv /\ ProgressInv
  BY DEF Init, ReplayInv, ProgressInv, ReplaySteps
<1>5. OneJournal /\ JournalInv /\ FilesAgree
  BY <1>1 DEF OneJournal, JournalInv, FilesAgree
<1>6. CounterInv
  BY <1>1 DEF Init, CounterInv
<1> QED BY <1>2, <1>3, <1>4, <1>5, <1>6 DEF IInv

\* While a process is past the lock every other process is outside.
LEMMA Alone ==
  ASSUME IInv, NEW p \in Procs, pc[p] # "idle"
  PROVE  lock = p /\ \A q \in Procs \ {p} : pc[q] = "idle"
  BY DEF IInv, LockInv

\* Taking the lock finds at most one journal, and starts to replay it.
LEMMA AcquireIInv ==
  ASSUME IInv, NEW p \in Procs, Acquire(p)
  PROVE  IInv'
<1>1. /\ pc[p] = "idle" /\ lock = Free /\ lock' = p
      /\ UNCHANGED <<nextId, jobs, posting, assessment, events, journal, reserved, draft>>
  BY DEF Acquire, files
<1>2. \A q \in Procs : pc[q] = "idle"
  BY <1>1, StoreAssumption DEF IInv, LockInv
<1>3. /\ pc' = [pc EXCEPT ![p] = IF Pending = {} THEN "open" ELSE "event"]
      /\ target' = [target EXCEPT ![p] = IF Pending = {} THEN 0 ELSE First(Pending)]
      /\ resume' = [resume EXCEPT ![p] = "open"]
  BY DEF Acquire, ReplayThen
<1>4. Pending # {} => First(Pending) \in Ids /\ Pending = {First(Pending)}
  <2> SUFFICES ASSUME NEW j \in Pending PROVE First(Pending) = j /\ j \in Ids /\ Pending = {j}
    BY Zenon
  <2>1. Pending = {j} /\ j \in Ids
    BY DEF IInv, OneJournal, Pending
  <2> QED BY <2>1, FirstOfOne
<1>5. Pending' = Pending /\ Existing' = Existing
  BY <1>1 DEF Pending, Existing, Exists
<1>6. TypeOK'
  BY <1>1, <1>3, <1>4 DEF IInv, TypeOK, Places, ReplaySteps
<1>7. LockInv'
  BY <1>1, <1>2, <1>3 DEF LockInv, IInv, TypeOK
<1>8. ReplayInv'
  BY <1>2, <1>3, <1>4, <1>5 DEF ReplayInv, IInv, TypeOK, ReplaySteps
<1>9. OneJournal' /\ JournalInv' /\ FilesAgree'
  BY <1>1, <1>5 DEF IInv, OneJournal, JournalInv, JournalFits, FilesAgree, Exists
<1>10. ProgressInv'
  BY <1>2, <1>3 DEF ProgressInv, IInv, TypeOK
<1>11. CounterInv'
  BY <1>1, <1>2, <1>3, <1>5 DEF CounterInv, IInv, TypeOK
<1> QED BY <1>6, <1>7, <1>8, <1>9, <1>10, <1>11 DEF IInv

\* A process leaves, in order or by dying: no file changes.
LEMMA LeaveIInv ==
  ASSUME IInv, NEW p \in Procs, Release(p) \/ Crash(p)
  PROVE  IInv'
<1>1. /\ pc[p] # "idle" /\ lock' = Free
      /\ UNCHANGED <<nextId, jobs, posting, assessment, events, journal, reserved>>
      /\ pc' = [pc EXCEPT ![p] = "idle"]
  BY DEF Release, Crash, files
<1>2. \A q \in Procs : pc'[q] = "idle"
  BY <1>1, Alone DEF IInv, TypeOK
<1>3. Pending' = Pending /\ Existing' = Existing
  BY <1>1 DEF Pending, Existing, Exists
<1>4. TypeOK'
  <2>1. /\ target' \in [Procs -> Ids \cup {0}]
        /\ resume' \in [Procs -> {"open", "batch", "done"}]
        /\ draft' \in [Procs -> DraftJob \cup {NoDraft}]
    BY DEF Release, Crash, IInv, TypeOK
  <2>2. pc' \in [Procs -> Places]
    BY <1>1 DEF IInv, TypeOK, Places
  <2> QED BY <1>1, <2>1, <2>2 DEF IInv, TypeOK
<1>5. LockInv'
  BY <1>1, <1>2, StoreAssumption DEF LockInv
<1>6. ReplayInv' /\ ProgressInv'
  BY <1>2 DEF ReplayInv, ProgressInv, ReplaySteps
<1>7. OneJournal' /\ JournalInv' /\ FilesAgree'
  BY <1>1, <1>3 DEF IInv, OneJournal, JournalInv, JournalFits, FilesAgree, Exists
<1>8. CounterInv'
  BY <1>1, <1>2, <1>3 DEF CounterInv, IInv
<1> QED BY <1>4, <1>5, <1>6, <1>7, <1>8 DEF IInv

\* What a process that replays relies on: it is alone, the journal it replays
\* is well formed, and it is the only one.
LEMMA Replaying ==
  ASSUME IInv, NEW p \in Procs, pc[p] \in ReplaySteps
  PROVE  LET j == target[p]
         IN  /\ j \in Ids /\ Pending = {j}
             /\ jobs[j] \in Job /\ journal[j] \in Mutation
             /\ \A k \in Ids : journal[k] # NoJournal <=> k = j
             /\ lock = p
             /\ \A q \in Procs \ {p} : pc[q] = "idle"
             /\ JournalFits(j)
<1> DEFINE j == target[p]
<1>1. j \in Ids /\ Pending = {j}
  BY DEF IInv, ReplayInv
<1>2. \A k \in Ids : journal[k] # NoJournal <=> k = j
  BY <1>1 DEF Pending
<1>3. JournalFits(j)
  BY <1>1 DEF IInv, JournalInv
<1>4. jobs[j] \in Job /\ journal[j] \in Mutation
  BY <1>1, <1>2, <1>3 DEF JournalFits, Exists, IInv, TypeOK
<1>5. lock = p /\ \A q \in Procs \ {p} : pc[q] = "idle"
  BY Alone DEF ReplaySteps
<1> QED BY <1>1, <1>2, <1>3, <1>4, <1>5

\* The event of the journal is in the log after the first step of a replay.
LEMMA ReplayEventIInv ==
  ASSUME IInv, NEW p \in Procs, ReplayEvent(p)
  PROVE  IInv'
<1> DEFINE j == target[p]
<1>1. /\ pc[p] = "event" /\ pc' = [pc EXCEPT ![p] = "assessment"]
      /\ events' = [events EXCEPT ![j] = WithEvent(events[j], journal[j].event)]
      /\ UNCHANGED <<nextId, jobs, posting, assessment, journal, reserved,
                     lock, target, resume, draft>>
  BY DEF ReplayEvent
<1>2. /\ j \in Ids /\ Pending = {j}
      /\ jobs[j] \in Job /\ journal[j] \in Mutation
      /\ \A k \in Ids : journal[k] # NoJournal <=> k = j
      /\ lock = p
      /\ \A q \in Procs \ {p} : pc[q] = "idle"
      /\ JournalFits(j)
  BY <1>1, Replaying DEF ReplaySteps
<1>3. /\ WithEvent(events[j], journal[j].event) \in Seq(Event)
      /\ Recorded(WithEvent(events[j], journal[j].event), journal[j].event)
  <2>1. events[j] \in Seq(Event) /\ journal[j].event \in Event
    BY <1>2 DEF IInv, TypeOK, Mutation
  <2> QED BY <2>1, WithEventFacts
<1>4. Pending' = Pending /\ Existing' = Existing
  BY <1>1 DEF Pending, Existing, Exists
<1>5. /\ events' \in [Ids -> Seq(Event)]
      /\ events'[j] = WithEvent(events[j], journal[j].event)
      /\ \A k \in Ids \ {j} : events'[k] = events[k]
  BY <1>1, <1>2, <1>3 DEF IInv, TypeOK
<1>6. TypeOK'
  BY <1>1, <1>5 DEF IInv, TypeOK, Places, ReplaySteps
<1>7. LockInv'
  BY <1>1, <1>2 DEF LockInv, IInv, TypeOK
<1>8. ReplayInv'
  BY <1>1, <1>2, <1>4 DEF ReplayInv, IInv, TypeOK, ReplaySteps
<1>9. OneJournal' /\ JournalInv'
  BY <1>1, <1>4 DEF IInv, OneJournal, JournalInv, JournalFits, Exists
<1>10. ProgressInv'
  BY <1>1, <1>2, <1>3, <1>5 DEF ProgressInv, IInv, TypeOK
<1>11. CounterInv'
  BY <1>1, <1>2, <1>4 DEF CounterInv, IInv, TypeOK, Exists
<1>12. FilesAgree'
  <2> SUFFICES ASSUME NEW k \in Existing, journal[k] = NoJournal
               PROVE  /\ posting[k] = jobs[k].evidence
                      /\ assessment[k] = jobs[k].assessment
                      /\ \E n \in DOMAIN events'[k] : events'[k][n].status = jobs[k].status
    BY <1>1, <1>4 DEF FilesAgree
  <2>1. k \in Ids /\ k # j
    BY <1>2 DEF Existing
  <2> QED BY <2>1, <1>5 DEF IInv, FilesAgree
<1> QED BY <1>6, <1>7, <1>8, <1>9, <1>10, <1>11, <1>12 DEF IInv

\* assessment.md is the one the journalled record names after the second step.
LEMMA ReplayAssessmentIInv ==
  ASSUME IInv, NEW p \in Procs, ReplayAssessment(p)
  PROVE  IInv'
<1> DEFINE j == target[p]
           new == IF journal[j].assessment = NoText THEN assessment[j]
                  ELSE journal[j].assessment
<1>1. /\ pc[p] = "assessment" /\ pc' = [pc EXCEPT ![p] = "posting"]
      /\ assessment' = [assessment EXCEPT ![j] = new]
      /\ UNCHANGED <<nextId, jobs, posting, events, journal, reserved,
                     lock, target, resume, draft>>
  BY DEF ReplayAssessment
<1>2. /\ j \in Ids /\ Pending = {j}
      /\ jobs[j] \in Job /\ journal[j] \in Mutation
      /\ \A k \in Ids : journal[k] # NoJournal <=> k = j
      /\ lock = p
      /\ \A q \in Procs \ {p} : pc[q] = "idle"
      /\ JournalFits(j)
  BY <1>1, Replaying DEF ReplaySteps
<1>3. new \in Assessments \cup {NoText} /\ new = journal[j].job.assessment
  BY <1>2 DEF JournalFits, Mutation, IInv, TypeOK
<1>4. Pending' = Pending /\ Existing' = Existing
  BY <1>1 DEF Pending, Existing, Exists
<1>5. /\ assessment' \in [Ids -> Assessments \cup {NoText}]
      /\ assessment'[j] = new
      /\ \A k \in Ids \ {j} : assessment'[k] = assessment[k]
  BY <1>1, <1>2, <1>3 DEF IInv, TypeOK
<1> HIDE DEF new
<1>6. TypeOK'
  BY <1>1, <1>5 DEF IInv, TypeOK, Places, ReplaySteps
<1>7. LockInv'
  BY <1>1, <1>2 DEF LockInv, IInv, TypeOK
<1>8. ReplayInv'
  BY <1>1, <1>2, <1>4 DEF ReplayInv, IInv, TypeOK, ReplaySteps
<1>9. OneJournal' /\ JournalInv'
  BY <1>1, <1>2, <1>3, <1>4, <1>5 DEF IInv, OneJournal, JournalInv, JournalFits, Exists
<1>10. ProgressInv'
  BY <1>1, <1>2, <1>3, <1>5 DEF ProgressInv, IInv, TypeOK
<1>11. CounterInv'
  BY <1>1, <1>2, <1>4 DEF CounterInv, IInv, TypeOK, Exists
<1>12. FilesAgree'
  BY <1>1, <1>2, <1>4, <1>5 DEF FilesAgree, IInv, Existing
<1> QED BY <1>6, <1>7, <1>8, <1>9, <1>10, <1>11, <1>12 DEF IInv

\* posting.md is the one the journalled record names after the third step.
LEMMA ReplayPostingIInv ==
  ASSUME IInv, NEW p \in Procs, ReplayPosting(p)
  PROVE  IInv'
<1> DEFINE j == target[p]
           new == IF journal[j].posting = NoText THEN posting[j] ELSE journal[j].posting
<1>1. /\ pc[p] = "posting" /\ pc' = [pc EXCEPT ![p] = "record"]
      /\ posting' = [posting EXCEPT ![j] = new]
      /\ UNCHANGED <<nextId, jobs, assessment, events, journal, reserved,
                     lock, target, resume, draft>>
  BY DEF ReplayPosting
<1>2. /\ j \in Ids /\ Pending = {j}
      /\ jobs[j] \in Job /\ journal[j] \in Mutation
      /\ \A k \in Ids : journal[k] # NoJournal <=> k = j
      /\ lock = p
      /\ \A q \in Procs \ {p} : pc[q] = "idle"
      /\ JournalFits(j)
  BY <1>1, Replaying DEF ReplaySteps
<1>3. new \in Evidence \cup {NoText} /\ new = journal[j].job.evidence
  BY <1>2 DEF JournalFits, Mutation, IInv, TypeOK
<1>4. Pending' = Pending /\ Existing' = Existing
  BY <1>1 DEF Pending, Existing, Exists
<1>5. /\ posting' \in [Ids -> Evidence \cup {NoText}]
      /\ posting'[j] = new
      /\ \A k \in Ids \ {j} : posting'[k] = posting[k]
  BY <1>1, <1>2, <1>3 DEF IInv, TypeOK
<1> HIDE DEF new
<1>6. TypeOK'
  BY <1>1, <1>5 DEF IInv, TypeOK, Places, ReplaySteps
<1>7. LockInv'
  BY <1>1, <1>2 DEF LockInv, IInv, TypeOK
<1>8. ReplayInv'
  BY <1>1, <1>2, <1>4 DEF ReplayInv, IInv, TypeOK, ReplaySteps
<1>9. OneJournal' /\ JournalInv'
  BY <1>1, <1>2, <1>3, <1>4, <1>5 DEF IInv, OneJournal, JournalInv, JournalFits, Exists
<1>10. ProgressInv'
  BY <1>1, <1>2, <1>3, <1>5 DEF ProgressInv, IInv, TypeOK
<1>11. CounterInv'
  BY <1>1, <1>2, <1>4 DEF CounterInv, IInv, TypeOK, Exists
<1>12. FilesAgree'
  BY <1>1, <1>2, <1>4, <1>5 DEF FilesAgree, IInv, Existing
<1> QED BY <1>6, <1>7, <1>8, <1>9, <1>10, <1>11, <1>12 DEF IInv

\* job.json is the journalled record after the fourth step.
LEMMA ReplayRecordIInv ==
  ASSUME IInv, NEW p \in Procs, ReplayRecord(p)
  PROVE  IInv'
<1> DEFINE j == target[p]
<1>1. /\ pc[p] = "record" /\ pc' = [pc EXCEPT ![p] = "clear"]
      /\ jobs' = [jobs EXCEPT ![j] = journal[j].job]
      /\ UNCHANGED <<nextId, posting, assessment, events, journal, reserved,
                     lock, target, resume, draft>>
  BY DEF ReplayRecord
<1>2. /\ j \in Ids /\ Pending = {j}
      /\ jobs[j] \in Job /\ journal[j] \in Mutation
      /\ \A k \in Ids : journal[k] # NoJournal <=> k = j
      /\ lock = p
      /\ \A q \in Procs \ {p} : pc[q] = "idle"
      /\ JournalFits(j)
  BY <1>1, Replaying DEF ReplaySteps
<1>3. journal[j].job \in Job /\ journal[j].job # NoJob
  BY <1>2, StoreAssumption DEF Mutation
<1>4. /\ jobs' \in [Ids -> Job \cup {NoJob}]
      /\ jobs'[j] = journal[j].job
      /\ \A k \in Ids \ {j} : jobs'[k] = jobs[k]
      /\ \A k \in Ids : jobs'[k] # NoJob <=> Exists(k)
  <2>1. Exists(j)
    BY <1>2 DEF JournalFits
  <2> QED BY <1>1, <1>2, <1>3, <2>1 DEF IInv, TypeOK, Exists
<1>5. Pending' = Pending /\ Existing' = Existing
  BY <1>1, <1>4 DEF Pending, Existing, Exists
<1>6. TypeOK'
  BY <1>1, <1>4 DEF IInv, TypeOK, Places, ReplaySteps
<1>7. LockInv'
  BY <1>1, <1>2 DEF LockInv, IInv, TypeOK
<1>8. ReplayInv'
  BY <1>1, <1>2, <1>5 DEF ReplayInv, IInv, TypeOK, ReplaySteps
<1>9. OneJournal' /\ JournalInv'
  <2>1. Follows(jobs'[j], journal[j].job)
    BY <1>3, <1>4 DEF Follows, Job
  <2> QED BY <1>1, <1>2, <1>4, <1>5, <2>1 DEF IInv, OneJournal, JournalInv, JournalFits, Exists, Pending
<1>10. ProgressInv'
  BY <1>1, <1>2, <1>4 DEF ProgressInv, IInv, TypeOK
<1>11. CounterInv'
  BY <1>1, <1>2, <1>5 DEF CounterInv, IInv, TypeOK
<1>12. FilesAgree'
  BY <1>1, <1>2, <1>4, <1>5 DEF FilesAgree, IInv, Existing
<1> QED BY <1>6, <1>7, <1>8, <1>9, <1>10, <1>11, <1>12 DEF IInv

\* The journal goes only when the three files agree with the record, and no
\* other journal is left to replay.
LEMMA ReplayClearIInv ==
  ASSUME IInv, NEW p \in Procs, ReplayClear(p)
  PROVE  IInv'
<1> DEFINE j == target[p]
<1>1. /\ pc[p] = "clear"
      /\ journal' = [journal EXCEPT ![j] = NoJournal]
      /\ ReplayThen(p, Pending \ {j}, resume[p])
      /\ UNCHANGED <<nextId, jobs, posting, assessment, events, reserved, lock, draft>>
  BY DEF ReplayClear
<1>2. /\ j \in Ids /\ Pending = {j}
      /\ jobs[j] \in Job /\ journal[j] \in Mutation
      /\ \A k \in Ids : journal[k] # NoJournal <=> k = j
      /\ lock = p
      /\ \A q \in Procs \ {p} : pc[q] = "idle"
      /\ JournalFits(j)
  BY <1>1, Replaying DEF ReplaySteps
<1>3. /\ pc' = [pc EXCEPT ![p] = resume[p]]
      /\ target' = [target EXCEPT ![p] = 0]
      /\ resume' = [resume EXCEPT ![p] = "open"]
  BY <1>1, <1>2 DEF ReplayThen
<1>4. resume[p] \in {"open", "batch", "done"}
  BY DEF IInv, TypeOK
<1>5. /\ journal' \in [Ids -> Mutation \cup {NoJournal}]
      /\ \A k \in Ids : journal'[k] = NoJournal
  BY <1>1, <1>2 DEF IInv, TypeOK
<1>6. Pending' = {} /\ Existing' = Existing
  BY <1>1, <1>5 DEF Pending, Existing, Exists
<1>7. TypeOK'
  BY <1>1, <1>3, <1>4, <1>5 DEF IInv, TypeOK, Places, ReplaySteps
<1>8. LockInv'
  BY <1>1, <1>2, <1>3, <1>4 DEF LockInv, IInv, TypeOK
<1>9. ReplayInv'
  BY <1>2, <1>3, <1>4, <1>6 DEF ReplayInv, IInv, TypeOK, ReplaySteps
<1>10. OneJournal' /\ JournalInv'
  BY <1>6 DEF OneJournal, JournalInv
<1>11. ProgressInv'
  BY <1>2, <1>3, <1>4 DEF ProgressInv, IInv, TypeOK
<1>12. CounterInv'
  BY <1>1, <1>2, <1>3, <1>4, <1>6 DEF CounterInv, IInv, TypeOK
<1>13. FilesAgree'
  <2>1. /\ posting[j] = jobs[j].evidence
        /\ assessment[j] = jobs[j].assessment
        /\ Recorded(events[j], journal[j].event)
        /\ journal[j].event.status = jobs[j].status
    BY <1>1, <1>2 DEF IInv, ProgressInv, JournalFits
  <2>2. \E n \in DOMAIN events[j] : events[j][n].status = jobs[j].status
    BY <2>1 DEF Recorded
  <2>3. \A k \in Existing \ {j} :
          /\ posting[k] = jobs[k].evidence
          /\ assessment[k] = jobs[k].assessment
          /\ \E n \in DOMAIN events[k] : events[k][n].status = jobs[k].status
    BY <1>2 DEF IInv, FilesAgree, Existing
  <2> QED BY <1>1, <1>6, <2>1, <2>2, <2>3 DEF FilesAgree
<1> QED BY <1>7, <1>8, <1>9, <1>10, <1>11, <1>12, <1>13 DEF IInv

\* A valid commit only writes the journal, in a workspace that has none.
LEMMA CommitIInv ==
  ASSUME IInv, NEW p \in Procs, CommitStep(p)
  PROVE  IInv'
<1>1. PICK j, job, event, newPosting, newAssessment, place :
        /\ ValidCommit(p, j, job, event, newPosting, newAssessment, place)
        /\ CommitMutation(p, j, job, event, newPosting, newAssessment, place)
  BY Zenon DEF CommitStep
<1> DEFINE new == [job |-> job, event |-> event,
                   posting |-> newPosting, assessment |-> newAssessment]
<1>2. /\ journal' = [journal EXCEPT ![j] = new]
      /\ pc' = [pc EXCEPT ![p] = "event"]
      /\ target' = [target EXCEPT ![p] = j]
      /\ resume' = [resume EXCEPT ![p] = place]
      /\ UNCHANGED <<nextId, jobs, posting, assessment, events, reserved, lock, draft>>
  BY <1>1 DEF CommitMutation
<1>3. /\ pc[p] \in {"open", "batch"} /\ j \in Ids /\ place \in {"batch", "done"}
      /\ Exists(j)
  BY <1>1 DEF ValidCommit
<1>4. Pending = {} /\ lock = p /\ \A q \in Procs \ {p} : pc[q] = "idle"
  BY <1>3, Alone DEF IInv, ReplayInv
<1>5. \A k \in Ids : journal[k] = NoJournal
  BY <1>4 DEF Pending
<1>6. /\ posting[j] = jobs[j].evidence
      /\ assessment[j] = jobs[j].assessment
  BY <1>3, <1>5 DEF IInv, FilesAgree, Existing
<1>7. new \in Mutation /\ new # NoJournal
  BY <1>1, JournalAssumption DEF ValidCommit, Mutation
<1>8. /\ new.event.status = new.job.status
      /\ Follows(jobs[j], new.job)
      /\ new.posting # NoText => new.posting = new.job.evidence
      /\ new.posting = NoText => posting[j] = new.job.evidence
      /\ new.assessment # NoText => new.assessment = new.job.assessment
      /\ new.assessment = NoText => assessment[j] = new.job.assessment
  BY <1>1, <1>6 DEF ValidCommit
<1> HIDE DEF new
<1>9. /\ journal' \in [Ids -> Mutation \cup {NoJournal}]
      /\ journal'[j] = new
      /\ \A k \in Ids \ {j} : journal'[k] = NoJournal
  BY <1>2, <1>3, <1>5, <1>7 DEF IInv, TypeOK
<1>10. Pending' = {j} /\ Existing' = Existing
  BY <1>2, <1>3, <1>7, <1>9 DEF Pending, Existing, Exists
<1>11. TypeOK'
  BY <1>2, <1>3, <1>9 DEF IInv, TypeOK, Places, ReplaySteps
<1>12. LockInv'
  BY <1>2, <1>3, <1>4 DEF LockInv, IInv, TypeOK
<1>13. ReplayInv'
  BY <1>2, <1>3, <1>4, <1>10 DEF ReplayInv, IInv, TypeOK, ReplaySteps
<1>14. OneJournal' /\ JournalInv'
  BY <1>2, <1>3, <1>8, <1>9, <1>10 DEF OneJournal, JournalInv, JournalFits, Exists
<1>15. ProgressInv'
  BY <1>2, <1>4 DEF ProgressInv, IInv, TypeOK
<1>16. CounterInv'
  BY <1>2, <1>4, <1>10 DEF CounterInv, IInv, TypeOK
<1>17. FilesAgree'
  BY <1>2, <1>5, <1>10 DEF IInv, FilesAgree, Existing
<1> QED BY <1>11, <1>12, <1>13, <1>14, <1>15, <1>16, <1>17 DEF IInv

\* Reserving a packet version touches no job file.
LEMMA ReserveIInv ==
  ASSUME IInv, NEW p \in Procs, NEW j \in Ids, ReserveVersion(p, j)
  PROVE  IInv'
<1>1. /\ pc[p] = "open" /\ pc' = [pc EXCEPT ![p] = "done"]
      /\ UNCHANGED <<nextId, jobs, posting, assessment, events, journal,
                     lock, target, resume, draft>>
  BY DEF ReserveVersion
<1>2. Pending = {} /\ lock = p /\ \A q \in Procs \ {p} : pc[q] = "idle"
  BY <1>1, Alone DEF IInv, ReplayInv
<1>3. Pending' = Pending /\ Existing' = Existing
  BY <1>1 DEF Pending, Existing, Exists
<1>4. reserved' \in [Ids -> 0..MaxVersion]
  BY RecordAssumption DEF ReserveVersion, IInv, TypeOK
<1>5. TypeOK'
  BY <1>1, <1>4 DEF IInv, TypeOK, Places
<1>6. LockInv'
  BY <1>1, <1>2 DEF LockInv, IInv, TypeOK
<1>7. ReplayInv'
  BY <1>1, <1>2, <1>3 DEF ReplayInv, IInv, TypeOK, ReplaySteps
<1>8. OneJournal' /\ JournalInv' /\ FilesAgree'
  BY <1>1, <1>3 DEF IInv, OneJournal, JournalInv, JournalFits, FilesAgree, Exists
<1>9. ProgressInv'
  BY <1>1, <1>2 DEF ProgressInv, IInv, TypeOK
<1>10. CounterInv'
  BY <1>1, <1>2, <1>3 DEF CounterInv, IInv, TypeOK
<1> QED BY <1>5, <1>6, <1>7, <1>8, <1>9, <1>10 DEF IInv

\* The ID a new folder takes is behind the counter before the folder exists.
LEMMA AllocateIInv ==
  ASSUME IInv, NEW p \in Procs, NEW candidate \in Candidates, NEW a \in Qualifying,
         NEW at \in Stamps, AllocateId(p, candidate, a, at)
  PROVE  IInv'
<1> DEFINE new == [id |-> nextId, candidate |-> candidate, assessment |-> a, at |-> at]
<1>1. /\ pc[p] \in {"open", "batch"} /\ pc' = [pc EXCEPT ![p] = "create"]
      /\ nextId \in Ids /\ nextId' = nextId + 1
      /\ draft' = [draft EXCEPT ![p] = new]
      /\ UNCHANGED <<jobs, posting, assessment, events, journal, reserved,
                     lock, target, resume>>
  BY DEF AllocateId
<1>2. Pending = {} /\ lock = p /\ \A q \in Procs \ {p} : pc[q] = "idle"
  BY <1>1, Alone DEF IInv, ReplayInv
<1>3. Pending' = Pending /\ Existing' = Existing /\ \A k \in Ids : Exists(k)' <=> Exists(k)
  BY <1>1 DEF Pending, Existing, Exists
<1>4. new \in DraftJob
  BY <1>1, RecordAssumption, StoreAssumption DEF DraftJob
<1>5. new.id = nextId
  OBVIOUS
<1> HIDE DEF new
<1>6. draft' \in [Procs -> DraftJob \cup {NoDraft}] /\ draft'[p] = new
  BY <1>1, <1>4 DEF IInv, TypeOK
<1>7. nextId' \in 1..(MaxId + 1)
  BY <1>1, StoreAssumption DEF Ids
<1>8. TypeOK'
  BY <1>1, <1>6, <1>7 DEF IInv, TypeOK, Places
<1>9. LockInv'
  BY <1>1, <1>2 DEF LockInv, IInv, TypeOK
<1>10. ReplayInv'
  BY <1>1, <1>2, <1>3 DEF ReplayInv, IInv, TypeOK, ReplaySteps
<1>11. OneJournal' /\ JournalInv' /\ FilesAgree'
  BY <1>1, <1>3 DEF IInv, OneJournal, JournalInv, JournalFits, FilesAgree, Exists
<1>12. ProgressInv'
  BY <1>1, <1>2 DEF ProgressInv, IInv, TypeOK
<1>13. CounterInv'
  <2>1. ~Exists(nextId)
    BY <1>1 DEF IInv, CounterInv, Existing, Ids
  <2>2. \A k \in Existing : k < nextId'
    BY <1>1 DEF IInv, CounterInv, Existing, Ids
  <2>3. nextId < nextId'
    BY <1>1 DEF Ids
  <2>4. \A q \in Procs : pc'[q] = "create" => q = p
    BY <1>1, <1>2 DEF IInv, TypeOK
  <2> QED BY <1>1, <1>3, <1>4, <1>5, <1>6, <2>1, <2>2, <2>3, <2>4 DEF CounterInv
<1> QED BY <1>8, <1>9, <1>10, <1>11, <1>12, <1>13 DEF IInv

\* The rename makes a complete folder appear under an unused ID.
LEMMA PublishIInv ==
  ASSUME IInv, NEW p \in Procs, PublishJob(p)
  PROVE  IInv'
<1> DEFINE new == draft[p]
           j   == new.id
           job == BuildRecord(new.candidate, new.assessment, new.at)
           event == MakeEvent("job_created", new.at, "new", "new", NoDetail)
<1>1. /\ pc[p] = "create" /\ pc' = [pc EXCEPT ![p] = "batch"]
      /\ draft' = [draft EXCEPT ![p] = NoDraft]
      /\ jobs' = [jobs EXCEPT ![j] = job]
      /\ posting' = [posting EXCEPT ![j] = new.candidate.evidence]
      /\ assessment' = [assessment EXCEPT ![j] = new.assessment]
      /\ events' = [events EXCEPT ![j] = <<event>>]
      /\ UNCHANGED <<nextId, journal, reserved, lock, target, resume>>
      /\ ~Exists(j)
  BY DEF PublishJob
<1>2. Pending = {} /\ lock = p /\ \A q \in Procs \ {p} : pc[q] = "idle"
  BY <1>1, Alone DEF IInv, ReplayInv
<1>3. /\ j \in Ids /\ j < nextId
      /\ new.candidate \in Candidate /\ new.assessment \in Assessments
      /\ new.at \in Nat
  BY <1>1, RecordAssumption DEF IInv, CounterInv, DraftJob
<1>4. /\ job \in Job /\ job.status = "new" /\ job # NoJob
      /\ job.evidence = new.candidate.evidence
      /\ job.assessment = new.assessment
  BY <1>3, BuildRecordType, StoreAssumption
<1>5. new.candidate.evidence \in Evidence
  BY <1>3 DEF Candidate
<1>6. event \in Event /\ event.status = "new"
  <2>1. NoDetail \in Detail /\ "job_created" \in EventTypes /\ "new" \in Statuses
    BY DEF NoDetail, Detail, EventTypes, Statuses
  <2> QED BY <2>1, <1>3, EventType
<1> HIDE DEF job, event
<1>7. <<event>> \in Seq(Event) /\ 1 \in DOMAIN <<event>> /\ <<event>>[1].status = "new"
  BY <1>6
<1>8. /\ jobs' \in [Ids -> Job \cup {NoJob}] /\ jobs'[j] = job
      /\ posting' \in [Ids -> Evidence \cup {NoText}]
      /\ posting'[j] = new.candidate.evidence
      /\ assessment' \in [Ids -> Assessments \cup {NoText}]
      /\ assessment'[j] = new.assessment
      /\ events' \in [Ids -> Seq(Event)] /\ events'[j] = <<event>>
      /\ \A k \in Ids \ {j} : /\ jobs'[k] = jobs[k] /\ posting'[k] = posting[k]
                              /\ assessment'[k] = assessment[k]
                              /\ events'[k] = events[k]
  BY <1>1, <1>3, <1>4, <1>5, <1>7 DEF IInv, TypeOK
<1> HIDE DEF new, j
<1>9. Pending' = {} /\ Existing' = Existing \cup {j}
  BY <1>1, <1>2, <1>3, <1>4, <1>8 DEF Pending, Existing, Exists
<1>10. TypeOK'
  <2>1. draft' \in [Procs -> DraftJob \cup {NoDraft}] /\ pc' \in [Procs -> Places]
    BY <1>1 DEF IInv, TypeOK, Places
  <2> QED BY <1>1, <1>8, <2>1 DEF IInv, TypeOK
<1>11. LockInv'
  BY <1>1, <1>2 DEF LockInv, IInv, TypeOK
<1>12. ReplayInv'
  BY <1>1, <1>2, <1>9 DEF ReplayInv, IInv, TypeOK, ReplaySteps
<1>13. OneJournal' /\ JournalInv'
  BY <1>9 DEF OneJournal, JournalInv
<1>14. ProgressInv'
  BY <1>1, <1>2 DEF ProgressInv, IInv, TypeOK
<1>15. CounterInv'
  <2>1. \A q \in Procs : pc'[q] # "create"
    BY <1>1, <1>2 DEF IInv, TypeOK
  <2> QED BY <1>1, <1>3, <1>9, <2>1 DEF CounterInv, IInv
<1>16. FilesAgree'
  <2>1. \A k \in Existing \ {j} :
          /\ posting[k] = jobs[k].evidence
          /\ assessment[k] = jobs[k].assessment
          /\ \E n \in DOMAIN events[k] : events[k][n].status = jobs[k].status
    BY <1>2 DEF IInv, FilesAgree, Pending, Existing
  <2>2. /\ posting'[j] = jobs'[j].evidence
        /\ assessment'[j] = jobs'[j].assessment
        /\ \E n \in DOMAIN events'[j] : events'[j][n].status = jobs'[j].status
    BY <1>4, <1>7, <1>8
  <2> QED BY <1>8, <1>9, <2>1, <2>2, SMTT(30) DEF FilesAgree, Existing
<1> QED BY <1>10, <1>11, <1>12, <1>13, <1>14, <1>15, <1>16 DEF IInv

\* Every step preserves the invariant.
LEMMA NextIInv == IInv /\ [Next]_vars => IInv'
<1> SUFFICES ASSUME IInv, [Next]_vars PROVE IInv'
  OBVIOUS
<1>1. ASSUME NEW p \in Procs, Acquire(p) PROVE IInv'
  BY <1>1, AcquireIInv
<1>2. ASSUME NEW p \in Procs, Replay(p) PROVE IInv'
  BY <1>2, ReplayEventIInv, ReplayAssessmentIInv, ReplayPostingIInv,
     ReplayRecordIInv, ReplayClearIInv DEF Replay
<1>3. ASSUME NEW p \in Procs, Operation(p) PROVE IInv'
  <2>1. TypeOK
    BY DEF IInv
  <2> QED BY <1>3, <2>1, OperationCases, CommitIInv, ReserveIInv, AllocateIInv, PublishIInv
<1>4. ASSUME NEW p \in Procs, Release(p) \/ Crash(p) PROVE IInv'
  BY <1>4, LeaveIInv
<1>5. CASE UNCHANGED vars
  BY <1>5 DEF vars, IInv, TypeOK, LockInv, ReplayInv, OneJournal, JournalInv, JournalFits,
              ProgressInv, CounterInv, FilesAgree, Pending, Existing, Exists, Recorded
<1> QED BY <1>1, <1>2, <1>3, <1>4, <1>5 DEF Next

-----------------------------------------------------------------------------
(* Safety.                                                                  *)

\* The inductive invariant holds in every reachable state.
THEOREM StoreInvariant == Spec => []IInv
  BY InitIInv, NextIInv, PTL DEF Spec

\* The variables of the store keep their types, whatever processes do and
\* wherever they die: in particular the counter never passes MaxId + 1.
THEOREM TypeCorrect == Spec => []TypeOK
<1>1. IInv => TypeOK
  BY DEF IInv
<1> QED BY <1>1, StoreInvariant, PTL

\* An operation never decides on a half-written job, and never runs next to
\* another process that is past the lock.
THEOREM NoHalfWrittenJob == Spec => []OperationsSeeNoHalfWrittenJob
<1>1. IInv => OperationsSeeNoHalfWrittenJob
  BY Alone DEF IInv, ReplayInv, OperationsSeeNoHalfWrittenJob
<1> QED BY <1>1, StoreInvariant, PTL

\* Without a pending journal, posting.md, assessment.md and events.jsonl agree
\* with job.json.
THEOREM DocumentsMatchRecord == Spec => []FilesAgree
<1>1. IInv => FilesAgree
  BY DEF IInv
<1> QED BY <1>1, StoreInvariant, PTL

-----------------------------------------------------------------------------
(* What a step may do to a job.                                             *)

\* A step leaves records and logs alone, extends the log of the job it
\* replays, gives that job its journalled record, or makes a new job appear.
LEMMA StepEffect ==
  ASSUME IInv, [Next]_vars
  PROVE  \/ UNCHANGED <<jobs, events>>
         \/ \E j \in Ids :
              /\ journal[j] \in Mutation
              /\ events' = [events EXCEPT ![j] = WithEvent(events[j], journal[j].event)]
              /\ UNCHANGED jobs
         \/ \E j \in Ids :
              /\ Exists(j) /\ Follows(jobs[j], journal[j].job) /\ journal[j].job # NoJob
              /\ jobs' = [jobs EXCEPT ![j] = journal[j].job]
              /\ UNCHANGED events
         \/ \E j \in Ids : \E job, log :
              /\ ~Exists(j)
              /\ jobs' = [jobs EXCEPT ![j] = job]
              /\ events' = [events EXCEPT ![j] = log]
<1>1. ASSUME NEW p \in Procs, Acquire(p) \/ Release(p) \/ Crash(p)
      PROVE  UNCHANGED <<jobs, events>>
  BY <1>1 DEF Acquire, Release, Crash, files
<1>2. ASSUME NEW p \in Procs, ReplayEvent(p)
      PROVE  \E j \in Ids :
               /\ journal[j] \in Mutation
               /\ events' = [events EXCEPT ![j] = WithEvent(events[j], journal[j].event)]
               /\ UNCHANGED jobs
  <2>1. target[p] \in Ids /\ journal[target[p]] \in Mutation
    BY <1>2, Replaying DEF ReplayEvent, ReplaySteps
  <2>2. /\ events' = [events EXCEPT ![target[p]] =
                         WithEvent(events[target[p]], journal[target[p]].event)]
        /\ UNCHANGED jobs
    BY <1>2 DEF ReplayEvent
  <2> QED BY <2>1, <2>2
<1>3. ASSUME NEW p \in Procs, ReplayRecord(p)
      PROVE  \E j \in Ids :
               /\ Exists(j) /\ Follows(jobs[j], journal[j].job) /\ journal[j].job # NoJob
               /\ jobs' = [jobs EXCEPT ![j] = journal[j].job]
               /\ UNCHANGED events
  <2>1. target[p] \in Ids /\ journal[target[p]] \in Mutation /\ JournalFits(target[p])
    BY <1>3, Replaying DEF ReplayRecord, ReplaySteps
  <2>2. journal[target[p]].job # NoJob
    BY <2>1, StoreAssumption DEF Mutation
  <2>3. jobs' = [jobs EXCEPT ![target[p]] = journal[target[p]].job] /\ UNCHANGED events
    BY <1>3 DEF ReplayRecord
  <2> QED BY <2>1, <2>2, <2>3 DEF JournalFits
<1>4. ASSUME NEW p \in Procs, ReplayAssessment(p) \/ ReplayPosting(p) \/ ReplayClear(p)
      PROVE  UNCHANGED <<jobs, events>>
  BY <1>4 DEF ReplayAssessment, ReplayPosting, ReplayClear
<1>5. ASSUME NEW p \in Procs, CommitStep(p)
      PROVE  UNCHANGED <<jobs, events>>
  BY <1>5 DEF CommitStep, CommitMutation
<1>6. ASSUME NEW p \in Procs, NEW j \in Ids, ReserveVersion(p, j)
      PROVE  UNCHANGED <<jobs, events>>
  BY <1>6 DEF ReserveVersion
<1>7. ASSUME NEW p \in Procs, NEW candidate \in Candidates, NEW at \in Stamps,
             NEW a \in Qualifying, AllocateId(p, candidate, a, at)
      PROVE  UNCHANGED <<jobs, events>>
  BY <1>7 DEF AllocateId
<1>8. ASSUME NEW p \in Procs, PublishJob(p)
      PROVE  \E j \in Ids : \E job, log :
               /\ ~Exists(j)
               /\ jobs' = [jobs EXCEPT ![j] = job]
               /\ events' = [events EXCEPT ![j] = log]
  <2>1. draft[p].id \in Ids
    BY <1>8 DEF PublishJob, IInv, CounterInv, DraftJob
  <2> QED BY <1>8, <2>1 DEF PublishJob
<1>9. ASSUME NEW p \in Procs, Operation(p)
      PROVE  \/ CommitStep(p)
             \/ \E j \in Ids : ReserveVersion(p, j)
             \/ \E candidate \in Candidates, at \in Stamps, a \in Qualifying :
                   AllocateId(p, candidate, a, at)
             \/ PublishJob(p)
  BY <1>9, OperationCases DEF IInv
<1>10. CASE UNCHANGED vars
  BY <1>10 DEF vars
<1> QED
  BY <1>1, <1>2, <1>3, <1>4, <1>5, <1>6, <1>7, <1>8, <1>9, <1>10 DEF Next, Replay

\* Job IDs are not reused and event logs only grow at the end: what a reader
\* once saw in events.jsonl stays there.
THEOREM AppendOnlyHistory == Spec => HistoryAppendOnly
<1> DEFINE Body == \A j \in Ids : Exists(j) =>
                     /\ jobs'[j] # NoJob
                     /\ Len(events[j]) <= Len(events'[j])
                     /\ \A k \in DOMAIN events[j] : events'[j][k] = events[j][k]
<1>1. IInv /\ [Next]_vars => Body
  <2> SUFFICES ASSUME IInv, [Next]_vars, NEW j \in Ids, Exists(j)
               PROVE  /\ jobs'[j] # NoJob
                      /\ Len(events[j]) <= Len(events'[j])
                      /\ \A k \in DOMAIN events[j] : events'[j][k] = events[j][k]
    OBVIOUS
  <2>1. /\ jobs \in [Ids -> Job \cup {NoJob}] /\ events \in [Ids -> Seq(Event)]
        /\ jobs[j] # NoJob /\ Len(events[j]) \in Nat
    BY DEF IInv, TypeOK, Exists
  <2>2. CASE UNCHANGED <<jobs, events>>
    BY <2>1, <2>2
  <2>3. ASSUME NEW i \in Ids, journal[i] \in Mutation, UNCHANGED jobs,
               events' = [events EXCEPT ![i] = WithEvent(events[i], journal[i].event)]
        PROVE  /\ jobs'[j] # NoJob
               /\ Len(events[j]) <= Len(events'[j])
               /\ \A k \in DOMAIN events[j] : events'[j][k] = events[j][k]
    <3>1. CASE i = j
      <4>1. events[j] \in Seq(Event) /\ journal[j].event \in Event
        BY <2>1, <2>3, <3>1 DEF Mutation
      <4>2. events'[j] = WithEvent(events[j], journal[j].event)
        BY <2>1, <2>3, <3>1
      <4>3. /\ Len(events[j]) <= Len(WithEvent(events[j], journal[j].event))
            /\ \A k \in DOMAIN events[j] :
                  WithEvent(events[j], journal[j].event)[k] = events[j][k]
        BY <4>1, WithEventFacts
      <4> QED BY <2>1, <2>3, <4>2, <4>3
    <3>2. CASE i # j
      BY <2>1, <2>3, <3>2
    <3> QED BY <3>1, <3>2
  <2>4. ASSUME NEW i \in Ids, journal[i].job # NoJob, UNCHANGED events,
               jobs' = [jobs EXCEPT ![i] = journal[i].job]
        PROVE  /\ jobs'[j] # NoJob
               /\ Len(events[j]) <= Len(events'[j])
               /\ \A k \in DOMAIN events[j] : events'[j][k] = events[j][k]
    BY <2>1, <2>4
  <2>5. ASSUME NEW i \in Ids, NEW job, NEW log, ~Exists(i),
               jobs' = [jobs EXCEPT ![i] = job], events' = [events EXCEPT ![i] = log]
        PROVE  /\ jobs'[j] # NoJob
               /\ Len(events[j]) <= Len(events'[j])
               /\ \A k \in DOMAIN events[j] : events'[j][k] = events[j][k]
    <3>1. i # j
      BY <2>5
    <3> QED BY <2>1, <2>5, <3>1
  <2> QED BY <2>2, <2>3, <2>4, <2>5, StepEffect
<1>2. IInv /\ [Next]_vars => [Body]_vars
  BY <1>1
<1> QED BY <1>2, StoreInvariant, PTL DEF Spec, HistoryAppendOnly

\* A capture that is replayed late never takes a job back to older evidence,
\* nor does it lose a known requisition, whichever process commits it and
\* whichever process replays the journal.
THEOREM NoRegression == Spec => EvidenceNeverRegresses
<1> DEFINE Body == \A j \in Ids : Exists(j) =>
                     /\ jobs'[j].verifiedAt >= jobs[j].verifiedAt
                     /\ jobs'[j].assessedAt >= jobs[j].assessedAt
                     /\ jobs'[j].reverifiedAt >= jobs[j].reverifiedAt
                     /\ jobs[j].req # NoReq => jobs'[j].req = jobs[j].req
<1>1. IInv /\ [Next]_vars => Body
  <2> SUFFICES ASSUME IInv, [Next]_vars, NEW j \in Ids, Exists(j)
               PROVE  Follows(jobs[j], jobs'[j])
    BY DEF Follows
  <2>1. jobs \in [Ids -> Job \cup {NoJob}] /\ jobs[j] \in Job /\ Follows(jobs[j], jobs[j])
    BY SameTimesFollow DEF IInv, TypeOK, Exists
  <2>2. CASE UNCHANGED jobs
    BY <2>1, <2>2
  <2>3. ASSUME NEW i \in Ids, Follows(jobs[i], journal[i].job),
               jobs' = [jobs EXCEPT ![i] = journal[i].job]
        PROVE  Follows(jobs[j], jobs'[j])
    <3>1. CASE i = j
      <4>1. jobs'[j] = journal[j].job
        BY <2>1, <2>3, <3>1
      <4> QED BY <2>3, <3>1, <4>1
    <3>2. CASE i # j
      <4>1. jobs'[j] = jobs[j]
        BY <2>1, <2>3, <3>2
      <4> QED BY <2>1, <4>1
    <3> QED BY <3>1, <3>2
  <2>4. ASSUME NEW i \in Ids, NEW job, ~Exists(i), jobs' = [jobs EXCEPT ![i] = job]
        PROVE  Follows(jobs[j], jobs'[j])
    <3>1. jobs'[j] = jobs[j]
      BY <2>1, <2>4
    <3> QED BY <2>1, <3>1
  <2> QED BY <2>2, <2>3, <2>4, StepEffect
<1>2. IInv /\ [Next]_vars => [Body]_vars
  BY <1>1
<1> QED BY <1>2, StoreInvariant, PTL DEF Spec, EvidenceNeverRegresses

-----------------------------------------------------------------------------
(* The store implements AtomicJobStore.                                     *)

\* What callers see of the store.
View == <<nextId, CommittedJobs, CommittedDocuments, CommittedEvents>>

\* The empty workspace is an empty abstract store.
LEMMA InitMaps == Init => Promise!Init
  BY DEF Init, Promise!Init, CommittedJobs, CommittedEvents, CommittedDocuments,
         Exists, Ids, Promise!Ids

\* Steps that write no file change nothing callers see.
LEMMA QuietStep ==
  ASSUME UNCHANGED <<nextId, jobs, posting, assessment, events, journal>>
  PROVE  UNCHANGED View
  BY DEF View, CommittedJobs, CommittedEvents, CommittedDocuments, Exists

\* Appending the journalled event is invisible: callers count it already.
LEMMA ReplayEventHidden ==
  ASSUME IInv, NEW p \in Procs, ReplayEvent(p)
  PROVE  UNCHANGED View
<1> DEFINE j == target[p]
<1>1. /\ events' = [events EXCEPT ![j] = WithEvent(events[j], journal[j].event)]
      /\ UNCHANGED <<nextId, jobs, posting, assessment, journal>>
      /\ pc[p] \in ReplaySteps
  BY DEF ReplayEvent, ReplaySteps
<1>2. j \in Ids /\ journal[j] \in Mutation /\ journal[j] # NoJournal
  BY <1>1, Replaying
<1>3. /\ events \in [Ids -> Seq(Event)]
      /\ events[j] \in Seq(Event) /\ journal[j].event \in Event
  BY <1>2 DEF IInv, TypeOK, Mutation
<1>4. WithEvent(WithEvent(events[j], journal[j].event), journal[j].event)
        = WithEvent(events[j], journal[j].event)
  BY <1>3, WithEventFacts
<1>5. \A k \in Ids : events'[k] = IF k = j THEN WithEvent(events[j], journal[j].event)
                                  ELSE events[k]
  BY <1>1, <1>3
<1>6. UNCHANGED CommittedEvents
  <2>1. \A k \in Ids :
          (IF journal[k] = NoJournal THEN events'[k] ELSE WithEvent(events'[k], journal[k].event))
          = (IF journal[k] = NoJournal THEN events[k] ELSE WithEvent(events[k], journal[k].event))
    BY <1>2, <1>4, <1>5
  <2> QED BY <1>1, <2>1 DEF CommittedEvents
<1>7. UNCHANGED <<CommittedJobs, CommittedDocuments>>
  BY <1>1 DEF CommittedJobs, CommittedDocuments, Exists
<1> QED BY <1>1, <1>6, <1>7 DEF View

\* Writing a journalled document is invisible.
LEMMA ReplayDocumentHidden ==
  ASSUME IInv, NEW p \in Procs, ReplayAssessment(p) \/ ReplayPosting(p)
  PROVE  UNCHANGED View
<1> DEFINE j == target[p]
<1>1. /\ UNCHANGED <<nextId, jobs, events, journal>>
      /\ pc[p] \in ReplaySteps
  BY DEF ReplayAssessment, ReplayPosting, ReplaySteps
<1>2. j \in Ids /\ journal[j] # NoJournal
  BY <1>1, Replaying
<1>3. /\ \A k \in Ids : \/ posting'[k] = posting[k]
                        \/ k = j /\ journal[j].posting # NoText
      /\ \A k \in Ids : \/ assessment'[k] = assessment[k]
                        \/ k = j /\ journal[j].assessment # NoText
  BY <1>2 DEF ReplayAssessment, ReplayPosting, IInv, TypeOK
<1>4. UNCHANGED CommittedDocuments
  <2> DEFINE Post(k) == IF journal[k] = NoJournal \/ journal[k].posting = NoText
                        THEN posting[k] ELSE journal[k].posting
             Post2(k) == IF journal[k] = NoJournal \/ journal[k].posting = NoText
                         THEN posting'[k] ELSE journal[k].posting
             Assess(k) == IF journal[k] = NoJournal \/ journal[k].assessment = NoText
                          THEN assessment[k] ELSE journal[k].assessment
             Assess2(k) == IF journal[k] = NoJournal \/ journal[k].assessment = NoText
                           THEN assessment'[k] ELSE journal[k].assessment
  <2>1. \A k \in Ids : Post(k) = Post2(k) /\ Assess(k) = Assess2(k)
    BY <1>2, <1>3
  <2>2. CommittedDocuments = [k \in Ids |-> IF jobs[k] = NoJob
          THEN [posting |-> NoJob, assessment |-> NoJob]
          ELSE [posting |-> Post(k), assessment |-> Assess(k)]]
    BY DEF CommittedDocuments, Exists
  <2>3. CommittedDocuments' = [k \in Ids |-> IF jobs[k] = NoJob
          THEN [posting |-> NoJob, assessment |-> NoJob]
          ELSE [posting |-> Post2(k), assessment |-> Assess2(k)]]
    BY <1>1 DEF CommittedDocuments, Exists
  <2> HIDE DEF Post, Post2, Assess, Assess2
  <2> QED BY <2>1, <2>2, <2>3
<1>5. UNCHANGED <<CommittedJobs, CommittedEvents>>
  BY <1>1 DEF CommittedJobs, CommittedEvents
<1> QED BY <1>1, <1>4, <1>5 DEF View

\* Replacing job.json by the journalled record is invisible.
LEMMA ReplayRecordHidden ==
  ASSUME IInv, NEW p \in Procs, ReplayRecord(p)
  PROVE  UNCHANGED View
<1> DEFINE j == target[p]
<1>1. /\ jobs' = [jobs EXCEPT ![j] = journal[j].job]
      /\ UNCHANGED <<nextId, posting, assessment, events, journal>>
      /\ pc[p] \in ReplaySteps
  BY DEF ReplayRecord, ReplaySteps
<1>2. j \in Ids /\ journal[j] \in Mutation /\ journal[j] # NoJournal /\ Exists(j)
  BY <1>1, Replaying DEF JournalFits
<1>3. journal[j].job # NoJob
  BY <1>2, StoreAssumption DEF Mutation
<1>4. /\ \A k \in Ids : jobs'[k] = IF k = j THEN journal[j].job ELSE jobs[k]
      /\ \A k \in Ids : jobs'[k] # NoJob <=> jobs[k] # NoJob
  BY <1>1, <1>2, <1>3 DEF IInv, TypeOK, Exists
<1>5. UNCHANGED CommittedJobs
  BY <1>1, <1>2, <1>4 DEF CommittedJobs
<1>6. UNCHANGED CommittedDocuments
  BY <1>1, <1>4 DEF CommittedDocuments, Exists
<1>7. UNCHANGED CommittedEvents
  BY <1>1 DEF CommittedEvents
<1> QED BY <1>1, <1>5, <1>6, <1>7 DEF View

\* Removing a journal is invisible: the files say what the journal said.
LEMMA ReplayClearHidden ==
  ASSUME IInv, NEW p \in Procs, ReplayClear(p)
  PROVE  UNCHANGED View
<1> DEFINE j == target[p]
<1>1. /\ journal' = [journal EXCEPT ![j] = NoJournal]
      /\ UNCHANGED <<nextId, jobs, posting, assessment, events>>
      /\ pc[p] = "clear"
  BY DEF ReplayClear
<1>2. /\ j \in Ids /\ journal[j] # NoJournal /\ Exists(j) /\ JournalFits(j)
      /\ \A k \in Ids : journal[k] # NoJournal <=> k = j
  BY <1>1, Replaying DEF ReplaySteps, JournalFits
<1>3. \A k \in Ids : journal'[k] = NoJournal
  BY <1>1, <1>2 DEF IInv, TypeOK
<1>4. /\ jobs[j] = journal[j].job
      /\ Recorded(events[j], journal[j].event)
      /\ posting[j] = journal[j].job.evidence
      /\ assessment[j] = journal[j].job.assessment
  BY <1>1, <1>2 DEF IInv, ProgressInv
<1>5. UNCHANGED CommittedJobs
  BY <1>1, <1>2, <1>3, <1>4 DEF CommittedJobs
<1>6. UNCHANGED CommittedEvents
  <2>1. WithEvent(events[j], journal[j].event) = events[j]
    BY <1>4 DEF WithEvent
  <2> QED BY <1>1, <1>2, <1>3, <2>1 DEF CommittedEvents
<1>7. UNCHANGED CommittedDocuments
  <2> DEFINE Post(k) == IF journal[k] = NoJournal \/ journal[k].posting = NoText
                        THEN posting[k] ELSE journal[k].posting
             Assess(k) == IF journal[k] = NoJournal \/ journal[k].assessment = NoText
                          THEN assessment[k] ELSE journal[k].assessment
  <2>1. \A k \in Ids : Post(k) = posting[k] /\ Assess(k) = assessment[k]
    BY <1>2, <1>4 DEF JournalFits
  <2>2. CommittedDocuments = [k \in Ids |-> IF jobs[k] = NoJob
          THEN [posting |-> NoJob, assessment |-> NoJob]
          ELSE [posting |-> Post(k), assessment |-> Assess(k)]]
    BY DEF CommittedDocuments, Exists
  <2>3. CommittedDocuments' = [k \in Ids |-> IF jobs[k] = NoJob
          THEN [posting |-> NoJob, assessment |-> NoJob]
          ELSE [posting |-> posting[k], assessment |-> assessment[k]]]
    BY <1>1, <1>3 DEF CommittedDocuments, Exists
  <2> HIDE DEF Post, Assess
  <2> QED BY <2>1, <2>2, <2>3
<1> QED BY <1>1, <1>5, <1>6, <1>7 DEF View

\* The journal write is the commit point: at that step the abstract job gets
\* its record, its documents and its event together.
LEMMA CommitMaps ==
  ASSUME IInv, NEW p \in Procs, CommitStep(p)
  PROVE  \E j \in Ids : Promise!Commit(j)
<1>1. PICK j, job, event, newPosting, newAssessment, place :
        /\ ValidCommit(p, j, job, event, newPosting, newAssessment, place)
        /\ CommitMutation(p, j, job, event, newPosting, newAssessment, place)
  BY Zenon DEF CommitStep
<1> DEFINE new == [job |-> job, event |-> event,
                   posting |-> newPosting, assessment |-> newAssessment]
<1>2. /\ journal' = [journal EXCEPT ![j] = new]
      /\ UNCHANGED <<nextId, jobs, posting, assessment, events>>
  BY <1>1 DEF CommitMutation
<1>3. /\ pc[p] \in {"open", "batch"} /\ j \in Ids /\ Exists(j)
      /\ job \in Job /\ event \in Event
      /\ event.prior = jobs[j].status /\ event.status = job.status
  BY <1>1 DEF ValidCommit
<1>4. \A k \in Ids : journal[k] = NoJournal
  BY <1>3 DEF IInv, ReplayInv, Pending
<1>5. /\ posting[j] = jobs[j].evidence
      /\ assessment[j] = jobs[j].assessment
      /\ events[j] \in Seq(Event)
  BY <1>3, <1>4 DEF IInv, FilesAgree, Existing, TypeOK
<1>6. new # NoJournal /\ job # NoJob
  <2>1. new \in Mutation
    BY <1>1 DEF ValidCommit, Mutation
  <2> QED BY <2>1, <1>3, JournalAssumption, StoreAssumption
<1>7. /\ new.job = job /\ new.event = event
      /\ (IF new.posting = NoText THEN posting[j] ELSE new.posting) = job.evidence
      /\ (IF new.assessment = NoText THEN assessment[j] ELSE new.assessment) = job.assessment
  BY <1>1, <1>5 DEF ValidCommit
<1> HIDE DEF new
<1>8. \A k \in Ids : journal'[k] = IF k = j THEN new ELSE NoJournal
  BY <1>2, <1>3, <1>4 DEF IInv, TypeOK
<1>9. CommittedJobs = jobs /\ CommittedEvents = events
  BY <1>4 DEF CommittedJobs, CommittedEvents, IInv, TypeOK
<1>10. CommittedJobs' = [CommittedJobs EXCEPT ![j] = job]
  <2>1. \A k \in Ids : CommittedJobs'[k] = IF k = j THEN job ELSE jobs[k]
    BY <1>2, <1>6, <1>7, <1>8 DEF CommittedJobs
  <2>2. DOMAIN CommittedJobs' = Ids /\ CommittedJobs' = [k \in Ids |-> CommittedJobs'[k]]
    BY DEF CommittedJobs
  <2> QED BY <1>3, <1>9, <2>1, <2>2 DEF IInv, TypeOK
<1>11. CommittedEvents' = [CommittedEvents EXCEPT ![j] = WithEvent(events[j], event)]
  <2>1. \A k \in Ids : CommittedEvents'[k] =
          IF k = j THEN WithEvent(events[j], event) ELSE events[k]
    BY <1>2, <1>6, <1>7, <1>8 DEF CommittedEvents
  <2>2. CommittedEvents' = [k \in Ids |-> CommittedEvents'[k]]
    BY DEF CommittedEvents
  <2> QED BY <1>3, <1>9, <2>1, <2>2 DEF IInv, TypeOK
<1>12. CommittedDocuments' = [CommittedDocuments EXCEPT ![j] = Promise!DocumentsOf(job)]
  <2>1. \A k \in Ids : k # j => CommittedDocuments'[k] = CommittedDocuments[k]
    BY <1>2, <1>4, <1>8 DEF CommittedDocuments, Exists
  <2>2. CommittedDocuments'[j] = Promise!DocumentsOf(job)
    <3>1. CommittedDocuments'[j] =
            [posting    |-> IF new.posting = NoText THEN posting[j] ELSE new.posting,
             assessment |-> IF new.assessment = NoText THEN assessment[j]
                            ELSE new.assessment]
      BY <1>2, <1>3, <1>6, <1>8 DEF CommittedDocuments, Exists
    <3> QED BY <1>7, <3>1 DEF Promise!DocumentsOf
  <2>3. /\ CommittedDocuments' = [k \in Ids |-> CommittedDocuments'[k]]
        /\ CommittedDocuments = [k \in Ids |-> CommittedDocuments[k]]
    BY DEF CommittedDocuments
  <2> QED BY <1>3, <2>1, <2>2, <2>3
<1>13. PICK n \in DOMAIN CommittedEvents'[j] : CommittedEvents'[j][n] = event
  <2>1. CommittedEvents'[j] = WithEvent(events[j], event)
    BY <1>3, <1>9, <1>11 DEF IInv, TypeOK
  <2>2. Recorded(WithEvent(events[j], event), event)
    BY <1>3, <1>5, WithEventFacts
  <2> QED BY <2>1, <2>2 DEF Recorded
<1>14. CommittedJobs'[j] = job
  BY <1>3, <1>9, <1>10 DEF IInv, TypeOK
<1>15. \/ CommittedEvents' = CommittedEvents
       \/ CommittedEvents' = [CommittedEvents EXCEPT ![j] = Append(@, event)]
  BY <1>3, <1>9, <1>11 DEF WithEvent, IInv, TypeOK
<1>16. Promise!Commit(j)
  <2>1. Promise!Exists(j)
    BY <1>3, <1>9 DEF Promise!Exists, Exists
  <2>2. UNCHANGED nextId
    BY <1>2
  <2> QED
    BY <1>3, <1>6, <1>9, <1>10, <1>12, <1>13, <1>14, <1>15, <2>1, <2>2
    DEF Promise!Commit
<1> QED BY <1>3, <1>16

\* Advancing the counter hands out an ID.
LEMMA AllocateMaps ==
  ASSUME IInv, NEW p \in Procs, NEW candidate \in Candidates, NEW a \in Qualifying,
         NEW at \in Stamps, AllocateId(p, candidate, a, at)
  PROVE  Promise!Allocate
<1>1. /\ nextId \in Ids /\ nextId' = nextId + 1
      /\ UNCHANGED <<jobs, posting, assessment, events, journal>>
  BY DEF AllocateId
<1>2. UNCHANGED <<CommittedJobs, CommittedEvents, CommittedDocuments>>
  BY <1>1 DEF CommittedJobs, CommittedEvents, CommittedDocuments, Exists
<1> QED BY <1>1, <1>2 DEF Promise!Allocate, Promise!Ids, Ids

\* The rename of the finished folder is the abstract creation of the job.
LEMMA PublishMaps ==
  ASSUME IInv, NEW p \in Procs, PublishJob(p)
  PROVE  \E j \in Ids : Promise!Publish(j)
<1> DEFINE new == draft[p]
           j   == new.id
           job == BuildRecord(new.candidate, new.assessment, new.at)
           event == MakeEvent("job_created", new.at, "new", "new", NoDetail)
<1>1. /\ pc[p] = "create" /\ ~Exists(j)
      /\ jobs' = [jobs EXCEPT ![j] = job]
      /\ posting' = [posting EXCEPT ![j] = new.candidate.evidence]
      /\ assessment' = [assessment EXCEPT ![j] = new.assessment]
      /\ events' = [events EXCEPT ![j] = <<event>>]
      /\ UNCHANGED <<nextId, journal>>
  BY DEF PublishJob
<1>2. /\ j \in Ids /\ j < nextId
      /\ new.candidate \in Candidate /\ new.assessment \in Assessments
      /\ new.at \in Nat
  BY <1>1, RecordAssumption DEF IInv, CounterInv, DraftJob
<1>3. /\ job \in Job /\ job.status = "new" /\ job # NoJob
      /\ job.evidence = new.candidate.evidence
      /\ job.assessment = new.assessment
  BY <1>2, BuildRecordType, StoreAssumption
<1>4. event.status = "new"
  BY DEF MakeEvent
<1> HIDE DEF job, event
<1>5. \A k \in Ids : journal[k] = NoJournal
  BY <1>1 DEF IInv, ReplayInv, Pending
<1>6. CommittedJobs = jobs /\ CommittedEvents = events
  BY <1>5 DEF CommittedJobs, CommittedEvents, IInv, TypeOK
<1>7. CommittedJobs' = jobs' /\ CommittedEvents' = events'
  BY <1>1, <1>5 DEF CommittedJobs, CommittedEvents, IInv, TypeOK
<1>8. CommittedDocuments' = [CommittedDocuments EXCEPT ![j] = Promise!DocumentsOf(job)]
  <2> HIDE DEF new, j
  <2>1. \A k \in Ids : k # j => CommittedDocuments'[k] = CommittedDocuments[k]
    BY <1>1, <1>2, <1>5 DEF CommittedDocuments, Exists, IInv, TypeOK
  <2>2. CommittedDocuments'[j] = Promise!DocumentsOf(job)
    <3>1. /\ jobs'[j] = job /\ posting'[j] = job.evidence /\ assessment'[j] = job.assessment
      BY <1>1, <1>2, <1>3 DEF IInv, TypeOK
    <3> QED BY <1>1, <1>2, <1>3, <1>5, <3>1
            DEF CommittedDocuments, Exists, Promise!DocumentsOf
  <2>3. /\ CommittedDocuments' = [k \in Ids |-> CommittedDocuments'[k]]
        /\ CommittedDocuments = [k \in Ids |-> CommittedDocuments[k]]
    BY DEF CommittedDocuments
  <2> QED BY <1>2, <2>1, <2>2, <2>3
<1> HIDE DEF new, j
<1>9. /\ jobs'[j] = job /\ events'[j] = <<event>>
  BY <1>1, <1>2 DEF IInv, TypeOK
<1>10. 1 \in DOMAIN events'[j] /\ events'[j][1] = event
  BY <1>9
<1>11. Promise!Publish(j)
  <2>1. ~Promise!Exists(j)
    BY <1>1, <1>6 DEF Promise!Exists, Exists
  <2> QED
    BY <1>1, <1>2, <1>3, <1>4, <1>6, <1>7, <1>8, <1>9, <1>10, <2>1 DEF Promise!Publish
<1> QED BY <1>2, <1>11

\* The store implements the abstract one: to callers every mutation is atomic,
\* IDs are consecutive and used once, and a folder appears whole, wherever
\* processes die and however many there are.
THEOREM StoreImplementsPromise == Spec => ImplementsPromise
<1>1. ASSUME IInv, [Next]_vars PROVE [Promise!Next]_(Promise!vars)
  <2>1. ASSUME NEW p \in Procs, Acquire(p) \/ Release(p) \/ Crash(p)
        PROVE  UNCHANGED View
    <3>1. UNCHANGED <<nextId, jobs, posting, assessment, events, journal>>
      BY <2>1 DEF Acquire, Release, Crash, files
    <3> QED BY <3>1, QuietStep
  <2>2. ASSUME NEW p \in Procs, Replay(p) PROVE UNCHANGED View
    BY <1>1, <2>2, ReplayEventHidden, ReplayDocumentHidden, ReplayRecordHidden,
       ReplayClearHidden DEF Replay
  <2>3. ASSUME NEW p \in Procs, NEW j \in Ids, ReserveVersion(p, j)
        PROVE  UNCHANGED View
    <3>1. UNCHANGED <<nextId, jobs, posting, assessment, events, journal>>
      BY <2>3 DEF ReserveVersion
    <3> QED BY <3>1, QuietStep
  <2>4. ASSUME NEW p \in Procs, Operation(p) PROVE UNCHANGED View \/ Promise!Next
    <3>1. \/ CommitStep(p)
          \/ \E j \in Ids : ReserveVersion(p, j)
          \/ \E candidate \in Candidates, at \in Stamps, a \in Qualifying :
                AllocateId(p, candidate, a, at)
          \/ PublishJob(p)
      BY <1>1, <2>4, OperationCases DEF IInv
    <3>2. Ids = Promise!Ids
      BY DEF Ids, Promise!Ids
    <3> QED BY <1>1, <2>3, <3>1, <3>2, CommitMaps, AllocateMaps, PublishMaps
            DEF Promise!Next
  <2>5. ASSUME UNCHANGED vars PROVE UNCHANGED View
    <3>1. UNCHANGED <<nextId, jobs, posting, assessment, events, journal>>
      BY <2>5 DEF vars
    <3> QED BY <3>1, QuietStep
  <2>6. UNCHANGED View \/ Promise!Next
    BY <1>1, <2>1, <2>2, <2>4, <2>5, Zenon DEF Next
  <2> QED BY <2>6 DEF View, Promise!vars
<1>2. Init => Promise!Init
  BY InitMaps
<1> QED BY <1>1, <1>2, StoreInvariant, PTL DEF Spec, Promise!Spec, ImplementsPromise

-----------------------------------------------------------------------------
(* One job per opportunity.                                                 *)

\* The opportunity being saved is still a new one: the lock is held since the
\* duplicate check, so no job appeared and none was enriched in between.
NovelInv ==
  \A p \in Procs : pc[p] = "create" =>
    ResolveIdentity(draft[p].candidate, [k \in Existing |-> jobs[k]]) = {}

DistinctReqs(records) ==
  \A i, j \in Existing :
    i # j /\ records[i].req # NoReq => records[i].req # records[j].req

\* Both the records on disk and those the journals will make of them.
UniqueInv == DistinctReqs(jobs) /\ DistinctReqs(CommittedJobs)

IdentityInv == NovelInv /\ UniqueInv

\* Steps that leave records and journals alone.
LEMMA QuietIdentity ==
  ASSUME IdentityInv, UNCHANGED <<jobs, journal>>,
         \A p \in Procs : pc'[p] = "create" => pc[p] = "create" /\ draft'[p] = draft[p]
  PROVE  IdentityInv'
<1>1. Existing' = Existing /\ CommittedJobs' = CommittedJobs
  BY DEF Existing, Exists, CommittedJobs
<1>2. NovelInv'
  BY <1>1 DEF IdentityInv, NovelInv
<1>3. UniqueInv'
  BY <1>1 DEF IdentityInv, UniqueInv, DistinctReqs
<1> QED BY <1>2, <1>3 DEF IdentityInv

\* A posting that denotes no job has a requisition that no job has.
LEMMA NovelRequisition ==
  ASSUME NEW candidate, NEW existing, ResolveIdentity(candidate, existing) = {},
         candidate.req # NoReq
  PROVE  \A k \in DOMAIN existing : existing[k].req # candidate.req
  BY DEF ResolveIdentity, SameRequisition, SameFallback

\* A posting that denotes no job shares its fingerprint only with jobs that have
\* another requisition than its own.
LEMMA NovelFallback ==
  ASSUME NEW candidate, NEW existing, ResolveIdentity(candidate, existing) = {}
  PROVE  \A k \in DOMAIN existing : existing[k].fallback = candidate.fallback =>
           candidate.req # NoReq /\ existing[k].req # NoReq
  BY DEF ResolveIdentity, SameRequisition, SameFallback

\* Replaying a record gives it the requisition that was already committed.
LEMMA ReplayRecordIdentity ==
  ASSUME IInv, IdentityInv, NEW p \in Procs, ReplayRecord(p)
  PROVE  IdentityInv'
<1> DEFINE j == target[p]
<1>1. /\ pc[p] = "record" /\ pc' = [pc EXCEPT ![p] = "clear"]
      /\ jobs' = [jobs EXCEPT ![j] = journal[j].job]
      /\ UNCHANGED journal
  BY DEF ReplayRecord
<1>2. /\ j \in Ids /\ journal[j] \in Mutation /\ Exists(j)
      /\ \A k \in Ids : journal[k] # NoJournal <=> k = j
      /\ \A q \in Procs \ {p} : pc[q] = "idle"
  BY <1>1, Replaying DEF ReplaySteps, JournalFits
<1>3. journal[j].job # NoJob
  BY <1>2, StoreAssumption DEF Mutation
<1>4. \A k \in Ids : /\ jobs'[k] = CommittedJobs[k]
                     /\ CommittedJobs'[k] = CommittedJobs[k]
                     /\ jobs'[k] # NoJob <=> jobs[k] # NoJob
  BY <1>1, <1>2, <1>3 DEF CommittedJobs, Exists, IInv, TypeOK
<1>5. Existing' = Existing
  BY <1>4 DEF Existing, Exists
<1>6. UniqueInv'
  BY <1>4, <1>5 DEF IdentityInv, UniqueInv, DistinctReqs, Existing
<1>7. NovelInv'
  BY <1>1, <1>2 DEF NovelInv, IInv, TypeOK
<1> QED BY <1>6, <1>7 DEF IdentityInv

\* A commit keeps the requisition of its job or fills in one that no job has.
LEMMA CommitIdentity ==
  ASSUME IInv, IdentityInv, NEW p \in Procs, CommitStep(p)
  PROVE  IdentityInv'
<1>1. PICK j, job, event, newPosting, newAssessment, place :
        /\ ValidCommit(p, j, job, event, newPosting, newAssessment, place)
        /\ CommitMutation(p, j, job, event, newPosting, newAssessment, place)
  BY Zenon DEF CommitStep
<1> DEFINE new == [job |-> job, event |-> event,
                   posting |-> newPosting, assessment |-> newAssessment]
<1>2. /\ journal' = [journal EXCEPT ![j] = new]
      /\ pc' = [pc EXCEPT ![p] = "event"]
      /\ UNCHANGED jobs
  BY <1>1 DEF CommitMutation
<1>3. /\ pc[p] \in {"open", "batch"} /\ j \in Ids /\ Exists(j)
      /\ job.req = jobs[j].req \/ \A k \in Existing : jobs[k].req # job.req
  BY <1>1 DEF ValidCommit
<1>4. /\ \A k \in Ids : journal[k] = NoJournal
      /\ \A q \in Procs \ {p} : pc[q] = "idle"
  BY <1>3, Alone DEF IInv, ReplayInv, Pending
<1>5. new # NoJournal /\ new.job = job
  <2>1. new \in Mutation
    BY <1>1 DEF ValidCommit, Mutation
  <2> QED BY <2>1, JournalAssumption
<1> HIDE DEF new
<1>6. \A k \in Ids : CommittedJobs'[k] = IF k = j THEN job ELSE jobs[k]
  BY <1>2, <1>3, <1>4, <1>5 DEF CommittedJobs, IInv, TypeOK
<1>7. Existing' = Existing
  BY <1>2 DEF Existing, Exists
<1>8. DistinctReqs(jobs)
  BY DEF IdentityInv, UniqueInv
<1>9. UniqueInv'
  <2>1. \A i, k \in Existing : i # k /\ CommittedJobs'[i].req # NoReq
          => CommittedJobs'[i].req # CommittedJobs'[k].req
    BY <1>3, <1>6, <1>8 DEF DistinctReqs, Existing
  <2> QED BY <1>2, <1>7, <1>8, <2>1 DEF UniqueInv, DistinctReqs
<1>10. NovelInv'
  BY <1>2, <1>4 DEF NovelInv, IInv, TypeOK
<1> QED BY <1>9, <1>10 DEF IdentityInv

\* The duplicate check makes the draft novel.
LEMMA AllocateIdentity ==
  ASSUME IInv, IdentityInv, NEW p \in Procs, NEW candidate \in Candidates,
         NEW a \in Qualifying, NEW at \in Stamps, AllocateId(p, candidate, a, at)
  PROVE  IdentityInv'
<1>1. /\ pc[p] \in {"open", "batch"} /\ pc' = [pc EXCEPT ![p] = "create"]
      /\ draft' = [draft EXCEPT ![p] = [id |-> nextId, candidate |-> candidate,
                                        assessment |-> a, at |-> at]]
      /\ ResolveIdentity(candidate, [k \in Existing |-> jobs[k]]) = {}
      /\ UNCHANGED <<jobs, journal>>
  BY DEF AllocateId
<1>2. \A q \in Procs \ {p} : pc[q] = "idle"
  BY <1>1, Alone
<1>3. Existing' = Existing /\ CommittedJobs' = CommittedJobs
  BY <1>1 DEF Existing, Exists, CommittedJobs
<1>4. draft'[p].candidate = candidate
  BY <1>1 DEF IInv, TypeOK
<1>5. \A q \in Procs : pc'[q] = "create" => q = p
  BY <1>1, <1>2 DEF IInv, TypeOK
<1>6. NovelInv'
  BY <1>1, <1>3, <1>4, <1>5 DEF NovelInv
<1>7. UniqueInv'
  BY <1>1, <1>3 DEF IdentityInv, UniqueInv, DistinctReqs
<1> QED BY <1>6, <1>7 DEF IdentityInv

\* What PublishJob does to the records, and what is known of the new one.
LEMMA PublishEffect ==
  ASSUME IInv, IdentityInv, NEW p \in Procs, PublishJob(p)
  PROVE  \E j \in Ids, job \in Job :
           /\ ~Exists(j) /\ job # NoJob
           /\ jobs' = [jobs EXCEPT ![j] = job]
           /\ \A k \in Existing :
                /\ job.req # NoReq => jobs[k].req # job.req
                /\ jobs[k].fallback = job.fallback =>
                     job.req # NoReq /\ jobs[k].req # NoReq
<1> DEFINE new == draft[p]
           job == BuildRecord(new.candidate, new.assessment, new.at)
<1>1. /\ pc[p] = "create" /\ ~Exists(new.id)
      /\ jobs' = [jobs EXCEPT ![new.id] = job]
  BY DEF PublishJob
<1>2. /\ new.id \in Ids
      /\ new.candidate \in Candidate /\ new.assessment \in Assessments /\ new.at \in Nat
  BY <1>1, RecordAssumption DEF IInv, CounterInv, DraftJob
<1>3. job \in Job /\ job # NoJob
  BY <1>2, BuildRecordType, StoreAssumption
<1>4. job.req = new.candidate.req /\ job.fallback = new.candidate.fallback
  BY DEF BuildRecord
<1> DEFINE existing == [k \in Existing |-> jobs[k]]
<1>5. ResolveIdentity(new.candidate, existing) = {}
  BY <1>1 DEF IdentityInv, NovelInv
<1>6. DOMAIN existing = Existing /\ \A k \in Existing : existing[k] = jobs[k]
  OBVIOUS
<1> HIDE DEF existing, new, job
<1>7. \A k \in Existing : /\ job.req # NoReq => jobs[k].req # job.req
                          /\ jobs[k].fallback = job.fallback =>
                               job.req # NoReq /\ jobs[k].req # NoReq
  BY <1>4, <1>5, <1>6, NovelRequisition, NovelFallback
<1> QED BY <1>1, <1>2, <1>3, <1>7

\* The new folder brings a requisition that no job has.
LEMMA PublishIdentity ==
  ASSUME IInv, IdentityInv, NEW p \in Procs, PublishJob(p)
  PROVE  IdentityInv'
<1>1. PICK j \in Ids, job \in Job :
        /\ ~Exists(j) /\ job # NoJob
        /\ jobs' = [jobs EXCEPT ![j] = job]
        /\ \A k \in Existing : job.req # NoReq => jobs[k].req # job.req
  BY PublishEffect
<1>2. /\ pc[p] = "create" /\ pc' = [pc EXCEPT ![p] = "batch"] /\ UNCHANGED journal
  BY DEF PublishJob
<1>3. /\ \A k \in Ids : journal[k] = NoJournal
      /\ \A q \in Procs \ {p} : pc[q] = "idle"
  BY <1>2, Alone DEF IInv, ReplayInv, Pending
<1>4. \A k \in Ids : jobs'[k] = IF k = j THEN job ELSE jobs[k]
  BY <1>1 DEF IInv, TypeOK
<1>5. Existing' = Existing \cup {j} /\ j \notin Existing
  BY <1>1, <1>4 DEF Existing, Exists
<1>6. \A k \in Ids : CommittedJobs'[k] = jobs'[k]
  BY <1>2, <1>3 DEF CommittedJobs
<1>7. \A i, k \in Existing' : i # k /\ jobs'[i].req # NoReq => jobs'[i].req # jobs'[k].req
  BY <1>1, <1>4, <1>5 DEF IdentityInv, UniqueInv, DistinctReqs, Existing
<1>8. UniqueInv'
  BY <1>6, <1>7 DEF UniqueInv, DistinctReqs, Existing
<1>9. NovelInv'
  BY <1>2, <1>3 DEF NovelInv, IInv, TypeOK
<1> QED BY <1>8, <1>9 DEF IdentityInv

\* Every step keeps opportunities apart.
LEMMA NextIdentity == IInv /\ IdentityInv /\ [Next]_vars => IdentityInv'
<1> SUFFICES ASSUME IInv, IdentityInv, [Next]_vars PROVE IdentityInv'
  OBVIOUS
<1>1. ASSUME NEW p \in Procs, Acquire(p) \/ Release(p) \/ Crash(p) PROVE IdentityInv'
  <2>1. UNCHANGED <<jobs, journal>>
    BY <1>1 DEF Acquire, Release, Crash, files
  <2>2. \A q \in Procs : pc'[q] = "create" => pc[q] = "create" /\ draft'[q] = draft[q]
    BY <1>1 DEF Acquire, Release, Crash, ReplayThen, files, IInv, TypeOK
  <2> QED BY <2>1, <2>2, QuietIdentity
<1>2. ASSUME NEW p \in Procs, ReplayEvent(p) \/ ReplayAssessment(p) \/ ReplayPosting(p)
      PROVE  IdentityInv'
  <2>1. UNCHANGED <<jobs, journal>>
    BY <1>2 DEF ReplayEvent, ReplayAssessment, ReplayPosting
  <2>2. \A q \in Procs : pc'[q] = "create" => pc[q] = "create" /\ draft'[q] = draft[q]
    BY <1>2 DEF ReplayEvent, ReplayAssessment, ReplayPosting, IInv, TypeOK
  <2> QED BY <2>1, <2>2, QuietIdentity
<1>3. ASSUME NEW p \in Procs, ReplayClear(p) PROVE IdentityInv'
  <2>1. UNCHANGED <<jobs, CommittedJobs>>
    BY <1>3, ReplayClearHidden DEF View, ReplayClear
  <2>2. Existing' = Existing
    BY <2>1 DEF Existing, Exists
  <2>3. \A q \in Procs : pc'[q] # "create"
    <3>1. \A q \in Procs \ {p} : pc[q] = "idle"
      BY <1>3, Alone DEF ReplayClear
    <3> QED BY <1>3, <3>1 DEF ReplayClear, ReplayThen, IInv, TypeOK
  <2> QED BY <2>1, <2>2, <2>3 DEF IdentityInv, NovelInv, UniqueInv, DistinctReqs
<1>4. ASSUME NEW p \in Procs, NEW j \in Ids, ReserveVersion(p, j) PROVE IdentityInv'
  <2>1. UNCHANGED <<jobs, journal>>
    BY <1>4 DEF ReserveVersion
  <2>2. \A q \in Procs : pc'[q] = "create" => pc[q] = "create" /\ draft'[q] = draft[q]
    BY <1>4 DEF ReserveVersion, IInv, TypeOK
  <2> QED BY <2>1, <2>2, QuietIdentity
<1>5. ASSUME NEW p \in Procs, Operation(p) PROVE IdentityInv'
  <2>1. TypeOK
    BY DEF IInv
  <2> QED BY <1>4, <1>5, <2>1, OperationCases, CommitIdentity, AllocateIdentity,
             PublishIdentity
<1>6. CASE UNCHANGED vars
  <2>1. UNCHANGED <<jobs, journal>> /\ UNCHANGED <<pc, draft>>
    BY <1>6 DEF vars
  <2> QED BY <2>1, QuietIdentity
<1> QED
  BY <1>1, <1>2, <1>3, <1>5, <1>6, ReplayRecordIdentity DEF Next, Replay

\* The identity invariant holds in every reachable state.
LEMMA IdentityInvariant == Spec => []IdentityInv
<1>1. Init => IdentityInv
  <2> SUFFICES ASSUME Init PROVE IdentityInv
    OBVIOUS
  <2>1. Existing = {} /\ \A p \in Procs : pc[p] # "create"
    BY DEF Init, Existing, Exists
  <2> QED BY <2>1 DEF IdentityInv, NovelInv, UniqueInv, DistinctReqs
<1> QED BY <1>1, NextIdentity, StoreInvariant, PTL DEF Spec

\* No two saved jobs ever carry the same employer requisition, although the
\* check, the counter and the folder are separate steps and a re-verification
\* may add a requisition to a job that was saved without one.
THEOREM UniqueRequisitions == Spec => []OneJobPerRequisition
<1>1. IdentityInv => OneJobPerRequisition
  BY DEF IdentityInv, UniqueInv, DistinctReqs, OneJobPerRequisition
<1> QED BY <1>1, IdentityInvariant, PTL

\* A new folder never repeats an opportunity that is already saved.
THEOREM NovelCreations == Spec => CreationIsNovel
<1> DEFINE Body == \A i, j \in Ids : Exists(i) /\ ~Exists(j) /\ jobs'[j] # NoJob =>
                     /\ jobs[i].req = jobs'[j].req => jobs[i].req = NoReq
                     /\ jobs[i].fallback = jobs'[j].fallback =>
                          jobs[i].req # NoReq /\ jobs'[j].req # NoReq
<1>1. IInv /\ IdentityInv /\ [Next]_vars => Body
  <2> SUFFICES ASSUME IInv, IdentityInv, [Next]_vars, NEW i \in Ids, NEW j \in Ids,
                      Exists(i), ~Exists(j), jobs'[j] # NoJob
               PROVE  /\ jobs[i].req = jobs'[j].req => jobs[i].req = NoReq
                      /\ jobs[i].fallback = jobs'[j].fallback =>
                           jobs[i].req # NoReq /\ jobs'[j].req # NoReq
    OBVIOUS
  <2>1. PICK p \in Procs : PublishJob(p)
    <3>1. ASSUME NEW p \in Procs, Acquire(p) \/ Release(p) \/ Crash(p) PROVE jobs' = jobs
      BY <3>1 DEF Acquire, Release, Crash, files
    <3>2. ASSUME NEW p \in Procs, Replay(p) PROVE jobs'[j] = jobs[j]
      <4>1. CASE ReplayRecord(p)
        <5>1. target[p] \in Ids /\ JournalFits(target[p])
          BY <4>1, Replaying DEF ReplayRecord, ReplaySteps
        <5>2. target[p] # j
          BY <5>1 DEF JournalFits
        <5> QED BY <4>1, <5>2 DEF ReplayRecord, IInv, TypeOK
      <4>2. CASE ~ReplayRecord(p)
        BY <3>2, <4>2 DEF Replay, ReplayEvent, ReplayAssessment, ReplayPosting, ReplayClear
      <4> QED BY <4>1, <4>2
    <3>3. ASSUME NEW p \in Procs, Operation(p), ~PublishJob(p) PROVE jobs' = jobs
      <4>1. TypeOK
        BY DEF IInv
      <4>2. \/ CommitStep(p)
            \/ \E k \in Ids : ReserveVersion(p, k)
            \/ \E candidate \in Candidates, at \in Stamps, a \in Qualifying :
                  AllocateId(p, candidate, a, at)
        BY <3>3, <4>1, OperationCases
      <4> QED BY <4>2 DEF CommitStep, CommitMutation, ReserveVersion, AllocateId
    <3>4. jobs'[j] # jobs[j]
      BY DEF Exists
    <3>5. ~UNCHANGED vars
      BY <3>4 DEF vars
    <3> QED BY <3>1, <3>2, <3>3, <3>4, <3>5 DEF Next
  <2>2. PICK k \in Ids, job \in Job :
          /\ jobs' = [jobs EXCEPT ![k] = job]
          /\ \A l \in Existing :
               /\ job.req # NoReq => jobs[l].req # job.req
               /\ jobs[l].fallback = job.fallback =>
                    job.req # NoReq /\ jobs[l].req # NoReq
    BY <2>1, PublishEffect
  <2>3. jobs'[j] = job
    BY <2>2 DEF IInv, TypeOK, Exists
  <2>4. i \in Existing
    BY DEF Existing
  <2> QED BY <2>2, <2>3, <2>4
<1>2. IInv /\ IdentityInv /\ [Next]_vars => [Body]_vars
  BY <1>1
<1> QED BY <1>2, StoreInvariant, IdentityInvariant, PTL DEF Spec, CreationIsNovel
-----------------------------------------------------------------------------
(* The history explains the status, when callers do not reuse times.        *)

\* Each event starts from the status the one before it ended in.
Chained(log) == \A k \in 1..(Len(log) - 1) : log[k + 1].prior = log[k].status

\* A journalled event is the newest line of the log, or it goes on from that
\* line and its time is new.
Continues(log, event) ==
  \/ log[Len(log)] = event
  \/ /\ event.prior = log[Len(log)].status
     /\ \A k \in DOMAIN log : log[k].at # event.at

HistoryFits(job, log, pending) ==
  /\ Len(log) >= 1 /\ Chained(log)
  /\ pending = NoJournal => log[Len(log)].status = job.status
  /\ pending # NoJournal => Continues(log, pending.event)

HistoryInv == \A j \in Ids : Exists(j) => HistoryFits(jobs[j], events[j], journal[j])

\* A step that journals an event which goes on from the status of its job and
\* whose time is new unless callers reuse times.
NewMutation(p) ==
  \E i \in Ids :
    /\ pc[p] \in {"open", "batch"} /\ UNCHANGED <<jobs, events>>
    /\ journal' = [journal EXCEPT ![i] = journal'[i]]
    /\ journal'[i].event.prior = jobs[i].status
    /\ StampsRepeat \/ \A k \in DOMAIN events[i] : events[i][k].at # journal'[i].event.at

\* An operation leaves records, logs and journals alone, publishes a job, or is
\* such a step.
LEMMA OperationIsNew ==
  ASSUME TypeOK, NEW p \in Procs, Operation(p)
  PROVE  \/ UNCHANGED <<jobs, events, journal>>
         \/ PublishJob(p)
         \/ NewMutation(p)
<1>1. ASSUME NEW j \in Ids, NEW at \in Stamps, NEW status, NEW allowed,
             ChangeStatus(p, j, status, at, allowed)
      PROVE  NewMutation(p)
  <2> DEFINE mutation ==
               [job |-> [jobs[j] EXCEPT !.status = status],
                event |-> MakeEvent("status_changed", at, jobs[j].status, status, NoDetail),
                posting |-> NoText, assessment |-> NoText]
  <2>1. /\ pc[p] \in {"open", "batch"} /\ Admissible(j, at)
        /\ journal' = [journal EXCEPT ![j] = mutation] /\ UNCHANGED <<jobs, events>>
    BY <1>1 DEF ChangeStatus, CommitMutation
  <2>2. mutation.event.at = at /\ mutation.event.prior = jobs[j].status
    BY DEF MakeEvent
  <2> HIDE DEF mutation
  <2>3. journal'[j] = mutation
    BY <2>1 DEF TypeOK
  <2>4. journal' = [journal EXCEPT ![j] = journal'[j]]
    BY <2>1, <2>3
  <2>5. journal'[j].event.at = at /\ journal'[j].event.prior = jobs[j].status
    BY <2>2, <2>3, Zenon
  <2> QED BY <2>1, <2>4, <2>5 DEF Admissible, NewMutation
<1>2. ASSUME NEW j \in Ids, NEW at \in Stamps, ObserveStatus(p, j, at)
      PROVE  NewMutation(p)
  <2> DEFINE mutation ==
               [job |-> jobs[j],
                event |-> MakeEvent("lifecycle_status_observed", at, jobs[j].status,
                            jobs[j].status, NoDetail),
                posting |-> NoText, assessment |-> NoText]
  <2>1. /\ pc[p] \in {"open", "batch"} /\ Admissible(j, at)
        /\ journal' = [journal EXCEPT ![j] = mutation] /\ UNCHANGED <<jobs, events>>
    BY <1>2 DEF ObserveStatus, CommitMutation
  <2>2. mutation.event.at = at /\ mutation.event.prior = jobs[j].status
    BY DEF MakeEvent
  <2> HIDE DEF mutation
  <2>3. journal'[j] = mutation
    BY <2>1 DEF TypeOK
  <2>4. journal' = [journal EXCEPT ![j] = journal'[j]]
    BY <2>1, <2>3
  <2>5. journal'[j].event.at = at /\ journal'[j].event.prior = jobs[j].status
    BY <2>2, <2>3, Zenon
  <2> QED BY <2>1, <2>4, <2>5 DEF Admissible, NewMutation
<1>3. ASSUME NEW j \in Ids, NEW at \in Stamps, NEW version \in Version, RecordVersion(p, j, version, at)
      PROVE  NewMutation(p)
  <2> DEFINE status == StatusAfterDelivery(jobs[j].status)
             mutation ==
               [job |-> [jobs[j] EXCEPT !.versions = @ \cup {version}, !.status = status],
                event |-> MakeEvent(IF status = "packet_ready" THEN "packet_ready"
                            ELSE "application_version_recorded",
                            at, jobs[j].status, status, [version |-> version.version]),
                posting |-> NoText, assessment |-> NoText]
  <2>1. /\ pc[p] \in {"open", "batch"} /\ Admissible(j, at)
        /\ journal' = [journal EXCEPT ![j] = mutation] /\ UNCHANGED <<jobs, events>>
    BY <1>3 DEF RecordVersion, CommitMutation
  <2>2. mutation.event.at = at /\ mutation.event.prior = jobs[j].status
    BY DEF MakeEvent
  <2> HIDE DEF mutation
  <2>3. journal'[j] = mutation
    BY <2>1 DEF TypeOK
  <2>4. journal' = [journal EXCEPT ![j] = journal'[j]]
    BY <2>1, <2>3
  <2>5. journal'[j].event.at = at /\ journal'[j].event.prior = jobs[j].status
    BY <2>2, <2>3, Zenon
  <2> QED BY <2>1, <2>4, <2>5 DEF Admissible, NewMutation
<1>4. ASSUME NEW j \in Ids, NEW at \in Stamps, NEW receipt \in Receipts, RecordExport(p, j, receipt, at)
      PROVE  NewMutation(p)
  <2> DEFINE mutation ==
               [job |-> [jobs[j] EXCEPT !.exports = @ \cup {receipt}],
                event |-> MakeEvent("export_verified", at, jobs[j].status, jobs[j].status,
                            [receipt |-> receipt]),
                posting |-> NoText, assessment |-> NoText]
  <2>1. /\ pc[p] \in {"open", "batch"} /\ Admissible(j, at)
        /\ journal' = [journal EXCEPT ![j] = mutation] /\ UNCHANGED <<jobs, events>>
    BY <1>4 DEF RecordExport, CommitMutation
  <2>2. mutation.event.at = at /\ mutation.event.prior = jobs[j].status
    BY DEF MakeEvent
  <2> HIDE DEF mutation
  <2>3. journal'[j] = mutation
    BY <2>1 DEF TypeOK
  <2>4. journal' = [journal EXCEPT ![j] = journal'[j]]
    BY <2>1, <2>3
  <2>5. journal'[j].event.at = at /\ journal'[j].event.prior = jobs[j].status
    BY <2>2, <2>3, Zenon
  <2> QED BY <2>1, <2>4, <2>5 DEF Admissible, NewMutation
<1>5. ASSUME NEW candidate \in Candidates, NEW at \in Stamps, NEW a \in Assessments,
             Reverify(p, candidate, a, at)
      PROVE  NewMutation(p)
  <2>1. PICK j \in Ids :
          /\ Admissible(j, at)
          /\ LET updated == Reverified(jobs[j], candidate, a, at)
             IN  CommitMutation(p, j, updated,
                   MakeEvent("job_reverified", at, jobs[j].status, jobs[j].status,
                     ReverificationDetail(jobs[j], updated, candidate, a, at)),
                   IF ReplacesEvidence(jobs[j], candidate)
                   THEN candidate.evidence ELSE NoText,
                   IF ReplacesAssessment(jobs[j], a, at) THEN a ELSE NoText,
                   "batch")
    BY <1>5, Zenon DEF Reverify
  <2> DEFINE job == Reverified(jobs[j], candidate, a, at)
             detail == ReverificationDetail(jobs[j], job, candidate, a, at)
             text == IF ReplacesEvidence(jobs[j], candidate) THEN candidate.evidence ELSE NoText
             score == IF ReplacesAssessment(jobs[j], a, at) THEN a ELSE NoText
             mutation ==
               [job |-> job,
                event |-> MakeEvent("job_reverified", at, jobs[j].status, jobs[j].status, detail),
                posting |-> text, assessment |-> score]
  <2>2. journal' = [journal EXCEPT ![j] = mutation] /\ UNCHANGED <<jobs, events>>
    BY <2>1, Zenon DEF CommitMutation
  <2> HIDE DEF job, detail, text, score
  <2>3. mutation.event.at = at /\ mutation.event.prior = jobs[j].status
    BY DEF MakeEvent
  <2> HIDE DEF mutation
  <2>4. journal'[j] = mutation
    BY <2>2 DEF TypeOK
  <2>5. journal' = [journal EXCEPT ![j] = journal'[j]]
    BY <2>2, <2>4
  <2>6. pc[p] \in {"open", "batch"}
    BY <1>5 DEF Reverify
  <2>7. journal'[j].event.at = at /\ journal'[j].event.prior = jobs[j].status
    BY <2>3, <2>4, Zenon
  <2> QED BY <2>1, <2>2, <2>5, <2>6, <2>7 DEF Admissible, NewMutation
<1>6. ASSUME NEW j \in Ids, ReserveVersion(p, j)
      PROVE  UNCHANGED <<jobs, events, journal>>
  BY <1>6 DEF ReserveVersion
<1>7. ASSUME NEW candidate \in Candidates, NEW at \in Stamps, NEW a \in Qualifying,
             AllocateId(p, candidate, a, at)
      PROVE  UNCHANGED <<jobs, events, journal>>
  BY <1>7 DEF AllocateId
<1> QED BY <1>1, <1>2, <1>3, <1>4, <1>5, <1>6, <1>7 DEF Operation, UpdateStatus, PrepareApplication

\* A log to which its journalled event was added once still chains.
LEMMA AddedOnce ==
  ASSUME NEW log \in Seq(Event), NEW event \in Event, Len(log) >= 1, Chained(log),
         Continues(log, event)
  PROVE  /\ Len(WithEvent(log, event)) >= 1 /\ Chained(WithEvent(log, event))
         /\ WithEvent(log, event)[Len(WithEvent(log, event))] = event
<1>1. Len(log) \in Nat /\ DOMAIN log = 1..Len(log)
  OBVIOUS
<1>2. CASE log[Len(log)] = event
  <2>1. Len(log) \in DOMAIN log
    BY <1>1
  <2>2. WithEvent(log, event) = log
    BY <1>2, <2>1, Zenon DEF WithEvent, Recorded
  <2> QED BY <1>2, <2>2
<1>3. CASE log[Len(log)] # event
  <2>1. /\ event.prior = log[Len(log)].status
        /\ \A k \in DOMAIN log : log[k].at # event.at
    BY <1>3, Zenon DEF Continues
  <2>2. WithEvent(log, event) = Append(log, event)
    BY <2>1, Zenon DEF WithEvent, Recorded
  <2>3. /\ Len(Append(log, event)) = Len(log) + 1
        /\ Append(log, event)[Len(log) + 1] = event
        /\ \A k \in 1..Len(log) : Append(log, event)[k] = log[k]
    OBVIOUS
  <2>4. Chained(Append(log, event))
    <3> SUFFICES ASSUME NEW k \in 1..Len(log)
                 PROVE  Append(log, event)[k + 1].prior = Append(log, event)[k].status
      BY <1>1, <2>3 DEF Chained
    <3>1. CASE k = Len(log)
      BY <1>1, <2>1, <2>3, <3>1
    <3>2. CASE k # Len(log)
      <4>1. k \in 1..(Len(log) - 1) /\ k + 1 \in 1..Len(log)
        <5>1. \A n \in Nat : \A i \in 1..n : i # n => i \in 1..(n - 1) /\ i + 1 \in 1..n
          OBVIOUS
        <5> QED BY <1>1, <3>2, <5>1, Zenon
      <4> QED BY <2>3, <4>1 DEF Chained
    <3> QED BY <3>1, <3>2
  <2> QED BY <1>1, <2>2, <2>3, <2>4
<1> QED BY <1>2, <1>3

LEMMA QuietHistory ==
  ASSUME HistoryInv, UNCHANGED <<jobs, events, journal>>
  PROVE  HistoryInv'
BY DEF HistoryInv, Exists

\* One job changes, and still fits.
LEMMA OneHistory ==
  ASSUME HistoryInv, NEW i \in Ids, HistoryFits(jobs'[i], events'[i], journal'[i]),
         \A j \in Ids : j # i =>
           jobs'[j] = jobs[j] /\ events'[j] = events[j] /\ journal'[j] = journal[j]
  PROVE  HistoryInv'
<1> SUFFICES ASSUME NEW j \in Ids, jobs'[j] # NoJob
             PROVE  HistoryFits(jobs'[j], events'[j], journal'[j])
  BY DEF HistoryInv, Exists
<1>1. CASE j = i
  BY <1>1
<1>2. CASE j # i
  BY <1>2 DEF HistoryInv, Exists
<1> QED BY <1>1, <1>2

\* The job that is replayed.
LEMMA ReplayedHistory ==
  ASSUME IInv, HistoryInv, NEW p \in Procs, pc[p] \in ReplaySteps
  PROVE  /\ target[p] \in Ids /\ JournalFits(target[p])
         /\ journal[target[p]] # NoJournal /\ journal[target[p]].event \in Event
         /\ HistoryFits(jobs[target[p]], events[target[p]], journal[target[p]])
         /\ events \in [Ids -> Seq(Event)] /\ jobs \in [Ids -> Job \cup {NoJob}]
         /\ journal \in [Ids -> Mutation \cup {NoJournal}]
<1>1. /\ target[p] \in Ids /\ JournalFits(target[p]) /\ journal[target[p]] \in Mutation
  BY Replaying
<1>2. journal[target[p]] # NoJournal
  BY <1>1, JournalAssumption
<1>3. journal[target[p]].event \in Event
  BY <1>1 DEF Mutation
<1>4. HistoryFits(jobs[target[p]], events[target[p]], journal[target[p]])
  BY <1>1 DEF HistoryInv, JournalFits
<1> QED BY <1>1, <1>2, <1>3, <1>4 DEF IInv, TypeOK

LEMMA ReplayEventHistory ==
  ASSUME IInv, HistoryInv, NEW p \in Procs, ReplayEvent(p)
  PROVE  HistoryInv'
<1> DEFINE log == events[target[p]]
           event == journal[target[p]].event
<1>1. PICK t \in Ids : t = target[p]
  BY ReplayedHistory DEF ReplayEvent, ReplaySteps
<1>2. /\ journal[t] # NoJournal /\ event \in Event /\ HistoryFits(jobs[t], log, journal[t])
      /\ events \in [Ids -> Seq(Event)]
  BY <1>1, ReplayedHistory DEF ReplayEvent, ReplaySteps
<1>3. /\ events' = [events EXCEPT ![t] = WithEvent(log, event)] /\ UNCHANGED <<jobs, journal>>
  BY <1>1 DEF ReplayEvent
<1>4. log \in Seq(Event) /\ event = journal[t].event
  BY <1>1, <1>2
<1> HIDE DEF log, event
<1>5. /\ Len(WithEvent(log, event)) >= 1 /\ Chained(WithEvent(log, event))
      /\ WithEvent(log, event)[Len(WithEvent(log, event))] = event
  BY <1>2, <1>4, AddedOnce DEF HistoryFits
<1>6. HistoryFits(jobs[t], WithEvent(log, event), journal[t])
  BY <1>2, <1>4, <1>5 DEF HistoryFits, Continues
<1>7. /\ events'[t] = WithEvent(log, event) /\ jobs'[t] = jobs[t] /\ journal'[t] = journal[t]
      /\ \A j \in Ids : j # t =>
           jobs'[j] = jobs[j] /\ events'[j] = events[j] /\ journal'[j] = journal[j]
  BY <1>2, <1>3
<1> QED BY <1>6, <1>7, OneHistory

LEMMA ReplayRecordHistory ==
  ASSUME IInv, HistoryInv, NEW p \in Procs, ReplayRecord(p)
  PROVE  HistoryInv'
<1>1. PICK t \in Ids : t = target[p]
  BY ReplayedHistory DEF ReplayRecord, ReplaySteps
<1>2. /\ journal[t] # NoJournal /\ HistoryFits(jobs[t], events[t], journal[t])
      /\ jobs \in [Ids -> Job \cup {NoJob}]
  BY <1>1, ReplayedHistory DEF ReplayRecord, ReplaySteps
<1>3. jobs' = [jobs EXCEPT ![t] = journal[t].job] /\ UNCHANGED <<events, journal>>
  BY <1>1 DEF ReplayRecord
<1>4. HistoryFits(jobs'[t], events'[t], journal'[t])
  BY <1>2, <1>3 DEF HistoryFits
<1>5. \A j \in Ids : j # t =>
        jobs'[j] = jobs[j] /\ events'[j] = events[j] /\ journal'[j] = journal[j]
  BY <1>2, <1>3
<1> QED BY <1>4, <1>5, OneHistory

LEMMA ReplayClearHistory ==
  ASSUME IInv, HistoryInv, NEW p \in Procs, ReplayClear(p)
  PROVE  HistoryInv'
<1>1. PICK t \in Ids : t = target[p]
  BY ReplayedHistory DEF ReplayClear, ReplaySteps
<1>2. /\ journal[t] # NoJournal /\ HistoryFits(jobs[t], events[t], journal[t])
      /\ journal \in [Ids -> Mutation \cup {NoJournal}] /\ JournalFits(t)
  BY <1>1, ReplayedHistory DEF ReplayClear, ReplaySteps
<1>3. journal' = [journal EXCEPT ![t] = NoJournal] /\ UNCHANGED <<events, jobs>>
  BY <1>1 DEF ReplayClear
<1>4. Recorded(events[t], journal[t].event) /\ jobs[t] = journal[t].job
  BY <1>1 DEF ReplayClear, IInv, ProgressInv
<1>5. events[t][Len(events[t])] = journal[t].event
  BY <1>2, <1>4, Zenon DEF HistoryFits, Continues, Recorded
<1>6. HistoryFits(jobs[t], events[t], NoJournal)
  BY <1>2, <1>4, <1>5 DEF HistoryFits, JournalFits
<1>7. /\ journal'[t] = NoJournal /\ jobs'[t] = jobs[t] /\ events'[t] = events[t]
      /\ \A j \in Ids : j # t =>
           jobs'[j] = jobs[j] /\ events'[j] = events[j] /\ journal'[j] = journal[j]
  BY <1>2, <1>3
<1> QED BY <1>6, <1>7, OneHistory

LEMMA MutationHistory ==
  ASSUME IInv, HistoryInv, StampsRepeat = FALSE, NEW p \in Procs, NewMutation(p)
  PROVE  HistoryInv'
<1>1. PICK i \in Ids :
        /\ pc[p] \in {"open", "batch"} /\ UNCHANGED <<jobs, events>>
        /\ journal' = [journal EXCEPT ![i] = journal'[i]]
        /\ journal'[i].event.prior = jobs[i].status
        /\ \A k \in DOMAIN events[i] : events[i][k].at # journal'[i].event.at
  BY DEF NewMutation
<1>2. \A j \in Ids : journal[j] = NoJournal
  BY <1>1 DEF IInv, ReplayInv, Pending
<1>3. \A j \in Ids : j # i =>
        jobs'[j] = jobs[j] /\ events'[j] = events[j] /\ journal'[j] = journal[j]
  BY <1>1 DEF IInv, TypeOK
<1> SUFFICES ASSUME NEW j \in Ids, jobs'[j] # NoJob
             PROVE  HistoryFits(jobs'[j], events'[j], journal'[j])
  BY DEF HistoryInv, Exists
<1>4. HistoryFits(jobs[j], events[j], NoJournal)
  BY <1>1, <1>2 DEF HistoryInv, Exists
<1>5. CASE j = i
  BY <1>1, <1>4, <1>5 DEF HistoryFits, Continues
<1>6. CASE j # i
  BY <1>2, <1>3, <1>4, <1>6
<1> QED BY <1>5, <1>6

LEMMA PublishHistory ==
  ASSUME IInv, HistoryInv, NEW p \in Procs, PublishJob(p)
  PROVE  HistoryInv'
<1> DEFINE new == draft[p]
           job == BuildRecord(new.candidate, new.assessment, new.at)
           first == MakeEvent("job_created", new.at, "new", "new", NoDetail)
<1>1. PICK t \in Ids : t = new.id
  BY DEF PublishJob, IInv, CounterInv, DraftJob
<1>2. /\ ~Exists(t) /\ jobs' = [jobs EXCEPT ![t] = job]
      /\ events' = [events EXCEPT ![t] = <<first>>] /\ UNCHANGED journal
  BY <1>1 DEF PublishJob
<1>3. journal[t] = NoJournal
  BY <1>2 DEF IInv, JournalInv, JournalFits, Pending
<1>4. job.status = "new" /\ first.status = "new"
  BY DEF BuildRecord, MakeEvent
<1>5. jobs \in [Ids -> Job \cup {NoJob}] /\ events \in [Ids -> Seq(Event)]
  BY DEF IInv, TypeOK
<1> HIDE DEF new, job, first
<1>6. HistoryFits(job, <<first>>, NoJournal)
  BY <1>4 DEF HistoryFits, Chained
<1>7. /\ jobs'[t] = job /\ events'[t] = <<first>> /\ journal'[t] = NoJournal
      /\ \A j \in Ids : j # t =>
           jobs'[j] = jobs[j] /\ events'[j] = events[j] /\ journal'[j] = journal[j]
  BY <1>2, <1>3, <1>5
<1> QED BY <1>6, <1>7, OneHistory

\* Every history goes on explaining the status.
LEMMA NextHistory ==
  ASSUME StampsRepeat = FALSE
  PROVE  IInv /\ HistoryInv /\ [Next]_vars => HistoryInv'
<1> SUFFICES ASSUME IInv, HistoryInv, [Next]_vars
             PROVE  HistoryInv'
  OBVIOUS
<1>1. ASSUME NEW p \in Procs, Acquire(p) \/ Release(p) \/ Crash(p) \/ ReplayAssessment(p) \/ ReplayPosting(p)
      PROVE  HistoryInv'
  BY <1>1, QuietHistory DEF Acquire, Release, Crash, ReplayAssessment, ReplayPosting, files
<1>2. ASSUME NEW p \in Procs, Operation(p)
      PROVE  HistoryInv'
  BY <1>2, OperationIsNew, QuietHistory, MutationHistory, PublishHistory DEF IInv
<1>3. CASE UNCHANGED vars
  BY <1>3, QuietHistory DEF vars
<1> QED BY <1>1, <1>2, <1>3, ReplayEventHistory, ReplayRecordHistory, ReplayClearHistory
        DEF Next, Replay

\* When callers give each event of a job a time of its own, the events of a
\* job lead, one to the next, from its creation to its current status, whoever
\* died between the log and the record (_recover_pending_mutation_locked).
THEOREM HistoriesExplainStatus ==
  ASSUME StampsRepeat = FALSE
  PROVE  Spec => []HistoryExplainsStatus
<1>1. Init => HistoryInv
  BY DEF Init, HistoryInv, Exists
<1>2. Spec => []HistoryInv
  BY <1>1, NextHistory, StoreInvariant, PTL DEF Spec
<1>3. HistoryInv => HistoryExplainsStatus
  BY DEF HistoryInv, HistoryFits, Chained, HistoryExplainsStatus, Existing
<1> QED BY <1>2, <1>3, PTL

\* What becomes of a job when an event is journalled for it: the event tells how
\* its status changes, and is added to the history or, which takes callers that
\* reuse times, is not because an identical line is there.
Told(i) ==
  /\ journal'[i] # NoJournal
  /\ journal'[i].event.prior = CommittedJobs[i].status
  /\ journal'[i].event.status = CommittedJobs'[i].status
  /\ IF Recorded(CommittedEvents[i], journal'[i].event)
     THEN StampsRepeat /\ CommittedEvents'[i] = CommittedEvents[i]
     ELSE CommittedEvents'[i] = Append(CommittedEvents[i], journal'[i].event)

\* What a step does to the records that callers see: nothing, a change that is
\* told of one job, or a new job.
LEMMA CommittedEffect ==
  ASSUME IInv, [Next]_vars
  PROVE  \/ UNCHANGED CommittedJobs
         \/ \E i \in Ids :
              /\ Exists(i) => Told(i)
              /\ \A j \in Ids : j # i => CommittedJobs'[j] = CommittedJobs[j]
<1>1. ASSUME UNCHANGED <<jobs, journal>>
      PROVE  UNCHANGED CommittedJobs
  BY <1>1 DEF CommittedJobs
<1>2. ASSUME NEW p \in Procs, NewMutation(p)
      PROVE  \/ UNCHANGED CommittedJobs
             \/ \E i \in Ids :
                  Told(i) /\ \A j \in Ids : j # i => CommittedJobs'[j] = CommittedJobs[j]
  <2>1. PICK i \in Ids :
          /\ pc[p] \in {"open", "batch"} /\ UNCHANGED <<jobs, events>>
          /\ journal' = [journal EXCEPT ![i] = journal'[i]]
          /\ journal'[i].event.prior = jobs[i].status
          /\ StampsRepeat \/ \A k \in DOMAIN events[i] : events[i][k].at # journal'[i].event.at
    BY <1>2 DEF NewMutation
  <2>2. \A j \in Ids : journal[j] = NoJournal
    BY <2>1 DEF IInv, ReplayInv, Pending
  <2>3. \A j \in Ids : j # i => journal'[j] = journal[j]
    BY <2>1 DEF IInv, TypeOK
  <2>4. CASE journal'[i] = NoJournal
    <3>1. \A j \in Ids : journal'[j] = journal[j]
      BY <2>2, <2>3, <2>4
    <3> QED BY <2>1, <3>1 DEF CommittedJobs
  <2>5. CASE journal'[i] # NoJournal
    <3>1. \A j \in Ids : j # i => CommittedJobs'[j] = CommittedJobs[j]
      BY <2>1, <2>2, <2>3 DEF CommittedJobs
    <3>2. CommittedEvents[i] = events[i] /\ CommittedJobs[i] = jobs[i]
      BY <2>2 DEF CommittedEvents, CommittedJobs
    <3>3. /\ CommittedEvents'[i] = WithEvent(events[i], journal'[i].event)
          /\ CommittedJobs'[i] = journal'[i].job
      BY <2>1, <2>5 DEF CommittedEvents, CommittedJobs
    <3>4. journal'[i].event.status = journal'[i].job.status
      BY <2>5, NextIInv DEF IInv, JournalInv, JournalFits, Pending
    <3>5. Recorded(events[i], journal'[i].event) => StampsRepeat
      BY <2>1 DEF Recorded
    <3>6. Told(i)
      BY <2>1, <2>5, <3>2, <3>3, <3>4, <3>5 DEF Told, WithEvent
    <3> QED BY <3>1, <3>6
  <2> QED BY <2>4, <2>5
<1>3. ASSUME NEW p \in Procs, PublishJob(p)
      PROVE  \E i \in Ids : ~Exists(i) /\ \A j \in Ids : j # i => CommittedJobs'[j] = CommittedJobs[j]
  <2>1. draft[p].id \in Ids
    BY <1>3 DEF PublishJob, IInv, CounterInv, DraftJob
  <2>2. /\ ~Exists(draft[p].id) /\ UNCHANGED journal
        /\ \A j \in Ids : j # draft[p].id => jobs'[j] = jobs[j]
    BY <1>3, <2>1 DEF PublishJob, IInv, TypeOK
  <2>3. \A j \in Ids : j # draft[p].id => CommittedJobs'[j] = CommittedJobs[j]
    BY <2>2 DEF CommittedJobs
  <2> QED BY <2>1, <2>2, <2>3
<1>4. ASSUME NEW p \in Procs, Operation(p)
      PROVE  UNCHANGED <<jobs, events, journal>> \/ PublishJob(p) \/ NewMutation(p)
  BY <1>4, OperationIsNew DEF IInv
<1>5. ASSUME NEW p \in Procs, Acquire(p) \/ Release(p) \/ Crash(p)
      PROVE  UNCHANGED <<jobs, journal>>
  BY <1>5 DEF Acquire, Release, Crash, files
<1>6. ASSUME NEW p \in Procs, Replay(p)
      PROVE  UNCHANGED CommittedJobs
  BY <1>6, ReplayEventHidden, ReplayDocumentHidden, ReplayRecordHidden, ReplayClearHidden
     DEF Replay, View
<1>7. CASE UNCHANGED vars
  BY <1>1, <1>7 DEF vars
<1>8. CASE Next
  <2>1. PICK p \in Procs : Acquire(p) \/ Replay(p) \/ Operation(p) \/ Release(p) \/ Crash(p)
    BY <1>8 DEF Next
  <2>2. CASE Replay(p)
    BY <1>6, <2>2
  <2>3. CASE Acquire(p) \/ Release(p) \/ Crash(p)
    BY <1>1, <1>5, <2>3
  <2>4. CASE Operation(p)
    BY <1>1, <1>2, <1>3, <1>4, <2>4
  <2> QED BY <2>1, <2>2, <2>3, <2>4
<1> QED BY <1>7, <1>8

\* A change of the status of a job that exists is told by an event of its own.
StatusChangeIsTold ==
  [][\A j \in Ids : Exists(j) /\ CommittedJobs'[j].status # CommittedJobs[j].status => Told(j)]_vars

\* However callers choose their times and whoever dies: a committed change of
\* status leads in an event from the old status to the new, and that event is
\* the next of the history, unless a caller reused a time and the very line is
\* there already.  Then, and only then, the history is one event short of what
\* the design says of update_job_status (_recover_pending_mutation_locked,
\* which writes no line twice).
THEOREM StatusChangesAreTold == Spec => StatusChangeIsTold
<1> DEFINE Body == \A j \in Ids : Exists(j) /\ CommittedJobs'[j].status # CommittedJobs[j].status =>
                     Told(j)
<1>1. ASSUME IInv, [Next]_vars PROVE Body
  <2>1. CASE UNCHANGED CommittedJobs
    BY <2>1
  <2>2. ASSUME NEW i \in Ids, Exists(i) => Told(i),
               \A j \in Ids : j # i => CommittedJobs'[j] = CommittedJobs[j]
        PROVE  Body
    BY <2>2
  <2> QED BY <1>1, <2>1, <2>2, CommittedEffect
<1>2. IInv /\ [Next]_vars => [Body]_vars
  BY <1>1
<1> QED BY <1>2, StoreInvariant, PTL DEF Spec, StatusChangeIsTold

-----------------------------------------------------------------------------
(* What repeating a re-verification does.                                   *)

\* Re-verifying fills in the requisition that makes the posting an exact match,
\* so that a stronger source replaces the evidence only the next time.
FillsInMatch(job, candidate) ==
  /\ EvidenceIsCurrent(job, candidate) /\ candidate.source # job.source
  /\ job.req = NoReq /\ candidate.req # NoReq
  /\ StrongerSource(job, candidate)

\* The fields of a re-verified record, one by one.
LEMMA ReverifiedFields ==
  ASSUME NEW job \in Job, NEW candidate \in Candidate, NEW a \in Assessments, NEW at \in Nat
  PROVE  LET new == Reverified(job, candidate, a, at)
             replace == ReplacesEvidence(job, candidate)
         IN  /\ new \in Job
             /\ new.req = RequisitionAfter(job, candidate)
             /\ new.fallback = IF replace THEN candidate.fallback ELSE job.fallback
             /\ new.source = IF replace THEN candidate.source ELSE job.source
             /\ new.evidence = IF replace THEN candidate.evidence ELSE job.evidence
             /\ new.verifiedAt = IF replace \/ ConfirmsEvidence(job, candidate)
                                 THEN candidate.verifiedAt ELSE job.verifiedAt
             /\ new.assessment = IF ReplacesAssessment(job, a, at) THEN a ELSE job.assessment
             /\ new.assessedAt = IF ReplacesAssessment(job, a, at) \/ a = job.assessment
                                 THEN Latest(job.assessedAt, at) ELSE job.assessedAt
             /\ new.reverifiedAt = Latest(job.reverifiedAt, at)
             /\ new.status = job.status /\ new.versions = job.versions /\ new.exports = job.exports
<1>1. Latest(job.assessedAt, at) \in Nat /\ Latest(job.reverifiedAt, at) \in Nat
  BY DEF Latest, Job
<1>2. RequisitionAfter(job, candidate) \in Reqs \cup {NoReq}
  BY DEF RequisitionAfter, Job, Candidate
<1> QED BY <1>1, <1>2 DEF Reverified, Job, Candidate

\* Two records with the same fields are the same.
LEMMA SameFields ==
  ASSUME NEW x \in Job, NEW y \in Job,
         x.req = y.req, x.fallback = y.fallback, x.source = y.source, x.evidence = y.evidence,
         x.verifiedAt = y.verifiedAt, x.assessment = y.assessment, x.assessedAt = y.assessedAt,
         x.reverifiedAt = y.reverifiedAt, x.status = y.status, x.versions = y.versions,
         x.exports = y.exports
  PROVE  x = y
BY DEF Job

\* One repetition changes nothing unless the first filled in a match.
LEMMA ReverifiedAgain ==
  ASSUME NEW job \in Job, NEW candidate \in Candidate, NEW a \in Assessments, NEW at \in Nat,
         ~FillsInMatch(job, candidate)
  PROVE  LET new == Reverified(job, candidate, a, at)
         IN  /\ Reverified(new, candidate, a, at) = new
             /\ ~FillsInMatch(new, candidate)
<1> DEFINE new == Reverified(job, candidate, a, at)
           again == Reverified(new, candidate, a, at)
<1>1. /\ new \in Job
      /\ new.req = RequisitionAfter(job, candidate)
      /\ new.fallback = IF ReplacesEvidence(job, candidate) THEN candidate.fallback ELSE job.fallback
      /\ new.source = IF ReplacesEvidence(job, candidate) THEN candidate.source ELSE job.source
      /\ new.evidence = IF ReplacesEvidence(job, candidate) THEN candidate.evidence ELSE job.evidence
      /\ new.verifiedAt = IF ReplacesEvidence(job, candidate) \/ ConfirmsEvidence(job, candidate)
                          THEN candidate.verifiedAt ELSE job.verifiedAt
      /\ new.assessment = IF ReplacesAssessment(job, a, at) THEN a ELSE job.assessment
      /\ new.assessedAt = IF ReplacesAssessment(job, a, at) \/ a = job.assessment
                          THEN Latest(job.assessedAt, at) ELSE job.assessedAt
      /\ new.reverifiedAt = Latest(job.reverifiedAt, at)
  BY ReverifiedFields
<1> HIDE DEF new
<1>2. /\ again \in Job
      /\ again.req = RequisitionAfter(new, candidate)
      /\ again.fallback = IF ReplacesEvidence(new, candidate) THEN candidate.fallback ELSE new.fallback
      /\ again.source = IF ReplacesEvidence(new, candidate) THEN candidate.source ELSE new.source
      /\ again.evidence = IF ReplacesEvidence(new, candidate) THEN candidate.evidence ELSE new.evidence
      /\ again.verifiedAt = IF ReplacesEvidence(new, candidate) \/ ConfirmsEvidence(new, candidate)
                            THEN candidate.verifiedAt ELSE new.verifiedAt
      /\ again.assessment = IF ReplacesAssessment(new, a, at) THEN a ELSE new.assessment
      /\ again.assessedAt = IF ReplacesAssessment(new, a, at) \/ a = new.assessment
                            THEN Latest(new.assessedAt, at) ELSE new.assessedAt
      /\ again.reverifiedAt = Latest(new.reverifiedAt, at)
      /\ again.status = new.status /\ again.versions = new.versions /\ again.exports = new.exports
  BY <1>1, ReverifiedFields
<1> HIDE DEF again
<1>3. /\ job.verifiedAt \in Nat /\ candidate.verifiedAt \in Nat /\ job.assessedAt \in Nat
      /\ job.reverifiedAt \in Nat
  BY DEF Job, Candidate
<1>4. again.assessment = new.assessment /\ again.assessedAt = new.assessedAt
  BY <1>1, <1>2, <1>3 DEF ReplacesAssessment, Latest
<1>5. again.reverifiedAt = new.reverifiedAt
  BY <1>1, <1>2, <1>3 DEF Latest
<1>6. ~ReplacesEvidence(new, candidate) /\ ~FillsInMatch(new, candidate)
  <2>1. CASE ReplacesEvidence(job, candidate)
    BY <1>1, <2>1 DEF ReplacesEvidence, FillsInMatch
  <2>2. CASE ~ReplacesEvidence(job, candidate)
    <3>1. /\ new.source = job.source /\ new.evidence = job.evidence
          /\ EvidenceIsCurrent(new, candidate) => EvidenceIsCurrent(job, candidate)
      BY <1>1, <1>3, <2>2 DEF EvidenceIsCurrent, ConfirmsEvidence
    <3>2. /\ job.req # NoReq => new.req = job.req
          /\ job.req = NoReq => new.req = candidate.req
      BY <1>1, <2>2 DEF RequisitionAfter
    <3>3. StrongerSource(new, candidate) <=> StrongerSource(job, candidate)
      BY <3>1 DEF StrongerSource
    <3>4. ~FillsInMatch(new, candidate)
      BY <3>1, <3>2, <3>3 DEF FillsInMatch
    <3>5. ~ReplacesEvidence(new, candidate)
      BY <2>2, <3>1, <3>2, <3>3 DEF ReplacesEvidence, FillsInMatch
    <3> QED BY <3>4, <3>5
  <2> QED BY <2>1, <2>2
<1>7. again.req = new.req
  BY <1>1, <1>2, <1>6 DEF RequisitionAfter
<1>8. again.verifiedAt = new.verifiedAt
  BY <1>1, <1>2, <1>3, <1>6 DEF ConfirmsEvidence, EvidenceIsCurrent
<1>9. again = new
  BY <1>1, <1>2, <1>4, <1>5, <1>6, <1>7, <1>8, SameFields
<1> QED BY <1>6, <1>9 DEF again, new

\* A posting that is re-verified again and again, as by a batch that is repeated
\* after it died, changes the record at most twice: the first time, and the
\* second if the first filled in a requisition that makes a stronger source an
\* exact match (job_store.py reverify_job).
THEOREM ReverificationSettles ==
  ASSUME NEW job \in Job, NEW candidate \in Candidate, NEW a \in Assessments, NEW at \in Nat
  PROVE  LET once   == Reverified(job, candidate, a, at)
             twice  == Reverified(once, candidate, a, at)
             thrice == Reverified(twice, candidate, a, at)
         IN  /\ thrice = twice
             /\ ~FillsInMatch(job, candidate) => twice = once
<1> DEFINE once == Reverified(job, candidate, a, at)
           twice == Reverified(once, candidate, a, at)
<1>1. once \in Job /\ once.req = RequisitionAfter(job, candidate)
  BY ReverifiedFields
<1>2. CASE ~FillsInMatch(job, candidate)
  <2>1. twice = once
    BY <1>2, ReverifiedAgain
  <2> QED BY <2>1
<1>3. CASE FillsInMatch(job, candidate)
  <2>1. ~FillsInMatch(once, candidate)
    BY <1>1, <1>3 DEF FillsInMatch, RequisitionAfter
  <2> HIDE DEF once
  <2>2. Reverified(twice, candidate, a, at) = twice
    BY <1>1, <2>1, ReverifiedAgain
  <2> QED BY <1>3, <2>2 DEF once
<1> QED BY <1>2, <1>3
=============================================================================
