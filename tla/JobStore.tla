------------------------------ MODULE JobStore ------------------------------
(***************************************************************************)
(* The canonical job store (src/career_pipeline/job_store.py): processes   *)
(* that share one workspace directory take a non-blocking file lock,       *)
(* replay whatever mutation a dead process left behind, and then create,   *)
(* re-verify or update jobs.                                               *)
(*                                                                         *)
(* Files are replaced atomically and durably (src/career_pipeline/         *)
(* atomic.py), so each file write is one step.  A mutation is a journal    *)
(* write followed by the event log, the documents, job.json and the        *)
(* removal of the journal; a process may die between any two of them, and  *)
(* the kernel then drops its lock.                                         *)
(*                                                                         *)
(* Everything an operation reads, decides and journals happens under the   *)
(* lock, so the decision and the journal write are one step here.          *)
(***************************************************************************)
EXTENDS JobRecord, Sequences, FiniteSets

CONSTANTS Procs,        \* single-threaded processes that open the workspace
          Free,         \* nobody holds the lock
          MaxId,        \* last job ID (999999 in the code)
          Stamps,       \* occurred_at values that callers pass
          NoJob,        \* no folder with this ID
          NoText,       \* the journal does not touch this document
          NoJournal,    \* no working/pending-mutation.json
          NoDraft,      \* the process is not creating a job
          RequestedStatuses, \* statuses that users ask for in this instance
          MaxEvents,    \* bound: mutations stop when a history is this long
          StampsRepeat  \* may a caller reuse an occurred_at within a history?

VARIABLES nextId,       \* State/next-job-id.json
          jobs,         \* Jobs/<id>/job.json; NoJob: no such folder
          posting,      \* Jobs/<id>/posting.md
          assessment,   \* Jobs/<id>/assessment.md
          events,       \* Jobs/<id>/events.jsonl
          journal,      \* Jobs/<id>/working/pending-mutation.json
          reserved,     \* latest version in State/application-manifest.json
          lock,         \* holder of State/.workspace.lock
          pc,           \* what each process does next
          target,       \* the job whose journal the process replays, or 0
          resume,       \* where the process goes after the replay
          draft         \* the job the process is creating

files == <<nextId, jobs, posting, assessment, events, journal, reserved>>
procs == <<pc, target, resume, draft>>
vars  == <<nextId, jobs, posting, assessment, events, journal, reserved,
           lock, pc, target, resume, draft>>

Ids == 1..MaxId

ASSUME StoreAssumption ==
  /\ MaxId \in Nat
  /\ MaxEvents \in Nat
  /\ Stamps \subseteq Nat
  /\ RequestedStatuses \subseteq Statuses
  /\ StampsRepeat \in BOOLEAN
  /\ Free \notin Procs
  /\ NoJob \notin Job
  /\ NoText \notin Evidence \cup Assessments
  /\ NoJob \notin Evidence \cup Assessments
  /\ NoJob # NoText

-----------------------------------------------------------------------------
(* Event lines.                                                             *)

\* The fields whose change a re-verification reports.
ReportedFields == {"req", "fallback", "source", "evidence", "assessment"}

Detail ==
  [kind : {"none"}] \cup [version : 1..MaxVersion] \cup [receipt : Receipts]
  \cup [source : STRING, evidenceIgnored : BOOLEAN, assessmentIgnored : BOOLEAN,
        from : Assessments, to : Assessments, changed : SUBSET ReportedFields]

NoDetail == [kind |-> "none"]

EventTypes == {"job_created", "status_changed", "lifecycle_status_observed",
               "job_reverified", "packet_ready", "application_version_recorded",
               "export_verified"}

Event == [type : EventTypes, at : Nat, prior : Statuses, status : Statuses,
          detail : Detail]

\* _event.  A creation has no prior status; "new" stands in for it.
MakeEvent(type, at, prior, status, detail) ==
  [type |-> type, at |-> at, prior |-> prior, status |-> status, detail |-> detail]

Recorded(log, event) == \E k \in DOMAIN log : log[k] = event

\* Slip: recovery appends its event line without looking for it.
AlwaysAppended(log, event) == Append(log, event)

\* The log write of the recovery: an identical line is not written twice.
WithEvent(log, event) ==
  IF Recorded(log, event) THEN log ELSE Append(log, event)

Mutation == [job : Job, event : Event,
             posting : Evidence \cup {NoText},
             assessment : Assessments \cup {NoText}]

ASSUME JournalAssumption == NoJournal \notin Mutation

DraftJob == [id : Ids, candidate : Candidate, assessment : Qualifying, at : Nat]

\* Replay steps in the order of _recover_pending_mutation_locked.
ReplaySteps == {"event", "assessment", "posting", "record", "clear"}

\* "open": the lock is held and nothing was done.  "batch": an operation that
\* runs under a lock its caller holds has finished.  "done": nothing is left
\* to do but release.
Places == {"idle", "open", "batch", "create", "done"} \cup ReplaySteps

-----------------------------------------------------------------------------
Exists(j) == jobs[j] # NoJob
Existing  == {j \in Ids : Exists(j)}
Pending   == {j \in Ids : journal[j] # NoJournal}

\* Job folders are scanned in name order.
First(ids) == CHOOSE j \in ids : \A k \in ids : j <= k

Init ==
  /\ nextId = 1
  /\ jobs = [j \in Ids |-> NoJob]
  /\ posting = [j \in Ids |-> NoText]
  /\ assessment = [j \in Ids |-> NoText]
  /\ events = [j \in Ids |-> <<>>]
  /\ journal = [j \in Ids |-> NoJournal]
  /\ reserved = [j \in Ids |-> 0]
  /\ lock = Free
  /\ pc = [p \in Procs |-> "idle"]
  /\ target = [p \in Procs |-> 0]
  /\ resume = [p \in Procs |-> "open"]
  /\ draft = [p \in Procs |-> NoDraft]

-----------------------------------------------------------------------------
(* The workspace lock.                                                      *)

\* Continue with the first job that has a journal, or else go to place.
ReplayThen(p, pending, place) ==
  IF pending = {}
  THEN /\ pc' = [pc EXCEPT ![p] = place]
       /\ target' = [target EXCEPT ![p] = 0]
       /\ resume' = [resume EXCEPT ![p] = "open"]
  ELSE /\ pc' = [pc EXCEPT ![p] = "event"]
       /\ target' = [target EXCEPT ![p] = First(pending)]
       /\ resume' = [resume EXCEPT ![p] = place]

\* Slip: the lock is taken without replaying what was left pending.
AcquireWithoutRecovery(p) ==
  /\ pc[p] = "idle" /\ lock = Free
  /\ lock' = p
  /\ pc' = [pc EXCEPT ![p] = "open"]
  /\ UNCHANGED <<files, target, resume, draft>>

\* Slip: an advisory lock nobody checks.
AcquireUnchecked(p) ==
  /\ pc[p] = "idle"
  /\ lock' = p
  /\ ReplayThen(p, Pending, "open")
  /\ UNCHANGED <<files, draft>>

\* workspace_lock: flock is non-blocking, a busy lock raises
\* WorkspaceLockedError and changes nothing.
Acquire(p) ==
  /\ pc[p] = "idle" /\ lock = Free
  /\ lock' = p
  /\ ReplayThen(p, Pending, "open")
  /\ UNCHANGED <<files, draft>>

\* The operation returned, raised, or decided that nothing changes.
Release(p) ==
  /\ pc[p] \in {"open", "batch", "done"}
  /\ lock' = Free
  /\ pc' = [pc EXCEPT ![p] = "idle"]
  /\ UNCHANGED <<files, target, resume, draft>>

\* The process dies: the kernel drops its lock, what it kept in memory is gone.
Crash(p) ==
  /\ pc[p] # "idle"
  /\ lock' = Free
  /\ pc' = [pc EXCEPT ![p] = "idle"]
  /\ target' = [target EXCEPT ![p] = 0]
  /\ resume' = [resume EXCEPT ![p] = "open"]
  /\ draft' = [draft EXCEPT ![p] = NoDraft]
  /\ UNCHANGED files

-----------------------------------------------------------------------------
(* _recover_pending_mutation_locked, one file at a time.                    *)

ReplayEvent(p) ==
  /\ pc[p] = "event"
  /\ LET j == target[p]
     IN  events' = [events EXCEPT ![j] = WithEvent(@, journal[j].event)]
  /\ pc' = [pc EXCEPT ![p] = "assessment"]
  /\ UNCHANGED <<nextId, jobs, posting, assessment, journal, reserved,
                 lock, target, resume, draft>>

ReplayAssessment(p) ==
  /\ pc[p] = "assessment"
  /\ LET j == target[p]
     IN  assessment' = [assessment EXCEPT
           ![j] = IF journal[j].assessment = NoText THEN @ ELSE journal[j].assessment]
  /\ pc' = [pc EXCEPT ![p] = "posting"]
  /\ UNCHANGED <<nextId, jobs, posting, events, journal, reserved,
                 lock, target, resume, draft>>

ReplayPosting(p) ==
  /\ pc[p] = "posting"
  /\ LET j == target[p]
     IN  posting' = [posting EXCEPT
           ![j] = IF journal[j].posting = NoText THEN @ ELSE journal[j].posting]
  /\ pc' = [pc EXCEPT ![p] = "record"]
  /\ UNCHANGED <<nextId, jobs, assessment, events, journal, reserved,
                 lock, target, resume, draft>>

ReplayRecord(p) ==
  /\ pc[p] = "record"
  /\ jobs' = [jobs EXCEPT ![target[p]] = journal[target[p]].job]
  /\ pc' = [pc EXCEPT ![p] = "clear"]
  /\ UNCHANGED <<nextId, posting, assessment, events, journal, reserved,
                 lock, target, resume, draft>>

ReplayClear(p) ==
  /\ pc[p] = "clear"
  /\ journal' = [journal EXCEPT ![target[p]] = NoJournal]
  /\ ReplayThen(p, Pending \ {target[p]}, resume[p])
  /\ UNCHANGED <<nextId, jobs, posting, assessment, events, reserved, lock, draft>>

Replay(p) ==
  \/ ReplayEvent(p) \/ ReplayAssessment(p) \/ ReplayPosting(p)
  \/ ReplayRecord(p) \/ ReplayClear(p)

-----------------------------------------------------------------------------
(* Mutations of an existing job.                                            *)

\* Instance bound and, when StampsRepeat is FALSE, the callers' discipline of
\* giving every event of a job its own time.
Admissible(j, at) ==
  /\ Exists(j)
  /\ Len(events[j]) < MaxEvents
  /\ StampsRepeat \/ \A k \in DOMAIN events[j] : events[j][k].at # at

\* _commit_job_mutation_locked: the journal write, then the replay of it.
CommitMutation(p, j, job, event, newPosting, newAssessment, place) ==
  /\ journal' = [journal EXCEPT ![j] =
        [job |-> job, event |-> event,
         posting |-> newPosting, assessment |-> newAssessment]]
  /\ pc' = [pc EXCEPT ![p] = "event"]
  /\ target' = [target EXCEPT ![p] = j]
  /\ resume' = [resume EXCEPT ![p] = place]
  /\ UNCHANGED <<nextId, jobs, posting, assessment, events, reserved, lock, draft>>

\* _update_job_status_locked: only a status in allowed moves, an unchanged
\* status is no mutation.
ChangeStatus(p, j, status, at, allowed) ==
  /\ pc[p] = "open"
  /\ Admissible(j, at)
  /\ jobs[j].status \in allowed \ {status}
  /\ CommitMutation(p, j, [jobs[j] EXCEPT !.status = status],
       MakeEvent("status_changed", at, jobs[j].status, status, NoDetail),
       NoText, NoText, "done")

\* update_job_status as scripts/update_job_status.py and mark_not_pursuing call it
UpdateStatus(p, j, status, at) == ChangeStatus(p, j, status, at, Statuses)

\* update_job_status as start_packet calls it: any pre-application status, and
\* unless restarting only while no packet version is reserved.
PrepareApplication(p, j, at, restart) ==
  /\ restart \/ reserved[j] = 0
  /\ ChangeStatus(p, j, "prepare_application", at, PreApplication)

\* _record_lifecycle_status_observation_locked
ObserveStatus(p, j, at) ==
  /\ pc[p] = "open"
  /\ Admissible(j, at)
  /\ CommitMutation(p, j, jobs[j],
       MakeEvent("lifecycle_status_observed", at, jobs[j].status, jobs[j].status,
                 NoDetail),
       NoText, NoText, "done")

\* The manifest write of start_packet, which reserves a packet version.
ReserveVersion(p, j) ==
  /\ pc[p] = "open"
  /\ Exists(j)
  /\ reserved[j] < MaxVersion
  /\ reserved' = [reserved EXCEPT ![j] = @ + 1]
  /\ pc' = [pc EXCEPT ![p] = "done"]
  /\ UNCHANGED <<nextId, jobs, posting, assessment, events, journal,
                 lock, target, resume, draft>>

VersionConflict(job, version) ==
  \E known \in job.versions : known.version = version.version /\ known # version

StatusAfterDelivery(status) ==
  IF status \in PreApplication THEN "packet_ready" ELSE status

\* record_application_version with the expected version the delivery passes: a
\* version that is no longer the latest is refused, a conflicting receipt too,
\* and a known receipt of an already packet_ready job changes nothing.
RecordVersion(p, j, version, at) ==
  /\ pc[p] = "open"
  /\ Admissible(j, at)
  /\ version.version = reserved[j]
  /\ ~VersionConflict(jobs[j], version)
  /\ LET status == StatusAfterDelivery(jobs[j].status)
     IN  /\ version \notin jobs[j].versions \/ status # jobs[j].status
         /\ CommitMutation(p, j,
              [jobs[j] EXCEPT !.versions = @ \cup {version}, !.status = status],
              MakeEvent(IF status = "packet_ready" THEN "packet_ready"
                        ELSE "application_version_recorded",
                        at, jobs[j].status, status, [version |-> version.version]),
              NoText, NoText, "done")

\* record_export_receipt: once per destination and content.
RecordExport(p, j, receipt, at) ==
  /\ pc[p] = "open"
  /\ Admissible(j, at)
  /\ receipt \notin jobs[j].exports
  /\ CommitMutation(p, j, [jobs[j] EXCEPT !.exports = @ \cup {receipt}],
       MakeEvent("export_verified", at, jobs[j].status, jobs[j].status,
                 [receipt |-> receipt]),
       NoText, NoText, "done")

\* The metadata of a job_reverified event.
ReverificationDetail(job, updated, candidate, newAssessment, at) ==
  [source            |-> candidate.source,
   evidenceIgnored   |-> ~EvidenceIsCurrent(job, candidate),
   assessmentIgnored |-> newAssessment # job.assessment /\ at <= job.assessedAt,
   from              |-> job.assessment,
   to                |-> updated.assessment,
   changed           |-> {f \in ReportedFields : updated[f] # job[f]}]

\* reverify_job, called by the delivery of a discovery batch for the one job
\* that a posting denotes among all jobs.
Reverify(p, candidate, newAssessment, at) ==
  /\ pc[p] \in {"open", "batch"}
  /\ \E j \in Ids :
       /\ ResolveIdentity(candidate, [k \in Existing |-> jobs[k]]) = {j}
       /\ Admissible(j, at)
       /\ ~AssessmentConflict(jobs[j], newAssessment, at)
       /\ LET updated == Reverified(jobs[j], candidate, newAssessment, at)
          IN  CommitMutation(p, j, updated,
                MakeEvent("job_reverified", at, jobs[j].status, jobs[j].status,
                          ReverificationDetail(jobs[j], updated, candidate, newAssessment, at)),
                IF ReplacesEvidence(jobs[j], candidate)
                THEN candidate.evidence ELSE NoText,
                IF ReplacesAssessment(jobs[j], newAssessment, at)
                THEN newAssessment ELSE NoText,
                "batch")

-----------------------------------------------------------------------------
(* create_job.                                                              *)

\* create_job up to the folder: the duplicate check, then the durable increment of the
\* counter.  The ID is consumed even if the process dies before the folder.
AllocateId(p, candidate, newAssessment, at) ==
  /\ pc[p] \in {"open", "batch"}
  /\ ResolveIdentity(candidate, [k \in Existing |-> jobs[k]]) = {}
  /\ nextId \in Ids
  /\ nextId' = nextId + 1
  /\ draft' = [draft EXCEPT ![p] =
        [id |-> nextId, candidate |-> candidate, assessment |-> newAssessment, at |-> at]]
  /\ pc' = [pc EXCEPT ![p] = "create"]
  /\ UNCHANGED <<jobs, posting, assessment, events, journal, reserved,
                 lock, target, resume>>

\* The rest of create_job: the folder is written aside and renamed into place, which
\* fails when a folder with this ID is there.
PublishJob(p) ==
  /\ pc[p] = "create"
  /\ LET new == draft[p]
         j   == new.id
     IN  /\ ~Exists(j)
         /\ jobs' = [jobs EXCEPT
               ![j] = BuildRecord(new.candidate, new.assessment, new.at)]
         /\ posting' = [posting EXCEPT ![j] = new.candidate.evidence]
         /\ assessment' = [assessment EXCEPT ![j] = new.assessment]
         /\ events' = [events EXCEPT
               ![j] = <<MakeEvent("job_created", new.at, "new", "new", NoDetail)>>]
  /\ draft' = [draft EXCEPT ![p] = NoDraft]
  /\ pc' = [pc EXCEPT ![p] = "batch"]
  /\ UNCHANGED <<nextId, journal, reserved, lock, target, resume>>

-----------------------------------------------------------------------------
Operation(p) ==
  \/ \E j \in Ids, at \in Stamps :
       \/ \E status \in RequestedStatuses : UpdateStatus(p, j, status, at)
       \/ \E restart \in BOOLEAN : PrepareApplication(p, j, at, restart)
       \/ ObserveStatus(p, j, at)
       \/ \E version \in Version : RecordVersion(p, j, version, at)
       \/ \E receipt \in Receipts : RecordExport(p, j, receipt, at)
  \/ \E j \in Ids : ReserveVersion(p, j)
  \/ \E candidate \in Candidates, at \in Stamps :
       \/ \E a \in Assessments : Reverify(p, candidate, a, at)
       \/ \E a \in Qualifying : AllocateId(p, candidate, a, at)
  \/ PublishJob(p)

Next == \E p \in Procs :
  Acquire(p) \/ Replay(p) \/ Operation(p) \/ Release(p) \/ Crash(p)

Spec == Init /\ [][Next]_vars

\* A process that does not die finishes the replay it is in, and people keep
\* running commands on the workspace: somebody takes a free lock eventually.
Fairness ==
  /\ \A p \in Procs : WF_vars(Replay(p))
  /\ WF_vars(\E p \in Procs : Acquire(p))

FairSpec == Spec /\ Fairness

-----------------------------------------------------------------------------
(* What callers see.                                                        *)

\* A journalled mutation has happened: whoever takes the lock next completes
\* it before doing anything else.
CommittedJobs ==
  [j \in Ids |-> IF journal[j] = NoJournal THEN jobs[j] ELSE journal[j].job]

CommittedEvents ==
  [j \in Ids |-> IF journal[j] = NoJournal THEN events[j]
                 ELSE WithEvent(events[j], journal[j].event)]

CommittedDocuments ==
  [j \in Ids |->
     IF ~Exists(j) THEN [posting |-> NoJob, assessment |-> NoJob]
     ELSE [posting    |-> IF journal[j] = NoJournal \/ journal[j].posting = NoText
                          THEN posting[j] ELSE journal[j].posting,
           assessment |-> IF journal[j] = NoJournal \/ journal[j].assessment = NoText
                          THEN assessment[j] ELSE journal[j].assessment]]

Promise == INSTANCE AtomicJobStore
  WITH jobs <- CommittedJobs, history <- CommittedEvents,
       documents <- CommittedDocuments

\* The store implements AtomicJobStore: mutations are atomic to callers,
\* whatever the moment a process dies at.
ImplementsPromise == Promise!Spec

-----------------------------------------------------------------------------
(* Properties.                                                              *)

\* Every variable has its type.
TypeOK ==
  /\ nextId \in 1..(MaxId + 1)
  /\ jobs \in [Ids -> Job \cup {NoJob}]
  /\ posting \in [Ids -> Evidence \cup {NoText}]
  /\ assessment \in [Ids -> Assessments \cup {NoText}]
  /\ events \in [Ids -> Seq(Event)]
  /\ journal \in [Ids -> Mutation \cup {NoJournal}]
  /\ reserved \in [Ids -> 0..MaxVersion]
  /\ lock \in Procs \cup {Free}
  /\ pc \in [Procs -> Places]
  /\ target \in [Procs -> Ids \cup {0}]
  /\ resume \in [Procs -> {"open", "batch", "done"}]
  /\ draft \in [Procs -> DraftJob \cup {NoDraft}]

\* No operation decides on a job while a mutation of any job is half applied,
\* and no two processes are past the lock at once: whatever a dead process
\* left is replayed before the next operation reads anything.
OperationsSeeNoHalfWrittenJob ==
  \A p \in Procs : pc[p] \in {"open", "batch", "create", "done"} =>
    /\ Pending = {}
    /\ \A q \in Procs \ {p} : pc[q] = "idle"

\* The three files of a job tell the same story whenever no journal is
\* pending: posting.md holds the evidence job.json names, assessment.md the
\* assessment, and the history ends in the status of the record or, when an
\* identical line was already there, contains a line with it.
FilesAgree ==
  \A j \in Existing : journal[j] = NoJournal =>
    /\ posting[j] = jobs[j].evidence
    /\ assessment[j] = jobs[j].assessment
    /\ \E k \in DOMAIN events[j] : events[j][k].status = jobs[j].status

\* Two saved jobs never carry the same requisition: neither creation nor the
\* enrichment of a job that was saved without one may introduce a duplicate.
OneJobPerRequisition ==
  \A i, j \in Existing : i # j /\ jobs[i].req # NoReq => jobs[i].req # jobs[j].req

\* A new folder always stands for a new opportunity, whichever of its two
\* captures carried the requisition: no existing job has its requisition, and
\* one that shares its fingerprint has a requisition of its own, as it does.
CreationIsNovel ==
  [][\A i, j \in Ids : Exists(i) /\ ~Exists(j) /\ jobs'[j] # NoJob =>
       /\ jobs[i].req = jobs'[j].req => jobs[i].req = NoReq
       /\ jobs[i].fallback = jobs'[j].fallback =>
            jobs[i].req # NoReq /\ jobs'[j].req # NoReq]_vars

\* A job ID is never reused and history is never rewritten: an existing job
\* stays, and its events only grow at the end.
HistoryAppendOnly ==
  [][\A j \in Ids : Exists(j) =>
       /\ jobs'[j] # NoJob
       /\ Len(events[j]) <= Len(events'[j])
       /\ \A k \in DOMAIN events[j] : events'[j][k] = events[j][k]]_vars

\* Captures replayed late or out of order never take a job back: the times of
\* its evidence, assessment and re-verification do not decrease, and a known
\* requisition stays.
EvidenceNeverRegresses ==
  [][\A j \in Ids : Exists(j) =>
       /\ jobs'[j].verifiedAt >= jobs[j].verifiedAt
       /\ jobs'[j].assessedAt >= jobs[j].assessedAt
       /\ jobs'[j].reverifiedAt >= jobs[j].reverifiedAt
       /\ jobs[j].req # NoReq => jobs'[j].req = jobs[j].req]_vars

\* A mutation that was journalled is completed, provided that processes do not
\* go on dying for ever.
JournalsAreReplayed ==
  <>[][\A p \in Procs : Crash(p) => Release(p)]_vars =>
    \A j \in Ids : journal[j] # NoJournal ~> journal[j] = NoJournal

\* The history of a job explains its status: each event starts from the status
\* the one before it ended in, and the last one ends in the current status.
\* This needs callers that never reuse a time within a history.
HistoryExplainsStatus ==
  \A j \in Existing :
    LET log == events[j]
    IN  /\ \A k \in 1..(Len(log) - 1) : log[k + 1].prior = log[k].status
        /\ journal[j] = NoJournal => log[Len(log)].status = jobs[j].status

\* "Status changes atomically rewrite job.json and append a compact event to
\* events.jsonl" (docs/superpowers/specs/2026-09-11-career-pipeline-design.md:
\* 172): a committed change of status adds an event to the history.
StatusChangeAppendsEvent ==
  [][\A j \in Ids : Exists(j) /\ CommittedJobs'[j].status # CommittedJobs[j].status =>
       Len(CommittedEvents'[j]) = Len(CommittedEvents[j]) + 1]_vars
=============================================================================
