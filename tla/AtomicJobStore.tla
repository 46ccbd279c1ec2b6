--------------------------- MODULE AtomicJobStore ---------------------------
(***************************************************************************)
(* What the canonical job store promises its callers, with the lock, the   *)
(* journal and the individual file writes out of sight: every mutation of  *)
(* a job changes its snapshot, its posting and assessment documents and    *)
(* its history in one step, job IDs are handed out in order and never      *)
(* twice, and a job folder appears complete or not at all.  JobStore is    *)
(* shown to implement this module.                                         *)
(***************************************************************************)
EXTENDS Naturals, Sequences

CONSTANTS MaxId,        \* the last job ID
          NoJob,        \* no folder with this ID
          Statuses

VARIABLES nextId,       \* the next ID to hand out
          jobs,         \* ID -> record or NoJob
          documents,    \* ID -> [posting, assessment] document contents
          history       \* ID -> sequence of events

vars == <<nextId, jobs, documents, history>>

Ids == 1..MaxId

Exists(id) == jobs[id] # NoJob

\* The documents of a job are those its record names.
DocumentsOf(job) == [posting |-> job.evidence, assessment |-> job.assessment]

Init ==
  /\ nextId = 1
  /\ jobs = [id \in Ids |-> NoJob]
  /\ documents = [id \in Ids |-> [posting |-> NoJob, assessment |-> NoJob]]
  /\ history = [id \in Ids |-> <<>>]

\* An ID is consumed whether or not a folder follows: IDs may have gaps.
Allocate ==
  /\ nextId \in Ids
  /\ nextId' = nextId + 1
  /\ UNCHANGED <<jobs, documents, history>>

\* A folder appears under an ID that was handed out and never used, as "new"
\* and with its creation as the only event.
Publish(id) ==
  /\ id < nextId
  /\ ~Exists(id)
  /\ \E job \in {jobs'[id]}, k \in DOMAIN history'[id] :
        LET event == history'[id][k]
        IN  /\ job # NoJob
            /\ job.status = "new"
            /\ event.status = "new"
            /\ jobs' = [jobs EXCEPT ![id] = job]
            /\ documents' = [documents EXCEPT ![id] = DocumentsOf(job)]
            /\ history' = [history EXCEPT ![id] = <<event>>]
  /\ UNCHANGED nextId

\* One mutation of an existing job.  Its event says from which status to which
\* the job moved; an event line already in the history is not written again.
Commit(id) ==
  /\ Exists(id)
  /\ \E job \in {jobs'[id]}, k \in DOMAIN history'[id] :
        LET event == history'[id][k]
        IN  /\ job # NoJob
            /\ event.prior = jobs[id].status
            /\ event.status = job.status
            /\ jobs' = [jobs EXCEPT ![id] = job]
            /\ documents' = [documents EXCEPT ![id] = DocumentsOf(job)]
            /\ \/ history' = history
               \/ history' = [history EXCEPT ![id] = Append(@, event)]
  /\ UNCHANGED nextId

Next == Allocate \/ \E id \in Ids : Publish(id) \/ Commit(id)

Spec == Init /\ [][Next]_vars
=============================================================================
