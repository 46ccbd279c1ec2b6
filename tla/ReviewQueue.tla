----------------------------- MODULE ReviewQueue ----------------------------
(***************************************************************************)
(* The discovery review queue (src/career_pipeline/review_queue.py) and    *)
(* the delivery of what was reviewed (discovery.py,                        *)
(* deliver_reviewed_jobs).  Captures of postings arrive late, twice or     *)
(* with equal times; reviewers decide on what they read some time ago; a   *)
(* prefilter excludes automatically; profile and criteria are approved     *)
(* anew at any moment, outside every lock.                                 *)
(*                                                                         *)
(* The queue is one file that is replaced as a whole, so an operation on   *)
(* it is one step; only a delivery writes several files under its lock.    *)
(* A batch of captures is taken in one by one.  Rows are of the present    *)
(* version, whose content hash covers the posting URL.                     *)
(***************************************************************************)
EXTENDS Naturals, FiniteSets

CONSTANTS Postings,     \* source and posting identity: the rows
          Snapshots,    \* what a capture may show
          Times,        \* capture times
          Contexts,     \* contents of the profile and criteria files
          Approved,     \* contexts whose criteria are approved
          Excluded,     \* pairs of context and body that the location scope excludes
          Outcomes,     \* what a reviewer may decide
          Reviewers,
          NoRow, NoDecision, NoJob, NoRead, NotYet, Idle,
          MaxRevision   \* bound: rows of this revision are not decided on or recaptured

VARIABLES rows,         \* State/discovery-review-queue.json
          context,      \* review_context: profile, criteria and their approval
          reads,        \* what each reviewer holds from next_items
          jobs,         \* postings with a canonical job
          delivery,     \* the delivery that holds the lock
          captured      \* history: first and last time, and what the last time showed

vars == <<rows, context, reads, jobs, delivery, captured>>

\* "body" are the fields that both _content_hash and raw_field_hash cover;
\* those that tell no two contents apart are left out.
IsSnapshot(s) == DOMAIN s = {"url", "body"}

ASSUME QueueAssumption ==
  /\ \A s \in Snapshots : IsSnapshot(s)
  /\ Times \subseteq Nat
  /\ Approved \subseteq Contexts
  /\ Outcomes \subseteq {"blocked", "qualifying", "duplicate", "excluded", "non_match"}
  /\ "excluded" \in Outcomes
  /\ MaxRevision \in Nat /\ MaxRevision >= 2

\* "about" is the content that was read: the code does not store it.
Decision == [status : Outcomes, automatic : BOOLEAN, approval : Contexts, about : Snapshots]

\* "job" holds the content that was delivered, where the code has the job ID.
Row == [content : Snapshots, observations : SUBSET Snapshots,
        revision : 1..MaxRevision, decision : Decision \cup {NoDecision},
        job : Snapshots \cup {NoJob}, conflict : BOOLEAN, urlChanged : BOOLEAN,
        first : Times, last : Times]

Read == [posting : Postings, revision : 1..MaxRevision, context : Contexts, content : Snapshots]

\* "approved" are the profile and criteria that the delivery keeps comparing with.
Delivery == [posting : Postings, candidate : Snapshots, approved : Contexts \cup {NotYet},
             step : {"validated", "loaded", "delivered", "recorded"}]

Shown == [content : Snapshots, fresh : BOOLEAN]
Captured == [first : Times, last : Times, shown : SUBSET Shown]

ASSUME SentinelAssumption ==
  /\ NoRow \notin Row /\ NoRow \notin Captured
  /\ NoDecision \notin Decision
  /\ NoJob \notin Snapshots
  /\ NoRead \notin Read
  /\ Idle \notin Delivery

Known == {p \in Postings : rows[p] # NoRow}

\* _effective_status
Effective(p) ==
  LET row == rows[p]
  IN  IF \/ row.conflict
         \/ row.decision = NoDecision
         \/ row.decision # NoDecision /\ row.decision.approval # context
      THEN "unreviewed"
      ELSE row.decision.status

-----------------------------------------------------------------------------
(* ingest: what a capture does to a row.                                    *)

Earlier(t, u) == IF t < u THEN t ELSE u

NewRow(s, now) ==
  [content |-> s, observations |-> {s}, revision |-> 1,
   decision |-> NoDecision, job |-> NoJob, conflict |-> FALSE, urlChanged |-> FALSE,
   first |-> now, last |-> now]

\* Slip: replays at equal times count as later than what is there.
NeverAmbiguous(row, now, replay) == FALSE

\* At equal times a fresh capture is the later one; a replay proves nothing.
AmbiguousTime(row, now, replay) == now = row.last /\ (replay \/ row.conflict)

\* Slip: every capture is taken for the newest.
NeverLate(row, now, replay) == AmbiguousTime(row, now, replay)

Late(row, now, replay) == now < row.last \/ AmbiguousTime(row, now, replay)

\* Evidence that cannot be the newest is kept beside the active snapshot.
Beside(row, s, now, replay) ==
  [row EXCEPT !.conflict = @ \/ (AmbiguousTime(row, now, replay) /\ s # row.content),
              !.observations = @ \cup {s},
              !.first = Earlier(@, now)]

\* The newest evidence becomes active.  Other content, or content that settles
\* a conflict, has to be reviewed anew.
Active(row, s, now) ==
  LET changed == s # row.content \/ row.conflict
  IN  [row EXCEPT !.observations = @ \cup {s}, !.last = now,
                  !.conflict = FALSE,
                  !.urlChanged = @ \/ s.url # row.content.url,
                  !.content = s,
                  !.revision = IF changed THEN @ + 1 ELSE @,
                  !.decision = IF changed THEN NoDecision ELSE @,
                  !.job = IF changed THEN NoJob ELSE @]

-----------------------------------------------------------------------------
(* Decisions.                                                               *)

\* _set_decision
WithDecision(row, decision) ==
  [row EXCEPT !.decision = decision, !.job = NoJob, !.revision = @ + 1]

StaleAutomatic(row) ==
  /\ row.decision # NoDecision
  /\ row.decision.automatic /\ row.decision.approval # context

\* Slip: a manual decision made under older criteria may be replaced.
ConsiderStale(row) ==
  ~row.conflict /\ (row.decision = NoDecision \/ row.decision.approval # context)

\* Manual decisions are left to people.
Considered(row) ==
  ~row.conflict /\ (row.decision = NoDecision \/ StaleAutomatic(row))

\* _apply_location_prefilter_locked, for one row
Prefiltered(row) ==
  IF ~Considered(row) \/ context \notin Approved THEN row
  ELSE IF <<context, row.content.body>> \in Excluded
  THEN WithDecision(row, [status |-> "excluded", automatic |-> TRUE,
                          approval |-> context, about |-> row.content])
  ELSE IF StaleAutomatic(row) THEN WithDecision(row, NoDecision)
  ELSE row

-----------------------------------------------------------------------------
(* Operations under the lock.                                               *)

Capture(p, s, now, replay) ==
  /\ delivery = Idle
  /\ rows[p] # NoRow => rows[p].revision + 2 <= MaxRevision
  /\ LET shown == [content |-> s, fresh |-> ~replay]
     IN  captured' = [captured EXCEPT ![p] =
           IF rows[p] = NoRow THEN [first |-> now, last |-> now, shown |-> {shown}]
           ELSE [first |-> Earlier(@.first, now),
                 last |-> IF now > @.last THEN now ELSE @.last,
                 shown |-> IF now > @.last THEN {shown}
                           ELSE IF now = @.last THEN @.shown \cup {shown} ELSE @.shown]]
  /\ UNCHANGED <<reads, jobs, delivery>>

\* The row after the capture and before the prefilter
Taken(p, s, now, replay) ==
  LET row == rows[p]
  IN  IF row = NoRow THEN NewRow(s, now)
      ELSE IF Late(row, now, replay) THEN Beside(row, s, now, replay)
      ELSE Active(row, s, now)

\* ingest.  The prefilter sees only rows with new active evidence.
Ingest(p, s, now, replay) ==
  /\ Capture(p, s, now, replay)
  /\ rows' = [rows EXCEPT ![p] =
       IF @ # NoRow /\ Late(@, now, replay)
       THEN Taken(p, s, now, replay) ELSE Prefiltered(Taken(p, s, now, replay))]
  /\ UNCHANGED context

\* ingest while the approved files change: the captures are saved, no
\* exclusion is applied.
IngestDuringApproval(p, s, now, replay, c) ==
  /\ Capture(p, s, now, replay)
  /\ c # context
  /\ rows' = [rows EXCEPT ![p] = Taken(p, s, now, replay)]
  /\ context' = c

\* apply_location_prefilter
ApplyPrefilter ==
  /\ delivery = Idle
  /\ \A p \in Known : rows[p].revision < MaxRevision
  /\ rows' = [p \in Postings |-> IF p \in Known THEN Prefiltered(rows[p]) ELSE NoRow]
  /\ UNCHANGED <<context, reads, jobs, delivery, captured>>

\* People edit and approve profile and criteria.
Approve(c) ==
  /\ c # context
  /\ context' = c
  /\ UNCHANGED <<rows, reads, jobs, delivery, captured>>

\* next_items: no lock.  It raises when any row waits for a clear capture.
ReadItem(r, p) ==
  /\ \A q \in Known : ~rows[q].conflict
  /\ p \in Known
  /\ \/ Effective(p) \in {"unreviewed", "blocked"}
     \/ Effective(p) = "qualifying" /\ rows[p].job = NoJob
  /\ reads' = [reads EXCEPT ![r] = [posting |-> p, revision |-> rows[p].revision,
                                    context |-> context, content |-> rows[p].content]]
  /\ UNCHANGED <<rows, context, jobs, delivery, captured>>

\* Slip: the revision is not compared.
CurrentContext(read) == read.context = context

Current(read) == read.context = context /\ read.revision = rows[read.posting].revision

\* record_decision
RecordDecision(r, status) ==
  /\ delivery = Idle
  /\ reads[r] # NoRead
  /\ LET read == reads[r]
     IN  /\ Current(read)
         /\ ~rows[read.posting].conflict
         /\ rows[read.posting].revision < MaxRevision
         /\ rows' = [rows EXCEPT ![read.posting] =
              WithDecision(@, [status |-> status, automatic |-> FALSE,
                               approval |-> context, about |-> read.content])]
  /\ reads' = [reads EXCEPT ![r] = NoRead]
  /\ UNCHANGED <<context, jobs, delivery, captured>>

-----------------------------------------------------------------------------
(* deliver_reviewed_jobs, for a batch of one qualifying item.               *)

\* Slip: the URL of the candidate is not compared after it changed.
MatchesField(row, s) ==
  \E o \in row.observations : o.body = s.body /\ o = row.content

\* _candidate_matches
CandidateMatches(row, s) ==
  /\ row.urlChanged => s.url = row.content.url
  /\ \E o \in row.observations : o.body = s.body /\ o = row.content

\* validate_delivery.  Candidates are made of captures, of older ones too.
BeginDelivery(p, s) ==
  /\ delivery = Idle
  /\ p \in Known
  /\ s \in rows[p].observations
  /\ CandidateMatches(rows[p], s)
  /\ Effective(p) = "qualifying"
  /\ delivery' = [posting |-> p, candidate |-> s, approved |-> NotYet, step |-> "validated"]
  /\ UNCHANGED <<rows, context, reads, jobs, captured>>

At(step) == delivery # Idle /\ delivery.step = step

\* load_approved_assessment_inputs: what is approved by now, not what the
\* candidates were validated with
LoadApproved ==
  /\ At("validated") /\ context \in Approved
  /\ delivery' = [delivery EXCEPT !.step = "loaded", !.approved = context]
  /\ UNCHANGED <<rows, context, reads, jobs, captured>>

\* create_job, or reverify_job of the job that exists
DeliverJob ==
  /\ At("loaded") /\ delivery.approved = context
  /\ jobs' = jobs \cup {delivery.posting}
  /\ delivery' = [delivery EXCEPT !.step = "delivered"]
  /\ UNCHANGED <<rows, context, reads, captured>>

\* A hard filter rejects the candidate, or it matches several jobs: there is
\* run evidence of it, and nothing to mark.
LeaveUndelivered ==
  /\ At("loaded") /\ delivery.approved = context
  /\ delivery' = Idle
  /\ UNCHANGED <<rows, context, reads, jobs, captured>>

\* Slip: the delivery ends with its run evidence and marks nothing.
RecordOnly ==
  /\ At("delivered") /\ delivery.approved = context
  /\ delivery' = Idle
  /\ UNCHANGED <<rows, context, reads, jobs, captured>>

\* Run evidence of what was delivered
RecordRun ==
  /\ At("delivered") /\ delivery.approved = context
  /\ delivery' = [delivery EXCEPT !.step = "recorded"]
  /\ UNCHANGED <<rows, context, reads, jobs, captured>>

\* The inputs are not approved, or _revalidate_approved_inputs raises.
Refuse ==
  /\ \/ At("validated") /\ context \notin Approved
     \/ At("loaded") /\ delivery.approved # context
     \/ At("delivered") /\ delivery.approved # context
  /\ delivery' = Idle
  /\ UNCHANGED <<rows, context, reads, jobs, captured>>

\* mark_delivered
MarkDelivered ==
  /\ At("recorded")
  /\ rows' = IF Effective(delivery.posting) = "qualifying"
             THEN [rows EXCEPT ![delivery.posting].job = delivery.candidate]
             ELSE rows
  /\ delivery' = Idle
  /\ UNCHANGED <<context, reads, jobs, captured>>

\* The process dies with the lock.
Die ==
  /\ delivery # Idle
  /\ delivery' = Idle
  /\ UNCHANGED <<rows, context, reads, jobs, captured>>

-----------------------------------------------------------------------------
Init ==
  /\ rows = [p \in Postings |-> NoRow]
  /\ context \in Contexts
  /\ reads = [r \in Reviewers |-> NoRead]
  /\ jobs = {}
  /\ delivery = Idle
  /\ captured = [p \in Postings |-> NoRow]

Intake ==
  \E p \in Postings, s \in Snapshots, now \in Times, replay \in BOOLEAN :
    \/ Ingest(p, s, now, replay)
    \/ \E c \in Contexts : IngestDuringApproval(p, s, now, replay, c)

Review ==
  \E r \in Reviewers :
    \/ \E p \in Postings : ReadItem(r, p)
    \/ \E status \in Outcomes : RecordDecision(r, status)

DeliveryStep ==
  LoadApproved \/ DeliverJob \/ LeaveUndelivered \/ RecordRun \/ Refuse \/ MarkDelivered

Next ==
  \/ Intake \/ Review \/ ApplyPrefilter
  \/ \E c \in Contexts : Approve(c)
  \/ \E p \in Postings, s \in Snapshots : BeginDelivery(p, s)
  \/ DeliveryStep \/ Die

Spec == Init /\ [][Next]_vars

\* Discovery resumes what awaits delivery before anything else, so a row that
\* stays ready is taken up; a process that does not die carries on.
Fairness ==
  /\ WF_vars(DeliveryStep)
  /\ \A p \in Postings : SF_vars(\E s \in Snapshots : BeginDelivery(p, s))

FairSpec == Spec /\ Fairness

-----------------------------------------------------------------------------
(* Properties.                                                              *)

\* Every variable has its type.
TypeOK ==
  /\ rows \in [Postings -> Row \cup {NoRow}]
  /\ context \in Contexts
  /\ reads \in [Reviewers -> Read \cup {NoRead}]
  /\ jobs \subseteq Postings
  /\ delivery \in Delivery \cup {Idle}
  /\ captured \in [Postings -> Captured \cup {NoRow}]

\* A decision is about the evidence that is active: nothing that was captured,
\* replayed or decided between reading and deciding goes unnoticed.
DecisionIsOfActiveEvidence ==
  \A p \in Known :
    rows[p].decision # NoDecision => rows[p].decision.about = rows[p].content

\* Captures may arrive in any order: the active content is one that was seen
\* at the latest time, and the row knows the first and the last time.
NewestEvidenceIsActive ==
  \A p \in Known :
    LET row == rows[p]
    IN  /\ row.first = captured[p].first /\ row.last = captured[p].last
        /\ \E c \in captured[p].shown : c.content = row.content

\* When captures of the latest instant disagree, a replay does not settle which
\* of them holds: the active one was fetched fresh, or the row waits.
ReplaysSettleNothing ==
  \A p \in Known :
    LET row == rows[p]
    IN  (\E c \in captured[p].shown : ~c.fresh /\ c.content # row.content) =>
          row.conflict \/ \E c \in captured[p].shown : c.fresh /\ c.content = row.content

\* A row says that it was delivered only of text that was read and found
\* qualifying, of which a job exists; once its URL is known to have changed
\* the delivered URL is the reviewed one, too.
DeliveredWasReviewed ==
  \A p \in Known :
    rows[p].job # NoJob =>
      /\ p \in jobs
      /\ rows[p].decision # NoDecision /\ rows[p].decision.status = "qualifying"
      /\ rows[p].job.body = rows[p].content.body
      /\ rows[p].urlChanged => rows[p].job.url = rows[p].content.url

\* test_review_queue.py says that an old URL's candidate cannot be delivered
\* after the current URL was reviewed: the delivered URL is the reviewed one.
DeliveredUnderReviewedUrl ==
  \A p \in Known :
    rows[p].job # NoJob => rows[p].job.url = rows[p].content.url

\* What a person decided gives way to another person's decision or to new
\* evidence, never to the prefilter.
PeopleHaveTheLastWord ==
  [][\A p \in Known :
       rows[p].decision # NoDecision /\ ~rows[p].decision.automatic =>
         \/ rows'[p].decision = rows[p].decision
         \/ rows'[p].decision # NoDecision /\ ~rows'[p].decision.automatic
         \/ rows'[p].content # rows[p].content
         \/ rows'[p].last > rows[p].last]_vars

Ready(p) ==
  /\ p \in Known /\ Effective(p) = "qualifying" /\ rows[p].job = NoJob
  /\ context \in Approved

\* A delivery that was interrupted is completed: a qualifying row does not
\* wait for ever, provided that processes do not go on dying and that its
\* candidate is one that a job can be made of.
ReadyIsDelivered ==
  <>[][(Die => DeliveryStep) /\ ~LeaveUndelivered]_vars =>
    \A p \in Postings : Ready(p) ~> ~Ready(p)
=============================================================================
