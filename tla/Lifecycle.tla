----------------------------- MODULE Lifecycle ------------------------------
(***************************************************************************)
(* Lifecycle reconciliation (src/career_pipeline/reconciliation.py,        *)
(* reconcile_lifecycle_evidence): mail and calendar evidence is applied to *)
(* the status of a job and leaves a receipt that keeps it from being       *)
(* applied again.  The mutation of the job and the receipt are two writes  *)
(* under one lock, and the process may die between them; the event of the  *)
(* mutation then stands for the receipt.                                   *)
(*                                                                         *)
(* A mutation of a job is one step, as AtomicJobStore promises.  The event *)
(* log is a set here: identical lines are written once, and nothing in     *)
(* this component depends on their order.                                  *)
(***************************************************************************)
EXTENDS LifecycleRules

CONSTANTS Nothing,      \* nobody is between the mutation and the receipt
          NoSource,     \* the event comes from no evidence
          RequestedStatuses, \* statuses that people decide on
          Times,        \* occurred_at values of people's decisions
          MaxEvents     \* bound: people decide while a history is shorter

VARIABLES status,       \* Jobs/<id>/job.json; NoStatus: no such job
          history,      \* Jobs/<id>/events.jsonl
          receipts,     \* Runs/lifecycle/receipt-*.json
          holder        \* evidence whose mutation was just committed

vars == <<status, history, receipts, holder>>

ASSUME LifecycleAssumption ==
  /\ Times \subseteq Nat
  /\ MaxEvents \in Nat
  /\ RequestedStatuses \subseteq Statuses
  /\ Nothing \notin Evidence
  /\ NoSource \notin {e.id : e \in Evidence}

Sources == {e.id : e \in Evidence}

Event == [type : {"job_created", "status_changed", "lifecycle_status_observed", "job_reverified"},
          prior : Statuses \cup {NoStatus}, status : Statuses, at : Nat,
          source : Sources \cup {NoSource}, class : Classes \cup {NoSource}]

MakeEvent(type, prior, s, at, source, class) ==
  [type |-> type, prior |-> prior, status |-> s, at |-> at,
   source |-> source, class |-> class]

Existing == {j \in Ids : status[j] # NoStatus}

Log(j, event) == history' = [history EXCEPT ![j] = @ \cup {event}]

Init ==
  /\ status = [j \in Ids |-> NoStatus]
  /\ history = [j \in Ids |-> {}]
  /\ receipts = [id \in {} |-> 0]
  /\ holder = Nothing

-----------------------------------------------------------------------------
(* How old the status of a job is.                                          *)

IsStatusDecision(event) ==
  event.prior # event.status \/ event.type = "lifecycle_status_observed"

Decisions(j) == {event \in history[j] : IsStatusDecision(event)}

Newest(times) == CHOOSE t \in times : \A u \in times : u <= t

\* _latest_status_observation
DecidedAt(j) ==
  Newest({event.at : event \in {d \in Decisions(j) : d.status = status[j]}})

-----------------------------------------------------------------------------
(* People, and the other commands that change jobs.                         *)

\* create_job
CreateJob(j, at) ==
  /\ holder = Nothing
  /\ status[j] = NoStatus
  /\ status' = [status EXCEPT ![j] = "new"]
  /\ Log(j, MakeEvent("job_created", NoStatus, "new", at, NoSource, NoSource))
  /\ UNCHANGED <<receipts, holder>>

\* update_job_status.  Whoever decides on a status gives the time of the
\* decision, and that is not before what is on record.
Decide(j, s, at) ==
  /\ holder = Nothing
  /\ status[j] \notin {NoStatus, s}
  /\ Cardinality(history[j]) < MaxEvents
  /\ \A event \in history[j] : event.at <= at
  /\ status' = [status EXCEPT ![j] = s]
  /\ Log(j, MakeEvent("status_changed", status[j], s, at, NoSource, NoSource))
  /\ UNCHANGED <<receipts, holder>>

\* reverify_job, and whatever else logs an event that decides nothing
Reverify(j, at) ==
  /\ holder = Nothing
  /\ status[j] # NoStatus
  /\ Cardinality(history[j]) < MaxEvents
  /\ Log(j, MakeEvent("job_reverified", status[j], status[j], at, NoSource, NoSource))
  /\ UNCHANGED <<status, receipts, holder>>

-----------------------------------------------------------------------------
(* reconcile_lifecycle_evidence.                                            *)

\* What the events say that evidence of this identity did.
Committed(id) ==
  UNION {{ApplyDecision(j, x.class, x.at) : x \in {y \in history[j] : y.source = id}} :
           j \in Ids}

\* Slip: only receipts are consulted, not the events.
CommittedUnknown(id) == {}

\* Evidence without a receipt is looked for in the event logs first.
Known(id) == Committed(id)

WithReceipt(id, decision) ==
  [k \in DOMAIN receipts \cup {id} |-> IF k = id THEN decision ELSE receipts[k]]

Begin(e) == holder = Nothing /\ e.id \notin DOMAIN receipts

\* Slip: the receipt of recovered evidence says what the present reading says.
RecoverAsRead(e) ==
  /\ Begin(e)
  /\ \E decision \in Known(e.id) :
       receipts' = WithReceipt(e.id, ApplyDecision(decision.job, e.class, e.at))
  /\ UNCHANGED <<status, history, holder>>

\* Slip: committed evidence counts as seen, its receipt is not written.
RecoverNothing(e) ==
  /\ Begin(e)
  /\ Known(e.id) # {}
  /\ UNCHANGED vars

\* The mutation was committed by a process that died before the receipt: the
\* event, not the present reading of the evidence, says what happened.
Recover(e) ==
  /\ Begin(e)
  /\ \E decision \in Known(e.id) :
       /\ Known(e.id) = {decision}
       /\ receipts' = WithReceipt(e.id, decision)
  /\ UNCHANGED <<status, history, holder>>

Verdict(e) == Classify(e, status, [j \in Existing |-> DecidedAt(j)])

LeaveForReview(e) ==
  /\ Begin(e)
  /\ Known(e.id) = {}
  /\ Verdict(e).action = "needs_review"
  /\ receipts' = WithReceipt(e.id, Verdict(e))
  /\ UNCHANGED <<status, history, holder>>

\* The mutation: a change of status, or the observation that the job has it.
Apply(e) ==
  /\ Begin(e)
  /\ Known(e.id) = {}
  /\ Verdict(e).action = "apply_update"
  /\ LET j      == Verdict(e).job
         target == Target[e.class]
     IN  /\ status' = [status EXCEPT ![j] = target]
         /\ Log(j, MakeEvent(IF status[j] = target THEN "lifecycle_status_observed"
                             ELSE "status_changed",
                             status[j], target, e.at, e.id, e.class))
  /\ holder' = [id |-> e.id, decision |-> Verdict(e)]
  /\ UNCHANGED receipts

\* The receipt, still under the same lock.
WriteReceipt ==
  /\ holder # Nothing
  /\ receipts' = WithReceipt(holder.id, holder.decision)
  /\ holder' = Nothing
  /\ UNCHANGED <<status, history>>

\* The process dies with the lock.
Die ==
  /\ holder # Nothing
  /\ holder' = Nothing
  /\ UNCHANGED <<status, history, receipts>>

Reconcile(e) == Recover(e) \/ LeaveForReview(e) \/ Apply(e)

Next ==
  \/ \E j \in Ids, at \in Times :
       \/ CreateJob(j, at) \/ Reverify(j, at)
       \/ \E s \in RequestedStatuses : Decide(j, s, at)
  \/ \E e \in Evidence : Reconcile(e)
  \/ WriteReceipt \/ Die

Spec == Init /\ [][Next]_vars

\* The automation reads its sources again and again, so evidence that was not
\* settled is offered again; a process that does not die writes its receipt.
Fairness ==
  /\ WF_vars(WriteReceipt)
  /\ \A id \in Sources : WF_vars(\E e \in Evidence : e.id = id /\ Reconcile(e))

FairSpec == Spec /\ Fairness

-----------------------------------------------------------------------------
(* Properties.                                                              *)

\* Every variable has its type.
TypeOK ==
  /\ status \in [Ids -> Statuses \cup {NoStatus}]
  /\ history \in [Ids -> SUBSET Event]
  /\ DOMAIN receipts \subseteq Sources
  /\ \A id \in DOMAIN receipts : receipts[id] \in Decision
  /\ holder = Nothing \/ holder \in [id : Sources, decision : Decision]

\* Evidence in any order of arrival leaves a job in the status that was
\* decided last: late reports never override what was observed after them.
NewestDecisionWins ==
  \A j \in Existing :
    \E d \in Decisions(j) :
      /\ d.status = status[j]
      /\ \A other \in Decisions(j) : other.at <= d.at

\* A receipt says that evidence was applied exactly when one event of one job
\* says the same, whatever the process that applied it lived to write.
ReceiptsMatchHistory ==
  \A id \in Sources :
    /\ Cardinality(Committed(id)) <= 1
    /\ id \in DOMAIN receipts =>
         Committed(id) = IF receipts[id].action = "apply_update"
                         THEN {receipts[id]} ELSE {}

\* An applied piece of evidence gets its receipt, however often processes die
\* between the two.
CommittedEvidenceIsReceipted ==
  \A id \in Sources : Committed(id) # {} ~> id \in DOMAIN receipts

TheOnly(decisions) == CHOOSE d \in decisions : TRUE

\* Evidence counts as settled from its mutation on, before it has a receipt.
Settled ==
  [id \in DOMAIN receipts \cup {x \in Sources : Committed(x) # {}} |->
     IF id \in DOMAIN receipts THEN receipts[id] ELSE TheOnly(Committed(id))]

Promise == INSTANCE Settlement WITH settled <- Settled

\* Reconciliation implements Settlement: each piece of evidence takes effect
\* at most once and its outcome never changes.
ImplementsSettlement == Promise!Spec
=============================================================================
