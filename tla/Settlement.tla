----------------------------- MODULE Settlement -----------------------------
(***************************************************************************)
(* What lifecycle reconciliation promises: a piece of evidence is settled  *)
(* once and for good, and a settlement that applies it takes the one job   *)
(* it names from a status that may precede its target to that target.      *)
(***************************************************************************)
EXTENDS LifecycleRules

VARIABLES status,       \* status of each job; NoStatus: no such job
          settled       \* evidence identity -> decision

CreateJob(j) ==
  /\ status[j] = NoStatus
  /\ status' = [status EXCEPT ![j] = "new"]
  /\ UNCHANGED settled

Decide(j, s) ==
  /\ status[j] # NoStatus
  /\ status' = [status EXCEPT ![j] = s]
  /\ UNCHANGED settled

Record(e, decision) ==
  /\ e.id \notin DOMAIN settled
  /\ settled' = [id \in DOMAIN settled \cup {e.id} |->
                   IF id = e.id THEN decision ELSE settled[id]]

Apply(e, j) ==
  /\ j \in e.roles
  /\ Reachable(Target[e.class], status[j])
  /\ status' = [status EXCEPT ![j] = Target[e.class]]
  /\ Record(e, ApplyDecision(j, e.class, e.at))

\* Evidence that is not clear enough is kept for people to look at.
LeaveForReview(e, j, reason) ==
  /\ Record(e, Review(j, reason))
  /\ UNCHANGED status

Init == status = [j \in Ids |-> NoStatus] /\ settled = [id \in {} |-> 0]

Next ==
  \/ \E j \in Ids : CreateJob(j) \/ \E s \in Statuses : Decide(j, s)
  \/ \E e \in Evidence :
       \/ \E j \in Ids : Apply(e, j)
       \/ \E j \in Ids \cup {NoTarget}, reason \in Reasons : LeaveForReview(e, j, reason)

Spec == Init /\ [][Next]_<<status, settled>>
=============================================================================
