--------------------------- MODULE LifecycleProofs ---------------------------
(***************************************************************************)
(* Proofs about Lifecycle for any jobs, any evidence and histories of any  *)
(* length.                                                                 *)
(***************************************************************************)
EXTENDS Lifecycle, FiniteSetTheorems, TLAPS

-----------------------------------------------------------------------------
(* The inductive invariant, in named parts *)

\* The events say of each piece of evidence at most one thing.
AppliedOnce == \A id \in Sources : \A d, f \in Committed(id) : d = f

\* A receipt says what the events say.
ReceiptsAgree ==
  \A id \in DOMAIN receipts :
    IF receipts[id].action = "apply_update"
    THEN Committed(id) = {receipts[id]}
    ELSE Committed(id) = {}

\* What is between the mutation and the receipt is in the events.
HolderInv ==
  holder # Nothing =>
    /\ holder.id \in Sources \ DOMAIN receipts
    /\ Committed(holder.id) = {holder.decision}
    /\ holder.decision.action = "apply_update"

\* An event that stands for evidence says what the evidence was taken for.
SourcesClassify ==
  \A j \in Ids : \A x \in history[j] : x.source \in Sources => x.class \in Classes

NoHistoryBefore == \A j \in Ids : status[j] = NoStatus => history[j] = {}

Inv ==
  /\ TypeOK
  /\ AppliedOnce /\ ReceiptsAgree /\ HolderInv
  /\ NoHistoryBefore /\ SourcesClassify
  /\ NewestDecisionWins

-----------------------------------------------------------------------------
(* What the events commit to *)

LEMMA CommittedMeans ==
  ASSUME NEW id, NEW d
  PROVE  d \in Committed(id) <=>
           \E j \in Ids : \E x \in history[j] : x.source = id /\ d = ApplyDecision(j, x.class, x.at)
BY DEF Committed

\* An event without a source commits to nothing new; one with a source to one
\* decision.
LEMMA LogCommits ==
  ASSUME TypeOK, NEW j \in Ids, NEW event, Log(j, event), NEW id
  PROVE  Committed(id)' =
           Committed(id) \cup (IF event.source = id
                               THEN {ApplyDecision(j, event.class, event.at)} ELSE {})
<1>1. \A k \in Ids : history'[k] = IF k = j THEN history[j] \cup {event} ELSE history[k]
  BY DEF TypeOK, Log
<1>2. ASSUME NEW d
      PROVE  d \in Committed(id)' <=>
               \/ d \in Committed(id)
               \/ event.source = id /\ d = ApplyDecision(j, event.class, event.at)
  <2>1. d \in Committed(id)' <=>
          \E k \in Ids : \E x \in history'[k] :
             x.source = id /\ d = ApplyDecision(k, x.class, x.at)
    BY DEF Committed, ApplyDecision
  <2> QED BY <1>1, <2>1, CommittedMeans
<1> QED BY <1>2

LEMMA UnloggedCommits ==
  ASSUME history' = history, NEW id PROVE Committed(id)' = Committed(id)
BY DEF Committed, ApplyDecision

\* What people do has no source.
LEMMA PeopleCommitNothing ==
  ASSUME TypeOK, NEW j \in Ids, NEW event, Log(j, event), event.source = NoSource,
         NEW id \in Sources
  PROVE  Committed(id)' = Committed(id)
BY LogCommits, LifecycleAssumption DEF Sources

-----------------------------------------------------------------------------
(* What a verdict is *)

LEMMA TargetsAreStatuses ==
  ASSUME NEW class \in Classes PROVE Target[class] \in Statuses
BY DEF Classes, Target, Statuses

LEMMA VerdictFits ==
  ASSUME TypeOK, NEW e \in Evidence
  PROVE  /\ Verdict(e) \in Decision
         /\ Verdict(e).action = "apply_update" =>
              \E j \in e.roles :
                /\ j \in Ids /\ status[j] # NoStatus
                /\ Verdict(e) = ApplyDecision(j, e.class, e.at)
                /\ Reachable(Target[e.class], status[j])
                /\ status[j] # Target[e.class] => ~(DecidedAt(j) > e.at)
         /\ Verdict(e).action = "needs_review" =>
              \E j \in Ids \cup {NoTarget}, reason \in Reasons : Verdict(e) = Review(j, reason)
<1> DEFINE matches == {j \in e.roles : status[j] # NoStatus}
           decided == [j \in Existing |-> DecidedAt(j)]
           j == CHOOSE k \in matches : TRUE
<1>1. IsEvidence(e)
  BY EvidenceAssumption
<1>2. Verdict(e) =
        CASE e.contradictory -> Review(NoTarget, "contradictory_evidence")
          [] ~e.contradictory /\ Cardinality(matches) # 1 ->
               Review(NoTarget, "exact_role_match_required")
          [] OTHER ->
               IF ~Reachable(Target[e.class], status[j])
               THEN Review(j, "status_transition_requires_review")
               ELSE IF Outdated(e, status[j], decided[j])
               THEN Review(j, "canonical_status_newer_than_evidence")
               ELSE ApplyDecision(j, e.class, e.at)
  BY DEF Verdict, Classify
<1>3. CASE e.contradictory
  BY <1>2, <1>3 DEF Review, Decision, Reasons
<1>4. CASE ~e.contradictory /\ Cardinality(matches) # 1
  <2>1. Verdict(e) = Review(NoTarget, "exact_role_match_required")
    BY <1>2, <1>4
  <2> HIDE DEF j, decided, matches
  <2>2. "exact_role_match_required" \in Reasons /\ NoTarget \in Ids \cup {NoTarget}
    BY DEF Reasons
  <2>3. Verdict(e) \in Decision /\ Verdict(e).action = "needs_review"
    BY <2>1, <2>2 DEF Review, Decision
  <2> QED BY <2>1, <2>2, <2>3
<1>5. CASE ~e.contradictory /\ Cardinality(matches) = 1
  <2>1. matches \in SUBSET Ids /\ IsFiniteSet(matches)
    BY <1>1, IdsAssumption, FS_Subset DEF IsEvidence
  <2>2. matches # {}
    BY <1>5, FS_EmptySet
  <2>3. j \in matches /\ j \in Existing
    BY <2>1, <2>2 DEF Existing
  <2>4. decided[j] = DecidedAt(j)
    BY <2>3
  <2>5. Verdict(e) =
          IF ~Reachable(Target[e.class], status[j])
          THEN Review(j, "status_transition_requires_review")
          ELSE IF Outdated(e, status[j], decided[j])
          THEN Review(j, "canonical_status_newer_than_evidence")
          ELSE ApplyDecision(j, e.class, e.at)
    BY <1>2, <1>5
  <2> HIDE DEF j, decided, matches
  <2>6. /\ j \in e.roles /\ j \in Ids /\ status[j] # NoStatus
        /\ e.class \in Classes /\ e.at \in Nat
    BY <1>1, <2>1, <2>3 DEF matches, IsEvidence
  <2>7. CASE ~Reachable(Target[e.class], status[j])
    BY <2>5, <2>6, <2>7 DEF Review, Decision, Reasons
  <2>8. CASE Reachable(Target[e.class], status[j]) /\ Outdated(e, status[j], decided[j])
    BY <2>5, <2>6, <2>8 DEF Review, Decision, Reasons
  <2>9. CASE Reachable(Target[e.class], status[j]) /\ ~Outdated(e, status[j], decided[j])
    <3>1. Verdict(e) = ApplyDecision(j, e.class, e.at)
      BY <2>5, <2>9
    <3>2. Verdict(e) \in Decision /\ Verdict(e).action = "apply_update"
      BY <3>1, <2>6 DEF ApplyDecision, Decision
    <3> QED BY <3>1, <3>2, <2>4, <2>6, <2>9 DEF Outdated
  <2> QED BY <2>7, <2>8, <2>9
<1> QED BY <1>3, <1>4, <1>5, <1>1 DEF IsEvidence

-----------------------------------------------------------------------------
(* How old a status is *)

\* The status of a job was decided no earlier than anything else was.
LEMMA DecidedLast ==
  ASSUME TypeOK, NewestDecisionWins, NEW j \in Existing
  PROVE  /\ DecidedAt(j) \in Nat
         /\ \A d \in Decisions(j) : d.at <= DecidedAt(j)
<1> DEFINE times == {event.at : event \in {d \in Decisions(j) : d.status = status[j]}}
<1>1. j \in Ids /\ Decisions(j) \subseteq Event
  BY DEF Existing, Decisions, TypeOK
<1>2. \A d \in Decisions(j) : d.at \in Nat
  BY <1>1 DEF Event
<1> PICK d \in Decisions(j) : d.status = status[j] /\ \A f \in Decisions(j) : f.at <= d.at
  BY DEF NewestDecisionWins
<1>3. d.at \in times /\ \A u \in times : u <= d.at
  OBVIOUS
<1>4. DecidedAt(j) \in times /\ \A u \in times : u <= DecidedAt(j)
  <2>1. DecidedAt(j) = CHOOSE t \in times : \A u \in times : u <= t
    BY DEF DecidedAt, Newest
  <2> QED BY <1>3, <2>1
<1>5. DecidedAt(j) \in Nat
  BY <1>2, <1>4
<1>6. d.at <= DecidedAt(j)
  BY <1>3, <1>4
<1> QED BY <1>2, <1>5, <1>6

-----------------------------------------------------------------------------
(* Steps *)

LEMMA InvInit == Init => Inv
<1> SUFFICES ASSUME Init PROVE Inv
  OBVIOUS
<1>1. TypeOK
  BY DEF Init, TypeOK
<1>2. AppliedOnce /\ ReceiptsAgree /\ HolderInv /\ NoHistoryBefore
  BY CommittedMeans DEF Init, AppliedOnce, ReceiptsAgree, HolderInv, NoHistoryBefore
<1>4. SourcesClassify
  BY DEF Init, SourcesClassify
<1>3. NewestDecisionWins
  BY DEF Init, NewestDecisionWins, Existing
<1> QED BY <1>1, <1>2, <1>3, <1>4 DEF Inv

\* An event that decides nothing newer than the status leaves the rest alone.
LEMMA EventFits ==
  ASSUME NEW type \in {"job_created", "status_changed", "lifecycle_status_observed",
                       "job_reverified"},
         NEW prior \in Statuses \cup {NoStatus}, NEW s \in Statuses, NEW t \in Nat,
         NEW source \in Sources \cup {NoSource}, NEW class \in Classes \cup {NoSource}
  PROVE  MakeEvent(type, prior, s, t, source, class) \in Event
BY DEF MakeEvent, Event

\* What one logged event makes of the newest decision.
LEMMA LoggedDecision ==
  ASSUME TypeOK, NewestDecisionWins, NEW j \in Ids, NEW event \in Event, Log(j, event),
         \A k \in Ids \ {j} : status'[k] = status[k],
         \/ /\ IsStatusDecision(event)
            /\ event.status = status'[j]
            /\ \A d \in Decisions(j) : d.at <= event.at
         \/ /\ status[j] # NoStatus /\ status'[j] = status[j]
            /\ IsStatusDecision(event) => event.status = status[j]
  PROVE  NewestDecisionWins'
<1>1. \A k \in Ids : history'[k] = IF k = j THEN history[j] \cup {event} ELSE history[k]
  BY DEF TypeOK, Log
<1>2. ASSUME NEW k \in Ids, k # j PROVE Decisions(k)' = Decisions(k)
  BY <1>1, <1>2 DEF Decisions, IsStatusDecision
<1>3. Decisions(j)' = Decisions(j) \cup (IF IsStatusDecision(event) THEN {event} ELSE {})
  BY <1>1 DEF Decisions, IsStatusDecision
<1>4. event.at \in Nat /\ \A d \in Decisions(j) : d.at \in Nat
  BY DEF Decisions, TypeOK, Event
<1> SUFFICES ASSUME NEW k \in Existing'
             PROVE  \E d \in Decisions(k)' :
                      /\ d.status = status'[k]
                      /\ \A other \in Decisions(k)' : other.at <= d.at
  BY DEF NewestDecisionWins
<1>5. k \in Ids
  BY DEF Existing
<1>6. CASE k # j
  BY <1>2, <1>5, <1>6 DEF NewestDecisionWins, Existing
<1>7. CASE k = j /\ IsStatusDecision(event) /\ event.status = status'[j]
               /\ \A d \in Decisions(j) : d.at <= event.at
  BY <1>3, <1>4, <1>7
<1>8. CASE k = j /\ status[j] # NoStatus /\ status'[j] = status[j]
               /\ (IsStatusDecision(event) => event.status = status[j])
  <2> PICK d \in Decisions(j) : d.status = status[j] /\ \A f \in Decisions(j) : f.at <= d.at
    BY <1>8 DEF NewestDecisionWins, Existing
  <2>1. CASE IsStatusDecision(event) /\ event.at > d.at
    BY <1>3, <1>4, <1>8, <2>1
  <2>2. CASE ~(IsStatusDecision(event) /\ event.at > d.at)
    BY <1>3, <1>4, <1>8, <2>2
  <2> QED BY <2>1, <2>2
<1> QED BY <1>6, <1>7, <1>8

LEMMA SourcesStay ==
  ASSUME TypeOK, SourcesClassify, NEW j \in Ids, NEW event, Log(j, event),
         event.source \in Sources => event.class \in Classes
  PROVE  SourcesClassify'
<1>1. \A k \in Ids : history'[k] = IF k = j THEN history[j] \cup {event} ELSE history[k]
  BY DEF TypeOK, Log
<1> QED BY <1>1 DEF SourcesClassify

LEMMA PeopleKeep ==
  ASSUME Inv, NEW j \in Ids, NEW t \in Times,
         \/ CreateJob(j, t) \/ Reverify(j, t)
         \/ \E s \in RequestedStatuses : Decide(j, s, t)
  PROVE  Inv'
<1>1. PICK event \in Event :
        /\ Log(j, event) /\ event.source = NoSource
        /\ UNCHANGED <<receipts, holder>> /\ holder = Nothing
        /\ status' \in [Ids -> Statuses \cup {NoStatus}]
        /\ status'[j] # NoStatus
        /\ \A k \in Ids \ {j} : status'[k] = status[k]
        /\ \/ /\ IsStatusDecision(event)
              /\ event.status = status'[j]
              /\ \A d \in Decisions(j) : d.at <= event.at
           \/ /\ status[j] # NoStatus /\ status'[j] = status[j]
              /\ IsStatusDecision(event) => event.status = status[j]
  <2>0. t \in Nat /\ RequestedStatuses \subseteq Statuses /\ NoStatus \notin Statuses
    BY LifecycleAssumption, NothingAssumption
  <2>1. CASE CreateJob(j, t)
    <3> DEFINE event == MakeEvent("job_created", NoStatus, "new", t, NoSource, NoSource)
    <3>1. event \in Event
      BY <2>0, EventFits DEF Statuses
    <3>2. Decisions(j) = {}
      BY <2>1 DEF Inv, NoHistoryBefore, CreateJob, Decisions
    <3>3. IsStatusDecision(event) /\ event.status = "new" /\ event.source = NoSource
      BY <2>0 DEF MakeEvent, IsStatusDecision, Statuses
    <3>4. "new" \in Statuses /\ NoStatus # "new"
      BY <2>0 DEF Statuses
    <3> HIDE DEF event
    <3>5. Log(j, event) /\ status' = [status EXCEPT ![j] = "new"]
          /\ UNCHANGED <<receipts, holder>> /\ holder = Nothing
      BY <2>1 DEF CreateJob, event
    <3> QED BY <3>1, <3>2, <3>3, <3>4, <3>5 DEF Inv, TypeOK
  <2>2. CASE Reverify(j, t)
    <3> DEFINE event == MakeEvent("job_reverified", status[j], status[j], t, NoSource, NoSource)
    <3>1. status[j] \in Statuses /\ status[j] # NoStatus
      BY <2>2 DEF Reverify, Inv, TypeOK
    <3>2. event \in Event
      BY <2>0, <3>1, EventFits
    <3>3. ~IsStatusDecision(event) /\ event.source = NoSource
      BY DEF MakeEvent, IsStatusDecision
    <3> HIDE DEF event
    <3>4. Log(j, event) /\ UNCHANGED <<status, receipts, holder>> /\ holder = Nothing
      BY <2>2 DEF Reverify, event
    <3> QED BY <3>1, <3>2, <3>3, <3>4 DEF Inv, TypeOK
  <2>3. ASSUME NEW s \in RequestedStatuses, Decide(j, s, t)
        PROVE  \E event \in Event :
        /\ Log(j, event) /\ event.source = NoSource
        /\ UNCHANGED <<receipts, holder>> /\ holder = Nothing
        /\ status' \in [Ids -> Statuses \cup {NoStatus}]
        /\ status'[j] # NoStatus
        /\ \A k \in Ids \ {j} : status'[k] = status[k]
        /\ IsStatusDecision(event)
        /\ event.status = status'[j]
        /\ \A d \in Decisions(j) : d.at <= event.at
    <3> DEFINE event == MakeEvent("status_changed", status[j], s, t, NoSource, NoSource)
    <3>1. status[j] \in Statuses /\ status[j] # s /\ s \in Statuses /\ s # NoStatus
      BY <2>0, <2>3 DEF Decide, Inv, TypeOK
    <3>2. event \in Event
      BY <2>0, <3>1, EventFits
    <3>3. IsStatusDecision(event) /\ event.source = NoSource /\ event.status = s /\ event.at = t
      BY <3>1 DEF MakeEvent, IsStatusDecision
    <3>4. \A d \in Decisions(j) : d.at <= t
      BY <2>3 DEF Decide, Decisions
    <3> HIDE DEF event
    <3>5. Log(j, event) /\ status' = [status EXCEPT ![j] = s]
          /\ UNCHANGED <<receipts, holder>> /\ holder = Nothing
      BY <2>3 DEF Decide, event
    <3>6. /\ status' \in [Ids -> Statuses \cup {NoStatus}] /\ status'[j] = s
          /\ \A k \in Ids \ {j} : status'[k] = status[k]
      BY <3>1, <3>5 DEF Inv, TypeOK
    <3> QED BY <3>1, <3>2, <3>3, <3>4, <3>5, <3>6
  <2> QED BY <2>1, <2>2, <2>3
<1>2. \A id \in Sources : Committed(id)' = Committed(id)
  BY <1>1, PeopleCommitNothing DEF Inv
<1>3. TypeOK'
  BY <1>1 DEF Inv, TypeOK, Log
<1>4. AppliedOnce' /\ ReceiptsAgree' /\ HolderInv'
  BY <1>1, <1>2 DEF Inv, TypeOK, AppliedOnce, ReceiptsAgree, HolderInv
<1>5. NoHistoryBefore'
  <2>1. \A k \in Ids \ {j} : history'[k] = history[k]
    BY <1>1 DEF Inv, TypeOK, Log
  <2> QED BY <1>1, <2>1 DEF Inv, NoHistoryBefore
<1>6. NewestDecisionWins'
  BY <1>1, LoggedDecision DEF Inv
<1>7. SourcesClassify'
  BY <1>1, SourcesStay, LifecycleAssumption DEF Inv, Sources
<1> QED BY <1>3, <1>4, <1>5, <1>6, <1>7 DEF Inv

\* A step that writes no event and no status.
LEMMA ReceiptKeeps ==
  ASSUME Inv, UNCHANGED <<status, history>>,
         /\ \A id \in DOMAIN receipts' :
              /\ id \in Sources /\ receipts'[id] \in Decision
              /\ IF receipts'[id].action = "apply_update"
                 THEN Committed(id) = {receipts'[id]} ELSE Committed(id) = {},
         holder' = Nothing
  PROVE  Inv'
<1>1. \A id : Committed(id)' = Committed(id)
  BY UnloggedCommits
<1>2. TypeOK'
  BY DEF Inv, TypeOK
<1>3. AppliedOnce' /\ ReceiptsAgree' /\ HolderInv'
  BY <1>1 DEF Inv, AppliedOnce, ReceiptsAgree, HolderInv
<1>4. NoHistoryBefore' /\ NewestDecisionWins' /\ SourcesClassify'
  BY DEF Inv, NoHistoryBefore, SourcesClassify, NewestDecisionWins, Existing, Decisions, IsStatusDecision
<1> QED BY <1>2, <1>3, <1>4 DEF Inv

LEMMA DecisionsApply ==
  ASSUME TypeOK, SourcesClassify, NEW id \in Sources, NEW d \in Committed(id)
  PROVE  d \in Decision /\ d.action = "apply_update"
<1> PICK j \in Ids : \E x \in history[j] : x.source = id /\ d = ApplyDecision(j, x.class, x.at)
  BY CommittedMeans
<1> PICK x \in history[j] : x.source = id /\ d = ApplyDecision(j, x.class, x.at)
  OBVIOUS
<1>1. x \in Event
  BY DEF TypeOK
<1>2. x.class \in Classes /\ x.at \in Nat
  BY <1>1 DEF Event, SourcesClassify
<1> QED BY <1>2 DEF ApplyDecision, Decision

LEMMA RecoverKeeps ==
  ASSUME Inv, NEW e \in Evidence, Recover(e) PROVE Inv'
<1> PICK decision \in Committed(e.id) :
      Committed(e.id) = {decision} /\ receipts' = WithReceipt(e.id, decision)
  BY DEF Recover, Known
<1>1. e.id \in Sources /\ holder = Nothing
  BY DEF Sources, Recover, Begin
<1>2. decision \in Decision /\ decision.action = "apply_update"
  BY <1>1, DecisionsApply DEF Inv
<1> QED BY <1>1, <1>2, ReceiptKeeps
    DEF Recover, WithReceipt, Inv, TypeOK, ReceiptsAgree

LEMMA LeaveForReviewKeeps ==
  ASSUME Inv, NEW e \in Evidence, LeaveForReview(e) PROVE Inv'
<1>1. e.id \in Sources /\ holder = Nothing /\ holder' = Nothing /\ Committed(e.id) = {}
      /\ UNCHANGED <<status, history>> /\ receipts' = WithReceipt(e.id, Verdict(e))
  BY DEF Sources, LeaveForReview, Begin, Known
<1>2. Verdict(e) \in Decision /\ Verdict(e).action # "apply_update"
  BY VerdictFits DEF Inv, LeaveForReview
<1>3. \A id \in DOMAIN receipts' :
        /\ id \in Sources /\ receipts'[id] \in Decision
        /\ IF receipts'[id].action = "apply_update"
           THEN Committed(id) = {receipts'[id]} ELSE Committed(id) = {}
  BY <1>1, <1>2 DEF WithReceipt, Inv, TypeOK, ReceiptsAgree
<1> QED BY <1>1, <1>3, ReceiptKeeps

LEMMA WriteReceiptKeeps == ASSUME Inv, WriteReceipt PROVE Inv'
<1>1. /\ holder.id \in Sources /\ holder.decision \in Decision
      /\ Committed(holder.id) = {holder.decision} /\ holder.decision.action = "apply_update"
      /\ UNCHANGED <<status, history>> /\ holder' = Nothing
      /\ receipts' = WithReceipt(holder.id, holder.decision)
  BY DEF Inv, TypeOK, HolderInv, WriteReceipt
<1>2. \A id \in DOMAIN receipts' :
        /\ id \in Sources /\ receipts'[id] \in Decision
        /\ IF receipts'[id].action = "apply_update"
           THEN Committed(id) = {receipts'[id]} ELSE Committed(id) = {}
  BY <1>1 DEF WithReceipt, Inv, TypeOK, ReceiptsAgree
<1> QED BY <1>1, <1>2, ReceiptKeeps

LEMMA DieKeeps == ASSUME Inv, Die PROVE Inv'
BY ReceiptKeeps DEF Die, Inv, TypeOK, ReceiptsAgree

\* The mutation
LEMMA ApplyMeans ==
  ASSUME Inv, NEW e \in Evidence, Apply(e)
  PROVE  \E j \in e.roles, event \in Event :
           /\ j \in Ids /\ status[j] # NoStatus
           /\ Verdict(e) = ApplyDecision(j, e.class, e.at) /\ Verdict(e) \in Decision
           /\ Reachable(Target[e.class], status[j])
           /\ status' = [status EXCEPT ![j] = Target[e.class]]
           /\ Target[e.class] \in Statuses
           /\ Log(j, event)
           /\ event.source = e.id /\ event.class = e.class /\ event.at = e.at
           /\ event.status = Target[e.class] /\ IsStatusDecision(event)
           /\ status[j] # Target[e.class] => ~(DecidedAt(j) > e.at)
<1>1. PICK j \in e.roles :
        /\ j \in Ids /\ status[j] # NoStatus
        /\ Verdict(e) = ApplyDecision(j, e.class, e.at) /\ Verdict(e) \in Decision
        /\ Reachable(Target[e.class], status[j])
        /\ status[j] # Target[e.class] => ~(DecidedAt(j) > e.at)
  BY VerdictFits DEF Apply, Inv
<1>2. Verdict(e).job = j
  BY <1>1 DEF ApplyDecision
<1> DEFINE event == MakeEvent(IF status[j] = Target[e.class] THEN "lifecycle_status_observed"
                              ELSE "status_changed",
                              status[j], Target[e.class], e.at, e.id, e.class)
<1>3. e.class \in Classes /\ e.at \in Nat /\ e.id \in Sources
  BY EvidenceAssumption DEF IsEvidence, Sources
<1>4. Target[e.class] \in Statuses /\ status[j] \in Statuses
  BY <1>1, <1>3, TargetsAreStatuses DEF Inv, TypeOK
<1>5. event \in Event
  BY <1>3, <1>4, EventFits
<1>6. /\ event.source = e.id /\ event.class = e.class /\ event.at = e.at
      /\ event.status = Target[e.class] /\ IsStatusDecision(event)
  BY DEF MakeEvent, IsStatusDecision
<1>7. status' = [status EXCEPT ![j] = Target[e.class]] /\ Log(j, event)
  BY <1>2 DEF Apply
<1> HIDE DEF event
<1> QED BY <1>1, <1>4, <1>5, <1>6, <1>7

LEMMA ApplyKeeps ==
  ASSUME Inv, NEW e \in Evidence, Apply(e) PROVE Inv'
<1>1. PICK j \in e.roles, event \in Event :
           /\ j \in Ids /\ status[j] # NoStatus
           /\ Verdict(e) = ApplyDecision(j, e.class, e.at) /\ Verdict(e) \in Decision
           /\ status' = [status EXCEPT ![j] = Target[e.class]]
           /\ Target[e.class] \in Statuses
           /\ Log(j, event)
           /\ event.source = e.id /\ event.class = e.class /\ event.at = e.at
           /\ event.status = Target[e.class] /\ IsStatusDecision(event)
           /\ status[j] # Target[e.class] => ~(DecidedAt(j) > e.at)
  BY ApplyMeans
<1>2. /\ e.id \in Sources \ DOMAIN receipts /\ e.at \in Nat
      /\ Committed(e.id) = {} /\ receipts' = receipts
      /\ holder' = [id |-> e.id, decision |-> Verdict(e)]
  BY EvidenceAssumption DEF Apply, Begin, Known, Sources, IsEvidence
<1>3. Committed(e.id)' = {Verdict(e)}
  BY <1>1, <1>2, LogCommits DEF Inv
<1>4. \A id \in Sources \ {e.id} : Committed(id)' = Committed(id)
  BY <1>1, LogCommits DEF Inv
<1>5. TypeOK'
  BY <1>1, <1>2 DEF Inv, TypeOK, Log
<1>6. Verdict(e).action = "apply_update"
  BY <1>1 DEF ApplyDecision
<1>7. AppliedOnce'
  BY <1>3, <1>4 DEF Inv, AppliedOnce
<1>8. ReceiptsAgree'
  BY <1>2, <1>4 DEF Inv, TypeOK, ReceiptsAgree
<1>9. HolderInv'
  BY <1>2, <1>3, <1>6 DEF HolderInv
<1>10. NoHistoryBefore'
  <2>1. /\ status'[j] # NoStatus
        /\ \A k \in Ids \ {j} : history'[k] = history[k] /\ status'[k] = status[k]
    BY <1>1, NothingAssumption DEF Inv, TypeOK, Log
  <2> QED BY <2>1 DEF Inv, NoHistoryBefore
<1>11. NewestDecisionWins'
  <2>1. /\ status'[j] = Target[e.class]
        /\ \A k \in Ids \ {j} : status'[k] = status[k]
    BY <1>1 DEF Inv, TypeOK
  <2>2. CASE status[j] = Target[e.class]
    BY <1>1, <2>1, <2>2, LoggedDecision DEF Inv
  <2>3. CASE status[j] # Target[e.class]
    <3>1. DecidedAt(j) \in Nat /\ \A d \in Decisions(j) : d.at <= DecidedAt(j)
      BY <1>1, DecidedLast DEF Inv, Existing
    <3>2. \A d \in Decisions(j) : d.at \in Nat
      BY <1>1 DEF Inv, TypeOK, Decisions, Event
    <3>3. \A d \in Decisions(j) : d.at <= event.at
      BY <1>1, <1>2, <2>3, <3>1, <3>2
    <3> QED BY <1>1, <2>1, <3>3, LoggedDecision DEF Inv
  <2> QED BY <2>2, <2>3
<1>12. SourcesClassify'
  <2>1. event.class \in Classes
    BY <1>1, EvidenceAssumption DEF IsEvidence
  <2> QED BY <1>1, <2>1, SourcesStay DEF Inv
<1> QED BY <1>5, <1>7, <1>8, <1>9, <1>10, <1>11, <1>12 DEF Inv

LEMMA InvStep == Inv /\ [Next]_vars => Inv'
<1> SUFFICES ASSUME Inv, [Next]_vars PROVE Inv'
  OBVIOUS
<1>1. ASSUME NEW e \in Evidence, Reconcile(e) PROVE Inv'
  BY <1>1, RecoverKeeps, LeaveForReviewKeeps, ApplyKeeps DEF Reconcile
<1>2. CASE UNCHANGED vars
  <2>1. \A id : Committed(id)' = Committed(id)
    BY <1>2, UnloggedCommits DEF vars
  <2>2. TypeOK' /\ NoHistoryBefore' /\ NewestDecisionWins' /\ SourcesClassify'
    BY <1>2 DEF vars, Inv, TypeOK, NoHistoryBefore, SourcesClassify, NewestDecisionWins, Existing, Decisions,
       IsStatusDecision
  <2>3. AppliedOnce' /\ ReceiptsAgree' /\ HolderInv'
    BY <1>2, <2>1 DEF vars, Inv, AppliedOnce, ReceiptsAgree, HolderInv
  <2> QED BY <2>2, <2>3 DEF Inv
<1> QED BY <1>1, <1>2, PeopleKeep, WriteReceiptKeeps, DieKeeps DEF Next

-----------------------------------------------------------------------------
(* Lifecycle implements Settlement *)

LEMMA SettledStays ==
  ASSUME UNCHANGED receipts, \A id \in Sources : Committed(id)' = Committed(id)
  PROVE  Settled' = Settled
BY DEF Settled

\* A receipt for what the events say settles nothing anew.
LEMMA ReceiptSettlesNothing ==
  ASSUME TypeOK, UNCHANGED history, NEW id \in Sources, NEW d, Committed(id) = {d},
         id \notin DOMAIN receipts, receipts' = WithReceipt(id, d)
  PROVE  Settled' = Settled
<1>1. \A x : Committed(x)' = Committed(x)
  BY UnloggedCommits
<1>2. TheOnly(Committed(id)) = d
  BY DEF TheOnly
<1>3. DOMAIN receipts' = DOMAIN receipts \cup {id} /\ DOMAIN Settled' = DOMAIN Settled
  BY <1>1 DEF Settled, WithReceipt
<1>4. ASSUME NEW x \in DOMAIN Settled PROVE Settled'[x] = Settled[x]
  <2>1. CASE x = id
    BY <1>2, <1>3, <2>1 DEF Settled, WithReceipt
  <2>2. CASE x # id
    BY <1>1, <1>3, <2>2 DEF Settled, WithReceipt
  <2> QED BY <2>1, <2>2
<1>5. Settled = [x \in DOMAIN Settled |-> Settled[x]]
      /\ Settled' = [x \in DOMAIN Settled' |-> Settled'[x]]
  BY DEF Settled
<1> QED BY <1>3, <1>4, <1>5

LEMMA SettlesOne ==
  ASSUME NEW e \in Evidence, NEW decision,
         e.id \notin DOMAIN receipts, Committed(e.id) = {},
         \A id \in Sources \ {e.id} : Committed(id)' = Committed(id),
         \/ receipts' = receipts /\ Committed(e.id)' = {decision}
         \/ receipts' = WithReceipt(e.id, decision) /\ Committed(e.id)' = {}
  PROVE  /\ e.id \notin DOMAIN Settled
         /\ Settled' = [id \in DOMAIN Settled \cup {e.id} |->
                          IF id = e.id THEN decision ELSE Settled[id]]
<1>1. e.id \in Sources
  BY DEF Sources
<1>2. e.id \notin DOMAIN Settled
  BY DEF Settled
<1>3. DOMAIN Settled' = DOMAIN Settled \cup {e.id}
  BY <1>1 DEF Settled, WithReceipt
<1>4. Settled'[e.id] = decision
  <2>1. CASE receipts' = receipts /\ Committed(e.id)' = {decision}
    <3>1. TheOnly(Committed(e.id)') = decision
      BY <2>1 DEF TheOnly
    <3> QED BY <1>1, <2>1, <3>1 DEF Settled
  <2>2. CASE receipts' = WithReceipt(e.id, decision)
    BY <1>1, <2>2 DEF Settled, WithReceipt
  <2> QED BY <2>1, <2>2
<1>5. ASSUME NEW id \in DOMAIN Settled PROVE Settled'[id] = Settled[id]
  <2>1. /\ id # e.id /\ id \in DOMAIN Settled'
        /\ id \in DOMAIN receipts' <=> id \in DOMAIN receipts
        /\ id \in DOMAIN receipts => receipts'[id] = receipts[id]
    BY <1>2, <1>3 DEF WithReceipt
  <2>2. id \notin DOMAIN receipts => Committed(id)' = Committed(id)
    BY <2>1 DEF Settled
  <2> QED BY <2>1, <2>2 DEF Settled
<1>6. Settled' = [id \in DOMAIN Settled' |-> Settled'[id]]
  BY DEF Settled
<1> QED BY <1>2, <1>3, <1>4, <1>5, <1>6

LEMMA InitSettles == Init => Promise!Init
<1> SUFFICES ASSUME Init PROVE Promise!Init
  OBVIOUS
<1>1. {x \in Sources : Committed(x) # {}} = {}
  BY CommittedMeans DEF Init
<1>2. DOMAIN receipts = {}
  BY DEF Init
<1> QED BY <1>1, <1>2 DEF Init, Promise!Init, Settled

LEMMA StepSettles ==
  Inv /\ [Next]_vars => [Promise!Next]_<<status, Settled>>
<1> SUFFICES ASSUME Inv, [Next]_vars PROVE [Promise!Next]_<<status, Settled>>
  OBVIOUS
<1>1. ASSUME NEW j \in Ids, NEW t \in Times, CreateJob(j, t)
      PROVE  Promise!Next
  <2>1. Settled' = Settled
    BY <1>1, PeopleCommitNothing, SettledStays DEF Inv, CreateJob, MakeEvent
  <2>2. Promise!CreateJob(j)
    BY <1>1, <2>1 DEF CreateJob, Promise!CreateJob
  <2> QED BY <2>2 DEF Promise!Next
<1>2. ASSUME NEW j \in Ids, NEW t \in Times, Reverify(j, t)
      PROVE  UNCHANGED <<status, Settled>>
  BY <1>2, PeopleCommitNothing, SettledStays DEF Inv, Reverify, MakeEvent
<1>3. ASSUME NEW j \in Ids, NEW t \in Times, NEW s \in RequestedStatuses, Decide(j, s, t)
      PROVE  Promise!Next
  <2>1. Settled' = Settled
    BY <1>3, PeopleCommitNothing, SettledStays DEF Inv, Decide, MakeEvent
  <2>2. s \in Promise!Statuses
    BY LifecycleAssumption DEF Promise!Statuses, Statuses
  <2>3. Promise!Decide(j, s)
    BY <1>3, <2>1 DEF Decide, Promise!Decide
  <2> QED BY <2>2, <2>3 DEF Promise!Next
<1>4. ASSUME NEW e \in Evidence, Recover(e) PROVE UNCHANGED <<status, Settled>>
  BY <1>4, ReceiptSettlesNothing DEF Inv, Recover, Begin, Known, Sources
<1>5. ASSUME NEW e \in Evidence, LeaveForReview(e) PROVE Promise!Next
  <2>1. PICK j \in Ids \cup {NoTarget}, reason \in Reasons : Verdict(e) = Review(j, reason)
    BY <1>5, VerdictFits DEF Inv, LeaveForReview
  <2>2. \A id : Committed(id)' = Committed(id)
    BY <1>5, UnloggedCommits DEF LeaveForReview
  <2>3. /\ e.id \notin DOMAIN Settled
        /\ Settled' = [id \in DOMAIN Settled \cup {e.id} |->
                         IF id = e.id THEN Verdict(e) ELSE Settled[id]]
    BY <1>5, <2>2, SettlesOne DEF LeaveForReview, Begin, Known
  <2>4. Promise!LeaveForReview(e, j, reason)
    BY <1>5, <2>1, <2>3
    DEF LeaveForReview, Promise!LeaveForReview, Promise!Record, Promise!Review, Review
  <2> QED BY <2>4 DEF Promise!Next, Promise!Reasons, Reasons
<1>6. ASSUME NEW e \in Evidence, Apply(e) PROVE Promise!Next
  <2>1. PICK j \in e.roles, event \in Event :
           /\ j \in Ids
           /\ Verdict(e) = ApplyDecision(j, e.class, e.at)
           /\ Reachable(Target[e.class], status[j])
           /\ status' = [status EXCEPT ![j] = Target[e.class]]
           /\ Log(j, event)
           /\ event.source = e.id /\ event.class = e.class /\ event.at = e.at
    BY <1>6, ApplyMeans DEF Inv
  <2>2. Committed(e.id) = {} /\ e.id \notin DOMAIN receipts /\ receipts' = receipts
    BY <1>6 DEF Apply, Begin, Known
  <2>3. Committed(e.id)' = {Verdict(e)}
        /\ \A id \in Sources \ {e.id} : Committed(id)' = Committed(id)
    <3>1. TypeOK /\ j \in Ids /\ Log(j, event)
      BY <2>1 DEF Inv
    <3>2. \A id : Committed(id)' = Committed(id) \cup
             (IF event.source = id THEN {ApplyDecision(j, event.class, event.at)} ELSE {})
      BY <3>1, LogCommits
    <3> QED BY <2>1, <2>2, <3>2
  <2>4. /\ e.id \notin DOMAIN Settled
        /\ Settled' = [id \in DOMAIN Settled \cup {e.id} |->
                         IF id = e.id THEN Verdict(e) ELSE Settled[id]]
    BY <2>2, <2>3, SettlesOne
  <2>5. Promise!Apply(e, j)
    BY <2>1, <2>4
    DEF Promise!Apply, Promise!Record, Promise!ApplyDecision, ApplyDecision,
        Promise!Reachable, Reachable, Promise!Target, Target, Promise!MayPrecede, MayPrecede,
        Promise!PreApplication, PreApplication
  <2> QED BY <2>1, <2>5 DEF Promise!Next
<1>7. ASSUME WriteReceipt PROVE UNCHANGED <<status, Settled>>
  BY <1>7, ReceiptSettlesNothing DEF Inv, WriteReceipt, HolderInv
<1>8. ASSUME Die \/ UNCHANGED vars PROVE UNCHANGED <<status, Settled>>
  BY <1>8, UnloggedCommits, SettledStays DEF Die, vars
<1> QED BY <1>1, <1>2, <1>3, <1>4, <1>5, <1>6, <1>7, <1>8 DEF Next, Reconcile

-----------------------------------------------------------------------------
(* The theorems *)

\* The inductive invariant: types, what events and receipts say of each other,
\* the evidence between mutation and receipt, and the newest decision.
THEOREM LifecycleInvariant == Spec => []Inv
BY InvInit, InvStep, PTL DEF Spec

\* Every variable has its type (job.json, events.jsonl and the receipts that
\* reconciliation.py writes).
THEOREM LifecycleTypes == Spec => []TypeOK
<1>1. Inv => TypeOK
  BY DEF Inv
<1> QED BY <1>1, LifecycleInvariant, PTL

\* In whatever order and however often evidence is read, the status of a job is
\* the one that was decided last (classify_lifecycle_evidence,
\* _latest_status_observation).
THEOREM NewestDecisionsWin == Spec => []NewestDecisionWins
<1>1. Inv => NewestDecisionWins
  BY DEF Inv
<1> QED BY <1>1, LifecycleInvariant, PTL

\* Receipts and events agree, although each pair is two writes
\* (reconcile_lifecycle_evidence, _recover_committed_decision).
THEOREM ReceiptsMatch == Spec => []ReceiptsMatchHistory
<1>1. Inv => ReceiptsMatchHistory
  <2> SUFFICES ASSUME Inv, NEW id \in Sources
               PROVE  /\ Cardinality(Committed(id)) <= 1
                      /\ id \in DOMAIN receipts =>
                           Committed(id) = IF receipts[id].action = "apply_update"
                                           THEN {receipts[id]} ELSE {}
    BY DEF ReceiptsMatchHistory
  <2>1. CASE Committed(id) = {}
    BY <2>1, FS_EmptySet DEF Inv, ReceiptsAgree
  <2>2. ASSUME NEW d \in Committed(id)
        PROVE  Cardinality(Committed(id)) <= 1
    <3>1. Committed(id) = {d}
      BY DEF Inv, AppliedOnce
    <3> QED BY <3>1, FS_Singleton
  <2>3. id \in DOMAIN receipts =>
          Committed(id) = IF receipts[id].action = "apply_update" THEN {receipts[id]} ELSE {}
    BY DEF Inv, ReceiptsAgree
  <2>4. Cardinality(Committed(id)) <= 1
    BY <2>1, <2>2, FS_EmptySet
  <2> QED BY <2>3, <2>4
<1> QED BY <1>1, LifecycleInvariant, PTL

\* Reconciliation with its deaths and recoveries settles each piece of evidence
\* once and by a legal transition (reconcile_lifecycle_evidence).
THEOREM LifecycleSettles == Spec => ImplementsSettlement
<1>1. Inv /\ [Next]_vars => [Promise!Next]_<<status, Settled>>
  BY StepSettles
<1> QED BY <1>1, InitSettles, LifecycleInvariant, PTL
    DEF Spec, ImplementsSettlement, Promise!Spec
=============================================================================
