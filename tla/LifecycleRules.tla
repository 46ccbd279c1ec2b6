--------------------------- MODULE LifecycleRules ---------------------------
(***************************************************************************)
(* How one piece of lifecycle evidence (a mail, a calendar entry) is       *)
(* classified against the jobs: src/career_pipeline/reconciliation.py,     *)
(* classify_lifecycle_evidence.                                            *)
(***************************************************************************)
EXTENDS Naturals, FiniteSets

CONSTANTS Ids,          \* job IDs
          Evidence,     \* what the enabled sources may report
          NoStatus,     \* the job does not exist
          NoTarget      \* the decision names no job

Statuses == {"new", "needs_confirmation", "prepare_application", "packet_ready",
             "applied", "interviewing", "offer", "not_pursuing", "closed"}

PreApplication == {"new", "needs_confirmation", "prepare_application", "packet_ready"}

\* _EVENT_STATUS
Target == [application_confirmation |-> "applied",
           rejection                |-> "closed",
           interview_invitation     |-> "interviewing",
           offer                    |-> "offer"]

Classes == DOMAIN Target

\* _ALLOWED_TRANSITIONS
MayPrecede == [applied      |-> PreApplication,
               interviewing |-> {"prepare_application", "packet_ready", "applied"},
               offer        |-> {"interviewing"},
               closed       |-> PreApplication \cup {"applied", "interviewing"}]

\* Evidence of one identity (source and opaque ID) may be reported more than
\* once and read differently each time.  "roles" are the jobs whose employer
\* and requisition (or title) it names.
IsEvidence(e) ==
  /\ DOMAIN e = {"id", "roles", "class", "at", "contradictory"}
  /\ e.roles \subseteq Ids
  /\ e.class \in Classes
  /\ e.at \in Nat
  /\ e.contradictory \in BOOLEAN

ASSUME IdsAssumption == IsFiniteSet(Ids)
ASSUME EvidenceAssumption == \A e \in Evidence : IsEvidence(e)
ASSUME NothingAssumption == NoStatus \notin Statuses /\ NoTarget \notin Ids

Reasons == {"contradictory_evidence", "exact_role_match_required",
            "status_transition_requires_review", "canonical_status_newer_than_evidence"}

Decision == [action : {"apply_update"}, job : Ids, class : Classes, at : Nat]
              \cup [action : {"needs_review"}, job : Ids \cup {NoTarget}, reason : Reasons]

ApplyDecision(j, class, at) ==
  [action |-> "apply_update", job |-> j, class |-> class, at |-> at]

Review(j, reason) == [action |-> "needs_review", job |-> j, reason |-> reason]

Reachable(target, status) == status \in {target} \cup MayPrecede[target]

\* Slip: late evidence is never too old.
NeverOutdated(e, status, decidedAt) == FALSE

\* A status that was decided after the evidence was observed stands.
Outdated(e, status, decidedAt) ==
  status # Target[e.class] /\ decidedAt > e.at

\* classify_lifecycle_evidence, given the status of each existing job and the
\* time it was last decided.
Classify(e, status, decidedAt) ==
  LET matches == {j \in e.roles : status[j] # NoStatus}
      j       == CHOOSE k \in matches : TRUE
  IN  CASE e.contradictory -> Review(NoTarget, "contradictory_evidence")
        [] ~e.contradictory /\ Cardinality(matches) # 1 ->
             Review(NoTarget, "exact_role_match_required")
        [] OTHER ->
             IF ~Reachable(Target[e.class], status[j])
             THEN Review(j, "status_transition_requires_review")
             ELSE IF Outdated(e, status[j], decidedAt[j])
             THEN Review(j, "canonical_status_newer_than_evidence")
             ELSE ApplyDecision(j, e.class, e.at)
=============================================================================
