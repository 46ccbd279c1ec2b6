------------------------------- MODULE Filters -------------------------------
(***************************************************************************)
(* Hard filters (src/career_pipeline/criteria.py): the user's exclusions,  *)
(* evaluated on what a posting states itself and on evidence supplied with *)
(* its review.  A rule excludes a posting only when what is known of it    *)
(* leaves no doubt.                                                        *)
(*                                                                         *)
(* Texts are atoms: a text rule is the set of texts that its values match  *)
(* (equal, one of, contained), letter case and spaces included.  Amounts,  *)
(* percentages and dates are natural numbers with a unit (currency and pay *)
(* period are part of it) and with the spelling they came in: statements   *)
(* are compared as spelled, rules are evaluated on the numbers.            *)
(***************************************************************************)
EXTENDS Naturals

CONSTANTS Postings,
          TextSubjects,    \* job_location, job_title, ... (_TEXT_RULES)
          RangeSubjects,   \* base_compensation, application_deadline, ...
          Texts,
          Vague,           \* _UNKNOWN_TEXT: "tbd", "n/a", ...
          Units,
          Spellings,       \* of the bounds: "100", "100.00", ...
          NoValue,
          Stated,          \* what the posting states itself, by subject
          Verified         \* the postings whose verification status is verified

Subjects == TextSubjects \cup RangeSubjects

TextValue == [text : Texts]
RangeValue ==
  {v \in [lower : Nat, upper : Nat, unit : Units, spelling : Spellings] : v.lower <= v.upper}
ValuesOf(subject) == IF subject \in TextSubjects THEN TextValue ELSE RangeValue

ASSUME FiltersAssumption ==
  /\ TextSubjects \cap RangeSubjects = {}
  /\ Vague \subseteq Texts
  /\ Verified \subseteq Postings
  /\ NoValue \notin TextValue \cup RangeValue
  /\ \A p \in Postings, s \in Subjects : Stated[p][s] \in ValuesOf(s) \cup {NoValue}

\* CriteriaRule, of the classification hard_exclusion or another
TextRule == [subject : TextSubjects, hard : BOOLEAN, texts : SUBSET Texts]
RangeRule == [subject : RangeSubjects, hard : BOOLEAN, minimum : BOOLEAN,
              target : Nat, unit : Units]
Rule == TextRule \cup RangeRule

Statuses == {"known", "unknown", "conflicting"}

\* NormalizedEvidence.  "source" is the posting whose source, record and field
\* hash it names.
EvidenceOn(subjects, values) ==
  [subject : subjects, status : Statuses, provenance : {"source_receipt", "normalized_candidate"},
   certainty : {"verified", "unverified"}, source : Postings, value : values \cup {NoValue}]

Evidence == EvidenceOn(TextSubjects, TextValue) \cup EvidenceOn(RangeSubjects, RangeValue)

-----------------------------------------------------------------------------
\* _candidate_evidence: what the posting states itself is known when it was
\* verified and is no placeholder.
Own(p, s) ==
  IF p \in Verified /\ Stated[p][s] # NoValue
     /\ (s \in TextSubjects => Stated[p][s].text \notin Vague)
  THEN [status |-> "known", value |-> Stated[p][s]]
  ELSE [status |-> "unknown", value |-> NoValue]

\* _normalize_evidence_state
Status(e) ==
  IF e.status = "known" /\ e.subject \in TextSubjects /\ e.value # NoValue /\ e.value.text \in Vague
  THEN "unknown"
  ELSE e.status

\* _valid_evidence: of this posting, from a receipt, verified, and with a
\* value when and only when it is known
Valid(p, e) ==
  /\ e.provenance = "source_receipt"
  /\ e.certainty = "verified"
  /\ e.source = p
  /\ e.status = "known" <=> e.value # NoValue

\* _validated_evidence: several statements count as one only when all are
\* known and say the same in the same spelling (_comparable_value).
Given(p, s, evidence) == {e \in evidence : e.subject = s /\ Valid(p, e)}

Agreed(stated) ==
  /\ \A e \in stated : Status(e) = "known"
  /\ \A e, f \in stated : e.value = f.value

Supplied(stated) ==
  IF Agreed(stated)
  THEN [status |-> "known", value |-> (CHOOSE e \in stated : TRUE).value]
  ELSE [status |-> "conflicting", value |-> NoValue]

\* Slip: the posting's own statement is believed, whatever the evidence says.
SelectOwn(own, stated) ==
  IF own.status = "known" \/ stated = {} THEN own ELSE Supplied(stated)

\* _select_evidence
Select(own, stated) ==
  IF stated = {} THEN own
  ELSE IF Supplied(stated).status # "known" \/ own.status # "known" THEN Supplied(stated)
  ELSE IF own.value = Supplied(stated).value THEN own
  ELSE [status |-> "conflicting", value |-> NoValue]

Observed(p, s, evidence) == Select(Own(p, s), Given(p, s, evidence))

\* _evaluate_rule
EvaluateText(rule, v) == IF v.text \in rule.texts THEN "pass" ELSE "confirmed_mismatch"

\* Slip: a range that begins beyond the limit is enough.
EvaluateRangeByBegin(rule, v) ==
  IF v.unit # rule.unit THEN "unknown"
  ELSE IF rule.minimum
       THEN IF v.lower >= rule.target THEN "pass" ELSE "confirmed_mismatch"
       ELSE IF v.upper <= rule.target THEN "pass" ELSE "confirmed_mismatch"

EvaluateRange(rule, v) ==
  IF v.unit # rule.unit THEN "unknown"
  ELSE IF rule.minimum
       THEN IF v.lower >= rule.target THEN "pass"
            ELSE IF v.upper < rule.target THEN "confirmed_mismatch" ELSE "unknown"
       ELSE IF v.upper <= rule.target THEN "pass"
            ELSE IF v.lower > rule.target THEN "confirmed_mismatch" ELSE "unknown"

Evaluate(rule, observed) ==
  IF observed.status # "known" THEN "unknown"
  ELSE IF rule.subject \in TextSubjects THEN EvaluateText(rule, observed.value)
  ELSE EvaluateRange(rule, observed.value)

\* evaluate_hard_filters
Results(rules, p, evidence) ==
  {Evaluate(rule, Observed(p, rule.subject, evidence)) : rule \in {r \in rules : r.hard}}

Outcome(rules, p, evidence) ==
  IF "confirmed_mismatch" \in Results(rules, p, evidence) THEN "confirmed_mismatch"
  ELSE IF "unknown" \in Results(rules, p, evidence) THEN "unknown"
  ELSE "pass"

-----------------------------------------------------------------------------
(* What the filters promise, said of what a posting may turn out to be *)

\* Every statement about a subject that counts: the posting's own and the
\* valid evidence, by its status and value
Statements(p, s, evidence) ==
  {own \in {Own(p, s)} : own.status = "known"}
    \cup {[status |-> Status(e), value |-> e.value] : e \in Given(p, s, evidence)}

\* What a value leaves possible, and what a rule asks for
Possible(rule, v) == IF rule.subject \in TextSubjects THEN {v.text} ELSE v.lower..v.upper

Satisfies(rule, x) ==
  IF rule.subject \in TextSubjects THEN x \in rule.texts
  ELSE IF rule.minimum THEN x >= rule.target ELSE x <= rule.target

Comparable(rule, v) == rule.subject \in RangeSubjects => v.unit = rule.unit

\* All statements agree on one known value, and nothing which that value
\* leaves possible satisfies the rule.
Excludes(rule, p, evidence) ==
  \E s \in Statements(p, rule.subject, evidence) :
    /\ Statements(p, rule.subject, evidence) = {s}
    /\ s.status = "known"
    /\ Comparable(rule, s.value)
    /\ \A x \in Possible(rule, s.value) : ~Satisfies(rule, x)

\* The rules whose user-confirmed exclusion applies beyond doubt
Exclusions(rules, p, evidence) == {r \in rules : r.hard /\ Excludes(r, p, evidence)}
=============================================================================
