------------------------------ MODULE JobRecord ------------------------------
(***************************************************************************)
(* The canonical job record and how a re-verification folds fresh posting  *)
(* evidence and a fresh assessment into it (src/career_pipeline/           *)
(* job_store.py: _build_record, reverify_job).                             *)
(*                                                                         *)
(* Posting content, assessments, PDF hashes and export receipts are        *)
(* abstract values; times are natural numbers (parse_instant makes the     *)
(* ISO strings comparable).                                                *)
(***************************************************************************)
EXTENDS Dedupe, Naturals

CONSTANTS Candidates,   \* the postings that discovery may bring in
          Evidence,     \* raw_field_hash values: normalised posting content
          Assessments,  \* assessment_content_hash values
          Qualifying,   \* assessments that are strong_match or worth_considering
          Hashes,       \* artifact hashes of delivered PDFs
          Receipts,     \* (destination_kind, content_hash) of verified exports
          MaxVersion    \* bound on packet version numbers

Statuses == {"new", "needs_confirmation", "prepare_application", "packet_ready",
             "applied", "interviewing", "offer", "not_pursuing", "closed"}

\* _PRE_APPLICATION_STATUSES
PreApplication == {"new", "needs_confirmation", "prepare_application", "packet_ready"}

Candidate == [req       : Reqs \cup {NoReq},
              fallback  : Fallbacks,
              source    : STRING,
              evidence  : Evidence,
              verifiedAt: Nat]

ASSUME RecordAssumption ==
  /\ Candidates \subseteq Candidate
  /\ Qualifying \subseteq Assessments
  /\ MaxVersion \in Nat

Version == [version : 1..MaxVersion, hash : Hashes]

\* job.json.  reverifiedAt = 0 stands for the initial None.
Job == [req : Reqs \cup {NoReq}, fallback : Fallbacks, source : STRING,
        evidence : Evidence, verifiedAt : Nat,
        assessment : Assessments, assessedAt : Nat, reverifiedAt : Nat,
        status : Statuses, versions : SUBSET Version, exports : SUBSET Receipts]

\* _SOURCE_PRIORITY, 0 for a source the table does not name
SourcePriority(source) ==
  CASE source \in {"public-search", "browser", "firecrawl"} -> 10
    [] source \in {"indeed", "linkedin"} -> 20
    [] source \in {"public_ats", "greenhouse", "lever", "ashby", "usajobs"} -> 30
    [] OTHER -> 0

\* _build_record
BuildRecord(candidate, assessment, at) ==
  [req |-> candidate.req, fallback |-> candidate.fallback,
   source |-> candidate.source, evidence |-> candidate.evidence,
   verifiedAt |-> candidate.verifiedAt,
   assessment |-> assessment, assessedAt |-> at, reverifiedAt |-> 0,
   status |-> "new", versions |-> {}, exports |-> {}]

-----------------------------------------------------------------------------
(* reverify_job: what the new evidence may change.                          *)

EvidenceIsCurrent(job, candidate) == candidate.verifiedAt >= job.verifiedAt

StrongerSource(job, candidate) ==
  SourcePriority(candidate.source) > SourcePriority(job.source)

\* Slip: newer content wins whatever its time, so a late replay of an old
\* capture overwrites what was verified since.
ReplacesEvidenceAnyAge(job, candidate) ==
  \/ candidate.source = job.source /\ candidate.evidence # job.evidence
  \/ /\ candidate.source # job.source
     /\ job.req # NoReq /\ candidate.req = job.req
     /\ StrongerSource(job, candidate)

\* replace_evidence
ReplacesEvidence(job, candidate) ==
  /\ EvidenceIsCurrent(job, candidate)
  /\ \/ candidate.source = job.source /\ candidate.evidence # job.evidence
     \/ /\ candidate.source # job.source
        /\ job.req # NoReq /\ candidate.req = job.req
        /\ StrongerSource(job, candidate)

ConfirmsEvidence(job, candidate) ==
  /\ EvidenceIsCurrent(job, candidate)
  /\ candidate.source = job.source /\ candidate.evidence = job.evidence

\* A known requisition is kept, a missing one is filled in.
RequisitionAfter(job, candidate) ==
  IF candidate.req # NoReq /\ (job.req = NoReq \/ ReplacesEvidence(job, candidate))
  THEN candidate.req
  ELSE job.req

ReplacesAssessment(job, assessment, at) ==
  assessment # job.assessment /\ at > job.assessedAt

\* The refused re-verification: a different assessment carrying the time of the current one
AssessmentConflict(job, assessment, at) ==
  assessment # job.assessment /\ at = job.assessedAt

Latest(t, u) == IF t > u THEN t ELSE u

\* The record reverify_job commits.
Reverified(job, candidate, assessment, at) ==
  LET replace == ReplacesEvidence(job, candidate)
      reassess == ReplacesAssessment(job, assessment, at)
  IN  [job EXCEPT
         !.req = RequisitionAfter(job, candidate),
         !.fallback = IF replace THEN candidate.fallback ELSE @,
         !.source = IF replace THEN candidate.source ELSE @,
         !.evidence = IF replace THEN candidate.evidence ELSE @,
         !.verifiedAt = IF replace \/ ConfirmsEvidence(job, candidate)
                        THEN candidate.verifiedAt ELSE @,
         !.assessment = IF reassess THEN assessment ELSE @,
         !.assessedAt = IF reassess \/ assessment = job.assessment
                        THEN Latest(@, at) ELSE @,
         !.reverifiedAt = Latest(@, at)]
=============================================================================
