------------------------------- MODULE Dedupe -------------------------------
(***************************************************************************)
(* Opportunity identity (src/career_pipeline/dedupe.py).                   *)
(*                                                                         *)
(* A posting is identified by an employer requisition when it carries one  *)
(* and by a fallback fingerprint of employer, title, location and team     *)
(* otherwise.  The normalisation and the hash are abstracted: two postings *)
(* have the same requisition (or fingerprint) exactly when the constants   *)
(* give them the same value.                                               *)
(***************************************************************************)
CONSTANTS Reqs,         \* normalised "req:employer:requisition" keys
          NoReq,        \* the posting carries no requisition
          Fallbacks     \* fallback fingerprints

ASSUME NoReqAssumption == NoReq \notin Reqs

\* OpportunityIdentity; any record with these two fields will do below.
Identity == [req : Reqs \cup {NoReq}, fallback : Fallbacks]

-----------------------------------------------------------------------------
\* A resolver that compares only the preferred key of the wanted posting: a
\* job saved without a requisition is then invisible to a posting with one.
PreferredKeyOnly(wanted, existing) ==
  IF wanted.req # NoReq
  THEN {j \in DOMAIN existing : existing[j].req = wanted.req}
  ELSE {j \in DOMAIN existing : existing[j].fallback = wanted.fallback}

SameRequisition(wanted, existing) ==
  {j \in DOMAIN existing : existing[j].req = wanted.req}

\* Without a requisition any job with the fingerprint is a candidate; with
\* one, only a job that has no requisition of its own may be enriched.
SameFallback(wanted, existing) ==
  {j \in DOMAIN existing :
      /\ existing[j].fallback = wanted.fallback
      /\ wanted.req # NoReq => existing[j].req = NoReq}

\* A resolver that trusts the fingerprint first may enrich a job without a
\* requisition although another job already has that very requisition.
FallbackFirst(wanted, existing) ==
  IF SameFallback(wanted, existing) # {}
  THEN SameFallback(wanted, existing)
  ELSE SameRequisition(wanted, existing)

\* resolve_identity: the jobs a posting denotes.  No member: the posting is
\* new.  One member: matched.  Several: ambiguous.
ResolveIdentity(wanted, existing) ==
  IF wanted.req # NoReq /\ SameRequisition(wanted, existing) # {}
  THEN SameRequisition(wanted, existing)
  ELSE SameFallback(wanted, existing)

Matched(ids)   == \E j \in ids : ids = {j}
Ambiguous(ids) == ids # {} /\ ~Matched(ids)
=============================================================================
