----------------------------- MODULE MCJobStore -----------------------------
(* Instances of JobStore for TLC. *)
EXTENDS JobStore, TLC

CONSTANTS p1, p2, r1, r2, f1, f2, e1, e2, a1, a2

Posting(req, fallback, source, evidence, at) ==
  [req |-> req, fallback |-> fallback, source |-> source,
   evidence |-> evidence, verifiedAt |-> at]

\* A posting without a requisition, the same one with it from a stronger
\* source, another requisition under that fingerprint, and the first
\* requisition under another title, earlier and later.
MCCandidates ==
  {Posting(NoReq, f1, "browser", e1, 2),
   Posting(r1, f1, "greenhouse", e2, 2),
   Posting(r2, f1, "browser", e1, 1),
   Posting(r1, f2, "browser", e2, 1)}

\* One opportunity seen through two sources.
MCOneOpportunity ==
  {Posting(NoReq, f1, "browser", e1, 1),
   Posting(r1, f1, "greenhouse", e2, 2)}

ProcSymmetry == Permutations(Procs)
=============================================================================
