--------------------------- MODULE MCReviewQueue ----------------------------
(* Instances of ReviewQueue for TLC. *)
EXTENDS ReviewQueue

CONSTANTS c1, c2, c3

\* One posting under two URLs and in two bodies.
MCSnapshots ==
  {[url |-> 1, body |-> 1], [url |-> 2, body |-> 1], [url |-> 1, body |-> 2]}

\* The first context excludes the second body, the third is not approved.
MCExcluded == {<<c1, 2>>}
MCApproved == {c1, c2}
=============================================================================
