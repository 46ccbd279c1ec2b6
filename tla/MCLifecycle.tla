---------------------------- MODULE MCLifecycle -----------------------------
(* Instance of Lifecycle for TLC. *)
EXTENDS Lifecycle

CONSTANTS m1, m2, m3

Report(id, roles, class, at) ==
  [id |-> id, roles |-> roles, class |-> class, at |-> at, contradictory |-> FALSE]

\* A confirmation that is read again as a rejection, an interview that is also
\* read as contradictory, and a rejection that names two jobs once both exist.
MCEvidence ==
  {Report(m1, {1}, "application_confirmation", 1),
   Report(m1, {1}, "rejection", 2),
   Report(m2, {1}, "interview_invitation", 2),
   [Report(m2, {1}, "interview_invitation", 2) EXCEPT !.contradictory = TRUE],
   Report(m3, {1, 2}, "rejection", 1)}
=============================================================================
