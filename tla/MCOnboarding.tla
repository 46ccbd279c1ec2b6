---------------------------- MODULE MCOnboarding ----------------------------
(* Instance of Onboarding for TLC. *)
EXTENDS Onboarding

CONSTANTS linear, gmail

=============================================================================
