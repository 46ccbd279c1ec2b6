----------------------------- MODULE MCDiscovery -----------------------------
(***************************************************************************)
(* Instances of Discovery.  Postings b and c carry one requisition under   *)
(* different titles; a carries none and has the title of b.                *)
(***************************************************************************)
EXTENDS Discovery

CONSTANTS a, b, c, r1, f1, f2, home, away, tbd, days, short, long

\* Posting a states a deadline, b an unsure place; c was not verified.
StatedByPosting ==
  [p \in Postings |-> [s \in {"deadline", "place"} |->
    CASE p = a /\ s = "deadline" -> [lower |-> 1, upper |-> 1, unit |-> days, spelling |-> short]
      [] p = b /\ s = "place" -> [text |-> tbd]
      [] p = c /\ s = "place" -> [text |-> away]
      [] OTHER -> NoValue]]

Identities ==
  [p \in Postings |-> [req |-> IF p = a THEN NoReq ELSE r1,
                       fallback |-> IF p = c THEN f2 ELSE f1]]

Late == [unit |-> days, subject |-> "deadline", hard |-> TRUE, minimum |-> TRUE, target |-> 2]
AtHome == [subject |-> "place", hard |-> TRUE, texts |-> {home}]
Wish == [AtHome EXCEPT !.hard = FALSE]

CriteriaDocuments ==
  {[readable |-> 1, rules |-> {Wish, Late}], [readable |-> 2, rules |-> {AtHome}]}

Says(s, p, v) ==
  [subject |-> s, status |-> "known", provenance |-> "source_receipt",
   certainty |-> "verified", source |-> p, value |-> v]

Days(n, m) == [lower |-> n, upper |-> m, unit |-> days, spelling |-> short]

Reviewed(p, d, version, evidence) ==
  [evidence |-> evidence, posting |-> p, disposition |-> d, bound |-> version]

\* Evidence that confirms, disputes, leaves open, is of another posting, is
\* vague, or says the same amount in two spellings
Deliveries ==
  { <<Reviewed(c, "strong_match", 1,
               {Says("deadline", c, Days(0, 1)),
                Says("deadline", c, [Days(0, 1) EXCEPT !.spelling = long])}),
      Reviewed(a, "strong_match", 1, {Says("deadline", a, Days(1, 3))})>>,
    <<Reviewed(a, "strong_match", 1, {}),
      Reviewed(b, Unassessed, 1, {Says("deadline", b, Days(0, 1))})>>,
    <<Reviewed(b, "strong_match", 1, {Says("deadline", a, Days(0, 1)), Says("deadline", b, Days(1, 3))}),
      Reviewed(a, "non_match", 1, {})>>,
    <<Reviewed(b, "strong_match", 2, {Says("place", b, [text |-> away])}),
      Reviewed(c, "strong_match", 2, {Says("place", c, [text |-> tbd])})>>,
    <<Reviewed(b, "strong_match", 2, {Says("place", b, [text |-> home])}),
      Reviewed(a, "strong_match", 2, {Says("place", a, [text |-> home])})>> }

\* One batch about all three postings, delivered again and again
Replayed ==
  { <<Reviewed(a, "strong_match", 1, {}),
      Reviewed(b, "strong_match", 1, {}),
      Reviewed(c, "strong_match", 1, {})>> }
=============================================================================
