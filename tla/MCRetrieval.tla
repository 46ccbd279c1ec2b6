---------------------------- MODULE MCRetrieval ----------------------------
(* A board of two pages, one record with a description and one without,    *)
(* that is searched again in a later run and has changed.                  *)
EXTENDS Retrieval, TLC

CONSTANTS a, b, c, x, y

Row(d, body) == [id |-> d, body |-> body]
Valid(rows_, last) == [valid |-> TRUE, rows |-> rows_, last |-> last, unknown |-> FALSE]
Malformed(rows_, unknown) == [valid |-> FALSE, rows |-> rows_, last |-> FALSE, unknown |-> unknown]

MCRunOf == <<1, 2>>
MCMaxPages == <<2, 1>>
MCDescribed == (a :> {}) @@ (b :> {x}) @@ (c :> {})
MCOffered ==
    <<{Valid({Row(a, x)}, FALSE), Valid({Row(b, Missing), Row(c, Unlisted)}, TRUE), Malformed({Row(a, x)}, FALSE)},
      {Valid({Row(a, y)}, TRUE)}>>
=============================================================================
