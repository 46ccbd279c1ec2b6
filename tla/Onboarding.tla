----------------------------- MODULE Onboarding -----------------------------
(***************************************************************************)
(* Resumable onboarding (src/career_pipeline/onboarding.py).  A session    *)
(* loads State/onboarding-state.json, makes one change and saves the file  *)
(* again; a session that dies before it saves leaves the file as it was.   *)
(* A file that load_onboarding_state refuses can be used by no session.    *)
(*                                                                         *)
(* The content of a receipt is abstracted to whether it says what its      *)
(* stage demands, the two approval hashes to whether they are recorded.    *)
(***************************************************************************)
EXTENDS Naturals, Sequences

CONSTANTS Connectors,     \* CONNECTORS
          Undecided,      \* no decision on a connector is saved
          NoFile,         \* onboarding has not begun
          Modes,          \* the paths that people may choose
          RepeatsStages   \* callers may ask for the stage that is current

VARIABLE file             \* State/onboarding-state.json

FullStages == <<"privacy", "workspace", "connectors", "resume", "interview", "profile",
                "packet_defaults", "schedule", "readiness", "active">>

QuickStages == <<"privacy", "workspace", "resume", "focus", "profile",
                 "packet_defaults", "connectors", "schedule", "readiness", "active">>

Stages == {"privacy", "workspace", "connectors", "resume", "interview", "focus",
           "profile", "packet_defaults", "schedule", "readiness", "active"}

\* Stages that say what their receipt must hold; the others accept anything.
Demanding == {"privacy", "workspace", "resume", "focus", "profile",
              "packet_defaults", "schedule", "readiness"}

Decisions == {"connected", "declined", "deferred", "unavailable"}
Items == {"connector_configuration", "interview"}

ASSUME OnboardingAssumption ==
  /\ Modes \subseteq {"full", "quick_start"}
  /\ RepeatsStages \in BOOLEAN
  /\ Undecided \notin Decisions

Flow(mode) == IF mode = "quick_start" THEN QuickStages ELSE FullStages

Position(state) == CHOOSE k \in 1..10 : Flow(state.mode)[k] = state.stage

\* OnboardingState.  A receipt is TRUE when it says what its stage demands.
State == [mode       : {"full", "quick_start"},
          stage      : Stages,
          completed  : Seq(Stages),
          connectors : [Connectors -> Decisions \cup {Undecided}],
          receipts   : UNION {[S -> BOOLEAN] : S \in SUBSET Stages},
          approved   : BOOLEAN,
          post       : [Items -> {"pending", "completed"}]]

\* OnboardingState() and quick_start().  The full path keeps no items; they
\* stay pending here.
Fresh(mode) ==
  [mode |-> mode, stage |-> "privacy", completed |-> <<>>,
   connectors |-> [c \in Connectors |-> Undecided],
   receipts |-> [s \in {} |-> FALSE], approved |-> FALSE,
   post |-> [i \in Items |-> "pending"]]

AllDecided(state) == \A c \in Connectors : state.connectors[c] # Undecided

Deferred(state) == \E c \in Connectors : state.connectors[c] = "deferred"

\* _validate_quick_start_receipt
Demanded(state, stage, receipt) ==
  /\ stage \in Demanding => receipt
  /\ stage = "profile" => state.approved
  /\ stage = "connectors" => AllDecided(state)

\* The conditions of load_onboarding_state that a saved state could miss
Loads(state) ==
  /\ \E k \in 1..10 :
       /\ Flow(state.mode)[k] = state.stage
       /\ state.completed = SubSeq(Flow(state.mode), 1, k - 1)
  /\ state.mode = "quick_start" =>
       /\ state.stage # "active" => \A i \in Items : state.post[i] = "pending"
       /\ ~(state.post["connector_configuration"] = "completed" /\ Deferred(state))
       /\ \A k \in DOMAIN state.completed :
            LET stage == state.completed[k]
            IN  stage \in DOMAIN state.receipts /\ Demanded(state, stage, state.receipts[stage])

Resumes == file # NoFile /\ Loads(file)

-----------------------------------------------------------------------------
(* Operations: load, change, save.                                          *)

Begin(mode) == file = NoFile /\ file' = Fresh(mode)

\* Slip: a connector that is deferred anew leaves the follow-up completed.
DecideOnly(c, decision, capable) ==
  /\ Resumes
  /\ file' = [file EXCEPT
       !.connectors[c] = IF decision = "connected" /\ ~capable THEN "unavailable" ELSE decision]

\* record_connector_decision.  "capable": the connector shows what is expected.
DecideConnector(c, decision, capable) ==
  /\ Resumes
  /\ file' = [file EXCEPT
       !.connectors[c] = IF decision = "connected" /\ ~capable THEN "unavailable" ELSE decision,
       !.post["connector_configuration"] =
          IF file.mode = "quick_start" /\ decision = "deferred" THEN "pending" ELSE @]

\* record_post_activation_progress
RecordProgress(item, done) ==
  /\ Resumes
  /\ file.mode = "quick_start" /\ file.stage = "active"
  /\ ~(item = "connector_configuration" /\ done /\ Deferred(file))
  /\ file' = [file EXCEPT !.post[item] = IF done THEN "completed" ELSE "pending"]

\* record_profile_approval
Approve == Resumes /\ file' = [file EXCEPT !.approved = TRUE]

\* Slip: a stage that was passed may be asked for again.
BackwardToo(requested) == requested <= Position(file) + 1

\* Neither backward nor past the next stage
InOrder(requested) ==
  requested - Position(file) \in (IF RepeatsStages THEN {0, 1} ELSE {1})

ActivationAllowed(receipt) == AllDecided(file) /\ file.approved /\ receipt

Completed ==
  IF \E k \in DOMAIN file.completed : file.completed[k] = file.stage
  THEN file.completed
  ELSE Append(file.completed, file.stage)

\* advance_onboarding.  The receipt is of the stage that is left.
Advance(k, receipt) ==
  LET requested == Flow(file.mode)[k]
  IN  /\ Resumes
      /\ file.mode = "quick_start" => Demanded(file, file.stage, receipt)
      /\ requested = "active" => ActivationAllowed(receipt)
      /\ InOrder(k)
      /\ file' = [file EXCEPT
           !.stage = requested,
           !.completed = Completed,
           !.receipts = [s \in DOMAIN @ \cup {file.stage} |->
                           IF s = file.stage THEN receipt ELSE @[s]]]

Init == file = NoFile

Next ==
  \/ \E mode \in Modes : Begin(mode)
  \/ \E c \in Connectors, decision \in Decisions, capable \in BOOLEAN :
       DecideConnector(c, decision, capable)
  \/ \E item \in Items, done \in BOOLEAN : RecordProgress(item, done)
  \/ Approve
  \/ \E k \in 1..10, receipt \in BOOLEAN : Advance(k, receipt)

Spec == Init /\ [][Next]_file

-----------------------------------------------------------------------------
(* Properties.                                                              *)

\* The file has its type.
TypeOK == file \in State \cup {NoFile}

\* "reload that file after an interruption and resume its recorded stage"
\* (skills/onboard/references/quick-start.md:3): what loading demands of all
\* that was completed still holds after every later change.
SavedStateLoads == file # NoFile => Loads(file)

\* An active pipeline has a decision on every connector, approved profile and
\* criteria, and a receipt that says it is ready, whatever path led there.
ActiveMeansReady ==
  file # NoFile /\ file.stage = "active" =>
    /\ AllDecided(file) /\ file.approved
    /\ "readiness" \in DOMAIN file.receipts /\ file.receipts["readiness"]

\* Onboarding only moves forward, and the receipt of a stage that was left is
\* never replaced.
ProgressIsKept ==
  [][file # NoFile =>
       /\ file'.mode = file.mode
       /\ Position(file') >= Position(file)
       /\ \A k \in DOMAIN file.completed :
            LET stage == file.completed[k]
            IN  file'.receipts[stage] = file.receipts[stage]]_file
=============================================================================
