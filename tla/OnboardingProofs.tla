-------------------------- MODULE OnboardingProofs --------------------------
(***************************************************************************)
(* Theorems about Onboarding, for callers that ask only for the stage      *)
(* after the current one, and for any set of connectors.                   *)
(***************************************************************************)
EXTENDS Onboarding, TLAPS

\* What has been completed is what comes before the current stage, and only a
\* ready receipt leads to the last one.
At(k) ==
  /\ k \in 1..10
  /\ file.stage = Flow(file.mode)[k]
  /\ file.completed = SubSeq(Flow(file.mode), 1, k - 1)

ReadyInv ==
  file.stage = "active" =>
    /\ AllDecided(file) /\ file.approved
    /\ "readiness" \in DOMAIN file.receipts /\ file.receipts["readiness"]

IInv == TypeOK /\ (file # NoFile => Loads(file) /\ ReadyInv)

-----------------------------------------------------------------------------
\* Both paths are ten different stages.
LEMMA FlowType ==
  ASSUME NEW mode
  PROVE  /\ Flow(mode) \in Seq(Stages)
         /\ Len(Flow(mode)) = 10
         /\ \A k \in 1..10 : Flow(mode)[k] \in Stages
         /\ \A j, k \in 1..10 : Flow(mode)[j] = Flow(mode)[k] => j = k
         /\ Flow(mode)[1] = "privacy" /\ Flow(mode)[9] = "readiness" /\ Flow(mode)[10] = "active"
<1>1. CASE mode = "quick_start"
  <2>1. Flow(mode) = QuickStages
    BY <1>1 DEF Flow
  <2>2. QuickStages \in Seq(Stages) /\ Len(QuickStages) = 10 /\ \A k \in 1..10 : QuickStages[k] \in Stages
    BY DEF QuickStages, Stages
  <2>3. \A j, k \in 1..10 : QuickStages[j] = QuickStages[k] => j = k
    BY DEF QuickStages
  <2>4. QuickStages[1] = "privacy" /\ QuickStages[9] = "readiness" /\ QuickStages[10] = "active"
    BY DEF QuickStages
  <2> QED BY <2>1, <2>2, <2>3, <2>4
<1>2. CASE mode # "quick_start"
  <2>1. Flow(mode) = FullStages
    BY <1>2 DEF Flow
  <2>2. FullStages \in Seq(Stages) /\ Len(FullStages) = 10 /\ \A k \in 1..10 : FullStages[k] \in Stages
    BY DEF FullStages, Stages
  <2>3. \A j, k \in 1..10 : FullStages[j] = FullStages[k] => j = k
    BY DEF FullStages
  <2>4. FullStages[1] = "privacy" /\ FullStages[9] = "readiness" /\ FullStages[10] = "active"
    BY DEF FullStages
  <2> QED BY <2>1, <2>2, <2>3, <2>4
<1> QED BY <1>1, <1>2

\* The position of the current stage is the one that loading finds.
LEMMA PositionIs ==
  ASSUME NEW k, At(k)
  PROVE  Position(file) = k
<1>1. \A j \in 1..10 : Flow(file.mode)[j] = file.stage => j = k
  BY FlowType DEF At
<1>2. k \in 1..10 /\ Flow(file.mode)[k] = file.stage
  BY DEF At
<1> QED BY <1>1, <1>2 DEF Position

\* Leaving a stage adds it to those that are completed.
LEMMA CompletedGrows ==
  ASSUME NEW k \in 1..9, At(k)
  PROVE  Completed = SubSeq(Flow(file.mode), 1, k)
<1> DEFINE F == Flow(file.mode)
<1>1. F \in Seq(Stages) /\ Len(F) = 10 /\ \A i, j \in 1..10 : F[i] = F[j] => i = j
  BY FlowType
<1>2. file.completed = SubSeq(F, 1, k - 1) /\ file.stage = F[k]
  BY DEF At
<1> HIDE DEF F
<1>3. DOMAIN file.completed = 1..(k - 1) /\ Len(file.completed) = k - 1
  BY <1>1, <1>2
<1>4. \A i \in 1..(k - 1) : file.completed[i] = F[i]
  BY <1>1, <1>2
<1>5. ~\E i \in DOMAIN file.completed : file.completed[i] = file.stage
  BY <1>1, <1>2, <1>3, <1>4, SMTT(30)
<1>6. Completed = Append(file.completed, file.stage)
  BY <1>5 DEF Completed
<1>7. Append(SubSeq(F, 1, k - 1), F[k]) = SubSeq(F, 1, k)
  BY <1>1
<1> QED BY <1>2, <1>6, <1>7 DEF F

\* Loading finds the current stage in its path.
LEMMA LoadsAt ==
  ASSUME Loads(file)
  PROVE  \E k \in 1..10 : At(k)
BY DEF Loads, At

-----------------------------------------------------------------------------
\* The three conditions on a quick start that loading checks, apart from the
\* position.
QuickLoads(state) ==
  state.mode = "quick_start" =>
    /\ state.stage # "active" => \A i \in Items : state.post[i] = "pending"
    /\ ~(state.post["connector_configuration"] = "completed" /\ Deferred(state))
    /\ \A k \in DOMAIN state.completed :
         LET stage == state.completed[k]
         IN  stage \in DOMAIN state.receipts /\ Demanded(state, stage, state.receipts[stage])

\* A change that leaves path, stage and completed stages as they are has to
\* keep only the conditions on a quick start.
LEMMA SamePosition ==
  ASSUME Loads(file), QuickLoads(file'), file'.mode = file.mode,
         file'.stage = file.stage, file'.completed = file.completed
  PROVE  Loads(file')
<1>1. \E k \in 1..10 : At(k)
  BY LoadsAt
<1>2. \E k \in 1..10 : /\ Flow(file'.mode)[k] = file'.stage
                        /\ file'.completed = SubSeq(Flow(file'.mode), 1, k - 1)
  BY <1>1 DEF At
<1> QED BY <1>2 DEF Loads, QuickLoads

LEMMA BeginPreserves ==
  ASSUME NEW mode \in Modes, Begin(mode)
  PROVE  IInv'
<1>1. file' = Fresh(mode) /\ mode \in {"full", "quick_start"}
  BY OnboardingAssumption DEF Begin
<1>2. Fresh(mode) \in State
  <2>1. [s \in {} |-> FALSE] \in UNION {[S -> BOOLEAN] : S \in SUBSET Stages}
    <3>1. [s \in {} |-> FALSE] \in [{} -> BOOLEAN] /\ {} \in SUBSET Stages
      OBVIOUS
    <3> QED BY <3>1
  <2>2. <<>> \in Seq(Stages) /\ "privacy" \in Stages
    BY DEF Stages
  <2>3. /\ [c \in Connectors |-> Undecided] \in [Connectors -> Decisions \cup {Undecided}]
        /\ [i \in Items |-> "pending"] \in [Items -> {"pending", "completed"}]
    OBVIOUS
  <2> QED BY <1>1, <2>1, <2>2, <2>3 DEF Fresh, State
<1>3. Fresh(mode).stage = "privacy" /\ Fresh(mode).completed = <<>> /\ Fresh(mode).mode = mode
  BY DEF Fresh
<1>4. Flow(mode)[1] = "privacy" /\ SubSeq(Flow(mode), 1, 1 - 1) = <<>>
  BY FlowType
<1>5. QuickLoads(Fresh(mode))
  BY DEF QuickLoads, Fresh, Items
<1>6. Loads(Fresh(mode))
  BY <1>3, <1>4, <1>5 DEF Loads, QuickLoads
<1>7. ReadyInv'
  BY <1>1, <1>3 DEF ReadyInv
<1> QED BY <1>1, <1>2, <1>6, <1>7 DEF IInv, TypeOK

LEMMA DecideConnectorPreserves ==
  ASSUME IInv, NEW c \in Connectors, NEW decision \in Decisions, NEW capable \in BOOLEAN,
         DecideConnector(c, decision, capable)
  PROVE  IInv'
<1> DEFINE chosen == IF decision = "connected" /\ ~capable THEN "unavailable" ELSE decision
           reopened == file.mode = "quick_start" /\ decision = "deferred"
<1>1. file \in State /\ file # NoFile /\ Loads(file) /\ ReadyInv
  BY DEF IInv, TypeOK, DecideConnector, Resumes
<1>2. file' = [file EXCEPT !.connectors[c] = chosen,
                           !.post["connector_configuration"] = IF reopened THEN "pending" ELSE @]
  BY DEF DecideConnector
<1>3. chosen \in Decisions /\ chosen # Undecided
  BY OnboardingAssumption DEF Decisions
<1>4. "connector_configuration" \in Items
  BY DEF Items
<1>5. file' \in State
  BY <1>1, <1>2, <1>3, <1>4 DEF State
<1>6. /\ file'.mode = file.mode /\ file'.stage = file.stage /\ file'.completed = file.completed
      /\ file'.receipts = file.receipts /\ file'.approved = file.approved
  BY <1>1, <1>2 DEF State
<1>7. /\ file'.connectors = [file.connectors EXCEPT ![c] = chosen]
      /\ file'.post = [file.post EXCEPT !["connector_configuration"] = IF reopened THEN "pending" ELSE @]
  BY <1>1, <1>2 DEF State
<1>8. AllDecided(file) => AllDecided(file')
  BY <1>1, <1>3, <1>7 DEF AllDecided, State
<1>9. Deferred(file') => Deferred(file) \/ chosen = "deferred"
  BY <1>1, <1>7 DEF Deferred, State
<1>10. ASSUME file.mode = "quick_start" PROVE QuickLoads(file')
  <2>1. file.stage # "active" => \A i \in Items : file'.post[i] = "pending"
    BY <1>1, <1>4, <1>7, <1>10 DEF Loads, State
  <2>2. ~(file'.post["connector_configuration"] = "completed" /\ Deferred(file'))
    <3>1. CASE reopened
      BY <1>1, <1>4, <1>7, <3>1 DEF State
    <3>2. CASE ~reopened
      <4>1. chosen # "deferred"
        BY <1>10, <3>2
      <4>2. file'.post = file.post
        BY <1>1, <1>4, <1>7, <3>2 DEF State
      <4> QED BY <1>1, <1>9, <1>10, <4>1, <4>2 DEF Loads
    <3> QED BY <3>1, <3>2
  <2>3. \A k \in DOMAIN file.completed :
          LET stage == file.completed[k]
          IN  stage \in DOMAIN file.receipts /\ Demanded(file', stage, file.receipts[stage])
    BY <1>1, <1>6, <1>8, <1>10 DEF Loads, Demanded
  <2> QED BY <1>6, <2>1, <2>2, <2>3 DEF QuickLoads
<1>11. QuickLoads(file')
  BY <1>6, <1>10 DEF QuickLoads
<1>12. Loads(file')
  BY <1>1, <1>6, <1>11, SamePosition
<1>13. ReadyInv'
  BY <1>1, <1>6, <1>8 DEF ReadyInv
<1> QED BY <1>5, <1>12, <1>13 DEF IInv, TypeOK

LEMMA RecordProgressPreserves ==
  ASSUME IInv, NEW item \in Items, NEW done \in BOOLEAN, RecordProgress(item, done)
  PROVE  IInv'
<1> DEFINE word == IF done THEN "completed" ELSE "pending"
<1>1. file \in State /\ file # NoFile /\ Loads(file) /\ ReadyInv
  BY DEF IInv, TypeOK, RecordProgress, Resumes
<1>2. file' = [file EXCEPT !.post[item] = word] /\ file.stage = "active"
      /\ ~(item = "connector_configuration" /\ done /\ Deferred(file)) /\ file.mode = "quick_start"
  BY DEF RecordProgress
<1>3. file' \in State
  BY <1>1, <1>2 DEF State
<1>4. /\ file'.mode = file.mode /\ file'.stage = file.stage /\ file'.completed = file.completed
      /\ file'.receipts = file.receipts /\ file'.approved = file.approved
      /\ file'.connectors = file.connectors /\ file'.post = [file.post EXCEPT ![item] = word]
  BY <1>1, <1>2 DEF State
<1>5. AllDecided(file') = AllDecided(file) /\ Deferred(file') = Deferred(file)
  BY <1>4 DEF AllDecided, Deferred
<1>6. ~(file'.post["connector_configuration"] = "completed" /\ Deferred(file'))
  <2>1. file.post \in [Items -> {"pending", "completed"}] /\ "connector_configuration" \in Items
    BY <1>1 DEF State, Items
  <2>2. ~(file.post["connector_configuration"] = "completed" /\ Deferred(file))
    BY <1>1, <1>2 DEF Loads
  <2> QED BY <1>2, <1>4, <1>5, <2>1, <2>2
<1>7. \A k \in DOMAIN file.completed :
        LET stage == file.completed[k]
        IN  stage \in DOMAIN file.receipts /\ Demanded(file', stage, file.receipts[stage])
  BY <1>1, <1>2, <1>4, <1>5 DEF Loads, Demanded
<1>8. QuickLoads(file')
  BY <1>2, <1>4, <1>6, <1>7 DEF QuickLoads
<1>9. Loads(file')
  BY <1>1, <1>4, <1>8, SamePosition
<1>10. ReadyInv'
  BY <1>1, <1>4, <1>5 DEF ReadyInv
<1> QED BY <1>3, <1>9, <1>10 DEF IInv, TypeOK

LEMMA ApprovePreserves ==
  ASSUME IInv, Approve
  PROVE  IInv'
<1>1. file \in State /\ file # NoFile /\ Loads(file) /\ ReadyInv
  BY DEF IInv, TypeOK, Approve, Resumes
<1>2. file' = [file EXCEPT !.approved = TRUE]
  BY DEF Approve
<1>3. file' \in State
  BY <1>1, <1>2 DEF State
<1>4. /\ file'.mode = file.mode /\ file'.stage = file.stage /\ file'.completed = file.completed
      /\ file'.receipts = file.receipts /\ file'.approved
      /\ file'.connectors = file.connectors /\ file'.post = file.post
  BY <1>1, <1>2 DEF State
<1>5. AllDecided(file') = AllDecided(file) /\ Deferred(file') = Deferred(file)
  BY <1>4 DEF AllDecided, Deferred
<1>6. file.mode = "quick_start" =>
        \A k \in DOMAIN file.completed :
          LET stage == file.completed[k]
          IN  stage \in DOMAIN file.receipts /\ Demanded(file', stage, file.receipts[stage])
  BY <1>1, <1>4, <1>5 DEF Loads, Demanded
<1>7. QuickLoads(file')
  BY <1>1, <1>4, <1>5, <1>6 DEF QuickLoads, Loads
<1>8. Loads(file')
  BY <1>1, <1>4, <1>7, SamePosition
<1>9. ReadyInv'
  BY <1>1, <1>4, <1>5 DEF ReadyInv
<1> QED BY <1>3, <1>8, <1>9 DEF IInv, TypeOK

\* The stage that is left gets its receipt, which says what it must; the
\* receipts of the stages before it stay.
LEMMA AdvancePreserves ==
  ASSUME IInv, RepeatsStages = FALSE,
         NEW k \in 1..10, NEW receipt \in BOOLEAN, Advance(k, receipt)
  PROVE  IInv'
<1> DEFINE F == Flow(file.mode)
           left == file.stage
           receipts == [s \in DOMAIN file.receipts \cup {left} |->
                          IF s = left THEN receipt ELSE file.receipts[s]]
<1>1. file \in State /\ file # NoFile /\ Loads(file) /\ ReadyInv
  BY DEF IInv, TypeOK, Advance, Resumes
<1>2. PICK j \in 1..10 : At(j)
  BY <1>1, LoadsAt
<1>3. k = j + 1 /\ j \in 1..9
  <2>1. Position(file) = j
    BY <1>2, PositionIs
  <2> QED BY <1>2, <2>1 DEF Advance, InOrder
<1>4. /\ F \in Seq(Stages) /\ Len(F) = 10 /\ \A i \in 1..10 : F[i] \in Stages
      /\ \A i, l \in 1..10 : F[i] = F[l] => i = l
      /\ F[9] = "readiness" /\ F[10] = "active"
  BY FlowType
<1>5. left = F[j] /\ file.completed = SubSeq(F, 1, j - 1)
  BY <1>2 DEF At
<1>6. Completed = SubSeq(F, 1, j)
  BY <1>2, <1>3, CompletedGrows
<1>7. file' = [file EXCEPT !.stage = F[k], !.completed = SubSeq(F, 1, j), !.receipts = receipts]
  BY <1>6 DEF Advance
<1> HIDE DEF F, receipts
<1>8. F[k] \in Stages /\ SubSeq(F, 1, j) \in Seq(Stages) /\ left \in Stages
  <2>1. \A i \in 1..10 : F[i] \in Stages
    BY <1>4
  <2>2. F[k] \in Stages /\ left \in Stages
    BY <1>3, <1>5, <2>1
  <2>3. /\ Len(SubSeq(F, 1, j)) = j /\ \A i \in 1..j : SubSeq(F, 1, j)[i] = F[i]
        /\ SubSeq(F, 1, j) = [i \in 1..j |-> F[i]]
    BY <1>3, <1>4
  <2>4. SubSeq(F, 1, j) \in Seq(Stages)
    BY <1>3, <2>1, <2>3
  <2> QED BY <2>2, <2>4
<1>9. receipts \in UNION {[S -> BOOLEAN] : S \in SUBSET Stages}
  <2>1. PICK S \in SUBSET Stages : file.receipts \in [S -> BOOLEAN]
    BY <1>1 DEF State
  <2>2. receipts \in [S \cup {left} -> BOOLEAN]
    BY <2>1 DEF receipts
  <2>3. S \cup {left} \in SUBSET Stages
    BY <1>8, <2>1
  <2> QED BY <2>2, <2>3
<1>10. file' \in State
  BY <1>1, <1>7, <1>8, <1>9 DEF State
<1>11. /\ file'.mode = file.mode /\ file'.stage = F[k] /\ file'.completed = SubSeq(F, 1, j)
       /\ file'.receipts = receipts /\ file'.approved = file.approved
       /\ file'.connectors = file.connectors /\ file'.post = file.post
  BY <1>1, <1>7 DEF State
<1>12. AllDecided(file') = AllDecided(file) /\ Deferred(file') = Deferred(file)
  BY <1>11 DEF AllDecided, Deferred
<1>13. left # "active"
  BY <1>3, <1>4, <1>5
<1>14. \E l \in 1..10 : /\ Flow(file'.mode)[l] = file'.stage
                         /\ file'.completed = SubSeq(Flow(file'.mode), 1, l - 1)
  BY <1>3, <1>11, SMTT(30) DEF F
<1>15. ASSUME file.mode = "quick_start" PROVE QuickLoads(file')
  <2>1. \A i \in Items : file.post[i] = "pending"
    BY <1>1, <1>13, <1>15 DEF Loads
  <2>2. "connector_configuration" \in Items
    BY DEF Items
  <2>3. ASSUME NEW i \in 1..j
        PROVE  F[i] \in DOMAIN receipts /\ Demanded(file', F[i], receipts[F[i]])
    <3>1. CASE i = j
      <4>1. Demanded(file, left, receipt)
        BY <1>15 DEF Advance
      <4>2. receipts[left] = receipt /\ left \in DOMAIN receipts
        BY DEF receipts
      <4> QED BY <1>5, <1>11, <1>12, <3>1, <4>1, <4>2 DEF Demanded
    <3>2. CASE i # j
      <4>1. i \in 1..(j - 1) /\ i \in 1..10 /\ j \in 1..10
        BY <1>3, <3>2
      <4>2. i \in DOMAIN file.completed /\ file.completed[i] = F[i]
        BY <1>3, <1>4, <1>5, <4>1
      <4>3. F[i] \in DOMAIN file.receipts /\ Demanded(file, F[i], file.receipts[F[i]])
        BY <1>1, <1>15, <4>2 DEF Loads
      <4>4. F[i] # left
        BY <1>4, <1>5, <3>2, <4>1
      <4>5. F[i] \in DOMAIN receipts /\ receipts[F[i]] = file.receipts[F[i]]
        BY <4>3, <4>4 DEF receipts
      <4> QED BY <1>11, <1>12, <4>3, <4>5 DEF Demanded
    <3> QED BY <3>1, <3>2
  <2>4. DOMAIN SubSeq(F, 1, j) = 1..j /\ \A i \in 1..j : SubSeq(F, 1, j)[i] = F[i]
    BY <1>3, <1>4
  <2> QED BY <1>11, <2>1, <2>2, <2>3, <2>4 DEF QuickLoads
<1>16. Loads(file')
  BY <1>11, <1>14, <1>15 DEF Loads, QuickLoads
<1>17. ReadyInv'
  <2> SUFFICES ASSUME file'.stage = "active"
               PROVE  /\ AllDecided(file') /\ file'.approved
                      /\ "readiness" \in DOMAIN file'.receipts /\ file'.receipts["readiness"]
    BY DEF ReadyInv
  <2>1. k = 10 /\ left = "readiness"
    BY <1>3, <1>4, <1>5, <1>11
  <2>2. ActivationAllowed(receipt)
    BY <1>4, <2>1 DEF Advance, F
  <2>3. receipts["readiness"] = receipt /\ "readiness" \in DOMAIN receipts
    BY <2>1 DEF receipts
  <2> QED BY <1>11, <1>12, <2>2, <2>3 DEF ActivationAllowed
<1> QED BY <1>10, <1>16, <1>17 DEF IInv, TypeOK

-----------------------------------------------------------------------------
LEMMA StepPreserves ==
  ASSUME RepeatsStages = FALSE, IInv, [Next]_file
  PROVE  IInv'
<1>1. CASE \E mode \in Modes : Begin(mode)
  BY <1>1, BeginPreserves
<1>2. CASE \E c \in Connectors, decision \in Decisions, capable \in BOOLEAN :
             DecideConnector(c, decision, capable)
  BY <1>2, DecideConnectorPreserves
<1>3. CASE \E item \in Items, done \in BOOLEAN : RecordProgress(item, done)
  BY <1>3, RecordProgressPreserves
<1>4. CASE Approve
  BY <1>4, ApprovePreserves
<1>5. CASE \E k \in 1..10, receipt \in BOOLEAN : Advance(k, receipt)
  BY <1>5, AdvancePreserves
<1>6. CASE UNCHANGED file
  BY <1>6 DEF IInv, TypeOK, Loads, ReadyInv, Flow, Demanded, Deferred, AllDecided
<1> QED BY <1>1, <1>2, <1>3, <1>4, <1>5, <1>6 DEF Next

\* The saved file is always one that loads, and the last stage is reached only
\* by a ready receipt.
THEOREM OnboardingInvariant ==
  ASSUME RepeatsStages = FALSE
  PROVE  Spec => []IInv
<1>1. Init => IInv
  BY DEF Init, IInv, TypeOK
<1>2. IInv /\ [Next]_file => IInv'
  BY StepPreserves
<1> QED BY <1>1, <1>2, PTL DEF Spec

\* The saved file has its type.
THEOREM OnboardingTypeCorrect ==
  ASSUME RepeatsStages = FALSE
  PROVE  Spec => []TypeOK
<1>1. IInv => TypeOK
  BY DEF IInv
<1> QED BY <1>1, OnboardingInvariant, PTL

\* An interrupted onboarding resumes: what load_onboarding_state demands of a
\* saved file holds of every file that is saved.
THEOREM OnboardingResumes ==
  ASSUME RepeatsStages = FALSE
  PROVE  Spec => []SavedStateLoads
<1>1. IInv => SavedStateLoads
  BY DEF IInv, SavedStateLoads
<1> QED BY <1>1, OnboardingInvariant, PTL

\* No path leads to activation without every connector decided, approved
\* profile and criteria, and a passing readiness receipt.
THEOREM ActivationIsEarned ==
  ASSUME RepeatsStages = FALSE
  PROVE  Spec => []ActiveMeansReady
<1>1. IInv => ActiveMeansReady
  BY DEF IInv, ActiveMeansReady, ReadyInv
<1> QED BY <1>1, OnboardingInvariant, PTL

-----------------------------------------------------------------------------
\* Every stage that was left has a receipt, on either path.
LeftHasReceipt ==
  file # NoFile => \A k \in DOMAIN file.completed : file.completed[k] \in DOMAIN file.receipts

\* Advancing completes the stage that is left and moves to the next one.
LEMMA AdvanceMeans ==
  ASSUME IInv, RepeatsStages = FALSE,
         NEW k \in 1..10, NEW receipt \in BOOLEAN, Advance(k, receipt)
  PROVE  \E j \in 1..9 :
           /\ At(j) /\ k = j + 1
           /\ file'.mode = file.mode /\ file'.stage = Flow(file.mode)[k]
           /\ file'.completed = SubSeq(Flow(file.mode), 1, j)
           /\ file'.receipts = [s \in DOMAIN file.receipts \cup {file.stage} |->
                                 IF s = file.stage THEN receipt ELSE file.receipts[s]]
<1>1. file \in State /\ Loads(file)
  BY DEF IInv, TypeOK, Advance, Resumes
<1>2. PICK j \in 1..10 : At(j)
  BY <1>1, LoadsAt
<1>3. k = j + 1 /\ j \in 1..9
  <2>1. Position(file) = j
    BY <1>2, PositionIs
  <2> QED BY <1>2, <2>1 DEF Advance, InOrder
<1>4. Completed = SubSeq(Flow(file.mode), 1, j)
  BY <1>2, <1>3, CompletedGrows
<1> QED BY <1>1, <1>2, <1>3, <1>4 DEF Advance, State

\* The other operations leave the path, the stage and the receipts.
LEMMA OthersStay ==
  ASSUME IInv, file # NoFile,
         \/ \E c \in Connectors, decision \in Decisions, capable \in BOOLEAN :
              DecideConnector(c, decision, capable)
         \/ \E item \in Items, done \in BOOLEAN : RecordProgress(item, done)
         \/ Approve
  PROVE  /\ file'.mode = file.mode /\ file'.stage = file.stage
         /\ file'.completed = file.completed /\ file'.receipts = file.receipts
<1>1. file \in State
  BY DEF IInv, TypeOK
<1>2. ASSUME NEW c \in Connectors, NEW decision \in Decisions, NEW capable \in BOOLEAN,
             DecideConnector(c, decision, capable)
      PROVE  /\ file'.mode = file.mode /\ file'.stage = file.stage
             /\ file'.completed = file.completed /\ file'.receipts = file.receipts
  BY <1>1, <1>2 DEF DecideConnector, State
<1>3. ASSUME NEW item \in Items, NEW done \in BOOLEAN, RecordProgress(item, done)
      PROVE  /\ file'.mode = file.mode /\ file'.stage = file.stage
             /\ file'.completed = file.completed /\ file'.receipts = file.receipts
  BY <1>1, <1>3 DEF RecordProgress, State
<1>4. ASSUME Approve
      PROVE  /\ file'.mode = file.mode /\ file'.stage = file.stage
             /\ file'.completed = file.completed /\ file'.receipts = file.receipts
  BY <1>1, <1>4 DEF Approve, State
<1> QED BY <1>2, <1>3, <1>4

LEMMA ReceiptOfLeft ==
  ASSUME RepeatsStages = FALSE, IInv, LeftHasReceipt,
         NEW k \in 1..10, NEW receipt \in BOOLEAN, Advance(k, receipt)
  PROVE  /\ LeftHasReceipt'
         /\ file'.mode = file.mode /\ Position(file') = Position(file) + 1
         /\ \A i \in DOMAIN file.completed :
              file'.receipts[file.completed[i]] = file.receipts[file.completed[i]]
<1> DEFINE F == Flow(file.mode)
<1>1. PICK j \in 1..9 :
           /\ At(j) /\ k = j + 1
           /\ file'.mode = file.mode /\ file'.stage = F[k]
           /\ file'.completed = SubSeq(F, 1, j)
           /\ file'.receipts = [s \in DOMAIN file.receipts \cup {file.stage} |->
                                 IF s = file.stage THEN receipt ELSE file.receipts[s]]
  BY AdvanceMeans
<1>2. /\ F \in Seq(Stages) /\ Len(F) = 10
      /\ \A i, l \in 1..10 : F[i] = F[l] => i = l
  BY FlowType
<1>3. file.stage = F[j] /\ file.completed = SubSeq(F, 1, j - 1) /\ file # NoFile
  BY <1>1 DEF At, Advance, Resumes
<1>4. At(k)'
  BY <1>1 DEF At
<1>5. Position(file) = j /\ Position(file') = k
  <2>1. Position(file) = j
    BY <1>1, PositionIs
  <2>2. file'.stage = F[k] /\ file'.mode = file.mode /\ k \in 1..10
    BY <1>1
  <2>3. \A i \in 1..10 : F[i] = file'.stage => i = k
    BY <1>2, <2>2
  <2>4. Position(file') = CHOOSE i \in 1..10 : F[i] = file'.stage
    BY <2>2 DEF Position
  <2> HIDE DEF F
  <2> QED BY <2>1, <2>2, <2>3, <2>4
<1> HIDE DEF F
<1>6. /\ DOMAIN file.completed = 1..(j - 1)
      /\ \A i \in 1..(j - 1) : file.completed[i] = F[i]
      /\ DOMAIN file'.completed = 1..j
      /\ \A i \in 1..j : file'.completed[i] = F[i]
  BY <1>1, <1>2, <1>3
<1>7. \A i \in 1..(j - 1) : F[i] \in DOMAIN file.receipts /\ F[i] # F[j]
  <2>1. \A i \in 1..(j - 1) : i \in 1..10 /\ j \in 1..10 /\ i # j
    BY <1>1
  <2>2. \A i \in 1..(j - 1) : F[i] # F[j]
    BY <1>2, <2>1
  <2>3. \A i \in DOMAIN file.completed : file.completed[i] \in DOMAIN file.receipts
    BY <1>3 DEF LeftHasReceipt
  <2> QED BY <1>6, <2>2, <2>3
<1>8. \A i \in 1..j : F[i] \in DOMAIN file'.receipts
  BY <1>1, <1>3, <1>7
<1>9. \A i \in 1..(j - 1) : file'.receipts[F[i]] = file.receipts[F[i]]
  BY <1>1, <1>3, <1>7
<1>10. LeftHasReceipt'
  BY <1>6, <1>8 DEF LeftHasReceipt
<1>11. Position(file') = Position(file) + 1
  BY <1>1, <1>5
<1>12. \A i \in DOMAIN file.completed :
         file'.receipts[file.completed[i]] = file.receipts[file.completed[i]]
  BY <1>6, <1>9
<1> QED BY <1>1, <1>10, <1>11, <1>12

LEMMA LeftHasReceiptStep ==
  ASSUME RepeatsStages = FALSE, IInv, LeftHasReceipt, [Next]_file
  PROVE  LeftHasReceipt'
<1>1. CASE \E mode \in Modes : Begin(mode)
  BY <1>1 DEF Begin, Fresh, LeftHasReceipt
<1>2. CASE \/ \E c \in Connectors, decision \in Decisions, capable \in BOOLEAN :
               DecideConnector(c, decision, capable)
           \/ \E item \in Items, done \in BOOLEAN : RecordProgress(item, done)
           \/ Approve
  <2>1. file # NoFile
    BY <1>2 DEF DecideConnector, RecordProgress, Approve, Resumes
  <2> QED BY <1>2, <2>1, OthersStay DEF LeftHasReceipt
<1>3. CASE \E k \in 1..10, receipt \in BOOLEAN : Advance(k, receipt)
  BY <1>3, ReceiptOfLeft
<1>4. CASE UNCHANGED file
  BY <1>4 DEF LeftHasReceipt
<1> QED BY <1>1, <1>2, <1>3, <1>4 DEF Next

\* Onboarding goes forward only, and what was received for a stage stays
\* received (advance_onboarding).
THEOREM OnboardingGoesForward ==
  ASSUME RepeatsStages = FALSE
  PROVE  Spec => ProgressIsKept
<1>1. Init => LeftHasReceipt
  BY DEF Init, LeftHasReceipt
<1>2. IInv /\ LeftHasReceipt /\ [Next]_file => LeftHasReceipt'
  BY LeftHasReceiptStep
<1>3. IInv /\ LeftHasReceipt /\ [Next]_file =>
        [file # NoFile =>
           /\ file'.mode = file.mode
           /\ Position(file') >= Position(file)
           /\ \A k \in DOMAIN file.completed :
                LET stage == file.completed[k]
                IN  file'.receipts[stage] = file.receipts[stage]]_file
  <2> SUFFICES ASSUME IInv, LeftHasReceipt, Next, file # NoFile
               PROVE  /\ file'.mode = file.mode
                      /\ Position(file') >= Position(file)
                      /\ \A k \in DOMAIN file.completed :
                           file'.receipts[file.completed[k]] = file.receipts[file.completed[k]]
    OBVIOUS
  <2>0. PICK j \in 1..10 : At(j)
    BY LoadsAt DEF IInv
  <2>1. Position(file) \in Nat
    BY <2>0, PositionIs
  <2>2. CASE \/ \E c \in Connectors, decision \in Decisions, capable \in BOOLEAN :
                 DecideConnector(c, decision, capable)
             \/ \E item \in Items, done \in BOOLEAN : RecordProgress(item, done)
             \/ Approve
    <3>1. /\ file'.mode = file.mode /\ file'.stage = file.stage /\ file'.receipts = file.receipts
      BY <2>2, OthersStay
    <3>2. Position(file') = Position(file)
      BY <3>1 DEF Position
    <3> QED BY <2>1, <3>1, <3>2
  <2>3. CASE \E k \in 1..10, receipt \in BOOLEAN : Advance(k, receipt)
    <3>1. /\ file'.mode = file.mode /\ Position(file') = Position(file) + 1
          /\ \A i \in DOMAIN file.completed :
               file'.receipts[file.completed[i]] = file.receipts[file.completed[i]]
      BY <2>3, ReceiptOfLeft
    <3> QED BY <2>1, <3>1
  <2>4. ~\E mode \in Modes : Begin(mode)
    BY DEF Begin
  <2> QED BY <2>2, <2>3, <2>4 DEF Next
<1>4. Spec => []IInv
  BY OnboardingInvariant
<1> QED BY <1>1, <1>2, <1>3, <1>4, PTL DEF Spec, ProgressIsKept
=============================================================================
