--------------------------- MODULE PacketDelivery ---------------------------
(***************************************************************************)
(* Application packets of one job (src/career_pipeline/packets.py with     *)
(* scripts/start_packet.py and scripts/update_packet.py).                  *)
(*                                                                         *)
(* Several commands work on the application manifest at once.  Each loads  *)
(* it without the lock, works on that snapshot, and later merges the       *)
(* snapshot into the file under the lock; between those points other       *)
(* commands reserve versions and record stages, people edit PDFs, approved *)
(* inputs and the status of the job, and the command may die.  What one    *)
(* critical section does is one step, and so is each job-store mutation,   *)
(* as AtomicJobStore promises.                                             *)
(***************************************************************************)
EXTENDS Naturals, Sequences, SequencesExt

CONSTANTS Procs,        \* commands that run at the same time
          Inputs,       \* approved inputs, options and instructions of a packet
          Evidence,     \* hashes of posting snapshots and of drafts
          Hashes,       \* hashes of rendered PDFs
          NoInputs,     \* the command has not loaded options
          NoFile,       \* the version has no final PDF yet
          MaxVersion,   \* bound on version numbers
          RequestedStatuses, \* statuses that people set while packets are made
          PdfsChange    \* may a final PDF change after it was rendered?

VARIABLES manifest,     \* State/application-manifest.json: version -> record
          dirs,         \* version folders under Applications/
          files,        \* version -> hash of its final PDF
          approved,     \* the inputs that are approved now
          status,       \* status of the job
          delivered,    \* application_versions of the job
          proc          \* what each command does and remembers

vars == <<manifest, dirs, files, approved, status, delivered, proc>>

Versions == 1..MaxVersion

PreApplication == {"new", "needs_confirmation", "prepare_application", "packet_ready"}

Statuses == PreApplication \cup
            {"applied", "interviewing", "offer", "not_pursuing", "closed"}

ASSUME PacketAssumption ==
  /\ MaxVersion \in Nat
  /\ NoFile \notin Hashes
  /\ NoInputs \notin Inputs
  /\ RequestedStatuses \subseteq Statuses
  /\ PdfsChange \in BOOLEAN

-----------------------------------------------------------------------------
(* Records.  The receipts of the stages after "selected" form a sequence,   *)
(* so the stage of a record is the length of it.                            *)

PostingVerified == 1
Drafted         == 2
QualityChecked  == 3
Saved           == 4
LocalVerified   == 5
Ready           == 6

\* A quality receipt is bound to the posting and draft it judged and to the PDF.
Approval == [posting : Evidence, draft : Evidence, hash : Hashes]

ReceiptOf(stage) ==
  CASE stage \in {PostingVerified, Drafted} -> Evidence
    [] stage = QualityChecked -> Approval
    [] OTHER -> Hashes

ReceiptHistory ==
  {r \in Seq(Evidence \cup Approval \cup Hashes) :
     Len(r) <= Ready /\ \A k \in DOMAIN r : r[k] \in ReceiptOf(k)}

PacketRecord == [inputs : Inputs, receipts : ReceiptHistory]

IsManifest(m) ==
  DOMAIN m \subseteq Versions /\ \A v \in DOMAIN m : m[v] \in PacketRecord

NoManifest == [v \in {} |-> 0]

Stage(record) == Len(record.receipts)

Newest(versions) == CHOOSE v \in versions : \A w \in versions : w <= v

\* _latest
Latest(m) == Newest(DOMAIN m)

\* The PDF hashes a record has on file, as verify_local_artifacts collects them.
RecordedHashes(record) ==
  {IF k = QualityChecked THEN record.receipts[k].hash ELSE record.receipts[k] :
     k \in QualityChecked..Stage(record)}

WithReceipt(m, v, receipt) ==
  [m EXCEPT ![v].receipts = Append(@, receipt)]

-----------------------------------------------------------------------------
(* _merge_manifests: two records of one version must agree on everything    *)
(* but progress, and the longer history must extend the shorter one.        *)

Extends(longer, shorter) ==
  /\ longer.inputs = shorter.inputs
  /\ IsPrefix(shorter.receipts, longer.receipts)

Mergeable(stored, incoming) ==
  \A v \in DOMAIN stored \cap DOMAIN incoming :
    Extends(stored[v], incoming[v]) \/ Extends(incoming[v], stored[v])

\* Slip: what the command holds replaces what others recorded meanwhile.
IncomingWins(stored, incoming) ==
  [v \in DOMAIN stored \cup DOMAIN incoming |->
     IF v \in DOMAIN incoming THEN incoming[v] ELSE stored[v]]

Merged(stored, incoming) ==
  [v \in DOMAIN stored \cup DOMAIN incoming |->
     IF v \notin DOMAIN incoming THEN stored[v]
     ELSE IF v \notin DOMAIN stored THEN incoming[v]
     ELSE IF Extends(stored[v], incoming[v]) THEN stored[v] ELSE incoming[v]]

-----------------------------------------------------------------------------
(* Commands.                                                                *)

Places == {"idle", "start", "status", "reserve", "loaded", "persist",
           "verify", "verified", "record", "complete", "ready"}

IsCommand(c) ==
  /\ DOMAIN c = {"at", "held", "opts", "restart", "version", "hash"}
  /\ c.at \in Places
  /\ IsManifest(c.held)
  /\ c.opts \in Inputs \cup {NoInputs}
  /\ c.restart \in BOOLEAN
  /\ c.version \in Versions \cup {0}
  /\ c.hash \in Hashes \cup {NoFile}

Idle == [at |-> "idle", held |-> NoManifest, opts |-> NoInputs,
         restart |-> FALSE, version |-> 0, hash |-> NoFile]

Goes(p, command) == proc' = [proc EXCEPT ![p] = command]

At(p, place) == proc[p].at = place

\* The manifest under the lock, with the snapshot of p merged in.
Current(p) == Merged(manifest, proc[p].held)

Agrees(p) == Mergeable(manifest, proc[p].held)

Init ==
  /\ manifest = NoManifest
  /\ dirs = {}
  /\ files = [v \in Versions |-> NoFile]
  /\ approved \in Inputs
  /\ status = "new"
  /\ delivered = {}
  /\ proc = [p \in Procs |-> Idle]

-----------------------------------------------------------------------------
(* start_packet and restart_packet.                                         *)

\* scripts/start_packet.py: the manifest and the approved inputs are loaded.
BeginStart(p, restart) ==
  /\ At(p, "idle")
  /\ Goes(p, [Idle EXCEPT !.at = "start", !.held = manifest,
                          !.opts = approved, !.restart = restart])
  /\ UNCHANGED <<manifest, dirs, files, approved, status, delivered>>

\* A version that is under way is taken up again, unless restarting.
TakesUp(p) == DOMAIN Current(p) # {} /\ ~proc[p].restart

\* _record_matches_options
InputsMatch(p) == Current(p)[Latest(Current(p))].inputs = proc[p].opts

\* Either critical section of start_packet finds a version under way.  The
\* command may die between the manifest write and the folders.
Resume(p, foldersMade) ==
  /\ proc[p].at \in {"start", "reserve"}
  /\ Agrees(p) /\ TakesUp(p) /\ InputsMatch(p)
  /\ manifest' = Current(p)
  /\ dirs' = IF foldersMade THEN dirs \cup {Latest(Current(p))} ELSE dirs
  /\ Goes(p, Idle)
  /\ UNCHANGED <<files, approved, status, delivered>>

\* The first critical section finds none: the merge is kept in memory only.
NothingUnderWay(p) ==
  /\ At(p, "start")
  /\ Agrees(p) /\ ~TakesUp(p)
  /\ Goes(p, [proc[p] EXCEPT !.at = "status", !.held = Current(p)])
  /\ UNCHANGED <<manifest, dirs, files, approved, status, delivered>>

\* Slip: any start takes the job back to preparation.
PrepareAnyway(p) ==
  /\ At(p, "status")
  /\ status' = IF status \in PreApplication THEN "prepare_application" ELSE status
  /\ Goes(p, [proc[p] EXCEPT !.at = "reserve"])
  /\ UNCHANGED <<manifest, dirs, files, approved, delivered>>

\* update_job_status under its own lock: pre-application statuses only, and
\* not while a version is reserved, unless restarting.
PrepareStatus(p) ==
  /\ At(p, "status")
  /\ status' = IF /\ status \in PreApplication
                  /\ proc[p].restart \/ DOMAIN manifest = {}
               THEN "prepare_application" ELSE status
  /\ Goes(p, [proc[p] EXCEPT !.at = "reserve"])
  /\ UNCHANGED <<manifest, dirs, files, approved, delivered>>

NextNumber(p) == Newest(dirs \cup DOMAIN Current(p) \cup {0}) + 1

\* Slip: the second critical section does not look again.
ReserveWithoutLooking(p, foldersMade) ==
  /\ At(p, "reserve")
  /\ Agrees(p)
  /\ LET v == NextNumber(p)
     IN  /\ v \in Versions
         /\ manifest' = [w \in DOMAIN Current(p) \cup {v} |->
              IF w = v THEN [inputs |-> proc[p].opts, receipts |-> <<>>]
              ELSE Current(p)[w]]
         /\ dirs' = IF foldersMade THEN dirs \cup {v} ELSE dirs
  /\ Goes(p, Idle)
  /\ UNCHANGED <<files, approved, status, delivered>>

\* The second critical section: looks again, then takes the number after all
\* folders and all records.
Reserve(p, foldersMade) ==
  /\ At(p, "reserve")
  /\ Agrees(p) /\ ~TakesUp(p)
  /\ LET v == NextNumber(p)
     IN  /\ v \in Versions
         /\ manifest' = [w \in DOMAIN Current(p) \cup {v} |->
              IF w = v THEN [inputs |-> proc[p].opts, receipts |-> <<>>]
              ELSE Current(p)[w]]
         /\ dirs' = IF foldersMade THEN dirs \cup {v} ELSE dirs
  /\ Goes(p, Idle)
  /\ UNCHANGED <<files, approved, status, delivered>>

-----------------------------------------------------------------------------
(* scripts/update_packet.py --stage <stage>.                                *)

BeginUpdate(p) ==
  /\ At(p, "idle")
  /\ DOMAIN manifest # {}
  /\ Goes(p, [Idle EXCEPT !.at = "loaded", !.held = manifest])
  /\ UNCHANGED <<manifest, dirs, files, approved, status, delivered>>

\* The receipts that advance_packet takes for the stage after the present one
\* of version v: anything for the posting and the draft; for the quality check
\* exactly what the record says, with the PDF as it is measured now; for the
\* save the PDF that passed the quality check.
AcceptableReceipts(record, v) ==
  CASE Stage(record) + 1 \in {PostingVerified, Drafted} -> Evidence
    [] Stage(record) + 1 = QualityChecked ->
         {a \in Approval : /\ a.posting = record.receipts[PostingVerified]
                           /\ a.draft = record.receipts[Drafted]
                           /\ a.hash = files[v]}
    [] Stage(record) + 1 = Saved -> {record.receipts[QualityChecked].hash}
    [] OTHER -> {}

\* advance_packet on the snapshot.  Repeating a stage changes nothing.
Advance(p) ==
  /\ At(p, "loaded")
  /\ LET v == Latest(proc[p].held)
     IN  \E receipt \in AcceptableReceipts(proc[p].held[v], v) :
           Goes(p, [proc[p] EXCEPT !.at = "persist",
                                   !.held = WithReceipt(@, v, receipt)])
  /\ UNCHANGED <<manifest, dirs, files, approved, status, delivered>>

\* persist_manifest
Persist(p) ==
  /\ At(p, "persist")
  /\ Agrees(p)
  /\ manifest' = Current(p)
  /\ Goes(p, Idle)
  /\ UNCHANGED <<dirs, files, approved, status, delivered>>

-----------------------------------------------------------------------------
(* scripts/update_packet.py --stage complete-local: complete_local_delivery *)

DeliveredHashes(v) == {d.hash : d \in {e \in delivered : e.version = v}}

\* _delivery_record and the stage check
Deliverable(p) ==
  /\ Agrees(p)
  /\ Latest(Current(p)) = Latest(proc[p].held)
  /\ Stage(Current(p)[Latest(Current(p))]) >= Saved

BeginDelivery(p) ==
  /\ At(p, "loaded")
  /\ Deliverable(p)
  /\ Goes(p, [proc[p] EXCEPT !.at = "verify", !.held = Current(p),
                             !.version = Latest(Current(p))])
  /\ UNCHANGED <<manifest, dirs, files, approved, status, delivered>>

\* Slip: the PDF is measured but not compared with the receipts.
IntactByDelivery(record, v, jobReadable) ==
  /\ files[v] # NoFile
  /\ jobReadable => DeliveredHashes(v) \subseteq {files[v]}
  /\ Stage(record) = Ready => jobReadable /\ DeliveredHashes(v) # {}

\* verify_local_artifacts: the PDF is what every receipt and the delivered
\* version say.  read_job takes no lock: while a mutation of the job is
\* pending it raises, and no delivered version is seen.
Intact(record, v, jobReadable) ==
  /\ files[v] # NoFile
  /\ RecordedHashes(record) \subseteq {files[v]}
  /\ jobReadable => DeliveredHashes(v) \subseteq {files[v]}
  /\ Stage(record) = Ready => jobReadable /\ DeliveredHashes(v) # {}

\* The first verification.  A saved record gains its local_verified receipt.
Verify(p) ==
  /\ At(p, "verify")
  /\ LET v == proc[p].version
         record == proc[p].held[v]
     IN  /\ \E jobReadable \in BOOLEAN : Intact(record, v, jobReadable)
         /\ Goes(p,
              IF Stage(record) = Saved
              THEN [proc[p] EXCEPT !.at = "verified", !.hash = files[v],
                                   !.held = WithReceipt(@, v, files[v])]
              ELSE [proc[p] EXCEPT !.at = "record", !.hash = files[v]])
  /\ UNCHANGED <<manifest, dirs, files, approved, status, delivered>>

\* Slip: the ready receipt is written before the job has the version.
ReadyBeforeRecord(p) ==
  /\ At(p, "verified")
  /\ Agrees(p)
  /\ manifest' = Current(p)
  /\ Goes(p, IF Latest(Current(p)) = proc[p].version
             THEN [proc[p] EXCEPT !.at = "complete", !.held = Current(p)]
             ELSE Idle)
  /\ UNCHANGED <<dirs, files, approved, status, delivered>>

\* persist_manifest, then _require_delivery_version: a version that has been
\* superseded meanwhile keeps the receipt and is not delivered.
PersistVerified(p) ==
  /\ At(p, "verified")
  /\ Agrees(p)
  /\ manifest' = Current(p)
  /\ Goes(p, IF Latest(Current(p)) = proc[p].version
             THEN [proc[p] EXCEPT !.at = "record", !.held = Current(p)]
             ELSE Idle)
  /\ UNCHANGED <<dirs, files, approved, status, delivered>>

\* Slip: a receipt that is already there is taken as done.
RecordOnce(p) ==
  /\ At(p, "record")
  /\ LET v == proc[p].version
         known == DeliveredHashes(v) # {}
     IN  /\ DOMAIN manifest # {} /\ Latest(manifest) = v
         /\ DeliveredHashes(v) \subseteq {proc[p].hash}
         /\ delivered' = delivered \cup {[version |-> v, hash |-> proc[p].hash]}
         /\ status' = IF ~known /\ status \in PreApplication THEN "packet_ready" ELSE status
  /\ Goes(p, [proc[p] EXCEPT !.at = "complete"])
  /\ UNCHANGED <<manifest, dirs, files, approved>>

\* Slip: the version is recorded whatever was reserved since.
RecordSuperseded(p) ==
  /\ At(p, "record")
  /\ LET v == proc[p].version
     IN  /\ DeliveredHashes(v) \subseteq {proc[p].hash}
         /\ delivered' = delivered \cup {[version |-> v, hash |-> proc[p].hash]}
         /\ status' = IF status \in PreApplication THEN "packet_ready" ELSE status
  /\ Goes(p, [proc[p] EXCEPT !.at = "complete"])
  /\ UNCHANGED <<manifest, dirs, files, approved>>

\* record_application_version under its own lock: the version must be the
\* latest in the manifest and may not contradict the history; a job before
\* application becomes packet_ready, also when the receipt is known.
Recordable(p) ==
  /\ DOMAIN manifest # {} /\ Latest(manifest) = proc[p].version
  /\ DeliveredHashes(proc[p].version) \subseteq {proc[p].hash}

RecordVersion(p) ==
  /\ At(p, "record")
  /\ Recordable(p)
  /\ delivered' = delivered \cup {[version |-> proc[p].version, hash |-> proc[p].hash]}
  /\ status' = IF status \in PreApplication THEN "packet_ready" ELSE status
  /\ Goes(p, [proc[p] EXCEPT !.at = "complete"])
  /\ UNCHANGED <<manifest, dirs, files, approved>>

\* The ready receipt, after a second verification; a record that is ready by
\* now is only persisted again.
Complete(p) ==
  /\ At(p, "complete")
  /\ LET v == proc[p].version
         record == proc[p].held[v]
     IN  IF Stage(record) = Ready
         THEN Goes(p, [proc[p] EXCEPT !.at = "ready"])
         ELSE /\ \E jobReadable \in BOOLEAN : Intact(record, v, jobReadable)
              /\ Goes(p, [proc[p] EXCEPT !.at = "ready",
                                         !.held = WithReceipt(@, v, proc[p].hash)])
  /\ UNCHANGED <<manifest, dirs, files, approved, status, delivered>>

PersistReady(p) ==
  /\ At(p, "ready")
  /\ Agrees(p)
  /\ manifest' = Current(p)
  /\ Goes(p, Idle)
  /\ UNCHANGED <<dirs, files, approved, status, delivered>>

-----------------------------------------------------------------------------
(* Failures, and people.                                                    *)

Contradicted(p) ==
  ~Agrees(p) /\ ~proc[p].at \in {"idle", "status", "verify", "record", "complete"}

NotIntact(p) ==
  LET v == proc[p].version
      record == proc[p].held[v]
  IN  /\ At(p, "verify") \/ Stage(record) # Ready
      /\ ~Intact(record, v, TRUE)

\* The command raises InvalidPacketTransition and changes nothing.  The third
\* case is the bound of the instance: a restart that has no number left.
Refuse(p) ==
  /\ \/ Contradicted(p)
     \/ proc[p].at \in {"start", "reserve"} /\ TakesUp(p) /\ ~InputsMatch(p)
     \/ At(p, "reserve") /\ Agrees(p) /\ NextNumber(p) \notin Versions
     \/ At(p, "loaded") /\ ~Deliverable(p)
     \/ /\ proc[p].at \in {"verify", "complete"}
        /\ NotIntact(p)
     \/ At(p, "record") /\ ~Recordable(p)
  /\ Goes(p, Idle)
  /\ UNCHANGED <<manifest, dirs, files, approved, status, delivered>>

\* The process dies, the lock is busy, or the job record cannot be read.
Die(p) ==
  /\ ~At(p, "idle")
  /\ Goes(p, Idle)
  /\ UNCHANGED <<manifest, dirs, files, approved, status, delivered>>

\* A final PDF is rendered, or edited later.
Render(v, hash) ==
  /\ v \in dirs
  /\ files[v] = NoFile \/ PdfsChange
  /\ files' = [files EXCEPT ![v] = hash]
  /\ UNCHANGED <<manifest, dirs, approved, status, delivered, proc>>

\* The profile, the criteria or the packet options are approved anew.
Approve(inputs) ==
  /\ approved' = inputs
  /\ UNCHANGED <<manifest, dirs, files, status, delivered, proc>>

\* scripts/update_job_status.py, or lifecycle evidence
SetStatus(s) ==
  /\ status' = s
  /\ UNCHANGED <<manifest, dirs, files, approved, delivered, proc>>

Continue(p) ==
  \/ \E foldersMade \in BOOLEAN : Resume(p, foldersMade) \/ Reserve(p, foldersMade)
  \/ NothingUnderWay(p) \/ PrepareStatus(p)
  \/ Advance(p) \/ Persist(p)
  \/ BeginDelivery(p) \/ Verify(p) \/ PersistVerified(p) \/ RecordVersion(p)
  \/ Complete(p) \/ PersistReady(p)
  \/ Refuse(p)

People ==
  \/ \E v \in Versions, hash \in Hashes : Render(v, hash)
  \/ \E inputs \in Inputs : Approve(inputs)
  \/ \E s \in RequestedStatuses : SetStatus(s)

Next ==
  \/ \E p \in Procs :
       \/ \E restart \in BOOLEAN : BeginStart(p, restart)
       \/ BeginUpdate(p) \/ Continue(p) \/ Die(p)
  \/ People

Spec == Init /\ [][Next]_vars

\* A command that does not die carries on, and commands keep being run.
Fairness == \A p \in Procs : WF_vars(BeginUpdate(p) \/ Continue(p))

FairSpec == Spec /\ Fairness

-----------------------------------------------------------------------------
(* Properties.                                                              *)

\* Every variable has its type.
TypeOK ==
  /\ IsManifest(manifest)
  /\ dirs \subseteq Versions
  /\ files \in [Versions -> Hashes \cup {NoFile}]
  /\ approved \in Inputs
  /\ status \in Statuses
  /\ delivered \subseteq [version : Versions, hash : Hashes]
  /\ DOMAIN proc = Procs /\ \A p \in Procs : IsCommand(proc[p])

\* No command's stale snapshot takes back what another recorded: versions and
\* their inputs stay, and the receipts of a version are only added to.
PacketHistoryKept ==
  [][\A v \in DOMAIN manifest :
       v \in DOMAIN manifest' /\ Extends(manifest'[v], manifest[v])]_vars

\* What the job says was delivered is exactly what was approved: the manifest
\* has the version with a local verification, its quality approval is for the
\* posting and the draft on record, and every receipt names the delivered PDF.
DeliveredAsApproved ==
  \A d \in delivered :
    /\ d.version \in DOMAIN manifest
    /\ LET receipts == manifest[d.version].receipts
       IN  /\ Len(receipts) >= LocalVerified
           /\ receipts[QualityChecked].posting = receipts[PostingVerified]
           /\ receipts[QualityChecked].draft = receipts[Drafted]
    /\ RecordedHashes(manifest[d.version]) = {d.hash}

\* The manifest, the status and the history of the job agree on readiness: a
\* version is ready only after the job has it as delivered, and nothing but a
\* delivery makes the job packet_ready (unless people set that themselves).
ReadyMeansDelivered ==
  /\ \A v \in DOMAIN manifest :
       Stage(manifest[v]) = Ready => DeliveredHashes(v) = {manifest[v].receipts[Ready]}
  /\ status = "packet_ready" /\ "packet_ready" \notin RequestedStatuses
       => delivered # {}

\* Starts that race each other share one reservation: a further version is
\* reserved only by a restart.
OneReservationPerRequest ==
  [][DOMAIN manifest # {} /\ DOMAIN manifest' # DOMAIN manifest =>
       \E p \in Procs : proc[p].restart /\ proc'[p] # proc[p]]_vars

\* A start that was overtaken by a whole delivery does not take the delivered
\* job back to preparation; only a restart does.
StartKeepsDelivery ==
  [][status = "packet_ready" /\ delivered # {} /\ status' = "prepare_application" =>
       \E p \in Procs : proc[p].restart /\ proc'[p] # proc[p]]_vars

\* A version that was superseded before its delivery was recorded stays
\* undelivered, however far its delivery had come.
SupersededStaysUndelivered ==
  [][\A v \in DOMAIN manifest :
       v # Latest(manifest) /\ DeliveredHashes(v) = {} => DeliveredHashes(v)' = {}]_vars

\* An interrupted delivery heals: once people and starts leave the job alone
\* and commands no longer die, running complete-local again makes a saved
\* latest version whose PDF is intact ready, in the manifest and in the job.
Disturbed ==
  \/ People
  \/ \E p \in Procs : \/ Die(p) /\ ~Continue(p)
                     \/ \E restart \in BOOLEAN : BeginStart(p, restart)

Delivery ==
  DOMAIN manifest # {} =>
    LET v == Latest(manifest)
        record == manifest[v]
    IN  Stage(record) >= Saved /\ RecordedHashes(record) \cup DeliveredHashes(v) = {files[v]}
          => /\ Stage(record) = Ready
             /\ status \in PreApplication => status = "packet_ready"

DeliveryHeals == <>[][~Disturbed]_vars => <>[]Delivery

\* "clears prepare_application only after local delivery is verified" (docs/
\* superpowers/specs/2026-09-11-career-pipeline-design.md:280): a packet_ready
\* job has its newest packet version delivered.
ReadyMeansNewestDelivered ==
  status = "packet_ready" => DeliveredHashes(Latest(manifest)) # {}
=============================================================================
