# Verification of career-pipeline

TLA+ specifications of `src/career_pipeline`, TLC instances that check them, and TLAPS
proofs. The repository is the reference: every definition that models code is mapped in
`PROJECT.json` to the lines it stands for. Paths below are relative to the repository's root.

1. [The system](#the-system)
2. [Plan](#plan)
3. [Modules](#modules)
4. [Runs](#runs)
5. [Bounds](#bounds)
6. [Fairness](#fairness)
7. [Proofs](#proofs)
8. [Where code and documents disagree](#where-code-and-documents-disagree)
9. [What is left out](#what-is-left-out)

## The system

career-pipeline keeps a job search in a directory of files. There is no server and no
database: every command, skill and automation is a short-lived process that opens the
workspace, takes a file lock (`State/.workspace.lock`, non-blocking), replaces some files
atomically (`atomic.py`: write, fsync, rename) and exits. What makes this hard is what
happens between those processes: a process may die between two file writes or between two
critical sections, commands hold documents they loaded before they took the lock, captures
and mails arrive late, twice or with equal times, and people edit and approve files at any
moment without a lock.

| Component | State | Operations | What makes it correct |
|---|---|---|---|
| Canonical job store (`job_store.py`, `dedupe.py`) | ID counter; per job `job.json`, `posting.md`, `assessment.md`, `events.jsonl`, `working/pending-mutation.json` | lock, replay of journals, create, re-verify, status, versions, exports | a mutation is all or nothing to whoever takes the lock next; IDs are used once; one job per opportunity; evidence never regresses; the history explains the status |
| Application packets (`packets.py`, `scripts/start_packet.py`, `scripts/update_packet.py`) | `State/application-manifest.json`, version folders, PDFs, and the versions in `job.json` | start, restart, advance by stage, complete locally | stale snapshots take nothing back; what is delivered is what was approved; manifest and job agree on readiness; an interrupted delivery can be completed |
| Lifecycle reconciliation (`reconciliation.py`) | receipts under `Runs/lifecycle`, and the events in the job store | classify a mail or calendar entry, apply it, write its receipt, recover the receipt | evidence takes effect at most once, late evidence overrides nothing newer, a mutation without receipt gets one |
| Review queue (`review_queue.py`, `location_prefilter.py`) | `State/discovery-review-queue.json`; the fingerprint of profile, criteria and approval | ingest, replay, exclude, read, decide, mark delivered | the newest evidence is active; decisions are about what was read; people's decisions are not overridden; what is delivered was reviewed |
| Search criteria (`criteria.py`, `evaluation.py`) | readable and structured criteria and the approvals of both | edit, approve, resolve; evaluate the hard filters on a posting and the evidence of its review | nothing is excluded while there is doubt, and what is beyond doubt always is |
| Discovery delivery (`discovery.py`) | rejection receipts, run evidence; canonical IDs of candidates | validate a batch, create or re-verify, leave a receipt, record the run, mark | an interrupted batch is completed by the next one; a recorded run accounts for every item, also later; changed criteria stop the batch; what was delivered can be merged |
| Onboarding (`onboarding.py`) | `State/onboarding-state.json` | begin, decide on connectors, approve, advance, follow up, load | every saved file loads again; activation needs decisions, approvals and a ready receipt |
| Indexes, checkpoints (`indexes.py`, `checkpoints.py`) | two derived index files; a checkpoint per source | rebuild, load; merge results of runs | indexes describe the jobs when a run is recorded; a checkpoint does not move back and names only what is stored |
| Retrieval ledger (`retrieval.py`) | a ledger of scopes, pages and cursors; saved responses; intake receipts of the queue | register a scope, capture a page, reject, ingest, resolve a pointer, record a failure, replay, validate a result | pages are a sequence and each is ingested once; a death between the three writes is made good by a replay; what is called complete accounts for every record ever shown |
| Migration (`migrations.py`) | a plan in memory, backups by inventory, the files of `State/` | plan, check again, back up, migrate, rebuild indexes, roll back | the original is kept and restored; job folders survive; a failed try does not stand in the way of the next |

How they interact: discovery, lifecycle, packets, backlog and exports all mutate jobs
through the job store, some under a lock that they already hold (the lock is re-entrant
within a process). The packet commands write the manifest and the job in *separate*
critical sections. Lifecycle reconciliation writes the job and then its receipt under
*one* lock, which a death still cuts in two; the event in the job's history then stands for
the receipt. A delivery of reviewed jobs reads the queue, mutates jobs, writes run evidence
and marks the queue under one lock, while the approved profile and criteria can change
beneath it; it therefore compares them again before each effect.

All components, the ones without a model too, are listed in `PROJECT.json` with the reason.
The hazards there name the line at which each one bites and the properties that watch it.

## Plan

Ordered by what a wrong behaviour would cost. What exists is marked (done).

1. `Dedupe`, `JobRecord`, `JobStore` with the abstract `AtomicJobStore` (done, proved).
   Everything else mutates jobs through it, so the others may treat a job mutation as one
   step once this refinement is shown.
2. `PacketDelivery` (done, proved but for its liveness): the one component whose effects span
   several critical sections.
3. `LifecycleRules`, `Lifecycle` with the abstract `Settlement` (done, proved).
4. `Onboarding` (done, proved).
5. `ReviewQueue` (done, proved but for its liveness).
6. `Retrieval` (done, proved but for its liveness): scopes, pages, the three writes of an
   ingestion and their replay, and the checkpoint.
7. `Filters` and `Discovery` (done, proved): hard filters, batches, receipts, indexes, runs.
8. `Migration` (done, proved but for its liveness).
9. Left: batches of several rows in `ReviewQueue` (exclusions prepared while the criteria
   change), and version names of four digits.

What composes what: `JobStore` implements `AtomicJobStore`; `PacketDelivery`, `Lifecycle`,
`ReviewQueue` and `Discovery` take a mutation of a job to be one step, which that refinement
licenses. `Lifecycle` implements `Settlement`. `Discovery` delivers what `Filters` lets pass;
`Retrieval` carries the part of the review queue that its intake receipts need and the
checkpoint that its results may advance.

## Modules

### `Dedupe`, `JobRecord`, `JobStore`, `AtomicJobStore`

`Dedupe` is `resolve_identity`: how requisition and fallback fingerprint decide whether a
candidate is a known job, an ambiguous one or a new one. `JobRecord` is the record in
`job.json` and what a re-verification makes of it (`Reverified` stands for the middle of
`reverify_job`: which evidence replaces which, when an assessment is newer, conflicting or
ignored). Evidence and assessments are model values, instants are natural numbers.

`JobStore` has one variable per kind of file and, for each process, where it is. `Acquire` is
`workspace_lock`, which either goes on with the first pending journal or opens the store;
`Replay…` are the writes of `_recover_pending_mutation_locked` in the code's order, one file
each; a fresh mutation commits by writing its journal and then runs the same replay, as in
`_commit_job_mutation_locked`. `AllocateId` and `PublishJob` are the counter write and the
rename of the finished folder in `create_job`, between which a death loses an ID. `Crash`
drops the lock at any point. The decision of an operation and its journal write are one step
because nobody else can write in between; every other file write is a step of its own.
`Open`/`batch` distinguish operations under their own lock from those under a caller's.

`AtomicJobStore` is the promise: allocation, publication and mutation in one step each. The
refinement mapping takes a journalled mutation as done, because whoever takes the lock next
completes it before it reads anything.

### `PacketDelivery`

One job, several commands. A command loads the manifest without a lock (`BeginStart`,
`BeginUpdate`), and `Persist`, `PersistVerified`, `PersistReady` merge its snapshot into the
file with the checks of `_merge_manifests`. `Reserve`, `PrepareStatus`, `Resume` and
`NothingUnderWay` are the parts of `start_packet`; `Advance` is `advance_packet`, its receipts
a sequence whose length is the stage; `BeginDelivery`, `Verify`, `RecordVersion` and
`Complete` are the parts of `complete_local_delivery`. `Render`, `Approve` and `SetStatus` are
people. `Die` ends a command anywhere. Receipts keep only the hashes they are bound to.

### `LifecycleRules`, `Lifecycle`, `Settlement`

`Classify` is `classify_lifecycle_evidence` on one piece of evidence; `Outdated` reads the time
of the last status decision from the history, as `_latest_status_observation` does.
`Apply` commits the mutation and leaves the evidence with the `holder`; `WriteReceipt` follows
or the process dies; `Recover` writes the receipt of a committed mutation from its event.
Evidence with one identity may be reported in several readings. `Settlement` is the abstract
promise: settled once, with a legal transition.

### `Onboarding`

One variable, the saved file. `Begin`, `DecideConnector`, `Approve`, `RecordProgress` and
`Advance` are the functions a session calls before it saves; each loads, changes and saves in
one step, because a session that dies before it saves leaves the file as it was. `Loads` and
`Resumes` are the checks of `load_onboarding_state`; an action needs a file that loads. The
receipt of a stage is TRUE when it says what the stage demands.

### `ReviewQueue`

Rows of the queue, the fingerprint (`context`), what each reviewer holds from `next_items`, and
the delivery under way. `Ingest` is `ingest` for one capture, with its three outcomes: `Beside`
(late, or a replay or conflict at an equal time), `Active` (newest), `NewRow`, and the
prefilter that follows. `IngestDuringApproval` is the branch in which the approved files change
meanwhile: captures are saved, exclusions are not. `RecordDecision` compares revision and
context under the lock. `BeginDelivery`, `LoadApproved`, `DeliverJob`, `LeaveUndelivered`,
`RecordRun`, `MarkDelivered` and `Refuse` are `deliver_reviewed_jobs` for one qualifying item;
`Approve` may happen between any two of them. `captured` and the fields `about` and `job` (as
content) record history for the properties and influence nothing.

### `Retrieval`

`pages[s]` is the list of responses captured for scope `s`, in ledger order, each with its
cursor, its time and whether it is captured, ingested or invalid (rejected). A response is
abstract: whether `parse_page` accepts it, the rows it identifies, whether it closes the
enumeration. `CaptureResponse` saves a response before it is parsed, `CaptureAgain` finds it
saved; then `RejectPage`, or `IngestPage` (records to the queue, with an intake receipt) and
`MarkPage` (the ledger). `ResolvePointer`, `IngestResolution`, `MarkResolution` are the same
three writes for a record that was listed without a description. `StartReplay` and the
`Replay…` actions are `replay_retrieval`; a replay keeps the time of the capture.
`Sequenced`, `Receipted` and `Audited` are `_audit`, `CompleteScope` is derived from the
evidence each time as in the code. `ReadResult` is a result that a run reads,
`MergeDiscoveryState` is `validate_source_result` and `merge_discovery_state`. `work` is what
the one process that has the lock holds in memory, and all that `Die` loses.

### `Filters`

Pure operators. `Own` is what the posting states itself, `Given` the evidence that counts,
`Supplied` and `Select` what comes of several statements, `EvaluateText` and `EvaluateRange`
a rule on a value, `Outcome` the three-valued result. `Exclusions` is the reference: the
rules that nothing which the statements leave possible would satisfy. Evidence agrees by the spelling of
its amounts (`_comparable_value` compares strings), and is judged by their values: "100" and
"100.00" of one posting dispute each other, and a disputed value rejects nothing.

### `Discovery`

`Begin` takes the lock, the structured criteria in force and the state of discovery; `Validate`
reads the readable criteria and is `_validate_review_batch`. Before each item and after the last
one `WriteBacklog` and `WriteDeduplication` write the two index files, one after the other. An
item then takes one of these ways (`DueOf`): one job is the posting's, and `Reverify` updates it;
several are, and `LeaveAmbiguous` goes on; none is, and `Create` makes one. An item that a hard
filter or its assessment rejects is never created and ends with `PersistReceipt`. `RecordRun`
writes the run, `Merge` is the canonical part of `merge_discovery_state`, and `Stop` is a check or
merge that raises, and a death. `LoadIndexes` is anybody who reads the indexes.

*The criteria.* `EditReadable`, `EditStructured`, `ApproveReadable` and `ApproveStructured` are
people, of whom only the last takes the lock. Before each write of a job, a receipt or the run,
`_revalidate_approved_inputs` compares the readable criteria and then the structured ones with
what the batch took. Each comparison is a step of its own (`CheckReadable`, `CheckStructured`),
and the write a third, so criteria may change between any two of them and the code still
writes. "Nothing is written under changed criteria" is therefore false. What the code gives is
`ChangedCriteriaStopTheBatch`: for as long as the change stands, at most one write follows.
`late` is a history variable that counts these writes for each input and influences nothing. The
profile hash is compared where the readable criteria are and is not told apart from them.

*Identity.* What a posting denotes is `ResolveIdentity` of `Dedupe` on the stored jobs, as in the
job store: an exact requisition comes first, and the fallback fingerprint matches only jobs that
have no requisition of their own, or candidates that have none. `Reverify` changes it:
it fills in a missing requisition, and when it replaces the evidence it replaces title and place
(the fingerprint) and a requisition too, but never drops one. Whether it replaces evidence or
assessment depends on times and sources and is left open; `JobRecord` decides it. A job mutation
is one step, as the refinement shown by `JobStore` allows. So an item that a job was found or
made for may denote another job, several or none later. `RunsAccountForEveryItem` does not
say that it still denotes one: the run keeps the job it found, that job is there, and it carries
the requisition of the posting, if the posting has one, in all states to come.

### `Migration`

The files of `State/` that matter by their content: the configuration (its schema version), the
job counter, and one file that others save without the lock. `Plan` takes no lock; `Backup` is
`_revalidate_plan` and `_backup_state` under it; `CreateMissing` the directories and the counter
in one step (nobody else reads them under the lock); `WriteConfig` releases the lock, `Rebuild`
takes it for itself; `Fail` is an exception after the backup, at one of the steps `FailingSteps`, `Restore`, `CopyBack` (one file at
a time, not atomic: `Stop` may leave it `Torn`) and `RemoveNewPaths` the rollback. `AllocateJob`
and `SaveSession` are the other writers.

## Runs

Every passing property has a mutant in `PROJECT.json`: an operator beside the original (marked
`Slip:` in the modules) that changes it as a plausible bug would, and that TLC must refute.

| Run | Shows | Distinct states |
|---|---|---|
| `store_identity` | Two processes create and re-verify jobs from four overlapping captures and may die between any two writes: nobody operates on half a mutation, requisitions stay unique, evidence never regresses, `AtomicJobStore` is implemented | 200,000 |
| `store_history` | Every kind of mutation of one job: the history explains the status when callers do not reuse times within a history; a journalled mutation is completed | 140,000 |
| `packet_races` | Two commands start, restart, advance and deliver two versions from stale snapshots | 119,000 |
| `packet_heals` | PDFs are edited while two commands work on one version: what is delivered is what was approved, and repeating an interrupted delivery completes it | 158,000 |
| `lifecycle` | Five readings of three pieces of evidence, two jobs, people, deaths: at most once, newest wins, receipts agree with histories | 29,000 |
| `onboarding` | Both paths with all ten stages and two connectors: saved files load, progress is kept | 30,000 |
| `review_queue` | One posting captured in any order under two URLs and in two bodies, excluded, decided on, delivered, with approvals and deaths in between | 583,000 |
| `retrieval` | A board of two pages, malformed responses, pointers, a second search that finds a record changed, failures, a death at any write, results merged in any order | 234,000 |
| `discovery` | Batches of two reviews with open, disputed and foreign evidence, of postings with and without requisition, cut short and delivered again while criteria are edited and approved anew, also between a check and its write | 859,000 |
| `discovery_conflict` | violation: a batch is delivered a second time, and the result cannot be merged | |
| `migration` | Two migrations of one workspace, a process that creates jobs, saves without the lock, two errors or deaths at any step | 1,076,000 |
| `migration_reuse` | violation: a job number is allocated twice | |

No run takes more than three minutes on two workers. Deadlock is checked in all runs but
`lifecycle`, `retrieval` and the two of `migration`, where evidence that is settled, histories
at their bound, or a workspace that was migrated really leave nothing to do.

Type invariants are parts of what is proved (below) and were checked by the runs before that;
`Retrieval` also checks its own within `LedgerIsSound`.

Configurations beside these show the other disagreements listed at the end; they are run by
hand, for instance `tlc -config PacketSuperseded.cfg MCPacketDelivery`. `PacketEdits.cfg` is a larger
instance of `DeliveredAsApproved`, in which inputs are approved anew too (757,000 states).

## Bounds

- `MaxId` is the last job ID, 999999 in the code and a parameter of the model, not an
  abstraction of it: with 3 the last ID is used and the one after it is refused, also after
  deaths lost IDs.
- `MaxEvents` stops mutations of a job whose history is that long. Three are enough for a
  creation, a change and a change back, the shortest history in which an event line repeats
  (four in `JobStoreRepeatedStamps.cfg`, which needs one more). `lifecycle` has 2 decisions of
  people next to the evidence; with 3 and three statuses it was also run by hand
  (616,000 states, 5 minutes).
- `Candidates`: the four of `store_identity` have a posting without requisition, the same with
  it from a stronger source, another requisition under that fingerprint, and the first
  requisition under another title, which are the ways in which `resolve_identity` can match by
  one key and not by the other. Two processes are enough for a holder and one that waits; they
  are symmetric.
- `StampsRepeat` tells whether callers may use one `occurred_at` twice in a history. The code
  does not forbid it; `HistoryExplainsStatus` needs that they do not.
- `MaxVersion` of packets is 2 where restarts matter and 1 where edits do. `packet_heals` was
  also run by hand with 2 and one piece of evidence (235,000 states). `PdfsChange`: a PDF may be edited after it was
  rendered. `RequestedStatuses` are the statuses that people set in an instance.
- `RepeatsStages`: callers ask for the stage that is current; the `onboarding` run and the proofs
  are about callers that do not.
- `MaxRevision = 4` of a queue row leaves room for a capture that replaces evidence after a
  decision and for a decision after that. Three contexts are: approved and excluding one of
  the bodies, approved and excluding nothing, not approved. Two of the five outcomes of a
  review stand for all: one that is delivered and one that is not. One row is enough for the
  properties, each of which is about one row; rows meet only where `next_items` refuses while
  any row waits for a clear capture. One reviewer who reads and decides much later meets all
  that another one could do in between except a second manual decision.
- `Retrieval`: two scopes, one for each of two runs (a board is searched, and searched again later
  when one record has changed), of two pages and one page, so that there are captures out of
  sequence, twice, after the last page, and a record that two scopes saw. Three record IDs are
  one described where it is listed, one that needs its pointer resolved, and one that is not
  public. `MaxFailures` bounds the failures of one scope that nothing has answered, `MaxResults`
  the results read and not yet merged (two can be merged in either order), `MaxTime` the clock.
  One death is enough: after it the process holds nothing, and a second one meets the same files.
- `Discovery`: three postings: two with one requisition under two titles, one without requisition
  that has the title of the first. These are the ways in which a job can match by one key and not
  by the other, and in which a re-verification can change what it matches. Two subjects of rules,
  one with amounts in two spellings; five batches of two reviews; two criteria documents that
  differ in what they exclude. `MaxDeliveries` counts deliveries begun: with 2, one that is cut
  short or finished, and one after it, of the same batch or another, under the same criteria or
  others. `discovery_conflict` has one batch of three reviews, delivered twice. Index files are
  told apart by the jobs they describe.
- `Migration`: two migrations under way at once, one unlocked save and one allocated job between
  their steps, `MaxFaults = 2` errors or deaths in all: one for a first try and one for its
  rollback or for the other migration. `FailingSteps` are the steps at which an exception may
  occur: all after the backup in `migration`, and in `migration_reuse` only the rebuilding of the
  indexes, so that its trace is the one of a migration that wrote its configuration and released
  the lock. `migration_reuse` has one migration, two jobs and one error, the least that lets a
  number be allocated twice.

## Fairness

- `JobStore`: a process that does not die finishes its replay (`WF` of `Replay`), and somebody
  takes a free lock eventually (`WF` of `Acquire`), because people and automations keep
  running commands. Liveness is claimed only for behaviours in which processes stop dying.
- `PacketDelivery`: a command that does not die carries on, and commands keep being run. The
  property has the premise that people, starts and deaths come to an end: with them going on,
  no delivery need ever complete.
- `Lifecycle`: the automation reads its sources over and over, so what is not settled is
  offered again (`WF` per evidence identity); no premise on deaths is needed, because a death
  leaves the process off the lock and the evidence is offered again.
- `ReviewQueue`: discovery takes up what awaits delivery before anything else, so a row that is
  ready again and again is taken up (`SF` of `BeginDelivery`); a process that does not die
  carries on. The property has the premise that deaths end and that the candidate is one a job
  can be made of: a qualifying row whose candidate a hard filter rejects, or that matches
  several jobs, stays ready until people decide on it anew.

- `Retrieval`: an operation that has begun goes on or dies (`WF` of `Working`), and every scope is
  replayed again and again (`SF` of `StartReplay`), because each collection and each run begins
  with a replay. What ends the wait may also be that the scope's own evidence no longer audits
  (disagreement 5), after which no replay helps.
- `Migration`: a migration that has begun goes on (`WF` of `Migrate`), and when none is under way
  somebody asks for it again (`WF` of `Plan`). The second is a premise about people: nothing in the
  code forces it (no command but `readiness.py`, which reports it, looks at the version of the
  configuration), but the upgrade guide has them plan and apply again until it is migrated. The property is about one migrator when the others stay idle from some point on: two
  that take turns can keep rolling each other back. It allows a configuration torn by a
  rollback that died while copying it, which needs a person.

## Proofs

`tlapm` checks all of them for every value of the constants.

**`JobStoreProofs`.** The assumptions are those of the modules (`StoreAssumption`,
`RecordAssumption` and the like: sentinels are not data, times are numbers). The inductive
invariant `IInv` is

- typing, which contains that IDs stay within the counter;
- `LockInv`: the process past the lock is the one that holds it, and only one is;
- `ReplayInv`: who replays, replays the job that has the journal, and who operates on the
  workspace has no journal before it;
- `OneJournal`, `JournalInv`: there is at most one journal in the workspace, because recovery
  comes before every operation, and what it says is a legal successor of the record it replaces:
  the same job, an event from its status, documents that match the new record;
- `ProgressInv`: which of the files already have the journalled content, by the place of the
  replay; without it nothing says that the files agree once the journal is gone;
- `CounterInv`: drafts and folders are below the counter;
- `FilesAgree`.

None of the properties is inductive by itself: that files agree depends on how far a replay
that somebody else began had come. From `IInv` follow `TypeOK`, `OperationsSeeNoHalfWrittenJob`,
`FilesAgree`, `HistoryAppendOnly`, `EvidenceNeverRegresses` and, step by step through the
refinement mapping, `ImplementsPromise`. `IdentityInv` (an allocated draft is still novel, and
requisitions are unique in the records *and* in the journals) adds `OneJobPerRequisition` and
`CreationIsNovel`. `HistoryInv` (every log is chained, and a journalled event is its last line or
goes on from it with a new time) adds `HistoryExplainsStatus` for callers that do not reuse times
(`StampsRepeat = FALSE`): then no line of the log equals an event that has not been written.
`StatusChangesAreTold` needs no condition: whatever times callers use, a committed change of status
leads in an event from the old status to the new, and that event is the next of the history
unless a caller reused a time and the very line is there already. So it says exactly how far
disagreement 1 goes. `ReverificationSettles` is about the record alone:
repeating a re-verification changes it at most once more, and then only because the first one
filled in the requisition that makes a stronger source an exact match (`FillsInMatch`).

**`OnboardingProofs`.** Under `RepeatsStages = FALSE`, the invariant says that the file loads and
that `active` is reached only with a ready receipt. From it follow `TypeOK`, `SavedStateLoads`
and `ActiveMeansReady`, for any set of connectors. `ProgressIsKept` follows from it and
`LeftHasReceipt`: every stage that the file has left has its receipt, without which a step
back could not be told from a session that resumes.

**`ReviewQueueProofs`.** From `QueueAssumption` and `SentinelAssumption`, for any postings,
captures, times, contexts and reviewers. The invariant is typing and

- `RowsInv`: each row fits: its decision is about its content, its delivery is of reviewed
  text and of a posting that has a job, and its content and times are those of the newest
  captures (`Witnessed`);
- `ReadsInv`: a read of the row's revision has the row's content (`Evolves`: content does not
  change under a revision). Without it nothing says that `record_decision`, which compares
  revisions only, decides on what is active;
- `DeliveryInv`: the row still matches the candidate that was validated before the job was
  written, and a delivery that is past the creation has its job;
- `CapturedInv`: rows and history speak of the same postings.

The argument is by row: lemmas say what `NewRow`, `Beside`, `Active`, `WithDecision` and
`Prefiltered` do to a fitting row, `TakenFits` that a capture leaves it fitting its newest
captures, `RowsKept` that rows which fit keep the rest. From it follow `TypeOK`,
`DecisionIsOfActiveEvidence`, `NewestEvidenceIsActive`, `ReplaysSettleNothing`,
`DeliveredWasReviewed` and `PeopleHaveTheLastWord`.

**`LifecycleProofs`.** From the assumptions of `LifecycleRules` (opportunity IDs are finitely many;
this is what makes the newest of several decisions exist). The invariant is typing and

- `AppliedOnce`: the events say at most one thing of each piece of evidence;
- `ReceiptsAgree`: a receipt of an update has exactly its event, and any other receipt none;
- `HolderInv`: the process that has the lock between the event and the receipt holds exactly
  what it committed, and there is no receipt for it yet;
- `NoHistoryBefore`, `SourcesClassify`: a job that is not there has no history; an event that
  stands for evidence has one of the classes of evidence;
- `NewestDecisionWins` itself.

From it follow `TypeOK`, `NewestDecisionWins`, `ReceiptsMatchHistory` and, step by step through
the mapping that takes evidence as settled once its event is committed,
`ImplementsSettlement`.

**`DiscoveryProofs`.** Of `Filters`, which is pure: `RangesAreJudgedByAllTheyAllow` says when a
value left open between bounds satisfies a range rule; `RejectedExactlyWhenExcluded`, that
`Outcome` rejects if and only if some rule excludes everything the statements leave possible,
which is the reference `Exclusions`: nothing is rejected while there is doubt and nothing beyond
doubt is kept. Of `Discovery`, from the assumptions of both modules, for any batches, criteria and
postings: the invariant is typing and

- `BatchFits`, `DueFits`: the batch under way is one that validation lets pass (an item without an
  assessment is one the filters reject), and what is due is due for the item it is at;
- `KeysFit`: keys stand for jobs that are there, in the state of discovery, the batch and every run;
- `ItemsBeforeAreDealtWith`, `RunsAreDealtWith`: an item before the current one, and every item of
  a recorded run, has its receipt, or was ambiguous, or has the job that its key stands for, which
  carries its requisition. It is inductive because no later step takes a job away or a known
  requisition from one (`Requisition`), and because the key of a posting with a requisition is
  the requisition: two items of one key want the same of their job. That an item still *denotes*
  its job is not inductive, and not true;
- `IndexesFollow`: each index file describes the jobs there are as soon as it was written for the item;
- `Sound`: no job is excluded under the criteria it was assessed under;
- `LateFits`: an input that stands, or that the check before has passed, has no late write yet,
  and any other at most one.

From it and `RejectedExactlyWhenExcluded` follow `NoJobIsExcluded`, `OnlyTheExcludedAreRejected`,
`RunsAccountForEveryItem`, `ChangedCriteriaStopTheBatch` and `RecordedMeansIndexed`.

**`MigrationProofs`.** For any number of migrators, jobs, saves and faults. The invariant is typing and

- `LockInv`: who is at a step that has the lock has it, and only one does;
- `PlansAreBacked`: a plan made of a workspace that was migrated before is of one that has a
  backup of version 1;
- `OriginalIsKept` itself;
- `RollbackInv`: the files copied so far are those of the plan, in the order of copying, and the
  one saved without the lock is that of the plan or newer;
- `JobsAreHoused`: job folders lie in `Jobs/`.

From it follow `TypeOK`, `OriginalIsKept`, `RestoredMeansOriginal` and `JobsSurvive`.

**`PacketDeliveryProofs`.** From `PacketAssumption`, for any number of commands, versions and PDF
hashes. The invariant is typing and

- `FilesFit`: every record of the manifest is well formed: at most one receipt per stage, a
  quality approval for the posting and the draft of the record, one PDF hash throughout; what is
  ready was delivered, and what was delivered is in the manifest with its local verification;
- `Fits`, for each command: the snapshot it holds is well formed too; as long as it has added
  nothing since it loaded it, the manifest covers it (`Covers`: the same versions with the same
  inputs and at least its receipts); and who is past verification holds the approved hash;
- `StatusFits`: the job is `packet_ready` only with a delivery, unless people set it.

Without the part about snapshots the merge of a stale one could not be shown to take nothing
back, and without the one about who is past verification nothing ties the hash that reaches the
tracker to what was approved in another critical section. From it follow `TypeOK`,
`DeliveredAsApproved`, `ReadyMeansDelivered`, `PacketHistoryKept`, `OneReservationPerRequest`,
`SupersededStaysUndelivered` and, when people do not set `prepare_application` by hand,
`StartKeepsDelivery`.

**`RetrievalProofs`.** From the four assumptions of `Retrieval`: among the records that a page
which `parse_page` accepts shows, no two have one ID, and the sentinels are not descriptions. For
any scopes, paged or not, responses, records, times and numbers of deaths. The invariant is typing
and

- `WorkFits`, `PagesFit`, `ResolutionsFit`: the operation under way has a scope, every response
  in the ledger is one the provider gave there, a resolution has a description and a time;
- `IngestedIsFiled`: what the ledger calls ingested has its receipt and its snapshots in the
  queue, and a row that is not older (`Filed`);
- `InHand`: between the write of the queue and that of the ledger the batch is `Filed` already,
  and the page still comes next in its scope (`ComesNext`): it was compared with the evidence one
  step before it is marked, and only because nobody else has the lock in between is the
  comparison still true. Without this part neither `IngestedIsFiled` nor the enumeration is kept
  by the step that marks the page;
- `Enumerates`: the ingested pages of a paged scope are one for each cursor, and those of any
  scope show no record twice;
- `RowsFit`: every row shows a capture of the time it says;
- `CheckpointFits`: the scopes of a checkpoint are exhausted, so that no page is ever added to
  them, and all that is public of them is named and stored.

From it follow `TypeOK`, `LedgerIsSound`, `CompleteAccountsForAll`, `QueueShowsNewestCapture` and
`CheckpointNeverBackwards`. `AuditsFailOnlyByOrder` says what disagreement 5 leaves: an audit fails
if and only if the ingested pages lie in the ledger in another order than that of their cursors;
receipts, gaps, repetitions and pages after the last are never the reason. Its proof counts the
pages before a page by a bijection with the cursors below its own. `CapturesInAnyOrder` and
`FiledAgainChangesNothing` are about one row of the queue: captures of different times may be
filed in either order, and one that is filed again leaves the row as it was, which is why a replay
after a death is harmless.

Model-checked only: all liveness (`JournalsAreReplayed`, `DeliveryHeals`,
`CommittedEvidenceIsReceipted`, `ReadyIsDelivered`, `CapturedIsSettled`, `RetriesMigrate`), which
the prover cannot do with fairness. No module that is proved about declares a recursive operator.

## Where code and documents disagree

Each is shown by a configuration that TLC refutes. The sixth and seventh are the runs `migration_reuse` and
`discovery_conflict`; the others are run by hand, as `tlc -config <configuration> <module>`.

1. `JobStoreRepeatedStamps.cfg`, `MCJobStore` (`StatusChangeAppendsEvent`): an event is appended
   only if no line of the log equals it, also outside recovery. A status that goes back and
   forth under reused times changes without an event, while the design says that each change
   appends one.
2. `PacketSuperseded.cfg`, `MCPacketDelivery` (`ReadyMeansNewestDelivered`): a restart sets the
   status and reserves its version in two critical sections. A delivery of the old version
   between them makes the job `packet_ready` for a version nobody delivered, while the design
   clears `prepare_application` only after a verified delivery.
3. `OnboardingRepeats.cfg`, `MCOnboarding` (`SavedStateLoads`): advancing to the stage that is
   current is accepted and saves a file that `load_onboarding_state` refuses, while the quick
   start promises to resume from it.
4. `ReviewQueueLateUrl.cfg`, `MCReviewQueue` (`DeliveredUnderReviewedUrl`): the URL of a candidate
   is compared only once the row is flagged as having changed its URL, and a late capture with
   another URL is kept without that flag. A candidate made of it is delivered although the
   current URL was reviewed, while a test says that an old URL's candidate cannot be.
5. `RetrievalRetry.cfg`, `MCRetrieval` (`AcceptedPagesAudit`): a response captured with the second
   page's cursor before the first page is rejected, and stays first in the ledger. When
   the same response is captured again in its place, the page is marked as ingested where it
   stands, before the first one, and from then on every audit of the scope fails with
   `retrieval_cursor_sequence_invalid` (`retrieval.py:412`).
6. `MigrationReuse.cfg`, `MCMigration` (`NumbersAreNeverReused`): indexes are rebuilt after the
   configuration was migrated and the lock released. If that fails, the rollback takes the lock
   again and restores the job counter of the plan, and the number of a job created in between is
   allocated again, while the design says that job IDs are never reused. The trace: plan, backup,
   missing directories, configuration, the rebuild fails, a job is created, rollback with all its
   copies, the next job gets the same number. Creating a job does not look at the version of the
   configuration, so an error before the lock is released leads there too, in the gap before the
   rollback takes the lock.
7. `DiscoveryConflict.cfg`, `MCDiscovery` (`FinishedDeliveriesMerge`): a batch of three postings, of
   which the first has no requisition, the second has one and the same title, the third that
   requisition and another title. Delivered once, the three are found to be one job: the second
   fills in its requisition, the third replaces its title. Delivered again, the first posting
   matches no job and becomes a second one, and `merge_discovery_state` refuses the result, since
   the posting's key stands for the first job already; so it is after every later delivery.
   `review_queue.py:655` calls a replay of an interrupted delivery safe "through canonical
   deduplication".

## What is left out

- Times that are not what they say: `Lifecycle` has people decide at times not before what is on
  record; two committed events for one piece of evidence, on which the code raises, do not
  arise then.
- Evidence of sources that are not enabled and of other classes, which leaves no trace.
- In `ReviewQueue`: legacy rows that mix postings and their recovery, intake receipts and the
  results of sources (which `Retrieval` has), the resolution of identity that a qualifying
  decision may have to name, non-matching items of a batch, and fields that neither hash covers.
- In `PacketDelivery`: `revalidate_legacy_packet_layout`, what is inside a PDF, and version names
  of four digits. The packet checks take verdicts as receipts.
- In `Retrieval`: what normalization repairs in a response, reported totals, the integrity of
  snapshots (nobody edits them), and the merging of several sources into one batch, which is
  a stable sort.
- In `Discovery`: deliveries are modelled from taking the state of discovery to merging into it, one
  at a time. The code releases the lock before the merge, and callers may take the state before
  the lock, so that two of them can overlap there. Also left out: receipts of the steps before it,
  the hash of the profile, the error when a job turns up between resolution and creation (the
  lock is held throughout), and when a re-verification replaces evidence, which is `JobRecord`'s
  (here it may or may not).
- In `Migration`: the staging directories and the lock file. `CreateMissing` takes directories and
  counter as one step. `create_workspace` (`workspace.py:65-72`), which the scripts call first and
  which makes missing directories and a missing counter without the lock, is left out: in the
  model a job is created only where these exist. Saves that take no lock and fall between the
  backup and the rollback are lost by it; no document promises otherwise.
- `backlog.py` but for its use of the job store: its selection is a filter and a sort. Schema
  validation, readiness checks and reporting compute from files and change none.
- Temporary files that a death leaves behind, file permissions, and malformed files: loads of
  those raise before any effect.
- Pure functions of text (location classifier, source parsers, quality and layout checks, the
  parsing of readable criteria): their outcomes are inputs.
