------------------------------ MODULE Retrieval ------------------------------
(***************************************************************************)
(* Accounted retrieval of one source (src/career_pipeline/retrieval.py)    *)
(* and the checkpoint it may advance (checkpoints.py).  A scope is one     *)
(* registered query.  Each response is saved with its cursor before it is  *)
(* parsed; then its records go to the review queue with a receipt; then    *)
(* the ledger says so: three files, one after the other, and the process   *)
(* may die between any two.  What is complete is derived from that         *)
(* evidence each time and never from a saved flag.                         *)
(*                                                                         *)
(* All of it happens under the workspace lock, so at most one operation    *)
(* is under way: "work" is what it holds in memory, and is all that a      *)
(* death loses.                                                            *)
(***************************************************************************)
EXTENDS Integers, FiniteSets, Sequences

CONSTANTS
    MaxScopes,      \* scopes are numbered as they are registered
    RunOf,          \* the discovery run of each scope
    Supplementary,  \* the scopes whose provider has no pagination
    Ids,            \* the provider's record ids
    Contents,       \* complete descriptions a record may have
    Missing,        \* the description of a record that is only a pointer
    Unlisted,       \* the description of a record that is not public
    Offered,        \* the responses the provider may give in each scope
    Described,      \* the full descriptions the official posting of an id may show
    MaxCursor, MaxPages, MaxFailures, MaxTime, MaxResults, MaxDeaths  \* bounds, of each scope for the pages

Scopes == 1..MaxScopes
Record == [id : Ids, body : Contents \cup {Missing, Unlisted}]
Response == [valid   : BOOLEAN,        \* parse_page accepts it
             rows    : SUBSET Record,  \* the rows it identifies
             last    : BOOLEAN,        \* it closes the enumeration
             unknown : BOOLEAN]        \* some rows have no identity

IdsOf(records) == {r.id : r \in records}

ASSUME ScopesAssumption ==
    MaxScopes \in Nat /\ RunOf \in [Scopes -> Nat] /\ Supplementary \subseteq Scopes
ASSUME BodiesAssumption == Missing \notin Contents /\ Unlisted \notin Contents /\ Missing # Unlisted
ASSUME ResponsesAssumption ==
    /\ Described \in [Ids -> SUBSET Contents]
    /\ Offered \in [Scopes -> SUBSET Response]
    /\ \A s \in Scopes : \A r \in Offered[s] : r.valid => /\ ~r.unknown
                                       /\ \A x, y \in r.rows : x.id = y.id => x = y
ASSUME BoundsAssumption ==
    /\ MaxPages \in [Scopes -> Nat]
    /\ {MaxCursor, MaxFailures, MaxTime, MaxResults, MaxDeaths} \subseteq Nat /\ MaxTime > 0

VARIABLES
    registered,   \* how many scopes are registered
    pages,        \* the captured responses of each scope, in the order they came
    resolutions,  \* what each scope's pointers were resolved to
    failures,     \* the failures of each scope nothing has answered yet
    receipts,     \* the review queue's intake receipts
    observed,     \* the records the review queue has a snapshot of
    rows,         \* the posting the review queue shows for each record id
    checkpoint,   \* the source's saved checkpoint
    results,      \* results runs have read and not yet given up
    work,         \* the operation under way
    now, deaths

ledger == <<registered, pages, resolutions, failures>>
queue == <<receipts, observed, rows>>
vars == <<ledger, queue, checkpoint, results, work, now, deaths>>

Idle == [step |-> "idle"]
Busy(step, s, i, replay, all) ==
    [step |-> step, scope |-> s, at |-> i, replay |-> replay, all |-> all]
NoRow == [at |-> 0, body |-> Missing, conflict |-> {}]
NoResolution == [status |-> "none", body |-> Missing, at |-> 0]
NoCheckpoint == [at |-> 0, seen |-> {}, scopes |-> {}]

Registered == 1..registered

-----------------------------------------------------------------------------
(* What the evidence says: _partition, _receipt and _audit.                *)

Complete(records) == {r \in records : r.body \in Contents}
Pointers(records) == {r \in records : r.body = Missing}
Receipt(records, at) == [at |-> at, records |-> records]

Ingested(ps) == {i \in DOMAIN ps : ps[i].status = "ingested"}
Returned(ps) == UNION {ps[i].response.rows : i \in Ingested(ps)}

Exhausted(s, ps) == s \notin Supplementary /\ \E i \in Ingested(ps) : ps[i].response.last
NextCursor(s, ps) ==
    IF s \in Supplementary \/ Exhausted(s, ps) THEN 0 ELSE Cardinality(Ingested(ps))

Before(ps, i) == {j \in Ingested(ps) : j < i}

(* The loop over the pages stops at the first that does not follow on.     *)
Sequenced(s, ps) ==
    \A i \in Ingested(ps) :
        /\ ps[i].cursor = IF s \in Supplementary THEN 0 ELSE Cardinality(Before(ps, i))
        /\ \A j \in Before(ps, i) :
              /\ s \in Supplementary \/ ~ps[j].response.last
              /\ IdsOf(ps[j].response.rows) \cap IdsOf(ps[i].response.rows) = {}

Stored(records, at) ==
    Receipt(records, at) \in receipts /\ records \subseteq observed

Resolution(s, d) == [id |-> d, body |-> resolutions[s][d].body]
Resolved(s) == {d \in Ids : resolutions[s][d].status = "ingested"}

Receipted(s, ps) ==
    /\ \A i \in Ingested(ps) : Stored(Complete(ps[i].response.rows), ps[i].at)
    /\ \A d \in Resolved(s) : Stored({Resolution(s, d)}, resolutions[s][d].at)

(* _audit of these pages raises nothing.                                   *)
Audited(s, ps) == Sequenced(s, ps) /\ Receipted(s, ps)

Unresolved(s, ps) == IdsOf(Pointers(Returned(ps))) \ Resolved(s)
Public(s) == IdsOf(Complete(Returned(pages[s]))) \cup Resolved(s)
Intakes(s) ==
    {Receipt(Complete(pages[s][i].response.rows), pages[s][i].at) : i \in Ingested(pages[s])}
      \cup {Receipt({Resolution(s, d)}, resolutions[s][d].at) : d \in Resolved(s)}

(* A failed attempt is over once later pages of its cursor show all it had. *)
Retries(ps, i) ==
    {j \in Ingested(ps) : j > i /\ ps[j].cursor = ps[i].cursor}
\* Slip: any later page of the cursor ends the attempt.
RetriedByCursor(ps, i) == Retries(ps, i) # {}

Retried(ps, i) ==
    /\ Retries(ps, i) # {}
    /\ ~ps[i].response.unknown
    /\ IdsOf(ps[i].response.rows) \subseteq IdsOf(UNION {ps[j].response.rows : j \in Retries(ps, i)})

Contested(s) ==
    \E receipt \in Intakes(s) : \E r \in receipt.records : r.body \in rows[r.id].conflict

CompleteScope(s) ==
    /\ Audited(s, pages[s])
    /\ Exhausted(s, pages[s])
    /\ \A i \in DOMAIN pages[s] : \/ pages[s][i].status = "ingested"
                                  \/ pages[s][i].status = "invalid" /\ Retried(pages[s], i)
    /\ \A d \in Ids : resolutions[s][d].status # "captured"
    /\ Unresolved(s, pages[s]) = {}
    /\ ~Contested(s)
    /\ failures[s] = {}

-----------------------------------------------------------------------------
(* The review queue's side: ingest of one batch, a posting per record id.  *)

Merged(row, body, at, replay) ==
    LET ambiguous == at = row.at /\ (replay \/ row.conflict # {})
        beside == row.at > 0 /\ (at < row.at \/ ambiguous)
    IN  IF ~beside THEN [at |-> at, body |-> body, conflict |-> {}]
        ELSE IF ambiguous /\ body # row.body
             THEN [row EXCEPT !.conflict = @ \cup {row.body, body}]
             ELSE row

Ingest(records, at, replay) ==
    /\ receipts' = receipts \cup {Receipt(records, at)}
    /\ observed' = observed \cup records
    /\ rows' = [d \in Ids |->
          IF d \in IdsOf(records)
          THEN Merged(rows[d], (CHOOSE r \in records : r.id = d).body, at, replay)
          ELSE rows[d]]

-----------------------------------------------------------------------------
Init ==
    /\ registered = 0
    /\ pages = [s \in Scopes |-> <<>>]
    /\ resolutions = [s \in Scopes |-> [d \in Ids |-> NoResolution]]
    /\ failures = [s \in Scopes |-> {}]
    /\ receipts = {} /\ observed = {}
    /\ rows = [d \in Ids |-> NoRow]
    /\ checkpoint = NoCheckpoint /\ results = {}
    /\ work = Idle /\ now = 1 /\ deaths = 0

(* A scope known under the same run and query is left as it is.            *)
RegisterScope ==
    /\ work = Idle /\ registered < MaxScopes
    /\ registered' = registered + 1
    /\ UNCHANGED <<pages, resolutions, failures, queue, checkpoint, results, work, now, deaths>>

SamePage(s, response, cursor) ==
    {i \in DOMAIN pages[s] : pages[s][i].response = response /\ pages[s][i].cursor = cursor}

(* The response and its cursor are in the ledger before anything reads it. *)
CaptureResponse(s, response, cursor) ==
    /\ work = Idle /\ s \in Registered
    /\ SamePage(s, response, cursor) = {} /\ Len(pages[s]) < MaxPages[s]
    /\ pages' = [pages EXCEPT ![s] = Append(@,
          [response |-> response, cursor |-> cursor, at |-> now, status |-> "captured"])]
    /\ work' = Busy("parse", s, Len(pages[s]) + 1, FALSE, FALSE)
    /\ UNCHANGED <<registered, resolutions, failures, queue, checkpoint, results, now, deaths>>

(* The same response again: what is ingested stays, the rest is tried anew. *)
CaptureAgain(s, i) ==
    /\ work = Idle /\ s \in Registered
    /\ i \in DOMAIN pages[s] /\ pages[s][i].status # "ingested"
    /\ work' = Busy("parse", s, i, TRUE, FALSE)
    /\ UNCHANGED <<ledger, queue, checkpoint, results, now, deaths>>

Page == pages[work.scope][work.at]
After == IF work.all THEN Busy("replay", work.scope, 0, TRUE, TRUE) ELSE Idle

\* Slip: the cursor is not compared with the one that comes next.
FollowsAnything(s, page) ==
    page.response.valid /\ Audited(s, pages[s]) /\ ~Exhausted(s, pages[s])

FollowsOn(s, page) ==
    /\ page.response.valid
    /\ Audited(s, pages[s])
    /\ ~Exhausted(s, pages[s]) /\ page.cursor = NextCursor(s, pages[s])
    /\ IdsOf(Returned(pages[s])) \cap IdsOf(page.response.rows) = {}

\* Slip: the rejection is not saved.
RejectUnsaved ==
    /\ work.step = "parse" /\ ~FollowsOn(work.scope, Page)
    /\ work' = Idle
    /\ UNCHANGED <<ledger, queue, checkpoint, results, now, deaths>>

RejectPage ==
    /\ work.step = "parse" /\ ~FollowsOn(work.scope, Page)
    /\ pages' = [pages EXCEPT ![work.scope][work.at].status = "invalid"]
    /\ work' = IF Audited(work.scope, pages[work.scope]) THEN After ELSE Idle
    /\ UNCHANGED <<registered, resolutions, failures, queue, checkpoint, results, now, deaths>>

\* Slip: a replay is filed at the time it happens.
IngestNow ==
    /\ work.step = "parse" /\ FollowsOn(work.scope, Page)
    /\ Ingest(Complete(Page.response.rows), now, work.replay)
    /\ work' = [work EXCEPT !.step = "mark"]
    /\ UNCHANGED <<ledger, checkpoint, results, now, deaths>>

IngestPage ==
    /\ work.step = "parse" /\ FollowsOn(work.scope, Page)
    /\ Ingest(Complete(Page.response.rows), Page.at, work.replay)
    /\ work' = [work EXCEPT !.step = "mark"]
    /\ UNCHANGED <<ledger, checkpoint, results, now, deaths>>

(* The page is ingested, and the failures to fetch its cursor are over.    *)
MarkPage ==
    /\ work.step = "mark"
    /\ pages' = [pages EXCEPT ![work.scope][work.at].status = "ingested"]
    /\ failures' = [failures EXCEPT ![work.scope] =
          {f \in @ : f.pointers # {} \/ f.cursor # Page.cursor}]
    /\ work' = IF Audited(work.scope, pages'[work.scope]) THEN After ELSE Idle
    /\ UNCHANGED <<registered, resolutions, queue, checkpoint, results, now, deaths>>

(* A failed fetch: of one pointer, of all that are left once the pages are *)
(* exhausted, or else of the next page.                                    *)
RecordFailure(s, of) ==
    /\ work = Idle /\ s \in Registered /\ Audited(s, pages[s])
    /\ Cardinality({t \in Scopes : failures[t] # {}}) < MaxFailures
    /\ of \in {{}} \cup {{d} : d \in Unresolved(s, pages[s])}
    /\ failures' = [failures EXCEPT ![s] = @ \cup
          {[pointers |-> IF of = {} /\ Exhausted(s, pages[s]) THEN Unresolved(s, pages[s]) ELSE of,
            cursor   |-> NextCursor(s, pages[s])]}]
    /\ UNCHANGED <<registered, pages, resolutions, queue, checkpoint, results, work, now, deaths>>

(* A pointer is resolved once; the same resolution again is a replay.      *)
ResolvePointer(s, d, body) ==
    /\ work = Idle /\ s \in Registered /\ Audited(s, pages[s])
    /\ \/ /\ resolutions[s][d].status = "none" /\ d \in Unresolved(s, pages[s])
          /\ resolutions' = [resolutions EXCEPT ![s][d] =
                [status |-> "captured", body |-> body, at |-> now]]
          /\ work' = Busy("resolve", s, d, FALSE, FALSE)
       \/ /\ resolutions[s][d].status = "captured" /\ resolutions[s][d].body = body
          /\ work' = Busy("resolve", s, d, TRUE, FALSE)
          /\ UNCHANGED resolutions
    /\ UNCHANGED <<registered, pages, failures, queue, checkpoint, results, now, deaths>>

IngestResolution ==
    /\ work.step = "resolve"
    /\ Ingest({Resolution(work.scope, work.at)}, resolutions[work.scope][work.at].at, work.replay)
    /\ work' = [work EXCEPT !.step = "resolved"]
    /\ UNCHANGED <<ledger, checkpoint, results, now, deaths>>

MarkResolution ==
    /\ work.step = "resolved"
    /\ resolutions' = [resolutions EXCEPT ![work.scope][work.at].status = "ingested"]
    /\ failures' = [failures EXCEPT ![work.scope] =
          {f \in @ : f.pointers = {} \/ ~(f.pointers \subseteq Resolved(work.scope) \cup {work.at})}]
    /\ work' = After
    /\ UNCHANGED <<registered, pages, queue, checkpoint, results, now, deaths>>

-----------------------------------------------------------------------------
(* replay_scope: everything captured and not ingested, in one go.          *)

StartReplay(s) ==
    /\ work = Idle /\ s \in Registered /\ Audited(s, pages[s])
    /\ work' = Busy("replay", s, 0, TRUE, TRUE)
    /\ UNCHANGED <<ledger, queue, checkpoint, results, now, deaths>>

CapturedPages(s) == {i \in DOMAIN pages[s] : pages[s][i].status = "captured"}
CapturedResolutions(s) == {d \in Ids : resolutions[s][d].status = "captured"}

ReplayPage(i) ==
    /\ work.step = "replay" /\ i \in CapturedPages(work.scope)
    /\ \A j \in CapturedPages(work.scope) : i <= j
    /\ work' = Busy("parse", work.scope, i, TRUE, TRUE)
    /\ UNCHANGED <<ledger, queue, checkpoint, results, now, deaths>>

ReplayResolution(d) ==
    /\ work.step = "replay" /\ CapturedPages(work.scope) = {}
    /\ d \in CapturedResolutions(work.scope)
    /\ work' = Busy("resolve", work.scope, d, TRUE, TRUE)
    /\ UNCHANGED <<ledger, queue, checkpoint, results, now, deaths>>

FinishReplay ==
    /\ work.step = "replay"
    /\ CapturedPages(work.scope) = {} /\ CapturedResolutions(work.scope) = {}
    /\ failures' = [failures EXCEPT ![work.scope] =
          {f \in @ : f.pointers = {} \/ ~(f.pointers \subseteq Public(work.scope))}]
    /\ work' = Idle
    /\ UNCHANGED <<registered, pages, resolutions, queue, checkpoint, results, now, deaths>>

-----------------------------------------------------------------------------
(* The source's result, and the checkpoint it moves (checkpoints.py).      *)

Selected == {s \in Registered : RunOf[s] = RunOf[registered]}

ReadResult ==
    /\ work = Idle /\ registered > 0 /\ Cardinality(results) < MaxResults
    /\ \A s \in Selected : CompleteScope(s)
    /\ results' = results \cup
          {[completed |-> now, scopes |-> Selected,
            seen |-> UNION {Public(s) : s \in Selected},
            intakes |-> UNION {Intakes(s) : s \in Selected}]}
    /\ UNCHANGED <<ledger, queue, checkpoint, work, now, deaths>>

CapturedBy(s, at) ==
    /\ \A i \in DOMAIN pages[s] : pages[s][i].at <= at
    /\ \A d \in Ids : resolutions[s][d].at <= at

ValidSourceResult(r) ==
    /\ r.scopes = Selected
    /\ \A s \in Registered : CompleteScope(s) /\ CapturedBy(s, r.completed)
    /\ r.seen = UNION {Public(s) : s \in Selected}
    /\ r.intakes = UNION {Intakes(s) : s \in Selected}

CompleteSource(r) == [at |-> r.completed, seen |-> r.seen, scopes |-> r.scopes]

\* Slip: the result that is merged last wins.
MergeLatestToArrive(r) ==
    /\ work = Idle /\ r \in results /\ ValidSourceResult(r)
    /\ checkpoint' = CompleteSource(r)
    /\ UNCHANGED <<ledger, queue, results, work, now, deaths>>

MergeDiscoveryState(r) ==
    /\ work = Idle /\ r \in results /\ ValidSourceResult(r)
    /\ checkpoint' = IF checkpoint.at > r.completed THEN checkpoint ELSE CompleteSource(r)
    /\ UNCHANGED <<ledger, queue, results, work, now, deaths>>

Tick ==
    /\ work = Idle /\ now < MaxTime
    /\ now' = now + 1
    /\ UNCHANGED <<ledger, queue, checkpoint, results, work, deaths>>

Die ==
    /\ work # Idle /\ deaths < MaxDeaths
    /\ work' = Idle /\ deaths' = deaths + 1
    /\ UNCHANGED <<ledger, queue, checkpoint, results, now>>

Replaying == FinishReplay \/ (\E s \in Scopes : \E i \in 1..MaxPages[s] : ReplayPage(i)) \/ (\E d \in Ids : ReplayResolution(d))
Working == RejectPage \/ IngestPage \/ MarkPage \/ IngestResolution \/ MarkResolution \/ Replaying

Next ==
    \/ RegisterScope
    \/ \E s \in Scopes :
          \/ \E response \in Offered[s], cursor \in 0..MaxCursor : CaptureResponse(s, response, cursor)
          \/ \E i \in 1..MaxPages[s] : CaptureAgain(s, i)
          \/ \E of \in SUBSET Ids : RecordFailure(s, of)
          \/ \E d \in Ids : \E body \in Described[d] : ResolvePointer(s, d, body)
          \/ StartReplay(s)
    \/ Working
    \/ ReadResult \/ (\E r \in results : MergeDiscoveryState(r))
    \/ Tick \/ Die

Spec == Init /\ [][Next]_vars

(***************************************************************************)
(* An operation that has begun goes on or dies, and each scope is replayed *)
(* again and again: a collection starts with it, and so does a run.        *)
(***************************************************************************)
FairSpec == Spec /\ WF_vars(Working) /\ \A s \in Scopes : SF_vars(StartReplay(s))

-----------------------------------------------------------------------------
PageType == [response : Response, cursor : 0..MaxCursor, at : 1..MaxTime,
             status : {"captured", "invalid", "ingested"}]
ReceiptType == [at : 1..MaxTime, records : SUBSET Record]

(* The ledger, the queue, the checkpoint and the operation have the shapes *)
(* the code gives them, and work on a page or pointer names one that is    *)
(* there.                                                                  *)
TypeOK ==
    /\ registered \in 0..MaxScopes
    /\ pages \in [Scopes -> Seq(PageType)]
    /\ resolutions \in [Scopes -> [Ids -> [status : {"none", "captured", "ingested"},
                                          body : Contents \cup {Missing}, at : 0..MaxTime]]]
    /\ failures \in [Scopes -> SUBSET [pointers : SUBSET Ids, cursor : Nat]]
    /\ receipts \subseteq ReceiptType /\ observed \subseteq Record
    /\ rows \in [Ids -> [at : 0..MaxTime, body : Contents \cup {Missing}, conflict : SUBSET Contents]]
    /\ checkpoint \in [at : 0..MaxTime, seen : SUBSET Ids, scopes : SUBSET Scopes]
    /\ results \subseteq [completed : 1..MaxTime, seen : SUBSET Ids,
                         scopes : SUBSET Scopes, intakes : SUBSET ReceiptType]
    /\ work.step \in {"idle", "parse", "mark", "resolve", "resolved", "replay"}
    /\ work.step \in {"parse", "mark"} => work.at \in DOMAIN pages[work.scope]
    /\ work.step \in {"resolve", "resolved"} => work.at \in CapturedResolutions(work.scope)
    /\ now \in 1..MaxTime /\ deaths \in 0..MaxDeaths

(* What the ledger calls ingested has its receipt and its snapshots in the *)
(* queue, whatever died between the files and however it was replayed: an  *)
(* audit never fails for want of them.                                     *)
LedgerIsHonest == \A s \in Scopes : Receipted(s, pages[s])

(* The ingested pages of a scope enumerate its provider once: one for each *)
(* cursor without a gap, no record twice, nothing after the last.          *)
PagesEnumerateOnce ==
    \A s \in Scopes \ Supplementary :
        LET ps == pages[s]
            in == Ingested(ps)
        IN  /\ {ps[i].cursor : i \in in} = 0..(Cardinality(in) - 1)
            /\ \A i, j \in in : i # j =>
                  /\ IdsOf(ps[i].response.rows) \cap IdsOf(ps[j].response.rows) = {}
                  /\ ps[i].response.last => ps[j].cursor < ps[i].cursor

(* A complete scope accounts for every record any of its responses ever    *)
(* showed, the malformed and the rejected ones too: its description is     *)
(* stored, or it is not public.  A checkpoint names every public record of *)
(* the scopes it was saved for, also after more was captured.              *)
ScopeAccountsForAll(s) ==
    \A i \in DOMAIN pages[s] : \A d \in IdsOf(pages[s][i].response.rows) :
        \/ d \in IdsOf(Complete(observed))
        \/ [id |-> d, body |-> Unlisted] \in Returned(pages[s])
CompleteAccountsForAll ==
    /\ \A s \in Registered : CompleteScope(s) => ScopeAccountsForAll(s)
    /\ checkpoint.seen \subseteq IdsOf(Complete(observed))
    /\ \A s \in checkpoint.scopes : \A r \in Returned(pages[s]) :
          r.body # Unlisted => r.id \in checkpoint.seen

(* What the queue shows of a posting was captured when it says, and nothing *)
(* newer is ingested: a replay keeps the time of the capture it repeats.   *)
CapturesOf(d) ==
    {[at |-> resolutions[s][d].at, body |-> resolutions[s][d].body] : s \in Scopes}
      \cup UNION {UNION {{[at |-> pages[s][i].at, body |-> r.body] :
                            r \in {r \in pages[s][i].response.rows : r.id = d}} :
                          i \in DOMAIN pages[s]} : s \in Scopes}
QueueShowsNewestCapture ==
    \A d \in Ids : rows[d].at > 0 =>
        /\ [at |-> rows[d].at, body |-> rows[d].body] \in CapturesOf(d)
        /\ \A s \in Scopes :
              /\ \A i \in Ingested(pages[s]) :
                    d \in IdsOf(Complete(pages[s][i].response.rows)) => pages[s][i].at <= rows[d].at
              /\ d \in Resolved(s) => resolutions[s][d].at <= rows[d].at

(* Results merged in any order, and again, never move a checkpoint back.   *)
CheckpointNeverBackwards == [][checkpoint'.at >= checkpoint.at]_vars

(* All of these, of the ledger and the queue behind it.                    *)
LedgerIsSound == TypeOK /\ LedgerIsHonest /\ PagesEnumerateOnce

(* A response or resolution that is saved is settled in the end, whatever  *)
(* died on the way, unless the scope's evidence itself no longer audits.   *)
Unsettled(s) == CapturedPages(s) # {} \/ CapturedResolutions(s) # {}
CapturedIsSettled ==
    \A s \in Scopes :
        Unsettled(s) ~> (~Unsettled(s) \/ ~Audited(s, pages[s]))

(* A page is ingested where the ones before it end: the audit of a scope    *)
(* never stops at a page it accepted itself.                               *)
AcceptedPagesAudit == \A s \in Scopes : Sequenced(s, pages[s])
=============================================================================
