# Verification of the lease-abstraction service

The repository holds one running program, the lease-abstraction service under
`src/lease-parser-api/src/`: it consumes uploaded leases, runs OCR and a language model over
them, stores what they answer, and lets people confirm or replace it. This directory holds TLA+
models of its core, the TLC configurations that check them on small instances, and proofs of
their main invariants for every value of the constants.

Paths below are relative to `src/lease-parser-api/src/`; documents named without a path
(`spec.md`, `data-model.md`, `quickstart.md`, `contracts/*.md`) are under
`src/specs/001-lease-abstraction/`.

## 1. The system

| Component | State | Operations | Talks to |
|---|---|---|---|
| Intake (`consumers/base.py`, `backfill_consumer.py`) | Kafka offsets, the message in hand, the producer's queue | poll, handle, retry, dead letter, offset commit, crash and restart | the pipeline by call, Kafka by message |
| Pipeline (`consumers/document_uploaded_consumer.py`) | none of its own; one database session | `handle` (ingest), `reprocess`, `_run_pipeline`, `_emit_completion` | adapters by call, tables, producer |
| Tables (`models/`) | `lease_documents`, `extraction_runs`, `extracted_fields`, `review_queue_items` | `apply_verification`, flush and commit under READ COMMITTED | shared by every session |
| Review endpoints (`api/extracted_fields.py`, `api/review_queue.py`) | one session per request | list, verify, resolve | tables; `policy/team_scope.py` as guard, with the audit log |
| Demonstration (`api/demo_seed.py`) | one session per request | seed a document, run the pipeline on an uploaded PDF and report | the pipeline by call, tables |
| Idempotency middleware (`api/middleware/idempotency.py`) | a dictionary of replies per process | lookup, call through, store | in front of every POST |
| Extraction path (`ocr/`, `extraction/`, `queue/`, `fallback/`) | two circuit breakers in memory | scan, ask Claude, retry, fail over to OpenAI | Textract, Claude, OpenAI |
| Schemas and answers (`extraction/field_schemas.py` and the adapters' loops) | the results read so far | build a schema, validate a value, read an item, drop it, break off | the providers' answers |
| Rate limiter (`consumers/backfill_consumer.py`) | window start and count | `acquire` | delays the backfill consumer |
| Monitoring (`monitoring/`) | `override_rate_metrics`, `accuracy_metric_snapshots` | override rate of a period, accuracy, drift alert | reads the tables |
| Dead-letter alerting, metrics reads, wiring | - | see section 8 | |

What is hard about it:

- **Interleaving.** Every request and every pipeline run holds a session with its own copies of
  rows. Nothing locks a row or checks a version, so what a session decided on may have changed
  when it commits; an `UPDATE` names only changed columns, so two commits may mix.
- **Awaits between check and act.** The middleware looks a key up, runs the endpoint, then stores;
  a reprocess reads the decided fields, then spends minutes in OCR and the model.
- **Two stores without a common transaction.** The database commit, the Kafka offset commit, the
  dead letter and the completion message are independent, and the last three asynchronous.
- **Crash and restart.** The consumer is restarted at its committed offset; breakers and stored
  replies are lost with their process.
- **Answers that get lost.** A commit takes effect and the endpoint still answers 500, because the
  commit's own answer or a read after it fails.
- **Two readings of one commit.** The upload endpoint commits and then reads back in two statements
  what everybody may have changed since; the session keeps objects it loaded earlier.
- **Contracts kept in step by hand.** Two schemas, five validators and two loops describe one answer.
- **Boundaries.** Confidence equal to its threshold, scan quality equal to its floor, the last
  retry, the failure that trips a breaker, the end of a rate window, the boundary of a period.

What makes each component correct is stated in section 4; `PROJECT.json` lists the hazards at
their lines, each with the property that watches it or the reason there is none.

## 2. Modules

| Module | What it is |
|---|---|
| `LeaseRecords` | the four tables and the sessions that write them: pipeline, verify, resolve, commit |
| `FieldLifecycle` | abstract specification: what the model layer promises of one field |
| `LeaseRecordsInductive` | the inductive invariants of `LeaseRecords`: rows, barrier, announcements, one session at a time |
| `LeaseRecordsProofs` | their proofs, and the refinement of `FieldLifecycle` |
| `MCLeaseRecords` | values of the constants and symmetry for TLC |
| `ReviewDesk`, `MCReviewDesk`, `ReviewDeskProofs` | a team's queue, seed and upload beside the sessions of `LeaseRecords` |
| `ProviderAnswers`, `MCProviderAnswers`, `ProviderAnswersProofs` | schemas, validation and the reading of a model's answer |
| `Intake`, `IntakeProofs` | one partition and its consumer process |
| `ExtractionPath`, `ExtractionPathProofs` | a document's calls to the providers |
| `RateLimiter`, `RateLimiterProofs` | `RateLimiter.acquire` |
| `Idempotency`, `MCIdempotency`, `IdempotencyProofs` | the middleware, replicas and endpoints |
| `Monitoring`, `MCMonitoring`, `MonitoringProofs` | the jobs beside requests that decide fields |

The composition follows the calls. `Intake` abstracts the pipeline to "a document was committed
or not", which is what the offset depends on; `LeaseRecords` abstracts the adapters to "an answer,
an exclusion or a failure", and `ExtractionPath` shows where each of these comes from.
`ProviderAnswers` opens what `ExtractionPath` calls an answer. `ReviewDesk` extends `LeaseRecords`: its
steps are those sessions' and its own, and an upload's pipeline is a second instance of
`LeaseRecords` with another OCR and another producer (`Local`). `Idempotency` abstracts the
endpoints to "acts, refuses or fails, before its effect or after it", and `LeaseRecords` has their
effect on the tables. `LeaseRecords` implements `FieldLifecycle` under the refinement mapping
`Ledger` (a field's value, status and decider).

Operators whose name begins with `Mut` are plausible mistakes in the operator they stand before.
Each property is shown to depend on the code by putting one of them in its place and finding the
property violated (`PROJECT.json`, "mutants").

### LeaseRecords

A session is idle, in a pipeline, in the middle of a resolve, or about to commit; each await that
separates a read from a write is a step boundary. `Handle` and `Reprocess` draw a run and read
what the code reads up front; `Exclude` and `Extract` are `_run_pipeline` after OCR and after the
model, including the completion message, which the code hands to the producer *before* the commit
(`events` is a bag, so that a message sent twice is two);
`PipelineFails` is the exception that rolls everything back, the `FAILED` status too. `Verify`
loads, checks the barrier and the status, and edits its copy. A resolve reads the item
(`ResolveLoad`) and then either decides the linked field (`ResolveOverride`) or enters one
(`ResolveEnter`). `Commit` writes each row's *changed* columns (`Merged`) into whatever the row is
by then; `SessionLost` is any rollback.

A document, run, field or item is named by what created it, instead of a random uuid. Confidences
are percentages; values, types, teams and users are model values. Timestamps, deal ids, model
versions, source locations and the text of a document have no influence on control and are left
out. `allowed_teams` never changes after ingest, so `Verify` reads document and field at once.

### ReviewDesk

`Others` is any session of `LeaseRecords`. An upload is `Upload` (an event made up for the file, whose
team alone is allowed), `UploadRuns` (the pipeline on the PDF's text layer, its completion message
discarded), `UploadFails` or `UploadCommits`, and then `ReadFields` and `ReadQueue`, two statements
under READ COMMITTED of which the answer is made. `UploadBreaks` ends it with a 500 anywhere (a commit
that raises, a commit whose answer is lost, a read that fails after it), `UploadLost` without an
answer. `Seed` writes its fixed rows in one commit. `ShowQueue` is the list of a team's queue; `reply`
is the answer a step sends, looked at and gone before the next step. `owner` is `team_id`, which
decides whose queue an item is in and need not be among the allowed teams. The audit line of an
administrator's crossing and the lists of fields and documents, which only restate a guard, are left
out.

### ProviderAnswers

A value is an object whose members hold tokens (a number, a number in quotes, null, a unit, another
string); `FieldValueSchemas` has the five models. `Answers` is any list of items, `ReadItem` keeps or
drops one, `ReadRaises` is the error of an unreadable item, which leaves `extract_fields` or, when it
opens Claude's breaker, reaches the failover, `FailOver` starts again with the secondary. The schemas
sent to the providers are objects' properties, required members and closedness.

### Intake

`worker` is where `run_once` stands. `Poll` takes a message (or `PollPoison` dies on one that is
no JSON, which the code parses outside its `try`), the handler ends in `Ignore`, `RunPipeline` and
`CommitTransaction`, or `HandlerFails`; `Raised` is the `except` branch: `Retry`, `Escalate` with its
dead letter and offset commit, or `EscalationRaises`, where a payload that is JSON but no object (kind
`bare`: a list, a string, null) fails once more in `payload.get` and ends the process before anything is
produced or committed. `Ack` is the asynchronous offset commit. The broker applies commit requests
in order or loses them, delivers produced messages or drops them, and a dead process leaves
neither. `TransactionFails` leaves open whether the rows are in the tables, as a lost answer does.
`stored` and `escalated` count the ends of a message, up to `Many`, one more than the faults can
account for.

### ExtractionPath

One document at a time, as the adapters block the process. `Scan` and `AskClaude` pass their
breaker (`Admits`, `Entered`), `Retry` is one more attempt inside the same breaker call, and
`ClaudeFails`, `OpenAiFails` and `ClaudeMalformed` are the failures the adapters translate and the
one they do not. `pybreaker` is modelled from how `circuit_breaker.py` configures and calls it.
A provider is up, down or erratic and may change at any moment.

### RateLimiter

`AcquireNow`, `AcquireSleeps` and `Wake` are the paths of `acquire`; the clock is discrete, a
sleep may end late, and `grants` records when each call returned.

### Idempotency

A request is looked up (`Replay` or `CallNext`), reads its row (`Load`), commits or is refused
(`Answer`), and its reply is stored and returned (`Respond`); every await in between is a step
boundary. `EndpointFails` is an exception before the commit, `AnswerLost` one after it: the effect
stands, the client gets a 500, and nothing is stored under the key. Each
replica has its own table; `Restart` empties it and fails what it was serving.
`Guarded` paths refuse a second effect (verify, resolve); others (`POST /baseline-measurements`)
act on every request. `acts`, `lost` and `overlapped` are history.

### Monitoring

`Decide` and `EnterByHand` stamp a decision, `Commit` makes it visible. `ComputeOverrideRate`
counts one period after the other over what is committed; `ComputeAccuracy` picks any of the rows
that match a sample, as `first()` without an order does, and `CheckForDrift` raises the alerts.

## 3. Runs and bounds

All passing runs are exhaustive.

| Run | Asks | Bounds, and why they are enough |
|---|---|---|
| `LeaseRecords_concurrent` | what holds of the tables whatever two sessions interleave | 2 sessions, 2 runs (two ingests, or an ingest and a reprocess), up to 2 answers each; confidences below and *at* the threshold 92, scans below and *at* the floor 60; one user, who is inside or outside the barrier as the document allows. Two sessions show every read-write race of two parties; each property speaks of at most two runs of a document |
| `LeaseRecords_serial` | what the code guarantees only while sessions do not overlap | 1 session, 2 runs, 2 types, 2 values, low confidence (both confidences are in the concurrent run) |
| `LeaseRecords_decision_overwritten` | that a decision is final | the smallest instance that shows it is not |
| `LeaseRecords_announced` | that an announced run is stored | one run; a session is lost between the message and the commit |
| `ReviewDesk` | what uploads, seeds and a team's queue answer beside everything that writes | 2 sessions, 2 runs of one answer each, so that an upload meets a reviewer, a reprocess or another ingest between any two of its steps; a confidence of 92, *at* the threshold of one type and below the other's, and a text layer or none; a caller of one team, an administrator of another, documents of both teams that allow only the first (`Barriers`), or only their own |
| `ProviderAnswers` | what is stored of an answer | up to 2 items, so that one stands before or after the one that is dropped or breaks the reading off; per type a good object and every object that differs from it in one member |
| `Intake` | where offset, tables and dead letters may stand after any two faults and two outages | 2 messages of every kind (a lease, another document, a lease event without its keys, JSON that is no object, no JSON), so that one can be lost behind another; 2 retries; 2 faults, so that a fault can meet the recovery from another |
| `Intake_poison` | that a message that cannot be handled is escalated | 2 messages, no faults |
| `ExtractionPath` | breakers, load, failover, recovery | 3 failures, 3 attempts, timeout 2: the code's attempts, and limits at which first, middle and last differ |
| `RateLimiter` | how many grants fit into a window of time | limit 2, window 3 ticks, 10 ticks: three windows |
| `Idempotency` | what a retry is protected from | 3 requests on 2 replicas, one key, a guarded and an unguarded endpoint, one restart: two requests overlap while a third replays or finds the replica changed, and two answers are lost one after the other before a third request acts again |
| `Monitoring` | what the rates count and when drift is alerted | 2 requests, 2 fields, 2 samples of one type (types do not interact), periods of 1 tick, clock 0-2: decisions stamped on a boundary and committed a period late; baselines 55 (an accuracy of 50% is *exactly* the margin below) and 100 |

Deadlock is checked for `ExtractionPath`, where documents keep coming. Elsewhere the bounded supply
of runs, messages, requests or time runs out and the system may rest.

Symmetry is used where no property is a liveness property and the permuted names are interchangeable
(sessions, runs, values; requests, replicas; fields, deciders).

## 4. Properties

`LeaseRecords`, whatever interleaves:
- `LowConfidenceIsQueued` - an undecided field under its threshold has a pending item, and no
  pipeline item asks about one at or above it (FR-005).
- `ResolvedItemIsBacked` - an item is RESOLVED only with a decision about its own document, also
  when two people resolve it at once.
- `DeciderInsideBarrier` - every decision is by someone whose team the document allows, although
  resolve checks the item's copy of the teams (FR-018).
- `ExcludedGoesToManualEntry` - an excluding run leaves one item and no fields (FR-013).
- `CommittedIsAnnounced` - every committed run has exactly one message, counted, naming what it left.

One session at a time only:
- `VerifiedIsTerminal`, `NoRequeueOfVerified` (FR-008), `StatusMatchesConfidence`, and the
  refinement `ImplementsLifecycle`.

`ReviewDesk`:
- `AutoPopulatedMetItsThreshold` - a field the upload reports as auto-populated has the confidence its
  type demands, although people resolve its item, and others reprocess the document, between the
  commit and the two reads.
- `QueueShowsWhatIsDue` - a team that lists its pending work is shown an item for every undecided
  field of low confidence in its documents, whoever wrote the field and whoever resolves beside it.
- `UploadIsWholeOrAbsent` - a 502 means that nothing of the upload is stored, although rows had been
  flushed; a 500 that nothing is or everything; an answer that everything is.
- `LowConfidenceIsQueued`, again, with seeds and uploads among the writers.

`ProviderAnswers`:
- `ConformingAnswersAreKept` - a model that keeps to the schema it was sent causes no error and loses
  no value: the schema, the validators and the loops agree.
- `OnlyUnusableItemsAreDropped` - an invalid item is dropped alone, wherever it stands.
- `OneAnswerOnly` - the fields of a document stem from one provider, also when the first one's
  reading broke off half way.
- `ValuesHaveTheirShape` - whoever answered, a stored value has its type's members and values.

`Intake`:
- `SettledBelowOffset` - the committed offset never passes a message that was neither stored nor
  escalated, whatever crashes (FR-010).
- `RepeatsNeedFaults` - a message becomes one document or one dead letter, and one more for each
  fault at most, whatever crash or lost commit has it handled again; before the first fault the
  message that says so has been sent. Every message is a JSON object here: beside one that is not,
  the process ends without a fault, and a message whose offset commit was still in flight is
  handled again.
- `EveryMessageSettles` - liveness: each message comes to an end, unless it or one before it is no
  JSON object.
- `EscalationIsDelivered` - liveness: the dead letter of an escalated message reaches its topic,
  unless there was a fault or a message behind it is no JSON object; both end the process, or lose the
  letter, while it is still in the producer's queue. Nothing in the repository subscribes to the
  topic, so the property stops there.

`ExtractionPath`:
- `BreakersAreIndependent` - a breaker is closed exactly while fewer than `FailMax` calls in a row
  to its own provider failed (FR-011).
- `LoadOnAFailingProvider` - how many requests a silent provider gets before, while and after its
  breaker opens, retries included.
- `UnavailableMeansBothFailed` - a document is given up only if both model providers failed it.
- `SecondarySuffices` - liveness: once Textract and OpenAI answer for good, documents stop failing.

`RateLimiter`: `TwiceTheLimitPerWindow`.

`Idempotency`:
- `OnlyLostAnswersActAgain` - a client that retries one request at a time is acted for at most once more,
  during its replica's life, than answers were lost after their commit; at most once in any case
  where the endpoint looks at its row (verify, resolve).
- `RepliesAreOfTheirKey` - a reply is of a completed request of the same path and key.
- `QuietKeyIsSettled` - a stored reply is replaced only while requests of its key overlap.

`Monitoring`:
- `CountedInOnePeriod`, `PunctualIsCounted` - a decision is in at most one period's rate, and in
  the right one if it was committed before the period ended (FR-016).
- `AlertsFollowTheRows` - an alert is raised whenever no choice of rows brings a type within its
  margin, and never when every choice does (FR-015).

Each module has one type invariant, `TypeOK` (`DeskTypeOK` in `ReviewDesk`).

## 5. Fairness

Only two runs of liveness need it.

- `Intake`: weak fairness of `RunOnce` (`run_forever` is `while True`), of `Restart` (the platform
  restarts a dead consumer), of `ApplyCommit` and `Deliver` (the client's background thread), and of
  `OutageEnds` (an outage that never ends is not what FR-012 and the quickstart speak of).
  No fairness of any fault. The bound on faults stands for "eventually the process lives long
  enough"; a consumer that always crashes settles nothing.
- `ExtractionPath`: weak fairness of `Tick` (time passes) and of `Step` (a request ends: the SDK
  clients time out; documents keep coming). None of a provider's recovery: that is the property's
  premise.

## 6. What the models show that the documents do not say

Three runs end in the counterexample they are expected to find; `PROJECT.json` quotes the lines.

1. A decided field can be overwritten by a request that loaded it earlier, column by column, so
   that one person's confirmation may keep another's value (`VerifiedIsTerminal`).
2. A completion message is handed to the producer before the commit, and stands when the commit
   fails: it tells its receivers of values that are not there (`AnnouncedIsStored`).
3. A payload that is not JSON stops the partition for good (`FailuresAreEscalated`).

Others were met on the way and have no run of their own:

- A payload that is JSON but no object stops the partition as well: `payload.get` at
  `consumers/base.py:112` raises inside the `except` branch that would escalate it.
- An endpoint that commits and then fails answers 500, which the middleware does not store, so that a
  retry of `POST /baseline-measurements` or of an upload acts again, against
  `idempotency.py:4-6`; `OnlyLostAnswersActAgain` counts these.
- The schema sent to OpenAI does not list the optional dates of a lease term among the required
  members, which the strict mode named at `extraction/field_schemas.py:121-124` demands of every object.
- A field decided during a reprocess is extracted and queued again, against `quickstart.md:34-35` and
  `consumers/document_uploaded_consumer.py:93-94`; `NoRequeueOfVerified` is therefore a serial
  property.
- Verifying a queued field directly leaves its item pending, and every resolve of it answers 409
  (`api/review_queue.py:94-95`), against SC-004 of `spec.md:203`.
- Retries without a pause turn an outage into dead letters, which nothing in the repository reads
  again, against `quickstart.md:50-51`.
- `data-model.md:75` lets no view, an administrator's included, show rows of a document whose allowed
  teams do not contain the caller's; the code lets an administrator cross with a line in the log,
  and shows every team the queue items it owns, also where `allowed_teams` leaves that team out
  (`spec.md:172-174` and `api.md:13` name no crossing either). This is a matter of one guard, and
  read, not run.
- An upload is never announced (`_NullProducer`), and its answer calls a document "no valid lease"
  both when nothing was found and when the text could not be read.
- The rate limiter admits up to twice its limit within a minute (`events.md:72-73` promises the
  limit); a limit of zero still admits one document per window.
- The offset is committed while the dead letter is still in the producer's queue
  (`consumers/base.py:109-118`): a failed delivery, a crash or a message behind it that is no JSON
  object loses the escalation; the provisos of `EscalationIsDelivered` are these.
- A `FAILED` run is neither stored nor announced, against `events.md:29`.
- A redelivered event inserts a second document; nothing reads `sha256`, the "dedup check" of
  `data-model.md:18`.
- Two racing reprocesses can leave a document whose status comes from one run and whose confidence
  from the other; `StatusMatchesConfidence` is therefore a serial property.
- An unreadable item in Claude's answer leaves the failover with the secondary unasked, against
  `extraction/failover.py:118`, and counts as a failure of a healthy provider.
- Overlapping requests of one key both run the endpoint, and a restart or another replica forgets
  the key, against `idempotency.py:5-6`.
- A value entered by hand, where nothing was suggested, counts as an override in the rate that
  FR-016 defines over suggested values; a decision that commits after its period's job ran is in no
  rate; and the accuracy of a model version is measured over rows of any version, after people have
  corrected them.

## 7. Proofs

Checked by TLAPS for every value of the constants that satisfies the named `ASSUME`s.

| Theorem | States |
|---|---|
| `LeaseRecordsProofs!TablesStand`, `!RecordsAreTyped`, `!ResolutionsAreBacked` | `LowConfidenceIsQueued`, `TypeOK`, `ResolvedItemIsBacked` |
| `LeaseRecordsProofs!BarrierHolds` | `DeciderInsideBarrier` |
| `LeaseRecordsProofs!RunsAreAnnounced`, `!ExclusionsAreEnteredByHand` | `CommittedIsAnnounced`, `ExcludedGoesToManualEntry` |
| `LeaseRecordsProofs!DecisionsAreFinal`, `!ReprocessLeavesDecisions`, `!StatusFollowsTheScan` | while sessions do not overlap: `VerifiedIsTerminal`, `NoRequeueOfVerified`, `StatusMatchesConfidence` |
| `LeaseRecordsProofs!TablesImplementLifecycle`, `!OneSessionSuffices` | while sessions do not overlap: the refinement `ImplementsLifecycle`; all four for a single session |
| `ReviewDeskProofs!DeskStaysTyped`, `!DeskQueuesWhatIsLow` | `DeskTypeOK`, and `LowConfidenceIsQueued` with seeds and uploads |
| `ReviewDeskProofs!AnswersMetTheirThreshold`, `!ListsShowWhatIsDue`, `!UploadsAreWholeOrAbsent` | `AutoPopulatedMetItsThreshold`, `QueueShowsWhatIsDue`, `UploadIsWholeOrAbsent` |
| `ProviderAnswersProofs!AnswersAreShaped`, `!AnswersAreNotMixed`, `!ReadingsAreTyped` | `ValuesHaveTheirShape`, `OneAnswerOnly`, `TypeOK` |
| `ProviderAnswersProofs!UsableItemsAreKept`, `!SchemasFitTheReading` | `OnlyUnusableItemsAreDropped`, `ConformingAnswersAreKept` |
| `IntakeProofs!OffsetsAreSettled`, `!IntakeIsTyped`, `!RepeatsAreFaults` | `SettledBelowOffset`, `TypeOK`, `RepeatsNeedFaults` |
| `ExtractionPathProofs!CallsAreBounded`, `!BreakersStandApart`, `!GivenUpAfterBoth`, `!PathIsTyped` | `LoadOnAFailingProvider`, `BreakersAreIndependent`, `UnavailableMeansBothFailed`, `TypeOK` |
| `RateLimiterProofs!LimiterBound`, `!LimiterIsTyped`, `!WindowsStayApart` | `TwiceTheLimitPerWindow`, `TypeOK`, the invariant `WindowsAreApart` |
| `IdempotencyProofs!RetriesActOnLostAnswers`, `!RepliesAreMatched`, `!MiddlewareIsTyped` | `OnlyLostAnswersActAgain`, `RepliesAreOfTheirKey`, `TypeOK` |
| `IdempotencyProofs!QuietKeysStaySettled` | the action property `QuietKeyIsSettled` |
| `MonitoringProofs!TablesAreTyped`, `!NothingIsCountedTwice`, `!NothingPunctualIsMissed` | `TypeOK`, `CountedInOnePeriod`, `PunctualIsCounted` |
| `MonitoringProofs!DriftIsAlerted` | the action property `AlertsFollowTheRows` |

Every safety property and every action property of a passing run has its theorem. Each follows the
same plan: an invariant that is inductive and implies the property, a lemma that `Init`
establishes it, one lemma or step per action that preserves it, and PTL for the temporal
conclusion. TLC checked each of these invariants on the runs' instances first.

- **Tables.** `LowConfidenceIsQueued` speaks of committed rows, but a commit writes what a session
  prepared long before. `IInv` says what every session carries: a run's identifier is drawn once;
  a pipeline prepares an item exactly for its low fields; a field is changed only to decide it; and
  a prepared resolution closes a pending item together with the decision of its field. Last-writer-
  wins commits keep it because no two sessions ever prepare different *documents* or *types* for
  one row, and every write of a status is a decision. `FlushedRow` and the `Merged...` lemmas say
  what the column-wise update leaves.
- **Barrier.** `BarrierInv`, beside `IInv`: each item carries its document's teams, and whoever a
  prepared write names passed them.
- **Announcements.** `AnnouncedInv`, beside the other two. The message precedes the commit, so it is
  compared with what the session *will* insert (`Tells`); no session writes another run's rows
  except to decide them, so the comparison survives every other commit. A running pipeline has said
  nothing (`NothingIsSaid`), and an exclusion carries its item and no field (`ExcludesOnly`), also
  after somebody has answered that item by hand.
- **One at a time.** The serial properties are false when sessions overlap (section 6), so their
  theorems assume `[]Serial`: at any moment at most one session is at work. This says nothing of
  how many sessions there are or in which order they follow each other, and it is no assumption with
  one session (`OneSessionSuffices`, the instance of `LeaseRecords_serial`). `SerialInv` then says
  that whatever a session has loaded is still what the tables hold, so that a commit is one of three
  transactions: a run's proposals, one decision, one value entered by hand (`ProposesOnly`,
  `DecidesOne`, `EntersOne`). `LedgerStep` maps each to a step of `FieldLifecycle`, and every other
  step to a stutter.
- **Desk.** `IInv` is false here: a seed writes fields and an item of a run that has no row in
  `extraction_runs`. `RowsInv` keeps what seeds share with pipelines: a name that is not in the
  tables is in one session's hands (`NamesArePrivate`), a low field has the item of its own key, and
  that item is resolved only with the field decided. `DeskInv` adds the upload's call: until it
  commits its run is its own and in no table, and the rows it read keep the document and the
  confidence they had, whatever others decide of them. `UploadInv` adds what an upload's rows and
  its swallowed message say of each other: until the commit the run's rows are the session's alone
  and match the message (`TellsRun`); after it no session adds a row of that run or takes one away,
  so what was whole stays whole. A team's queue is complete because an item carries its
  document, and `RowsInv` has a pending item for every low field that is undecided.
- **Answers.** `IInv` types the sequences and says that nothing has been read while a provider is
  asked; `ValidatedIsShaped` is the lemma about `validate_field_value`, for any object and model.
  That nothing usable is lost is stated by positions (`ResultsAreOf`): an increasing map from the
  results onto the usable items read so far, which one more item extends at its end
  (`OneMoreRead`). `SchemasFitTheReading` adds that an item that keeps to the schema raises nothing
  and passes the validators.
- **Intake.** `OffsetsAreSafe`: every requested commit, applied or in flight, lies above settled
  messages only, and so does the position but for the message in hand. `EndsInv`: where the end of a
  message may still come once more (ahead of the position, in hand before the transaction commits,
  and anywhere while the process is down) it has come to no more ends than there were faults; every
  step that sends the position back, or has the handler run again after its effect, is one.
- **Extraction path.** `LoadIsCounted` ties the requests a provider has seen to its breaker's
  failure counter and the attempt of the current call; `SecondaryIsLast` says why Claude was
  passed over when OpenAI is being asked.
- **Limiter.** `WindowsAreApart`: all but the last `Limit` grants before this window lie at or
  before the start of the one that preceded it.
- **Idempotency.** `KeyStands`: where requests of a key have not overlapped, at most one runs, none
  once a reply is stored, and an effect is followed by its answer, its reply or the loss of both;
  `GuardStands`: an endpoint that looks at its row and has acted finds that it has. `QuietStep` goes
  through the actions: only a request that runs stores or acts, and one that finds a reply replays it.
- **Monitoring.** `CountsStand` ties what was counted to the time stamped on the row, `PeriodsEnded`
  says that no period is counted before it ended, and `DecidesOnce` that a request decides one row.
  `DriftIsAlerted` compares the number of samples the job found right with those of the best and
  the worst choice of rows. It needs a positive margin (the code's is 0.05): the model leaves a drop
  of *exactly* the margin to the rounding of the floats, and with a margin of zero every type
  without a baseline would be there, being measured against its own accuracy.

Model-checked only: the liveness properties `EveryMessageSettles`, `EscalationIsDelivered` (`Intake`)
and `SecondarySuffices` (`ExtractionPath`), because fairness is stated with ENABLED, which the
prover does not treat. The three expected violations are counterexamples, which need no proof.

## 8. Not modelled

- The metrics endpoints read only; `POST /baseline-measurements` is one insert (it appears as the
  unguarded endpoint of `Idempotency`).
- Prompts, the best-effort summary of an uploaded document, file parsing and the wording of errors.
- Settings are constants of the modules. Wiring, migrations, the static page and the `.specify`
  scripts hold no state of the running service.
- A rebalance that gives a partition to a second process while the first still handles a message:
  its outcome, a second document, is the redelivery of `Intake`.
- The live intake has no process of its own in the repository; it would be `RetryingConsumer`
  around `DocumentUploadedConsumer`, which `Intake` models through the backfill processor.
- `dead_letter_consumer.py` only logs what it is given, and nothing in the repository subscribes it to
  the topic.

## 9. Plan

Order of construction: tables and sessions first (the data people rely on), then intake, extraction
path, limiter, middleware, monitoring; then the endpoints beside the tables, and the reading of
answers. These are done. Next:

1. Proofs: every safety and action property has its theorem; what is left is to carry the barrier
   and the backing of resolutions (`DeciderInsideBarrier`, `ResolvedItemIsBacked`) over to
   `DeskSpec`, where seeds break `IInv`, and to state for it which of them seeds keep.
2. `Intake` composed with the breakers of `ExtractionPath`: an outage seen through an open breaker,
   retries that are rejected at once, and what a dead letter then means.
3. Several types in `Monitoring`; override rate over the fields of `LeaseRecords` itself.
