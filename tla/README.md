# Formal models of macro-data-platform

TLA+ modules, TLC configurations and TLAPS proofs about the durable workflow of
the platform: a daily bundle of ingestion tasks, a report made from what they
stored, its delivery to a Feishu chat, and the recovery of each stage after
failures, restarts and overlapping processes.

## The system

One worker process (`macro-data-worker`) runs a schedule loop. Once a day it
takes a PostgreSQL advisory lock for the report date, runs the registered
ingestion tasks one after another, freezes their stored facts into an input
snapshot, passes it through a quality gate, generates and validates a report,
and delivers it. A FastAPI process serves reads and one protected write: the
manual recovery of a delivery. The two processes, and two workers if one is
restarted or loses its lock, meet in PostgreSQL only. Every transition is one
conditional statement (`INSERT ... ON CONFLICT`, `UPDATE ... WHERE status = ...
AND attempt_no = ...`), so that what makes the system right is the set of WHERE
clauses and the order of the transactions around the calls to the outside.

| Component | State | Operations | Hard part |
|---|---|---|---|
| Schedule loop (`jobs/scheduled_runtime.py`) | finished dates, attempts and next attempt per date, in memory | run a date, back off, give up | `locked` and `retryable` share a budget; a restart forgets it |
| Worker (`jobs/scheduled_worker.py`) | advisory lock on a session | `run_for_date`, task retries, backfill | the lock goes with its connection, the work does not |
| Task checkpoint (`jobs/scheduled_tasks.py`) | `scheduled_task_checkpoints` | `begin_or_load`, `advance` | a reclaimed task's old worker goes on; pages must count once |
| Run (`jobs/runner.py`) | `provider_runs`, a heartbeat task | `execute`: acquire, wait, reclaim, renew, complete, fail | leases, late owners, waiting calls |
| Handlers (`jobs/*_ingestion.py`) | none of their own | `run_checkpointed`: fetch a page, record its rejections, commit it | the order of their transactions; recovery from a cursor that no longer fits |
| Provider adapters (`providers/`) | a signed cursor that travels with the task | fetch a page | the source changes between two pages, and between two requests of one page |
| Page commits (`jobs/ingestion_checkpoint.py`) | `ingest_page_commits`, `job_watermarks` | `commit_page`, recover a cursor | not fenced by the run lease |
| Facts (`storage/repositories.py`) | normalized tables | upserts by checksum, reads as of a date | revisions, point-in-time reads |
| Evidence, materializer and quality gate (`services/report_input_*.py`) | `report_input_snapshots` | collect, materialize, evaluate | versions that other dates wrote; freshness, lateness, quarantine |
| Day policy (`services/report_day_policy.py`) | none | which markets a date needs | applied twice, before the snapshot and at the gate |
| Report generation and validation (`services/report_generator.py`, `report_validation.py`) | generation attempts, `daily_reports` | `generate`, validate | crash between attempt and report |
| Daily workflow (`services/daily_workflow.py`) | none of its own | `complete`, alerts | each stage fails closed into an alert |
| Alerts (`services/workflow_alerts.py`) | `workflow_alert_attempts` | `deliver` | as delivery; and a request compared with the stored one |
| Archive monitor (`jobs/archive_monitor.py`) | none; the same alert table | one probe | the exit code is the only answer |
| Operations view (`services/workflow_operations.py`) | none | `load` | one status from the rows of four tables |
| Delivery (`services/report_delivery.py`) | `delivery_attempts` | `deliver`, `retry` | unknown outcomes, racing resumes |
| Delivery recovery (`services/delivery_recovery.py`) | `delivery_operator_actions` | `retry` | repeated request IDs, crash after the send |

Normalization, record contracts, the read-only API and the host-side data center
parse, convert and copy data. They are listed in `PROJECT.json` as not modelled.

How the modules divide this: `PagedIngestion` (with `ProviderPages`, `BarPages`,
`LivePages`) is a provider, its pages and the handlers; `IngestionRun` is the
durable run around one page, `TaskCheckpoint` the pages of one task,
`FactVersions` one stored fact; `ReportSchedule` (with `ReportInputs`) is the
bundle, the dates and the inputs of a report; `ReportDay` is one date from the
snapshot to the chat, `ReportDelivery` and `DeliveryRecovery` its delivery, and
`WorkflowAlerts` what happens when it ends otherwise.

## What is modelled

### Delivery: `ReportDelivery`

The module follows the one `delivery_attempts` row of a report and a chat.
Callers are automatic senders (`deliver`) and operators (`retry`). Every
statement of `ReportRepository` is an action of its own; its WHERE clause is an
operator of its own (`ReserveMatches`, `UpdateMatches`, `ResumeMatches`,
`AuthorizeMatches`). `attempt[c]` is the caller's in-memory copy of the row,
which `_resume_retry` counts on by itself: this is where the copies and the row
can part. The transport gives one of four answers; the chat (external) may or
may not show a card after an unknown one. A crash, or the cancellation of the
request, may fall between any two statements. `waived` remembers that an
operator declared absent a report that was there; it is a history variable.

`AtMostOnceDelivery` states what this amounts to without rows and attempts, and
`KeepsPromise` that `ReportDelivery` implements it: `failed` and `retry_wait`
are read as known absence, `uncertain` as ignorance.

### Recovery: `DeliveryRecovery`

The audited operator action around the manual retry, composed with
`ReportDelivery` (whose statements it executes inside `Retrying`). Clients
repeat request IDs, calls die at every step, and a replay reconciles a pending
action from the row.

### The durable run: `IngestionRun`

The `provider_runs` row of one request and the calls of `JobRunner.execute` for
it. `succeeded` stands for `succeeded` and `partial` (both are replayed),
`failed` for `failed` and `retry_wait` (both are recovered). The statements of a
waiting round are separate actions, for each has its own snapshot. Time is a
countdown in the lease and in the patience of waiting calls. The heartbeat renews
whenever it likes or never: a stalled process loses its lease while it works.
`RunOnce` is the promise: one decision, and every returned result is that one.

### A task's checkpoint: `TaskCheckpoint`

The `scheduled_task_checkpoints` row of one task and date and the calls of
`CheckpointedScheduledTask.run`: `BeginOrLoad` inserts the row, takes it over
with the next epoch or returns a completed one; `Execute` and `Advance` are the
two transactions of a page, and a call may die or lose its lease between them.
Several calls overlap when the date lock is lost with its connection. The
runner is not modelled again; it enters by its promise (`RunOnce`): a request,
known by its `request_as_of` and cursor, has one result for whoever asks. A new
call has a clock of its own but asks with the `request_as_of` of the row, which
is why a replayed page meets the old run. `retryable` and `failed` calls end;
the retry is another call. A cursor is the page it leads to and is assumed to
lead on: `run` does not check that, the adapters see to it, and `PagesLeadOn` of
`PagedIngestion`, which is proved, is the property that they do.

### A report date: `ReportDay`

Workers run one date from the schedule to the chat: the loop's budget
(`TryAgain`), the advisory lock (`Start`, `Release`), the bundle by its result
(`Ingest`), `DailyReportWorkflow.complete` with generation and validation as the
separate transactions they are (`ReserveGeneration`, `Draft`, `Validate`,
`RecordGeneration`, or `FallBack`), the delivery by its outcomes (`Deliver`,
`Send`) and the alert every other exit ends in. The lock is a variable that
`LoseLock` empties while its owner works on; the owner finds out at `Release`,
where `pg_advisory_unlock` raises and ends the process. `Die` may come at any
label, and `Restart` forgets the loop's memory. `validated` stands for validated
with the decision to publish. `alerts` are the stages for which the alert
delivery was called: what becomes of the alert is the matter of
`WorkflowAlerts`.

### The versions of a fact: `FactVersions`

One daily bar or one entry of a release calendar, in its row and its revisions.
Facts share no row, constraint or comparison, so one stands for all. `source`
says what the provider would answer at each time and may change at will; a run
fetches (`Fetch`), upserts in its page's transaction (`Write`) and commits or
rolls back. `Write` is one action though an upsert is up to three statements:
the comparison is made by one of them, and a conflict found later by the last
only drops a row that an equal one replaces. Uncommitted rows are seen by
nobody, but an insert waits for one of the same unique key (`Waits`). A bar is
compared with its newest version, a release with its own row only. `ReadAsOf` is
the read of `list_bars` and `list_macro_releases`; `EvidenceAsOf` that of a
report, which prefers its own runs' versions. `overtaken` is a history variable:
some run committed after one that fetched later had already made its comparison.

Two departures from "a read is given what was last fetched" are in the code and
in the property. A release whose source goes back to an earlier content is not
stored again, for it is compared with the first row and its revisions are unique
by content; a bar is. And where a run was overtaken nothing is claimed. News and
macro observations, which are inserted once, and market observations, which are
overwritten in place, are not in the module.

### Pages of a provider: `ProviderPages`, `BarPages`, `LivePages`, `PagedIngestion`

An adapter asks the provider for everything the query covers, orders it, and
cuts a page at the place that its cursor names. The cursor carries a checksum of
the whole snapshot and the item before the place, so that a source that changed
between two pages is noticed. `ProviderPages` has what the adapters share (the
order, the cut, the cursor); `BarPages` the three bar adapters, which ask one
instrument after another or all at once and put bad rows into quarantine;
`LivePages` the five over `LiveHttpProvider`, of which the HKMA's assembles a
list from several upstream pages by offset and the calendars read one document
for each year or source. A checksum is the content it covers, HTTP and parsing
are the record's `fault` and the document's `drift`.

`PagedIngestion` lets the source change at every step (records published,
withdrawn, corrected, spoiled or repeated; documents out of shape) while
workers fetch, request by request, and while the handlers go through their
transactions: `Ask`, `Reject` for each rejection, `Commit` (reservation, facts and
watermark together), `Complete`. A worker whose lease lapsed goes on at its page
beside its successor, tasks of two dates share one watermark row, and Twelve
Data's handler recovers from a refused cursor at the cursor of that row
(`Recover`). The run and the checkpoint are taken at their promises. The kinds
of handler are named actions, each over its adapters.

### The schedule and the inputs: `ReportInputs`, `ReportSchedule`

`ReportInputs` has no state: it is the way from stored facts and task results to
the decision about a report. `AsOf` and the readers above it are the queries of
`report_input_evidence_queries.py` (the preferred version of each fact at a
time); `Collect` gives each input its evidence (a task's problem first, then
missing, late, stale, revised); `Policy` and `ApplyPolicy` take the closed
markets out; `Snapshot` drops what came after the cutoff; `Issues` and `Quality`
are the gate, which derives the policy again; `Combined` is the bundle's status.

`ReportSchedule` runs dates by a clock. The resident process polls (`Poll`), an
operator's process runs a date or a backfill (`Operate`); each goes through the
bundle (`RunTask`, `FailTask`, `Replay` of a completed checkpoint), waits for the
cutoff, materializes, and delivers, blocks or postpones. Providers correct,
spoil and mend items (`Amend`): an unsound bar is put into quarantine, any other
unsound record fails its task; a task's attempt that fails may leave its
rejections behind (`Interrupt`), and they count when the same run is taken up
again. A process that dies gives its lock back and, if it is the resident one,
forgets its attempts. The report of a snapshot is written in one step here:
`ReportDay` has what may happen in between, and a task is one page:
`PagedIngestion` has the rest.

### Alerts, the archive monitor and the view: `WorkflowAlerts`

One row of `workflow_alert_attempts` for each condition, and every statement on
it an action, as in `ReportDelivery`. There is no operator's retry here, but there
is `CompareRequest`: a reservation that meets a stored request with another
payload raises. A worker's payload names the provider runs of its bundle, the
monitor's the percentage to two places. `Outcome` is what each caller makes of
the result: the worker reports it with its blocked date, the monitor exits green
or red. `day` and `delivery` are the other rows of the date as far as the
operations view reads them, and `OperationalStatus` is that view: the newest row
of deliveries and alerts decides, then the workflow's progress.

Next to some definitions stand variants that no action uses (`TakenOverAfresh`
beside `TakenOver`, `Unfinished` beside `Reservable`): mistakes one could make
there. With a variant in the definition's place a property fails, which shows
that the property depends on that very condition. `mutants` in `PROJECT.json`
pairs each property with its variant.

## Runs

| Run | Instance | Shows |
|---|---|---|
| `report_delivery` | 2 senders, 1 operator, budgets 2 and 3 | one send at a time, no unvouched duplicate, a truthful row, finality, termination, refinement of the promise |
| `delivery_recovery` | 1 sender, 2 operators, 2 request IDs, budgets 1 and 3, symmetric operators and IDs | one send per request ID, truthful and final actions |
| `ingestion_run` | 3 calls, 1 page version, lease 2, wait 1 | fencing, one result for all, no endless wait, no endless lease |
| `task_checkpoint` | 3 calls, 3 pages | pages in order and once, one run for each, counters that match, no lost progress, termination |
| `report_day` | 2 workers, budget 2, 2 mishaps | one writer, one sender, only validated reports sent, final verdicts, no silent day, every worker gets through |
| `fact_versions` | 3 runs, 3 contents, times 0 to 3, window 2 | no look-ahead, settled answers stay, the newest answer and the report's evidence are what the last run saw |
| `paged_ingestion` | every adapter on one date with one change of its source and one mishap; Twelve Data on two dates with two changes; the HKMA with three | nothing skipped before a cursor, whole snapshots, pages that lead on, rejections on record, termination with a quiet source |
| `report_schedule` | a resident and an operator's process, 4 tasks, a session day and a holiday, an operator's dates one of them or one the calendar does not cover, any 2 unplanned events | grounded reports, closed markets that block nothing, no date given up in silence |
| `workflow_alerts` | 2 workers, 1 probe, 2 calls, 3 attempts, a warning and a critical reading, and one that fails | one card per condition, answers that are so, a blocked date that shows |
| `repaired_backfill` | the same, up to the evening of the session day, the operator's dates the two days, 3 events | violated: a repaired date is reported by its backfill |
| `monday_report` | Friday to Monday, nothing unplanned | violated: a report every day |
| `repeated_warning` | 1 worker, 1 probe, readings a hundredth apart | violated: a warning already sent leaves the probe green |

The violated properties are statements of the repository's documents; the
findings in `PROJECT.json` quote them and say how the code departs from them.

The type invariants (`TypeOK`, `RTypeOK`) are not among the runs' properties; the
proofs use and establish them.

Bounds. Two senders and an operator are the least with which two automatic
callers race each other and a manual one; the budgets 2 and 3 leave one
automatic and one manual retry, so every exit of the retry loop is taken. In
`delivery_recovery` two operators suffice to replay a request while its first
call runs and two requests to interleave their retries. Three calls on a run
are an owner, its successor and a witness that replays or waits. Lease 2 and
wait 1 keep the order of the defaults (60 s and 30 s). Three calls of a task are a worker, one that
takes over and one that takes over from that; three pages are a first, a middle
and a last one, and every call may find fewer. In `report_day` budget 2 has an
attempt that is repeated and one that is the last, and two mishaps let the lock
be lost (so that both workers run) and one of them die, or one die twice.
In `fact_versions` three runs are the A, B, A of a reverted content,
or two that overlap and one that finds nothing new; with three contents a
source may move on, return, or leave the window; times 0 to 3 give each run a
fetch of its own and leave a moment after the last. In `paged_ingestion` a page
has one item, so that lists of three have pages first, middle and last, and a
change can fall between any two pages or upstream requests; one change and one
mishap are a source that moves while a worker is replaced. Two dates, with a
change and one that takes it back, are the case in which the watermark row holds
another date's cursor when Twelve Data recovers. Three changes of the HKMA's list
can put a release in front, withdraw one behind and take the datasize away. In `report_schedule` a day has
two ticks, before the cutoff and after; two events are a death in the middle of
an operator's run, a failure and the run that repeats it, or a correction that a
second collection reads. Two sessions precede the session day, so that a bar put
into quarantine may be the one the report expects or an older one of its window,
which leaves a snapshot that only the count of rejections blocks. The market, news and calendar tasks are the three kinds
of input, the supplemental one the kind that is none. Two calls in
`workflow_alerts` are two overlapping alerts of one condition, an alert and a
probe, or one that takes up what another left; equal payloads and different ones
both occur. The third attempt is the first in which a second caller can have
overtaken the one that sends.
`MaxMishaps`, `LastTime`, `changes`, `mishaps`, `MaxEvents`, `FirstTick`,
`LastTick`, `Asked` and `MaxCalls` are bounds of the model; the other constants are
parameters of the code.

Fairness. In `ReportDelivery` a started coroutine is scheduled again until it
returns or dies; nobody has to call. In `IngestionRun` time passes and the
runner's own statements are executed; the handler (a provider) may hang and a
heartbeat may stall. In `TaskCheckpoint` a started call is executed: the
runner's wait, its lease and the HTTP client's timeouts bound a page. In
`ReportDay` a living worker goes on, since every call to the outside has a
timeout (the providers', `asyncio.wait_for` around the model, the transport's),
and a dead worker is restarted (it is a Deployment, so its pods are). Nothing asks
that a worker ever gets the lock: `WorkersFinish` holds because a locked result
uses up the budget. In `PagedIngestion` a handler at work goes on, and the schedule
comes back to a date with an open task again and again though others are in
hand (strong fairness of `Begin` for each date): an operator backfills it, the
loop polls it. `QuietSourceCompletes` then asks only that the source can be read
from some time on, at the task's cursor; it fails if a recovery, a lapse or another
date's page may leave the task where no page is served. `DeliveryRecovery`, `FactVersions`, `ReportSchedule` and `WorkflowAlerts`
state no liveness: nobody has to run a date a second time or to raise an alert,
and that the loop gets through with a date is `WorkersFinish` of `ReportDay`.

`CHECK_DEADLOCK FALSE` where calls run once or a date is done and the system
stops, or where the model's clock and its bounded events run out:
`ingestion_run`, `task_checkpoint`, `report_day`, `fact_versions`,
`paged_ingestion`, and all runs of `ReportSchedule` and of `WorkflowAlerts`.

## Departures from the documents

Three are runs with a finding: `repaired_backfill`, `monday_report` and
`repeated_warning`. The models show these as well, and no run keeps them:

- A delivery row can stay pending though nobody died: a back-off that overlaps an
  operator's retry moves the row past both callers' copies
  (`storage/repositories.py:1417`, `ResumeRetry`), against
  `docs/feishu-delivery.md:25-26`.
- `confirmed_not_delivered` authorises whatever attempt the retry finds, not the
  one the operator inspected (`services/delivery_recovery.py:206`,
  `LoadForRetry`), against `docs/runbooks/scheduled-ingestion-worker.md:99-100`.
- A worker restarted after a crash waits 30 s for a lease of 60 s and gives up
  (`jobs/runner.py:187`, `IngestionRun`), against the docstring at line 158.
- A death between the generation attempt and its report leaves an attempt that
  nobody takes up (`services/report_generator.py:238`, `ReserveGeneration`),
  against `docs/adr/0002-daily-report-storage-idempotency.md:35`.
- A release moved into the calendar's window is missing from the report: the
  window is applied to the first version's schedule
  (`services/report_input_evidence_queries.py:203`), against
  `docs/adr/0013-hk-us-official-release-calendars.md:38` and `46`. The release
  reader of `ReportInputs` keeps the day of a release fixed.
- A worker whose run was taken over moves the watermark back
  (`jobs/ingestion_checkpoint.py:105`, `Commit` of `PagedIngestion`), against
  `docs/ENGINEERING_SPEC_ZH.md:1486`. No record is skipped for it:
  `StoredUpToCursor`, `QuietSourceCompletes`.
- A caller that resumes an alert's row with a copy the row has left behind sends
  its third attempt and records the outcome on a row that no longer matches: the
  card is in the chat, the row stays pending for ever
  (`services/workflow_alerts.py:148`, `404-419`; `ResumeMatches`, `Overtaken`), against
  `docs/feishu-delivery.md:38`. `BlockedDateShows` leaves this case out by name.
- HKMA answers without a datasize are not compared with one another
  (`providers/hk/live.py:520`, `HkmaFault`), so that a list that moved under the
  offsets is put together with a gap; and a release that is listed anew in front
  while an older one is withdrawn may be passed over although every answer has the
  same datasize. `AssembledWhole` speaks of reported sizes and of releases listed
  once.

## Proofs

All proofs are for any sets of callers and workers and any budgets, pages,
durations, calendars, windows and bounds. Assumed are only the named assumptions
on the constants. Most are the checks of the constructors: budgets and durations
at least one, a page limit of at least one (`LimitAssumption`), an upstream page of
at least one record (`UpstreamAssumption`), a collection that starts before its
cutoff (`ScheduleAssumption`). The others say what kind of thing a constant is:
senders and operators are different callers, dates are positive and their windows
not empty, a provider's first source is a sequence of documents with rows, one at
least for each that the adapter asks for (`DatesAssumption`), the bundle is the
registered tasks (`BundleAssumption`), there is an instrument and a calendar
(`InputAssumption`). TLC evaluates all of them in the runs.

`DeliveryProofs`. The inductive invariant `IInv` adds two facts to the
checked ones: a caller between reservation and outcome implies a pending row
(`ClaimIsPending`), and what such a caller knows of the chat (`SenderKnows`: no
card before the send, none after an answer that excludes one). With them the
pending row is an exclusive claim (`SingleFlight`), from which the other
theorems follow: `AtMostOneCard`, `TruthfulAudit`, `FinalOutcome`, and
`PromiseKept`, the refinement of `AtMostOnceDelivery`.

The second half is about `DeliveryRecovery`. Each of its steps is a step of the
delivery or none (`RecoveryIsDelivery`), so that `IInv` and the refinement carry
over (`RecoveryKeepsPromise`). `RIInv` adds the audit: an action is reserved by one
call (`OneReserved`), a call that may still authorise has not done so
(`AuthorisedLate`), and whoever holds or records a success has it from a row that
is still succeeded (`CopiesSeen`, `AuditSeen`). From these follow `OneSendEach`,
`TruthfulAction` and `ActionsFinal`.

`IngestionRunProofs`. What a call holds in each phase (`Phases`): a working call
has a claim, and if it is the current one the run is running; a completing call
has its page in the database. A call that takes the run takes a new attempt, so
all earlier claims are fenced off (`HoldIInv`); with that `Fenced`, `Backed` (a
result has its page stored) and `DecidedOnce`, the refinement of `RunOnce`.

`TaskCheckpointProofs`. The lease argument is `LeaseKnows`: a call's copy never
has a later epoch than the row, and a call whose owner and epoch are the row's
holds the row itself. So only a call with the whole truth advances. Then the
runs of the task all ask with the row's `request_as_of` and there is one for
each page (`OneRunForAPage`), and the counted ones are a walk from page to next
page that ends at the cursor (`WalkInOrder`, with `CursorLeads`: cursors rise, so
no page comes twice). `ProgressKept` follows from the same invariant.
`CountsAgree` needs to know what the fold over the counted runs is when a run is
appended (`TotalGrows`); see below for how that is proved.

`ReportDayProofs`. `WriterKnows` says what the rows are at each label of a
writer, `SenderKnows` that a sender has the pending row and a chat without the
report. Since the attempt is reserved once for ever, there is no second writer
whatever happens to the lock (`Exclusion`); `Vetted`, `AttemptTruthful`,
`Accountable` and `Final` follow. The date lock occurs in none of the proofs:
it saves work, the rows keep order.

`FactVersionsProofs`. The type invariant alone would let a row hold anything:
`Stamped` adds that every row, committed or pending, is what its run fetched and
that this was what the source said then, from which `NoFutureInAnswers` follows.
`Answers` is the inductive form of `LastFetchIsRead`: a finished run would be
answered what it saw at the time of its fetch, and so would a run that has found
nothing to write, until a later run commits (`Compares`); stated for the time of
the fetch rather than for now, it survives later ingestion. `EvidenceIsCurrent`
follows from it. `PastStays` needs only that a row is stamped with its fetch.

`PagedIngestionProofs`. First the adapters, one by one: a page that is not an error
is the cut of the snapshot of its mark at the cursor's place (`PageForm`), whatever
was heard. Then `IInv`: what a cursor has before its place is stored (`Stored`), of
the cursors of tasks, of workers and of the watermark row alike, whoever made
them; a page in hand fits its cursor (`Fits`); its rejections are recorded once it
is past `reject`, and its items stored once it is past `commit`. The facts only
grow, so a stale cursor is as good as a new one: that is why an unfenced watermark
loses nothing. `NothingSkipped`, `PagesEnd` and `CountedRejectionsKept` follow.
`SnapshotsWhole` has an invariant of its own, `WInv`: a release that stands in the
HKMA's list since the first answer has been read, or has too few behind it to be
passed over before the reported total is reached (`Behind`). An answer that reports
the same total keeps this, and so does every change of the list, which moves nothing
that stands away from the list's end (`NoFurther`).

`ReportScheduleProofs`. The lemmas say what each stage promises, in the order of the
code: evidence that is good is there, timely and its task's (`TaskPromise`,
`MarketPromise`, `NewsPromise`), the policy changes only inputs of closed markets
(`PolicyForm`), the snapshot keeps what came before the cutoff (`SnapshotForm`), and a
gate that goes on has found every required input good (`GateForm`). Together: a
snapshot that the gate lets through is grounded (`SnapshotGrounded`). `IInv` carries
it to the report: a process's results are its checkpoints', which do not change
when done, and its snapshot was made at some time of some set of versions. With that
`GroundedReports`, `NoDateDropped` and `ClosedMarketsNeverBlock`. That some time and
some versions existed is no formula TLC can evaluate, so this `IInv` was not run; its
consequences are.

`WorkflowAlertsProofs`. `CInv` is the argument of the deliveries once more, for each
condition: `ClaimIsPending`, `OneInFlight`, `SenderKnows`, and what rows, copies and
answers say of the chat (`RowTells`, `CopyTells`). `OneCard` and `BackedAnswers`
follow. `BlockedDatesShow` needs `BInv`, which holds as long as nothing fails: the
newest row exists (`RowsExist`), a row that is not settled has a caller who will
move it on unless it was overtaken (`SomeoneOwns`), and up to the second attempt
nobody is (`CopiesInStep`). TLC found the third attempt when the invariant was first
tried without the exception.

Recursion. The prover cannot instantiate the library's induction theorems. What
`FlattenSeq` and `FoldLeft` compute is proved all the same where the proofs need it,
from least elements: a set of natural numbers that is not empty has a least one
(`LeastElement`, from well-foundedness), so the function that the definition
chooses exists (`FlattenExists`, `SumsExist`) and grows with its sequence
(`FlattenMore`, `TotalGrows`).

Only model-checked: everything under fairness (`CallReturns`, `WaitEnds`,
`OrphanIsFreed`, `CallEnds`, `WorkersFinish`, `QuietSourceCompletes`), for liveness
and ENABLED are beyond the prover. Every invariant and every action property that a
passing run checks is a theorem.

## Not modelled

Time within a day but for the cutoff: back-offs, the publish time, the lengths of
requests. The retries of a task inside a bundle, which count as one outcome. A
task of several pages in `ReportSchedule`, and the steps between a snapshot and
the chat, which are `PagedIngestion`'s and `ReportDay`'s. The model's attempts
within one draft and the text rules of validation, which compare sentences with
facts. Of the alerts, those of stage `scheduler` for failures nobody handled, and
all card text. The lists the operations view copies out, and the readiness check,
a conjunction of settings and table names. News, macro and market observations as
facts. The fixture adapters and the handlers of `cn_hk_ingestion.py`, which no
registered task uses; HTTP, allow lists, signatures and the parsing of HTML,
spreadsheets and JSON. Normalization, the read-only API and the host's data
center. A statement that fails is a crash of its call, except where the code
catches it (`GenerationRaises`, `DeliveryRaises`, `StatementFails`, the handlers of
the runner).

## Plan

1. Refinements: the alerts of `WorkflowAlerts` and the deliveries of `ReportDay`
   from `AtMostOnceDelivery`, the runs of `TaskCheckpoint` from `RunOnce`, a task of
   `PagedIngestion` from `TaskCheckpoint`, stated on the composed modules.
2. News, macro observations and market observations in `FactVersions`, and which
   of the present properties hold of each.
