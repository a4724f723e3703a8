# Verification of ERIP «ПМ Задолженность»: models, checks and proofs

This directory is a TLA+ development of the debt-collection system under `src/app`.
It models what the web workers, the notification gateway, the imports and the nightly
recounts do to the same records at the same time, checks small instances with TLC, and
proves the central invariants with TLAPS for every size.

Paths below are relative to `src/app`; `debts`, `nsi`, `notifications`, `imports` are the
applications under `backend/apps`.

## 1. Inventory

| Component | State | Operations | Hard because |
|---|---|---|---|
| Notification sending, `debts/services/measures.py`, `notifications/` | `Notification.status`, link and status of a `MeasureItem`, `Measure.status` | send a party, create, resend, delivery callback; result by hand, kanban, stop, `auto_complete` | three entries to one gateway, one of them locked; callbacks overtake; calls and answers are lost; people write the same rows, whole, as they loaded them |
| Notification gateway, `gateway/app` | `DeliveryLog` in SQLite, coroutines of two processes | accept, claim, deliver, callback, resume | two processes, crashes, a claim with a two-minute term |
| Measure parties, `debts/services/measures.py`, `extra_measures.py`, `debts/views.py` | `Measure` (status, approval, suspension, pause), `MeasureItem` per account | launch, accept, confirm, approve, reject, cancel, kanban, result, deliver, hold, release, stop | two-worker backend, no locks, an object loaded before the checks is saved after them |
| Recount after import, `debts/services/portfolio.py`, `registration_flags.py` | inheritance case, payer's death, groups, balances | sync, expiry, refresh of an account | about twenty recounts in one fixed order; four reasons share the status "paused" |
| Scenarios, `nsi/services/scenarios.py`, `scenario_engine.py`, `debts/services/scenario_flow.py` | definitions with versions, `AccountScenarioRun`, measures by step, `ScenarioAssignment` | edit, publish, restore, copy; bind, start, replace, assign, skip, stop, advance, settle | seven services end or begin a run, each with its own code for the history; versions change under running accounts |
| Package of a writ, `debts/services/bnp_package.py`, `writ_gate.py`, `claims_views.py` | `ClaimPackage`, its documents, detached signatures, manifest, archive | save, generate, edit, store, sign, form, send | every change must take the mark "formed" back; a refused request keeps what it has saved |
| Claims, `debts/services/claims.py`, `writ_draft.py`, `funnel.py`, `claim_measures.py` | `ClaimCase`, acts, `ClaimApproval`, card and measure of the account | writs by period, stages, results, write-off, drag | gates spread over services; a case, a measure and a user move one card |
| PRIS, `debts/services/pris_submit.py`, `pris_gateway.py` | marks of the submission in the case | submit, refresh, repay | lost answers, repeated submission |
| Autocall, `debts/services/autocall.py`, `gateway/app/adapters/ami_*.py` | call rows, attempts, connections to the station | dial a party, repeat on later days, record by hand | one call takes minutes, rows are loaded before all of them; the station tells every connection about every call |
| Import of AIS files, `imports/` | import job, every AIS record | upsert by key in batches, then refresh of what was touched | a failure leaves batches without their recount |
| Debt groups and shares, `debts/services/grouping.py`, `shares.py`, `nsi/services/scale.py` | group, correction by hand with its basis, months, history, shares, scale | recalculation, correction, change of the scale | recounts save what they loaded; a scale changes under corrections |
| Gateway channels, SMTP | - | send | dialogue of SMTP |
| Users and rights, audit, reference data, forms, registries, map, frontend | - | queries, CRUD, layout | not concurrent, or presentation |

How they interact: the browser calls the backend (gunicorn, two workers, no
`ATOMIC_REQUESTS`, so every ORM statement outside an explicit `atomic()` is a transaction
of its own). The backend calls the gateway over HTTP; for letters the gateway answers at
once and posts the verdict later to `/api/v1/notifications/<id>/delivery-status/`, a phone
call it answers when the call is over. An import writes AIS records in batches and then
refreshes the touched accounts, which pauses, frees and closes parties, counts groups and
shares, and begins scenario runs. A closed party of a scenario step advances the scenario;
a step "writ" opens a claim case; a case moves the measure and the card of its account.

What makes each part correct:

* sending: one letter per notification, the record shows the letter's fate, every
  queued letter gets a verdict;
* gateway: one process delivers a journal row, repetition only after a crash;
* parties: what is cut off stays known as cut off, with an approval and after a warning;
  a pause ends for the reason it began; status of a party and of its rows agree;
* scenario: a step is launched once and in order, a finished run leaves nothing open, a
  version in use keeps its steps, a new debtor is taken up;
* package: what is formed is whole, what is sent is signed as it is;
* claims: no date in two writs, no write-off without acts and votes, no card past the gate
  without a warning;
* autocall: the outcome written is that of the debtor's own call; calls keep their distance;
* import and figures: an import that is done leaves figures right; a correction lasts as
  long as the group it was made of.

## 2. Modules

| Module | Models | Theorems |
|---|---|---|
| `PartyStatus` | statuses of parties and rows, the verdict of `rollup()` | |
| `NoticeLifecycle` | abstract: what sending promises about one notification | |
| `NoticeDelivery` | backend workers, gateway processes and the calls between them; implements `NoticeLifecycle` | `NoticeDeliveryProofs`: `TypeCorrect`, `OneLetter`, `OneDeliverer`, `RecordedOutcomeStays`, `DoneRowsAreTrue`, `PartiesAreCounted`; `NoticePromiseProofs`: `SentStays`, `KeepsThePromise` |
| `MeasureParty` | a party from launch to closing, and the account behind it | `MeasurePartyProofs`: `PartyTypeCorrect`, `PaymentSpares`, `ApprovedFirst`, `CutOffStays`, `WarningFirst`, `HeldStaysHeld`, `CasePauses` |
| `ScenarioRun` | the scenario editor, the runs of accounts, the engine | `ScenarioRunProofs`: `ScenarioTypeCorrect`, `HistoryFollowsRun`, `VersionsAreKept`, `EndsClosed`, `LaunchedOnce`, `BeginsInOrder` |
| `WritPackage` | the package of one claim for the notary | `WritPackageProofs`: `FormedPackageIsWhole`, `ArchiveHasThePdfs`, `NotaryGetsSignedPackage` |
| `ClaimCase` | the cases of one account, its card, PRIS | `ClaimCaseProofs`: `Types`, `WritsDoNotOverlap`, `ApprovalIsAgreed`, `WriteOffIsAgreed`, `GateIsKept` |
| `Autocall` | dialers, the gateway's connections, the station | `AutocallProofs`: `Types`, `Spaced`, `OwnOutcome` |
| `DebtFigures` | the import of services, groups, history, shares, the scale | `DebtFiguresProofs`: `CorrectionsKept`, `FiguresTyped`, `ImportsLeaveFigures` |

Each has an `MC` module with its small instances. `PartyStatus` is shared by
`NoticeDelivery`, `MeasureParty` and `Autocall`. The other modules meet at records that one
of them owns: what the engine launches is a measure of `ScenarioRun` and lives on in
`MeasureParty`; a refresh pauses in `MeasureParty`, counts in `DebtFigures`, settles in
`ScenarioRun`; the stage "notary" is a gate of `WritPackage` and a move of `ClaimCase`.

### NoticeDelivery

State: `notice` (Notification), `row` (MeasureItem of a notice party), `party`
(Measure.status), `lock` (the row lock of `select_for_update`), `job` (the request each
worker is in and where), `log` (DeliveryLog), `dlv` (the coroutine `process()` of a gateway
process for a journal row), `up` (down, resuming, serving), and two observers, `crashes`
and `handed`.

One action is one transaction or one call. `queue_notices` for one row is
`QueueOne` (first transaction of `_queue_one`: the row is tied to a notification) -
`LockNotice` (second transaction begins) - `Post` (the HTTP call and `accept()`) -
`SaveDispatch` (`dispatch()` saves, the row is written, commit) - `RollupRead` -
`RollupSave`. `CreateNotice` and `ResendNotice` enter at `Post` without a lock. The gateway
is `Claim` - `Hand` - `StoreOutcome` - `CallbackArrives`, the backend's answer
`NoteOutcome` - `FindRow` - `SaveRow` - rollup. `Crash`, `Restart` and `Serve` are the
life of a process; `ClaimAges` is the passing of the two minutes.

Delivery is not the only writer of a notice row. `TakeRow` - `SaveByHand` is `record_item`,
which loads the row with its link and saves all of it, and with `StopParty` it is
`stop_measure`; `MoveParty` - `MoveRow` is `move_status`, row by row; `AutoComplete` is the
scenario's `auto_complete`. All four may write "done" with no letter sent.
`Endpoints` says which requests a run has.

Data left out: texts, templates, recipients, the renderer, event logs. A letter is an
account, template and channel (`Letters`). The adapter has two outcomes.

### MeasureParty

State: `party` (Measure: status, approval, suspension and resumption, `stopped`,
`pause_until`, the kind of `pause_reason`, whether a reason overrode the warning), `row`
(MeasureItem), `acc` (inheritance case, registered payer, `payer_deceased`, debt), `job`
(what a worker has loaded).

A request is two steps: `Load` is `get_object()` (with the row, for a result), and the
action named for the service is the service itself, its checks made on what was loaded
and its writes on what is there now, `update_fields` or, in `apply_confirmation` and
`record_item`, all fields as loaded. Statements of one service are taken as one step: the
stale load is the race the model is about, failures between two statements are not
modelled. `Refuse` ends a request the rights or a missing field reject. `Refresh` is
`refresh_account` with the recounts that touch parties composed in its order: expired
case, death, expired holds, change of payer, payment. Scenario steps that follow a closed
party are in `ScenarioRun`.

### ScenarioRun

State: `scen` (ScenarioDefinition with its revisions), `run` (AccountScenarioRun), `rows`
(the measures steps and claims opened), `hist` (open assignments), `acc`, `auto` (launch
mode), `job` (what a worker advances). A request writes its head in one step and then
advances: `Enter` is `advance_account` with its one check, `Look` the reads of
`_advance_once`, `LaunchOk`/`LaunchRefused`/`SkipMessenger` its writes, `Again` the loop.
Steps are records of what the engine asks of them (blocking, days, delivery, size of the
debt); texts, calendars and channels are left out.

### WritPackage

State: `claim` (stage, delivery, tariff), `pkg` (saved, whole, formed, manifest, archive),
`doc` (each document: PDF, signature, packed), `debt`. A signature is of this PDF, of
another, or a row whose file is gone. A request is one step, and what it saved before it
was refused is its own disjunct (`StoreTorn`, `SignAndSend`). The texts of documents and
the parts of a package that `_problems` inspects are one flag, `whole`.

### ClaimCase

State: `case` (stage, period, acts, write-off, marks of PRIS), `votes`, `acc` (column of the
card, collection measure, a warning handed), `pris` (what PRIS has of a case). Each service
of `claims.py`, `writ_draft.py`, `pris_submit.py` and `funnel.py` that changes one of them is
an action; `MoveCase` composes the move with `sync_claim_measure` and the promotion of the
card, as the code does. `SubmitLost` is an answer of PRIS that is lost; an answer may also
leave the debt unaccepted. `refresh_pris` asks by the number in the case, whoever wrote it, and
by that of the debt only when there is none (`AsksOwn`); a number written by hand may be of
another's proceeding or of none. What comes back is the proceeding (`RefreshFound`), an
answer without a number (`RefreshEmpty`), or nothing, which is refused (`RefreshBlocked`).

### Autocall

State: `party`, `row`, `attempt`, `job` (a dialer: the parties and rows it has loaded, the
call it waits for and the state of its connection), `line` (the station's calls and what
really became of them), `last` and `edits` (observers). `Begin`, `LoadItems`, `NextRow`,
`PlaceCall`, `Record`, `Unavailable`, `PartyDone` are the loop of `dial_due_calls`; `Read` is
one turn of `_wait_outcome`, applied to every connection by every message of the station.
The station's actions are external.

### DebtFigures

State: `scale`, `svc` (the AIS columns), `sgroup` and `agroup` (group, correction, basis of
services and accounts), `window` (ServiceDebtPeriod), `past` (BalanceHistory), `share`,
`job` (an import: file, position, touched accounts, chunk and what was loaded for it).
`Flush` is one batch with its transaction, `LoadChunk` the query with its prefetch and the
scale the refresher read, `RefreshLoaded` the recount of one account: groups from what was
loaded, history and shares from what is there (the code reads the services again after
`refresh_from_db`). A failure ends the job anywhere. The rows that the import rejects are
those that `_lookup` rejects, which take a place in their batch. `ReplaceScale` takes the table
as it is sent, a list in which a group may come twice: the test sees the list, the rows are
written one after the other, the last of a group wins, and a failure keeps those before it.

## 3. Runs

Each run finishes in less than three minutes with two TLC workers.

| Run | States | Shows |
|---|---|---|
| `NoticeSend` | 617,000 | two workers send two rows that share a letter while requests, answers and callbacks are lost: one letter per notification, "sent" is final, `NoticeLifecycle` is implemented |
| `NoticeOneWorker` | 685,000 | two rows of a party are sent, created, resent, recorded, stopped, moved and completed by the scenario, one request after the other, among callbacks and two gateway processes with one crash: the party is what its rows make it, no row is "done" by a delivery that was none, one process delivers a journal row, what is recorded is not taken up again |
| `NoticeLive` | 145,000 | two fair workers send one row while the scenario completes it, lossy calls: every queued notification gets its verdict, every request ends, and the row is "done" by delivery only when its letter has left |
| `PartyTask` | 388,000 | the disconnect task of one account under every request, one after the other, with payments, holds, the payer's death, an imported case and the kanban: cut off is not cancelled, only under approval; no payment closes it; neither hold ends the other's pause |
| `PartyWarned` | 826,000 | a warning and its disconnect for two accounts of one payer: no service is cut off before the term of a warning without a written reason; no automatic party is active while a case is open |
| `ScenarioSteps` | 737,000 | one account, two scenarios, every way to begin, change and end a run: each step once and in order, history follows the run, a run that ends leaves nothing open |
| `ScenarioEditor` | 89,000 | editing, publishing, restoring and copying beside imports: versions keep their steps; a new debtor is taken up |
| `ClaimPackage` | 59,000 | every request on a package while the balance changes and stored files are lost |
| `ClaimBoard` | 72,000 | three cases of one account with four presented periods, and the card: periods disjoint, the gate kept |
| `ClaimEnd` | 40,000 | one case through acts, votes of two approvers and PRIS, whose answers are lost, empty or refusals, with numbers written by hand |
| `Dial` | 1,566,000 | two dialers, a party of a scenario and one made by hand, two calls on the line at a time, two days: own outcomes, distances |
| `Figures` | 735,000 | three imports of two files (a service that comes again, in another batch and in the same one, a rejected row, a paid debt), failures anywhere, two edits, tables that leave a hole among them: figures, corrections |

Bounds, and why they are enough. Two workers race in every way two requests can; two
gateway processes are what `--workers 2` starts; two notifications and two journal rows are
what a repetition needs (`NoticeOneWorker`, where every writer of a row is at work, has one
journal row: its properties are about one row of the journal and both of the party); two rows of a party are the least that can disagree. One account
and its peer show a debtor with several accounts. Scenarios of three steps have a blocking,
a waiting and a last one; two versions are what a publication needs. Three cases find no
room in four presented dates unless periods touch. Two calls at a time are enough to mix
their messages, two days to be called again or not. Three services on two accounts, and a
third account, give two chunks, two suppliers and a peer that must stay as it is; three
imports give a failure, its repetition and a file after both. Counters are bounded by
`MaxCrashes`, `MaxVersion`, `MaxRows`, `NCases`, `MaxDay`, `MaxEdits`, `MaxJobs`, `CallbackTries`
and the ids that may be allocated; every bound is a guard of the action that counts.

`NoticeSend` and `NoticeLive` have two backend workers. `NoticeOneWorker`, the party runs, the
claim runs, `ScenarioSteps` and `ScenarioEditor` take requests one after the other; section 6 says which properties need that. `Dial` and `Figures` do so by
`Overlap = FALSE`: two dialers have no party in common, and no request falls between the
loading of a chunk and its last recount. Deadlock is checked in the party runs; elsewhere a
bounded resource runs out, which each `.cfg` says.

## 4. Fairness

* `NoticeLive`: weak fairness of each worker's started request (a gunicorn thread runs on),
  of each coroutine of a living process, and of the arrival of a callback (an HTTP client
  that retries; callbacks lost three times are outside the promise). Nobody has to press a
  button and no crashed process has to return.
* `ScenarioEditor`: weak fairness of the passing of days and of the steps of a worker's
  request; strong fairness of an account's import, which comes every night but not while the
  worker is busy. Nobody has to deliver, pay or press.
* `ClaimEnd`: weak fairness of `refresh_open_proceedings` for each case. The repository
  documents that the command is to be repeated (`STUBS.md:110`, `README.md:191`) but
  schedules it nowhere: the property is about an installation that does.
* `MeasureParty!FairSpec`, of `NewPayerSettles` (section 6): weak fairness of the refresh of each
  account, the nightly one. With it the mark of a death still does not come to rest. No liveness is claimed of `Autocall`, `WritPackage` and `DebtFigures`: what they
  do next is a person's choice or a schedule outside the repository.

## 5. Proofs

All theorems hold for every value of the constants that the named assumptions admit
(`NoticeAssumption`, `PartyAssumption`, `ScenarioAssumption`, `PackageAssumption`,
`ClaimAssumption`, `AutocallAssumption`, `FiguresAssumption`, which TLC evaluates in each run). An assumption beyond these is in the statement of the theorem.

`NoticeDeliveryProofs`

* `TypeCorrect`: `Spec => []TypeOK`.
* `OneLetter`: if letters are sent through `queue_notices` only (`Endpoints = {"send"}`), no
  notification is handed to the gateway twice, whatever is lost or crashes and however
  many workers, processes and rows there are. The invariant is not inductive: that a
  second `Post` cannot happen rests on the lock a dispatching worker holds (`LockInv`), on
  the notification being "new" as long as a worker dispatches it (`DispatchInv`), on a
  journal row existing only for a notification that left "new" or is being dispatched
  (`LetterInv`), and on one open notification per key (`UniqueOpen`). `SendInv` is their
  conjunction; the proof has one step per action.
* `OneDeliverer` and `RecordedOutcomeStays`: if no living process is taken for dead (no
  `"stall"` in `Faults`), one coroutine at a time delivers a journal row, and an outcome
  recorded there is not written over. `ClaimInv` says that whoever delivers has a claim that
  has not run out and is alone with it (`DeliverInv`), and that a callback says what the
  journal says (`CallInv`). Only then is the claim of `claim()` one: without the assumption
  its two-minute term passes under a living process.
* `DoneRowsAreTrue`: `Spec => DoneRowWasDelivered`, under no further assumption: unless a
  person or `auto_complete` writes it so, a row becomes "done" only when a message with its
  letter has left. Between the adapter and the row are five stages: the coroutine, its call,
  the backend's note of it, the search for the row, the row's save. `TrueInv` says of each that a letter of its
  notification (of its row, from the search on) has left, and of a dispatch, of a row's link and
  of a row loaded for a save by hand that the notification carries the letter of the row: the
  link itself may go back to an older notification.
* `PartiesAreCounted`: with one backend worker a party is what its rows make it whenever
  no request is in progress, whether they were sent, recorded, stopped, moved or completed.
  `CountInv`: a party that differs from its rows has a worker about to count it (`Ledger`),
  and what that worker compares with is the party as it is (`SeenIsTrue`).

`NoticePromiseProofs`

* `SentStays` and `KeepsThePromise`: if letters are sent through `queue_notices` only and
  there are no stalls, "sent" is final and `NoticeDelivery` implements `NoticeLifecycle`.
  `PromiseInv` joins the invariants of one letter, one deliverer and true rows, and adds that
  a callback on its way and a notification shown as sent are in the journal (`ReportInv`).
  The mapping takes the stage of a notification from its journal row with `CHOOSE`; that the
  row is unique is `OneLetterPerNotice`. Each action is then a step of one letter's life or a
  stutter. That is safety: `NoticeLifecycle` states no fairness.

`MeasurePartyProofs`

* `PartyTypeCorrect`: `Spec => []TypeOK`.
* `PaymentSpares`: `Spec => PaymentLeavesSuspended`, for any number of workers and any
  overlap of their requests. `Inv` adds to the types that only a disconnect is ever
  suspended, that a party not launched yet is blank (`Sound`), and that a request in
  progress has loaded a launched party (`JobInv`). The recounts of `refresh_account` that
  come before the payment only pause and assign (`Gentle`, a relation shown transitive so
  that the composition of the recounts is one), and the payment skips what is cut off
  (`RowsClosed`, `PartiesClosed`). `Spared` sums up what a step leaves alone.
* `ApprovedFirst`: `Spec => []SuspendedWithApproval` if requests do not overlap
  (`OneAtATime`). Every service that writes a suspension or an approval does so by what it
  loaded (`Careful`, one step per service), and what it loaded is still so (`SeenInv`).
  The assumption is needed: with two workers an approval, the suspension and a rejection
  loaded before both succeed.
* `CutOffStays`: with `OneAtATime`, and no card moved to "cancelled", what is cut off is
  not cancelled before it is switched on. `KeptInv` says it of parties and rows together (a
  suspended row belongs to a suspended party), because services write the one by what they
  know of the other; `Outcome` gives for each service what it leaves of both.
* `WarningFirst`: with `OneAtATime`, and a board that opens no card again, every account cut
  off without a written reason has a warning whose term is over. The disconnect is launched
  on such a warning, but acts much later: `BackedInv` keeps the fact for every row of a
  disconnect from its launch on, and `DeliveryInv` says that the row of
  a delivered warning is not open, so that no request delivers it anew and starts its term again.
* `HeldStaysHeld`: `HoldsLast` for any number of workers and any overlap, if no case is opened
  on the card (`"patch" \notin Ops`) and `NobodyElsePays`: each party has one account, as the
  parties of a scenario step do (`scenario_engine.py:418`), or nothing is paid. A recount frees
  paused parties where a case has run out, has ended with a new payer, or has been paid;
  `CardInv` leaves none of these but the payment, and `AskedFor` makes the account that paid
  the held one. Both assumptions are needed (section 6).
* `CasePauses`: `Spec => []CaseKeepsPaused`, with `OneAtATime`, `OneDebtor` (a party has
  accounts of one debtor, as the parties of a scenario step do) and `OnlyCasesResume`
  (nothing in use assigns a paused party but the end of the case). What is left is the order
  of things: cases opened, closed, run out, ended by a newcomer or by a launch, while parties
  are launched, delivered, recorded, held, rejected, moved away and recounted.
  `CaseInv` adds to the property that the accounts of a debtor have one case (`OneCase`), so
  that what ends it ends it for every row of the party that is then assigned (`ResumeKeeps`),
  and that a party that is neither active nor paused has no open row (`Resting`): this is why
  the recount after a result never makes such a party active, the one thing the pause does not
  forbid it (`RollupKeeps`). `RefreshKeeps` follows the order of `refresh_account`: what a
  newcomer releases from the payer's death in the same recount has no case any more at its end.
  Dropping any one of the conditions breaks the property (section 6), as TLC shows for each.

`ScenarioRunProofs`

* `HistoryFollowsRun`: the open assignments are the scenario of the run, however many
  workers overlap. `RunInv` adds the shape of runs and that a run names a scenario; each
  service is shown to be one of three changes of one run (begin, move, end), and each of
  these to move the history along.
* `VersionsAreKept`: `RevisionsStay`, from `ScenInv`, the type of the definitions: their
  versions are a sequence, so that a publication, a restoration and an import append to it
  and only the upgrade of a stock chain rewrites an entry (`Kept`, one step per action).
* `ScenarioTypeCorrect`: the types, for any overlap of workers. `TypeInv` adds that a run
  names a version its scenario has, which the engine reads without a test, that what a worker
  is about to launch is a step, and that the rows of an account are finite, so that a row can
  always be told from the ones of the same step (`CopyIsFree`).
* `EndsClosed`: `RunEndsClosed`, for any overlap of workers: whatever ends a run also closes
  what is open of its version. `WhatEndsARun`: that is an import that finds the debt paid, or
  the stopping of the last row.
* `LaunchedOnce` and `BeginsInOrder`: with one worker no step of a version has two rows unless
  one failed, and none begins before a blocking one is closed or while the run is paused,
  over or waiting. `OrderInv`: rows of one step are one (`UniqueIn`), and what a worker
  has read in `_advance_once` is still so when it writes (`Ready`): the run may go on, the
  step has no row, and nothing open blocks it (`Clear`). With two workers the last of these
  is false at once, because `_advancing` is known to one process.

`WritPackageProofs`

* `FormedPackageIsWhole`, `ArchiveHasThePdfs`, `NotaryGetsSignedPackage`: the inductive `Inv`
  ties the mark, the archive and the PDFs packed in it together for a package and its
  documents (`Sane`), and every request is a composition of few changes of both that keep
  it. The third assumes that nobody sends a signature of another PDF (`"wrong" \notin Ops`),
  because the server does not compare the two (section 6).

`ClaimCaseProofs`

* `WritsDoNotOverlap`, `ApprovalIsAgreed`, `WriteOffIsAgreed`, `GateIsKept`: `Inv` adds to the
  types that whoever is asked is asked about a case with its acts, that an approval stands
  for the votes (`RouteOK`), and that the bounds of two periods pass the test of `_overlaps`
  (`Apart`), from which disjointness follows by arithmetic.

`AutocallProofs`

* `Types`, and `Spaced`: if runs do not overlap, no row is called again sooner than the days
  of its group. A row in a run's list was loaded before other things happened to it, so `Inv`
  says of every list, not of the rows alone, that what it holds may be called on the run's
  day (`RunOK`), that an outcome written down is remembered by the row it was written to
  (`Remembered`), and that two runs have no party in common (`Apart`).
* `OwnOutcome`: if runs do not overlap and the station gives a reason with each answer
  (`"vague" \notin Faults`), what is written into a row is the outcome of the call placed to
  this debtor. `OwnInv` says of each dialer that its call is no other dialer's, that
  the row it calls has no outcome of this run, and that what its connection holds is true of
  its call (`TrueOf`). Every message of the station reaches every connection; `TellsOf` says
  what each tells of its call, and `ReadsTheTruth` that reading it keeps `TrueOf` for the own
  call and for any other.

`DebtFiguresProofs`

* `CorrectionsKept`: if nothing else runs while an import counts accounts, a corrected group
  outlives exactly the recounts that find the group it was made of. `Inv`: every correction
  has the calculated group as its basis (`Based`), and what an import still has to count is as
  it was loaded (`Fresh`), which the recount of another account of the chunk leaves so.
* `FiguresTyped`: the types, whatever imports and requests overlap. `TypeInv` adds that the
  scale, and what an import has loaded of it, always has an active band, whence `group_for`
  has a group to give (`GroupForActive`); the other figures are maxima and sums of numbers,
  and numbers again (`MaxGroup`, `TotalNat`).
* `ImportsLeaveFigures`: `ImportLeavesFigures` if nothing else runs while an import counts
  accounts (`~Overlap`). A group is right by the scale there is (`RightGroup`): that of a band
  with the months of the debt, or, in a hole of the scale, the last one, which is what
  `group_for_months` answers. Nothing is said of the scale having no holes, because it may
  (`FiguresHole`). `CountInv`: the accounts an import has counted have right figures; those
  it is about to count are as it loaded them. `RecountRight` shows that one recount makes the
  group, the history and the shares of its account right, and `SameFigures` that it
  leaves those of another account so. That the shares of the suppliers add up to the debt
  (`SharesAddUp`) is an exchange of two sums.

  The sums of `DebtFigures` are folds. A fact about all finite sets is proved without an
  induction principle, by a smallest set of which it would be false (`LeastSet`, from the
  library's theorem on minimal elements): that the function whose value is the sum exists and
  is unique on the subsets of a finite set (`AddsSums`, `AddsOnce`), and from this that a sum
  takes an element out (`SumTake`), is a number (`SumNat`) and may be taken over two
  sets in either order (`SumOfSums`).

What stays with TLC:

* liveness under fairness, which the prover does not reach: `QueuedGetsVerdict`,
  `RequestsEnd`, `NewDebtorIsTaken`, `ProceedingMovesCase`.

## 6. Where the properties end

Each property above stops holding when the run is widened as follows, because the code
does otherwise; the change of the `.cfg` shows it. All of this was met while modelling.

| Property | Change | What the code does |
|---|---|---|
| `OneLetterPerNotice` | `"create"` in `Endpoints` of `NoticeSend` | create dispatches without the lock of send (`notifications/views.py:107`): two letters of one notification |
| `PartyCountedFromRows` | two workers in `NoticeOneWorker` | two recounts overlap and the older verdict is saved last (`measures.py:205`) |
| `QueuedGetsVerdict` | `"create"` in `Endpoints` of `NoticeLive` | `dispatch()` saves "queued" over the verdict of a quicker callback |
| `OneDelivererPerLog` | `"stall"` in `Faults` of `NoticeOneWorker` | a claim older than two minutes is taken over although its process lives |
| `NoticeLifecycle` | per notification, not per letter | a lost answer marks the notification failed, a repeated row makes a new one while the first letter travels |
| `SuspendedIsNotCancelled` | `"cancelled"` in `MoveTo` of `PartyTask` | `move_status` writes any target to the party and its rows, also to a suspended disconnect |
| `SuspendedWithApproval` | two workers in `PartyTask` | `decide_approval` checks "pending" on the loaded party: approve, suspend, then a second administrator's reject all pass |
| `HoldsLast` | `"patch"` in `Ops` of `PartyTask`, or `"debt"` with two accounts | closing a case, or the payment of a peer, assigns every paused automatic party of the debtor |
| `CaseKeepsPaused` | other kinds than warnings and automatic ones; `"heir"` or `"debt"` in `Ops`; two workers | `_guard_disconnect` does not look at the case; the import sets its mark and pauses nothing; a payment recounts with `respect_pause=False`; `rollup()` asks the party loaded before the pause |
| `CaseKeepsPaused` | `"release"` in `Ops`, or `"hold"` with `"holdover"`, or `"stop"`, or `"move"` with `"assigned"` in `MoveTo`; accounts of two payers in one party | a specialist's request, the date of a hold and the tick on a step assign or recount a party without a look at the case; the end of one payer's case assigns the whole party, of which the other payer has a case too |
| `StepLaunchedOnce`, `StepsInOrder` | two workers in `ScenarioSteps` | `_advancing` is known to one process (`scenario_engine.py:143`): both read the step as not started. In the same way a step is launched on a run that another worker has just finished |
| `NotaryGetsSigned` | `"wrong"` in `Ops` of `ClaimPackage` | the server keeps a signature of another PDF; only the form of the file is checked |
| `CallsAreSpaced` | `Overlap = TRUE` in `Dial` | two dialers, or a dialer and the button, load one row and both call |
| `ToldIsOwnCall` | `"vague"` in `Faults` of `Dial` | an OriginateResponse without a reason is passed over, and Hangup with cause 16 then reads "no answer" of an answered call |
| `ToldIsOwnCall` | `Overlap = TRUE` in `Dial` | two runs call one row: while the call of the second has no answer, the row holds the outcome of the first |
| `CorrectionStands` | `Overlap = TRUE` in `Figures` | a correction made after a chunk was loaded is overwritten by the recount (account), or stays with a basis that is gone (service); two imports overwrite fresh figures by stale ones |

Promises that are stated in the modules and that the code does not keep. They are in none of
the runs of section 3; for the first six a `.cfg` of its own lets TLC find the behaviour in a few
seconds.

| Promise | `.cfg`, module | What happens |
|---|---|---|
| `NoSecondLetter`: "Повтор той же строки, пока письмо в очереди или уже доставлено, второе письмо не создаёт" (`README.md:152`) | `NoticeTwice`, `MCNoticeDelivery` | a person's result was loaded before the send tied the row to its letter; `item.save()` (`measures.py:819`) writes the row back without the link, and the next send makes a second letter while the first is queued |
| `CancelledIsNotCutOff`: "Задание отменено" (`measures.py:885`) | `PartyCancelled`, `MCMeasureParty` | the supplier's confirmation loads the party, the task is cancelled, the confirmation passes its check and `measure.save()` (`measures.py:920`) suspends it |
| `NewPayerSettles`: "новый плательщик снимает эту паузу" (`README.md:92`) | `PartyNewPayer`, `MCMeasureParty` | the newcomer's and the dead payer's registrations both stay main: `_sync_death` clears the mark and the next refresh sets it again (`registration_flags.py:125`), every night in turn |
| `SubmittedOnce`: "Задолженность уже принята" (`pris_submit.py:81`) | `ClaimTwice`, `MCClaimCase` | a number written by hand (`claims.py:254`) takes the place of the mark that the guard asks for; the debt is sent again. So it is after a lost answer, with nothing written by hand |
| `SentAsFormed`: "Сумма в АИС изменилась. Сформируйте пакет снова" (`bnp_package.py:621`) | `PackageStale`, `MCWritPackage` | signing and sending writes the manifest anew (`bnp_package.py:329`) before it compares the amounts |
| `ScaleHasNoHoles`: "без пересечений и без пропусков" (`scale.py:1`) | `FiguresHole`, `MCDebtFigures` | `[(1,0,2),(1,2,null)]` passes `scale_problem`; its second row overwrites the first (`nsi/views.py:625`), and months 0 and 1 have no band. A failure between two rows does the same |

* `ScenarioRun!DueStepIsLaunched` (`nsi/services/scenarios.py:453`, "Через 5 дней после
  вручения, если долг не погашен: отключение, надпись, иск и ОПИ"): `advance_account` is called by a request on the
  account or for a new run; `backfill_visible_measures` (`claim_measures.py:110`) takes only
  accounts without any measure or with a failed call. With a call, a warning and a disconnect
  after its delivery, imports every night and every day passing, the disconnect whose days
  are over is never launched. The test `tests/test_chapter2_remarks.py:121` calls
  `advance_account` itself.

More of what the models follow and a reader may not expect:

* Letters: a message may leave twice when a process dies between `adapter.send()` and the
  commit of its outcome. `DoneRowWasDelivered` has no converse, because a callback writes the
  first of the rows tied to its notification only. A callback given up after three tries
  leaves the notification queued. An error of the renderer, which runs after the claim and
  outside the `try` (`notification_service.py:76`), leaves the journal row processing until a restart.
* Scenarios: after a refused blocking step the next advance goes past it. Assigning to a
  finished run leaves it finished. A to B and back to A never repeats the steps of A that were
  cancelled. A messenger step writes the skipped orders from a stale read. The upgrade of a
  stock chain rewrites its revisions in place, which `RevisionsStay` allows and says.
* Packages: `SignAndSend` refuses right after forming, because `_case()` had prefetched the
  package; `form_package` never writes the PDF of the application anew; a signature stored
  without a change of its PDF is missing in the archive; a forming that finds problems keeps
  the old archive; a replaced PDF with a bad signature is refused after the old signature
  file was deleted.
* Claims: `update_case` and `move_case` save the case as it was loaded; `refresh_pris` holds a
  case for as long as the gateway takes, up to a minute, and may bring an approval back that
  was withdrawn meanwhile. A case whose number was written by hand asks by that number alone:
  with a wrong one it never learns of its own proceeding, and `ProceedingMovesCase` says
  nothing of it. A pending approval outlives the stage it was asked in; a
  write-off that is approved and entered again adds a second closing act. Two workers can
  make overlapping writs and two cases. Several cases share one measure. `settle_paid` moves
  the card only. A warning by an act of non-delivery alone passes the gate of the funnel and
  never the checklist of the writ.
* Calls: without a share in the answer a real call keeps the share of the row
  (`measures.py:721`), so that an unanswered call of a later day is stored as an attempt
  that was listened to, and advances the account. `moment` is read once: calls go on after
  the window has closed, and after midnight they count for the day before. A row that was
  closed, cancelled or paid during the run is opened again by `item.save()`. A party held
  during a run becomes running. `record_item` does not ask for the status of the row.
  `GATEWAY_DIAL_TIMEOUT` is less than the waits of the gateway add up to, so that a call may be
  over and unrecorded, and is made again on the same day. Nothing in the repository schedules
  `dial_calls`.
* Figures: `DebtGroupScaleViewSet.replace` leaves the groups that are not in its list active,
  so that they may lie in other bands (the first of them by number wins, until the next edit,
  which must find the whole scale in order). A file of accounts touches only those it
  creates. An import that fails leaves its batches in and its accounts uncounted until they
  come again.

## 7. Not modelled, and the plan

Not modelled, because nothing in them runs beside something else or is a promise about
state: frontend, nginx and containers; rights and scoping (a request is let through or
refused); audit (append-only); the layout of documents and blanks
(`nsi/services/official_blanks.py`, `form_layout.py`), the CRUD of reference data,
registries, charts, calendar and map (queries and typesetting); SMTP; template versions.
These are some four fifths of the lines of the repository, which is why the map covers no
more than the rest: views and serializers are mapped where a request changes the state of a
model, and their listing, filtering and formatting nowhere.

Left out of the parts that are modelled: failures between two statements of one service
where a request is one step (`MeasureParty`, `ClaimCase`); two workers in `WritPackage` and
`ClaimCase`; the rating, penalties, contacts, initial sums and last payments of a refresh;
files of accounts, registrations and payments beyond what they do to cases and runs; the
choice of a phone and of an outgoing number; tasks and checks of `writ_flow.py`.

Next, in this order:

1. `ClaimCase` with requests of two steps, load and save, as in `MeasureParty`, and the
   waiting of `refresh_pris` between them.
2. The composition of `ScenarioRun` with `MeasureParty` through `advance_after_measure`.
3. The rating of an account by its peers, whose groups a refresh reads while an import
   counts them one after the other.
4. Theorems: those of `ClaimCase` again for requests of two steps.
