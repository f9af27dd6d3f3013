# A TLA+ model of EdgeCase Forge

EdgeCase Forge lets a language model write tests against FlashCart, a small
checkout service, and scores them by the faults of FlashCart's mutants they
reveal. The result rests on three things this project models and checks: that
the clean service does what its invariants say under concurrent requests, that
one evaluation calls a test a kill only when it demonstrates the fault, and that
the evidence of many evaluations survives crashes, resumes and adjudication.

## 1. The system

| Component | State | Operations | What is hard |
|---|---|---|---|
| FlashCart service, `benchmarks/flashcart/source_app.py` | stock, orders, idempotency map, processed events, charges, four kinds of lock | create, cancel, webhook, reset | handlers on a thread pool and an event loop; `create_order` holds a lock the other two do not take; retries, declines, timeouts and duplicate events |
| Suite runner, `benchmark/suite.py` | position in the schedule, evaluations in memory, summary file | start, resume, run a case, write the summary | crashes between two files, resuming, two runners on one directory |
| Ledger and evidence files, `benchmark/artifacts.py` | `case-evaluations.jsonl`, temporary and final files | append, atomic replace, read back | torn lines, duplicates |
| Adjudication, `benchmark/adjudication.py` | `adjudication.json`, `adjudicated-summary.json` | adjudicate | the files may change under it; crash between two writes; two at once |
| Case evaluation, `_run_case`, `benchmark/differential.py`, `baseline/executor.py`, `baseline/restricted.py` | two executions, node classification, evidence | scan, run clean, run mutant, classify, verify inputs | timeouts, killed processes, duplicate nodes, tests that modify what they run against, three ways to end early |
| Provider client, `llm/openai_compatible.py` | attempt, last response, first answer, accounting | `generate_json` | retries of two requests, partial failure, accounting on every way out |
| Contract mapper, `contract/mapper.py` | work list of the search, routes, ranking | read a file, search from a handler, rank | cycles and shared helpers in the call graph, files that do not parse |
| Scanners, `baseline/scanner.py`, `contract/`, `stateful/`, `baseline/repository.py` | context, response model kept between cases, accepted answer | prepare, prompt, receive the answer, write the report | one scanner object for all cases, a bounded context, what makes an answer acceptable |
| Freezing, scoring, provider tables, command line | cached hashes | pure functions and input | - |

How they interact: the runner gives each case to a scanner; the scanner maps the
repository, calls the provider client once and keeps a report and a test; the
runner executes the test on the clean program and on the mutant, classifies what
happened and appends one line to the ledger; the summary is a function of the
lines; adjudication reads ledger and summary and writes an overlay. FlashCart
runs inside the test process and meets the runner only through the outcome of
the nodes.

    FlashCart                ContractMap -> Scanner -> CaseEvaluation -> SuiteRunner -> Adjudication
       |                                       |            (marks)                     |
       v implements                            v uses                                  v implements
    InventoryLedger          Provider  =>  ModelCall                            BenchmarkRecord
                                  implements

What makes each part correct:

* FlashCart: stock is conserved, one order and charge per idempotency key,
  retries agree, events count once, orders move forward, requests are answered.
* Runner: the ledger is the schedule so far, the summary rests on it, an
  official score has no doubt behind it, an interrupted suite can be finished.
* Adjudication: decisions rest on the ledger as it is, and never change.
* Case evaluation: a kill is recorded exactly when a node demonstrates it.
* Provider: bounded traffic, exact accounting, complete evidence, one outcome.
* Mapper and scanners: the plan aims at the worst flow, the context keeps the
  routes, an accepted retry test has its oracle in the right place.

The hazards behind these, each at its line, are in `PROJECT.json`.

## 2. Modules

### FlashCart, InventoryLedger (abstract), FlashCartMC, FlashCartProofs, FlashCartAnswerProofs, FlashCartStatusProofs

One process is one HTTP request. `pc[r]` is its place in its handler; a step is
the code between two accesses to `STATE` that no common lock protects, so every
read of a status and every write of one is a step of its own in `create_order`.
`stateLock` and `idLock` are the locks held across steps. Sections under
`inventory_lock` and `payment.lock` acquire nothing else and are single steps.
An order is named by the request that created it. `released[o]` is
`inventory_released`; `charges` are the payment keys charged; `billed` are the
orders the payment provider was ever told of, the only ones a webhook or a
cancellation can name besides an unknown id.

| Action | Code |
|---|---|
| `Arrive` | the header, key and signature checks |
| `FindIdentityLock`, `Acquire` | `_identity_lock`, the `with` and the lookup under it |
| `CheckFailed`, `CheckPending` | the two reads of the status of a repeated request |
| `Reserve`, `Publish`, `Charge` | `_reserve_inventory`, the two maps, `PaymentStub.charge` |
| `DeclineStatus`, `DeclineCode`, `DeclineRelease` | lines 210 to 212 |
| `SetCharge`, `SetPaid` | lines 215 and 216 |
| `Cancel`, `CancelWrite`, `CancelRelease` | `cancel_order` |
| `Webhook`, `WebhookPaid`, `WebhookCharge`, `WebhookFailed`, `WebhookCode`, `WebhookRelease`, `WebhookMark` | `payment_webhook` |
| `ResetState` | `reset_state`, called while no request is served |

`InventoryLedger` is what the service promises about stock, whatever runs
concurrently: units leave for one order at a time and come back at most once.
`FlashCart!LedgerSpec` is its specification under the mapping
`held <- UnitsHeld, closed <- Restored`.

### AtomicFile, CaseMarks, SuiteRunner, Adjudication, BenchmarkRecord (abstract)

`AtomicFile` is `write_json_atomic` on one path that several processes write:
each opens and truncates the one `.tmp` of that path (`Open`), writes its text
(`Write`), closes it and moves it to the path (`Move`). These are steps of their
own, so one process may truncate what another has written and not moved yet, or
move what another has only just opened. `handle` says where the file is that a
process has open: a move takes it along under the feet of whoever still writes
to it (POSIX), to the path, or out of sight when the file there is replaced. A
text goes out in one write, from the beginning of the file: over a longer one it
leaves `Garbled`, and so does a process killed in the middle (`Interrupt`).
`SuiteRunner` instantiates it for `suite-summary.json`, `Adjudication` for
`adjudication.json` and `adjudicated-summary.json`.

A runner is one `benchmark-run` invocation on a suite directory, with its place
in the code, the evaluations it has seen (`seen`), the pairs that were done when
it started (`completed`), the next pair and the evaluation in hand. The files
`config`, `ledger`, `summary`, `summaryTmp` and the flag `torn` outlive it. A
(repetition, case) pair is its place in the schedule; an evaluation is a pair
and the marks that stand against it (`CaseMarks`): a candidate kill waiting for
adjudication, modified inputs, a broken harness. `Blockers` is the list of
`official_score_blockers` that `_write_summary` computes. `OpenSummary`,
`WriteSummary` and `ReplaceSummary` are the three steps of its replacement; who
finds that another has moved the temporary file away ends with an exception.
`Die` ends a process at any step and `Tear` leaves half a line, or half a
summary in the file it had open.

`Adjudication` extends `SuiteRunner` with `benchmark-adjudicate` invocations on
the same files. `ReadLedger`, `ReadSummary`, `HashFiles`, `CheckAdjudication`,
`WriteAdjudication`, `CheckOverlay` and `WriteOverlay` are the steps of
`adjudicate_suite` in its order, the two writes with the three steps of
`AtomicFile` each; hashes are modelled by the contents they stand for, read when
the code reads them. `AdjDie` ends an invocation anywhere, with the file it had
open as it was or half written.

A second runner on the directory and a second adjudicator are modelled by the
sets `Runners` and `Adjudicators`; nothing in the code keeps them apart.
`SuiteProofs` and `AdjudicationProofs` hold the proofs.

`BenchmarkRecord` is what a reader of a suite directory is promised, whatever
died and was resumed in between: a record that grows by the evaluation of the
next pair of the schedule, a summary that is published of the record as it is,
one set of decisions about the candidate kills of the whole record, made once,
and the confirmed ones, published once. It knows no processes, files or failures.
`Adjudication!BenchmarkSpec` is its specification with `record` as the ledger,
`published` as the summary, `decided` as the adjudication and `confirmed` as the
confirmed pairs of the overlay.

### ContractMap, ContractMapProofs

`build_repository_map`, one action per file skipped or parsed, per search
started, per round of the work list of `_reachable_functions`, and per route
finished; `MapDone` is the ranking of `_priority_targets`. A syntax tree is the
function from the names of its functions to what the mapper sees of them: the
route, the parameters, the names called, what it does (`Deeds`), and the names
money is computed from. The environment chooses the trees. `flows` is a
reference: the flows of every parsed file by the definition of reachability as
the least closed set, not by the search.

### Scanner, ModelCall

One `scan` by any of the three agents. `Prepare` is `_prepare_repository` with
`collect_repository_context` (sizes of files are the environment's choice, so
the context is any set of readable files that with a file has every one before
it: `Before` puts the sources of routes first, then follows the paths) and, for the stateful agent, the attack
plan, of which the signal it is about is kept: it decides whether the response
model demands the retry oracle. `enforced` starts as whatever the case before
left. `ReceiveAnswer` calls the provider and validates: `Linked` is
`ContractAnalysis.validate_invariant_links`, `OracleFirst` is
`StatefulAnalysis.validate_stateful_oracle`. A test function is a sequence of
lines that send a request or assert something. `WriteRun` keeps the report.

`ModelCall` is what a scanner may assume of `generate_json`: it ends once, with
an answer that was accepted after at most one that was not, or with an
exception that says whether the model or the transport failed.

### CaseEvaluation, CaseEvaluationMC, CaseEvaluationProofs

`_run_case`: it extends `Scanner` and composes all of it. `Scan` is a step of
the scan; `ModelOutputError`, `NoTest` and `Abort` are the ways a case ends
without a run; then `RunClean`, `RunMutant` (not for the control C00),
`BuildDifferential`, `VerifyInputs`, `Record`. An execution is an exit class
and, for each node key, how often and as what it occurs in the JUnit report; the
environment chooses both executions and, for the local backend, what each of
them modified. The container backend mounts its inputs read-only, and a docker
client that cannot be started is an execution that did not take place. The
evaluation it records carries the marks `SuiteRunner` chooses from:
`MarksAreSound` says they are among `Marks`, the assumption `SuiteRunner` makes.

State that the code no longer reads is cleared (`SendPrompt`, `WriteRun`), which
keeps the composition small enough to check.

### Provider, ProviderMC, ProviderProofs

One `generate_json` call. Each POST is one action, by what came back: a timeout,
a transport error, 401/403, 429, another 4xx, 5xx, a body without a message, or
a message. `Accept`, `Repair`, `GiveUp` and `Crash` are what follows validation.
`IsModelCall` is the refinement of `ModelCall`: the mapping hides both requests,
their attempts and the repair, and shows what the caller gets.
The variables `posts`, `last`, `pauses` and `received` record the traffic so
that the reported accounting can be compared with it. Latencies and finish
reasons other than "stopped for length" are left out, a response id is the
number of its POST, and usage counts messages.

## 3. Runs

| Run | Shows | Bounds, and why they are enough |
|---|---|---|
| `flashcart_checkout` | types, conservation, one order per key, retries agree, every answer has a code, paid orders are backed, status only advances, nothing is sold twice, lock holders run | five requests: a checkout, its retry with the same or other contents, a rival order, two cancellations; 2 units, so the last unit is contended; all three payment tokens |
| `flashcart_webhooks` | the inductive invariant, conservation, events once, dead orders hold nothing, refinement of `InventoryLedger` | a checkout and its retry, two deliveries (one event twice, or two events, either type, or a bad signature), a cancellation |
| `flashcart_progress` | every request is answered | one request of each kind on one order, and a retry |
| `flashcart_oversell` | finding 1 | the five requests of the scenario |
| `suite_concurrent` | what can be relied on with two runners: readable summaries rest on the ledger, an empty one is still being written, who ends has every pair on the ledger | 2 pairs, one death: both runners in the same window, one truncating, writing and moving the file between any two steps of the other |
| `suite_summary` | finding 2 | 2 pairs, one death |
| `suite_adjudicate` | ledger, summary, official score, overlay, progress and refinement of `BenchmarkRecord` over crashes of both programs | one runner, 3 pairs, the first the control, 2 deaths: both within a pair or in two of them; one adjudicator with two invocations, each with its own decisions, dying anywhere |
| `suite_adjudicate_race` | finding 3 | two adjudicators |
| `case_evaluation` | search, worst flow, context, oracle rule, kills, marks: the whole case | two Python files and a text file; four functions that call each other with cycles and a shared helper, the effect behind up to two calls; a handler in the second file that may rank before or after; two tests, so that one node can spoil another; findings with a wrong link, twice the same test, two tests; test programs of up to four lines, every order of two requests, ledger and status; every exit class except 2, 4 and 5, which the code treats as 3 or as a timeout |
| `case_oracle` | finding 5 | as above, clean exits only |
| `provider_call` | bounds, accounting, evidence, final errors, pauses, refinement of `ModelCall` | 2 retries in each of two requests; Retry-After at -1, 0, 60, 61 and absent; a back-off whose doubling passes 60: a server error waits 60 seconds then, a timeout 80 |
| `provider_null` | finding 4 | as above |

Concurrency decides which of FlashCart's properties can be asked where.
Properties about a status (`StatusAdvances`, `PaidOrdersAreBacked`,
`AnswersCarryCode`, `NoOversell`) hold in the run without webhooks only: with them, the
unlocked write behind finding 1 also sets orders back to paid and lets a retry
read a code that is not there yet. Stock conservation, the agreement of retries,
event counting, the stock of dead orders and the ledger hold with everything;
each is checked in the run whose requests can break it.

Likewise the schedule properties of the runner hold for one runner at a time:
nothing in the code keeps two apart, and two of them may evaluate a pair twice
and leave a ledger the next resume refuses. They may also publish a summary that
is empty or mixed of two texts, when one opens the temporary file between the
write and the replacement of the other; the code claims nothing else, so this is
a hazard and not a finding. What still holds then is checked in
`suite_concurrent`.

`FullBenchmark` and `CleanGit` are true in the runs, so the runs say nothing of
scores that are official with a subset or a dirty state; the theorem
`OfficialScoreIsSound` is for both values. `SuiteGetsDone` leaves out the two
suites the code gives up for ever: one with a torn line and one without its
configuration. The charges of FlashCart are a set of orders, as the dictionary
of the payment stub is: a second order of one purchase would be seen, a second
charge of the same order would not.

The programs of the suite, the case and the provider come to an end, so their
runs do not check deadlock; FlashCart's runs do, and its reset keeps the
service going.

### Findings

1. `flashcart_oversell`: a retried checkout pays an order that was confirmed and
   cancelled in the meantime, whose units were already sold again.
2. `suite_summary`: a suite interrupted after its last line and before the
   summary can be resumed but never gets its summary, and so never adjudicated.
3. `suite_adjudicate_race`: two concurrent adjudications both write the file
   that is meant to be immutable.
4. `provider_null`: a message with null content ends the suite.
5. `case_oracle`: the retry oracle only compares the first ledger assertion with
   the first status assertion of the retry. A test that asserts the ledger
   before it sends the retry at all is accepted, though the message asks for an
   assertion "after the retry" (`stateful/validation.py:89`).

### Fairness

`FlashCart!Spec` has weak fairness of each started request: threads of the pool
and the event loop are scheduled by the operating system, and a lock that stays
free is taken. No fairness for arrivals and resets. `SuiteRunner!RunnerSpec` has
weak fairness of a runner's steps and of its invocation: a process runs while it
can, and `SuiteGetsDone` is a promise to an operator who resumes an interrupted
suite. `Adjudication!Spec` keeps that fairness for the runner and has none for
adjudications, which somebody has to start. Deaths are bounded by `MaxFailures`
and have no fairness. The other specifications have none: one case and one call
are sequential programs whose loops have a bound that is checked
(`PostsBounded`) or that visit each file and function once.

### Mutants

Every property of a passing run is broken by a change a bug in the code could
make, kept beside the definition it replaces (comments "A mutant"). Several are
the repository's own: M02 (no shared identity lock), M05 (an event not
remembered), M07 (stock kept after a decline), M09 (units given back twice).

## 4. Proofs

`FlashCartProofs` proves, for any requests, inputs, users, keys, events, initial
stock and quantities allowed by the three assumptions of `FlashCart`:
`TypeOK`, `StockConserved`, `OneCheckoutPerIdentity` and the refinement
`Spec => LedgerSpec`. They rest on `CheckoutInv`, which adds to the types

* `ContentsInv`: a handler runs a request of its kind;
* `LockInv`: the identity lock is held by exactly the handler inside the core of
  its identity, state_lock by exactly the handler inside a status section;
* `OrderInv`: `idempotency` and `orders` name the same orders;
* `TargetInv`: the order a handler works on, and that a request about to publish
  is the first of its identity;
* `StockConserved`.

Without the lock ownership two requests could both be about to publish; without
the third part a retry could reach an order of another identity. Each part has
its own step lemma with one case per action. The stock is counted as the
cardinality of the set of held units; `TakeUnits` and `GiveUnits` say what
reserving and releasing do to it, and `InventorySteps` classifies every action
as one that takes, gives back or leaves the units alone, which serves both the
conservation and the refinement.

Of `EveryRequestAnswered`, which is liveness, the safety part is proved.
`HoldersRun`: whoever holds a lock is at work and waits for none, so there is no
circle of waiting requests (`HoldersAlwaysRun`, from `LockInv`: both critical
sections are entered by the step that takes their lock, and no label inside them
waits). `NeverStuck`: while a request is in flight, one of them waits for no
lock. `HandlersOnlyAdvance`: every step but a reset brings one handler closer to
its answer (`Rank`), so no request takes more than nine steps. What remains for
TLC is that the fairness of the threads turns this into an answer.

`FlashCartAnswerProofs` adds three theorems under the same assumptions, webhooks
included. `RetriesAgree`: an answer a checkout gives was given inside the core
(`AnswerStep` lists how each request can end), so the order it names is one of
its identity with its contents (`AnswerInv`). `EventsTakeEffectOnce`: a webhook
past its first look holds state_lock and has an event not processed yet, so the
one that marks it is the only one (`EventInv`). `DeadOrdersHoldNothing`: a dead
order that still holds units has a handler that has not released them yet
(`DeadInv`).

`FlashCartStatusProofs` proves `AnswersCarryCode`, `PaidOrdersAreBacked`,
`StatusAdvances` and `NoOversell` under the hypothesis `NoWebhooks`, that no
request is a webhook. `NothingIsOversold` puts two invariants together: a paid
order has not given its units back, so the units of all paid orders are among
the held ones, of which there are never more than the initial stock. `HandlerInv` says what a handler that looked at the status still knows
of it at each later step, `RecordInv` what a status says of the other fields.
They are preserved because of `OneWorker`: two handlers never work on one order,
two of create_order because of the identity lock, two cancellations because of
state_lock, and one of each because they look for different statuses. A webhook
breaks exactly this lemma: it looks for a pending order, as create_order does.

`ProviderProofs` proves `CallInv` for every number of retries: while a request
runs, the POSTs sent are those of the first request plus the attempts of this
one, and the messages received are the first answer at most. From it follow
`PostsBounded`, `AccountingMatchesTraffic` and `EvidenceKeepsAnswers`.
`ImplementsModelCall` is the refinement: every step of the call is a stutter of
`ModelCall` but the ones that end it, and those need from the invariant how many
messages were rejected so far. `DefinitiveErrorsEnd` is inductive by itself.
`PausesAreBounded` says two things: an answer of the server never makes the
runner sleep for more than a minute, and a timeout for one of the configured
back-offs, which double without that cap. It needs that a power of two is a
natural number, which the provers do not know; `ProviderAssumption` says so for
the exponents of the loop, and TLC evaluates it. `CallsAreFinite` says a call ends, in the form a safety
proof can have: each step brings it further (`Come`), and there are at most
4 * (MaxRetries + 1) of them.

`SuiteProofs` proves three things of any number of runners on one directory, for
every schedule and any number of deaths. `SummaryOnLedger`: what a runner has
seen is distinct and on the ledger (`KnowledgeInv`), and no step, whoever's file
it truncates, writes or moves, leaves a whole text under either name that was
not there and is not what some runner has seen (`StepFiles`); so what can be read
rests on the ledger (`FilesInv`). `FinishedSuiteIsRecorded`: a runner has seen
an evaluation of every pair it skipped or left behind it (the other half of
`KnowledgeInv`), so one at the end has seen all, and what it has seen has a line.
`EmptySummaryIsBeingWritten`: while nobody has died, an empty file under either
name is one that some runner has open there, at its write (`EmptyInv`); the move
that publishes it takes that handle along. The rest needs `Alone`, that there is
one runner: `ScheduleInv` says the ledger is the schedule up to its length, that
the runner has seen exactly the ledger but for the line it is appending, that
the file it writes is its own and what it moves is the ledger, and that a
summary is whole and a prefix. `LedgerFollowsSchedule`, `SummaryFromLedger` and
`OfficialSummaryIsSound` follow.

`AdjudicationProofs` composes: a complete ledger has its last line, so under
`ScheduleInv` no runner changes it or a summary of it (`CompleteStays`). What an
adjudication has read is therefore still what is on disk when it writes
(`RestInv`), with any number of adjudicators, for every file that can be read:
each text in the two names of the decisions is one of those or broken
(`DecisionsMove`). That what is written is never replaced (`OverlayInv`) needs
one adjudication at a time (`AloneToo`): it finds each temporary file as it left
it (`HandlesInv`), so a file changes only by the move of a whole text, and there
was none before (`FilesMove`). Finding 3 is what happens otherwise. `ImplementsSuite` is the refinement the composition
rests on, fairness included: under any number of adjudications the runners are
those of `SuiteRunner`, so `SuiteStaysSound` carries the theorems of
`SuiteProofs` over. `ImplementsRecord` proves that runner and adjudicator
implement `BenchmarkRecord`: a line that is appended is of a pair that was not
on the ledger (`ScheduleInv`), a summary is replaced by one of the ledger as it
is then, and what an adjudication writes is about the whole
ledger (`RestInv`) and replaces nothing (`OverlayInv`).

`ContractMapProofs` proves the work-list search for every finite call graph:
what is queued and not seen is reachable, and whatever a seen function calls is
seen or queued, so an empty queue leaves a closed set. `FlowsAreExact` adds that
the routes found raise exactly the flows in `flows` between two files, and
`TargetIsWorst` that the target is a first one of them: a set of flows has a
lowest class and in it an earliest route, by the least-number principle of the
natural numbers. `SearchEndsAfterAll` says the search ends: every round visits a
function for the first time or shortens the queue, a well-founded order on any
finite file.

`CaseEvaluationProofs` proves `KillsAreDemonstrated` and `MarksAreSound` for any
repository, answer, node set and report: `Outcome` of a key that occurs once is
what it occurs as, a run is scoreable when it ended and no node erred, and
`CaseInv` carries the classification to the evaluation. `OracleIsFirst` proves `RetryOracleFirst`:
an accepted answer was validated against the plan of this case, whatever the
scanner kept from the one before (`OracleInv`), and the first assertion the
validator compares is the one the property asks for (`OrderedIsLedgerFirst`).
`RoutesAreFirst` proves `RoutesComeFirst` for any repository, any files that are
skipped and any sizes: a file with a route was parsed, so the collector may read
it too (`RouteInv`, `SourcesMayBeRead`; this is where `PathsAssumption` is
needed, that both walk the same Python files, each once), and what fits of the
order has no later file without every earlier one (`FittingRoutesFirst`).
`SearchOfCaseIsExact` and `TargetOfCaseIsWorst` carry the theorems about the
mapper into the case, where the prompt drops the map: `MapOfCase` is the
mapper's invariant with the fact that nothing of the map is read after that.

The assumptions are those in the modules (`FlashCart`'s three,
`SuiteAssumption`, `AdjudicatorAssumption`, `ContractMapAssumption`,
`PathsAssumption`, `ScannerAssumption`, `CaseAssumption`, `ProviderAssumption`),
which TLC evaluates in the runs, and the three hypotheses written in the theorems:
`Alone`, `AloneToo` and `NoWebhooks`. That the values `None` of an absent file, an
execution that did not take place or a missing number, and `Empty` and `Garbled`
of a broken file, are none of the values that may stand there is part of those
assumptions.

Every invariant and action property a passing run checks, and every refinement,
is stated by a theorem. Model-checked only:

* `EveryRequestAnswered` and `SuiteGetsDone`: liveness, out of the prover's
  reach. Of the first the safety part is proved (`NeverStuck`,
  `HandlersOnlyAdvance`).
* That the hypotheses are needed: counterexamples, which the behaviours of
  findings 1 and 3 are for `NoWebhooks` and `AloneToo`.

## 5. Not modelled

* Executing the generated test inside a scan (`execute`, the "reproduced"
  status), which only the single-scan commands of the command line ask for.
* The text of prompts, the rendering and hashes of the map, the truncation of
  risk texts, the wording of the attack plan.
* What a syntax tree says: how a read of state, a guard or an endpoint is
  recognised. The mapper model starts from those facts.
* `llm/registry.py`, `llm/capabilities.py`, `llm/response_schema.py`: static
  tables and a rewriting of schemas, without state.
* Freezing: hashes computed once per process; the suite sees them as the
  constants `FullBenchmark` and `CleanGit` and the comparison of a resume.
* Scoring: a division nothing else calls.
* Process groups, signals, containers (one may outlive the timeout of its
  client), JUnit text, hashing, JSON: I/O and formatting.
* A power failure that loses unsynced files, a full disk and hardware errors; a
  text is one write of the operating system, of which a kill leaves a part.
* Malformed usage numbers of a provider: they end the call as null content does.

## 6. What is left

1. Freezing: `frozen_config`, the fingerprint that resume compares and the
   cached preflight, composed with `SuiteRunner` in place of its constants.
2. What holds of an order's status with webhooks: which of the three status
   theorems can be saved for orders no webhook names.
