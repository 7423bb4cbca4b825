# Verification of the DeltaLedger backend

This directory holds TLA+ models of the DeltaLedger backend
(`src/backend/app`), the TLC configurations that check them on small
instances, and TLAPS proofs of the properties that matter most. It is written
for someone who has the repository open beside it; paths below are relative to
`src/backend/app` unless they start with `src/`. Line numbers are those of the
commit modelled.

Contents: 1 the system, 2 the modules and how they correspond to the code,
3 the runs, 4 fairness, 5 the proofs, 6 disagreements found, 7 what is not
modelled, 8 the plan.

## 1. The system

DeltaLedger compares two SEC filings of a company: it downloads and parses
them, matches their sections and passages, classifies what changed with a
language model, extracts numeric claims and verifies them against XBRL facts,
looks for contradictions, asks a human to review what needs it, and writes a
report. A FastAPI process takes requests, Dramatiq workers do the work,
PostgreSQL holds everything that lasts (with pgvector, and LangGraph's
checkpoints), Redis carries the messages.

### Inventory

| Component | State it keeps | Operations | Interacts with |
| --- | --- | --- | --- |
| Analysis workflow (`services/analysis_workflow_service.py`, `api/routes/analyses.py`, `workers/tasks.py`, `repositories/workflow_repository.py`) | `analysis_runs` row, LangGraph thread, review requests, report, messages | post, run, resume, cancel, retry, review; twelve nodes | every stage below through its service; the API through the row |
| Run lock, stale recovery (`db/session.py`, `services/stale_run_recovery.py`) | one Postgres advisory lock per run, the heartbeat | hold with keep-alive, probe, retry | workers and retry requests |
| Stage locks and connection pool (`db/session.py`, `workers/async_runner.py`, the repositories' `try_acquire_*_lock`) | an advisory lock per filing for its processing, one for its claims; one per comparison for comparing, for its claims, for contradictions; a pool per invocation | acquire, release, dispose | every stage that writes rows of a filing or comparison |
| Filing processing (`services/filing_processing_service.py`, parser, chunking, embeddings) | `filing_processing_stages`, sections, tables, chunks | five stages, each recorded | comparison (sections), retrieval (chunks) |
| Filing comparison (`services/filing_comparison_service.py`, `services/disclosure_change_service.py`) | comparison row with a matching marker, `section_matches`, `passage_matches`, `disclosure_changes` | match, align, prepare, classify in batches, complete | planner, ledger, provider; re-parses cascade into it |
| Batch planner (`ai/batching.py`) | none | `plan_batches` | both batched stages |
| Batch ledger (`repositories/stage_batch_repository.py`) | `analysis_stage_batches` rows | sync with a plan, mark processing, completed, failed | both batched stages, the readiness guard, progress |
| Claim extraction (`services/claim_batch_extraction_service.py`) | the ledger, `financial_claims`, the comparison's lock | one attempt of the stage | provider, planner, ledger |
| Readiness guard (`services/analysis_completeness.py`) | none | `evaluate_readiness` | ledger, review requests, node results |
| XBRL facts and verification (`services/financial_verification_service.py`, `financial_claim_verification_service.py`, `xbrl_fact_resolution_service.py`, periods) | `xbrl_facts`, verdicts on claims | ingest the facts of a company, verify the claims of a comparison (extracting them first when asked alone), verify one claim | claims, contradiction analysis |
| Claim rules (`services/financial_claim_extraction_service.py`, number parser, metric registry) | `financial_claims` | read claims from a passage, store them once | claim extraction, verification |
| Contradiction analysis (`services/contradiction_analysis_service.py`, `repositories/contradiction_repository.py`) | findings with their evidence, reviews of them | analyse a comparison, decide, edit | claims, verdicts, changes, sections |
| Section matching, alignment, change labels (`services/section_matching_service.py`, `passage_alignment_service.py`, `semantic_change.py`) | none | match, align, label | comparison |
| Provider client (`ai/openai_compatible.py`) | a process-wide timestamp for pacing | chat with retries, repair of invalid output | both batched stages |
| Review policy and report (the gate, `services/analysis_report_service.py`) | `analysis_reports` row | ask for a review, write the report | workflow, findings, verdicts, changes |
| Progress and readiness (`services/analysis_progress.py`, `api/routes/analyses.py`) | none | aggregate the ledger, build the response, accept a retry | ledger, run row |
| Chunking, retrieval (`services/chunking_service.py`, `retrieval_service.py`) | chunks | cut, search, fuse, rerank | processing; the demo's questions |
| Ingestion, SEC client, object storage | companies, filings, documents | download, rate limit, insert | processing, facts |
| API routes, authentication, configuration, health | none | reads, and messages sent to the workers | all |
| Evaluation, command line, demo data, derived metrics, frontend | none the above depends on | reads | - |

### What makes it hard, and what must hold

* **Several drivers of one run.** Posts, retries, resumes, redeliveries and
  stale recovery all put messages in one queue. A run must be executed by one
  worker at a time (`ImplementsExclusiveRun`, in `AnalysisRun` and in
  `RunLock`), even though the lock belongs to a database session that can be
  dropped; it comes free whatever its holder does (`LockIsReleased`).
* **Read, await, write.** A node reads the row, commits its start, works for
  minutes and writes the status. A cancellation may come in between, and an
  error is recorded over it. `CancelledRunStops` says what is left of it: a
  cancelled run that nobody is inside of is worked on no more, unless an
  invocation under way raises; the rest is in section 6.
* **Human review.** The gate is interrupted and executed again from its top;
  resume messages may be late, repeated or for an older request
  (`ReportIsReviewed`, `CompletedHasReport`).
* **Retries of a batched stage.** The provider answers some items of a batch,
  the worker dies, the plan changes, the model changes. What was answered must
  not be asked again, lost or attributed to another prompt
  (`CompletedIsComplete`, `CompletedStays`, `NothingAskedTwice`,
  `FaultlessSuccessIsStored`, `ResultsAreNotAskedAgain`, `ResultsWereGiven`).
* **One transaction per attempt.** Processing commits at its end or when a
  stage fails, halfway, and reuses what earlier documents, versions and
  attempts left (`ReadyIsWhole`,
  `BecomesProcessedWhole`, `PaidForOnce`); a message that finds the lock taken
  is dropped, one whose attempt raises comes back (`RequestIsAnswered`).
* **Reused work.** Matching is reused if a marker agrees with the tables,
  while a filing may be parsed again under a running comparison
  (`ReusedMatchingIsComplete`, `CompletedIsWhole`, `ClassifiedIsKept`).
* **Session-level locks on pooled connections.** A stage commits between
  taking and releasing its lock, so the release may run on another connection
  (`WorkIsExclusive`, `LocksAreTakenInOrder`, `AloneReleasesItsLock`,
  `LocksComeFree`). A stage that is refused its lock does nothing and is
  recorded complete (`DeterministicStagesAreDone` fails).
* **Calls that cost.** Retries sit inside repairs, and callers of one process
  are paced through a timestamp they read before they sleep (`CostIsBounded`,
  `OwnCallsAreApart`, `EveryCallEnds`).
* **Verdicts beside the facts they rest on.** A job verifies, ingestion
  rewrites the facts, another job detects, a reviewer edits
  (`VerdictsUseFittingFacts`, `VerifiedComparisonIsWhole`,
  `ContradictionsAreFound`, `DecisionsSurvive`; `TrueDeclinesHold` fails).
* **Rules with many cases.** Packing, matching, alignment, chunking, fusion of
  rankings, change labels, reading of numbers, what is shown and what is
  reviewed (`PlanIsSound`, `AlignmentIsSound`, `SearchIsSound`,
  `LabelsFitTheirPair`, `ReadingsAreSound`, `ProgressIsHonest`,
  `ReportHidesNothing`).
* **Abandoned work.** A run with no message and no worker must become
  retryable without help (`AbandonedBecomesRetryable`).

## 2. Modules and the code

| Module | Models | Extends / instantiates |
| --- | --- | --- |
| `ExclusiveRun` | the abstract promise: executions of a run follow one another | - |
| `RunLock` | `held_advisory_lock`, `is_advisory_lock_free`, the retry handler around them | implements `ExclusiveRun` |
| `AnalysisRun` | the run's row, queue, thread, reviews, report, workers and handlers | implements `ExclusiveRun` |
| `BatchPlan` | `plan_batches` as a recursive function, and what its plans promise | - |
| `StageBatches` | the ledger's operators and the guard's clause about them | - |
| `ClaimExtraction` | the claim stage over its attempts | extends `BatchPlan`, `StageBatches` |
| `ComparisonPipeline` | the comparison over its attempts | extends `BatchPlan`, `StageBatches` |
| `FilingProcessing` | processing of one filing beside ingestion and deployments | - |
| `StageLocks` | the stages' locks, the pool they travel through | - |
| `ProviderClient` | the calls of one process to the language model | - |
| `FactVerification` | choice of XBRL facts, verdicts | - |
| `FindingRules` | what contradiction analysis finds in claims, sections and changes | - |
| `FinancialFindings` | jobs that verify and analyse a comparison, ingestion of facts, reviewers | extends the two above |
| `Rankings`, `Selection` | sorting by a key, the first of a ranking; what a filter leaves of a list | - |
| `Alignment`, `ChangeRules`, `Chunking`, `Retrieval`, `ClaimParsing`, `Readiness`, `ReviewRules` | the pure algorithms the names say | `Rankings` where they rank |
| `Algorithms` | writes the inputs of the pure algorithms, states what they promise | extends them, `BatchPlan`, `FindingRules` |
| `*Proofs` | theorems: `LockProofs` about `RunLock` and `StageLocks`, `ComparisonProofs` about `ComparisonPipeline`, `AlgorithmsProofs` about `Algorithms` and what it extends, the others about the module they are named after | extend or instantiate it, and extend `TLAPS` |
| `MC*` | model values, layouts and symmetry for TLC | extend the module they check |

Every definition's source lines are in `PROJECT.json` under `map`.

### AnalysisRun

One run. `status`, `needsReview`, `failure` and `beat` are the columns of its
row (the heartbeat by whether it is older than the stale threshold);
`reviews`, `report`, `thread` and `queue` are its review requests, report,
LangGraph checkpoint and Redis messages (a bag: no order, redelivery through
`ReturnMessage`); `worker[w]` is the local state of a thread.

A node is three steps, because SQLAlchemy and PostgreSQL make it so: `ReadRow`
(`_require_run`), `StartNode` or `SkipNode` (the committed start in `_node`, or
the early return of a cancelled run), and one of the `Finish...` actions.

* The session's identity map holds rows weakly and `expire_on_commit` is off:
  each node's `_require_run` is a fresh SELECT except that of the first node
  after `run_analysis` or `resume_analysis`, which still refers to the row it
  loaded. `LoadRun` and `LoadResume` therefore fill `seen`.
* An UPDATE writes the changed columns only; so `CommitCancel` keeps the other
  columns, and a node's start overwrites a cancellation it has not seen.
* The comparison node, prioritisation, the gate and finalisation write the
  status again at the end of their work; the others do not.
* LangGraph's default durability is "async": at a crash or an error the
  checkpoint may lag by a superstep (`Saved`), when `ainvoke` returns it does
  not.
* An error can be raised anywhere in an invocation (`Invoked`): while the run
  is loaded, between two nodes, while a cancelled node is skipped, in a node's
  reads, its work and its commits, and after the graph. `FailRun` is
  `_invoke_graph`'s `except`, which writes "failed" whatever the row says by
  then, or an error which nothing records: one before the graph, or one of
  `_fail_run` itself. `FailResume` records nothing. The message of either goes
  back to the queue (`ReturnMessage`) while it has retries left.
* The resume value is seen by the first superstep only; the gate runs again
  from its top, so it asks for a request again (`WithPendingRequest`).
* `TimeLimitExceeded` derives from `BaseException`: `HitTimeLimit` records no
  failure. A dead worker's session may linger (`DeadSession`); a redelivered
  message that meets it finds the lock held and is dropped.
* `report.needs`, `report.verdict`, `report.asked` and the channels' `asked`
  are observations for `ReportIsReviewed`. The five outcomes of a review are
  one ("decided"): the graph treats them alike. What the other nodes compute
  is abstracted to success or failure; companies and filings are left out.
* `RetryStale` is one step here; `RunLock` splits it.
* `MaxPosts` bounds the messages the API enqueues, `MaxDeaths` the crashes and
  time limits, `MaxEvents` both together; retries are bounded by the actors'
  own numbers.

### RunLock and ExclusiveRun

Workers open a dedicated connection, take the lock on it, work while a task
pings it, and close it. The database may drop a connection (`MaxLosses`) and
the worker goes on. A probe takes the lock and lets go of it in two
statements, which another probe or a worker can meet. Lock keys are 63-bit
digests; collisions are left out. `AnalysisRun` refines `ExclusiveRun` with
its active workers; `RunLock` refines it with the workers that still have
their connection, which is all that holds once connections drop.

### BatchPlan

`PlanBatches` applies `Place` to one item after the other as the code's loop
does. Token estimates are constants; the comparison of a batch's tokens with
the budget, the item limit and the lone item that is too large are the code's.
`FewestBatches` compares a plan with every other way to cut the items into
requests within the limits.

### StageBatches and ClaimExtraction

A ledger row is its items in order, the context of its requests, its status
and its recorded outcomes; the input hash is modelled by what it fingerprints.
Token, call and retry counters are left out.

An attempt: `Begin` (the lock; without it the stage returns at once),
`StoreDeterministic` and `SyncPlan` (two commits), then `SkipBatch` or
`StartBatch`, `Answer` (any outcomes for the items asked; the stop after a
batch that stays partial), `CommitBatch` or `CommitPartial` with
`RecordFailure`. `LoseSession` is a database error between the answers and
their commit: what was recorded so far is kept as the failure path writes it,
the claims are rolled back. `OtherTakesLock` is the verification task, which
uses the same key. `Drift` changes what the comparison yields, or the context,
between attempts. The path without a run id, which keeps no ledger, is left
out.

### ComparisonPipeline

Attempts follow each other under the comparison's lock (two at a time is the
subject of `StageLocks`); one that finds the lock taken, or the comparison
completed, changes nothing and is omitted.

* Section matches and pairs are named after the rows they refer to, so
  `Reparse`, the cascade of `replace_sections_and_tables`, is an intersection
  with what refers to sections that still exist. It may happen at any moment.
* `Layout` gives the matches and pairs that a parse and the matching settings
  yield: what the matching algorithms compute is constant, that they are
  deterministic in the fingerprint's inputs is the abstraction.
  `LayoutAssumption` says that each section is in one match, as
  `SectionsAreMatched` proves of `Alignment`, and that a parse which has a
  match's sections has their passages.
* `ReplaceSectionMatches`, `AlignSection`, `MarkMatched` are the commits of
  `_recompute_matching`; `Reusable` is the fingerprint and the two counts.
* `Begin` reads the reusable results before anything is wiped. `Classify` lets
  the provider leave any of the texts unanswered. `given` records, for
  `ResultsWereGiven`, what the provider answered and in which context.
* An attempt belongs to the run (with the ledger) or to nobody (without).
* `LoseSession`, `RecordFailure`, `FailComparison` are the error paths;
  `Crash` ends the attempt anywhere.

Statistics, malformed stored output and ledgers of other runs are left out.

### FilingProcessing

One filing. `stored` is the object under its storage key, `filing` its row,
`rows` what is committed of it: sections, tables and chunks stand for what they
were made from (text, tables, versions), `models` for each chunk's embedding.
`attempt` is `_process_filing_locked` with its transaction's `draft`; `queue`
counts messages by the retries they have left.

* Nothing of an attempt is committed before `Finish` or `FailStage`. An error
  outside the stages, one of the session, the time limit (a `BaseException`,
  which `_run_stage` does not catch) and a crash roll back (`LoseSession`,
  `Crash`).
* `WithSections` and `WithChunks` replace all rows or none; chunks go with their
  sections by the foreign key's cascade. `ToEmbed` are the chunks without an
  embedding of the model; `EmbedBatch` is one call of the provider and its
  `_persist_batch`. An answer the validation refuses is a failing stage.
* A row's UPDATE writes changed columns only: `Finish` and the ingestion's
  `Noted` write the status if it differs from the one they loaded.
* `BeginInWorkflow` is an attempt of `ensure_filings_processed`, which has no
  message. That its lock can stay behind is `StageLocks`' subject; here the
  end of an attempt frees it.
* `kept`, `twice`, `replaced`, `unanswered`, `lost` are observations for
  `PaidForOnce` and `RequestIsAnswered`.

### StageLocks

A worker invocation owns the pool until `_run_and_dispose_engine` disposes it.
The pool hands out the longest idle connection and opens one when none is idle
(SQLAlchemy's queue pool, first in first out); returning a connection rolls
back but keeps session-level locks. Stages of `OnItsOwnConnection` hold their
lock through `held_advisory_lock`; the others take it on the session's
connection, commit (which returns the connection) and release it in the next
transaction. The four repositories move the identifier by different powers of
two (`FilingKey`, `ComparisonKey`, `FinancialKey`, `ContradictionKey`), so one
comparison has three locks and one filing two; extraction and verification of
claims share theirs. `Level` is the place of a lock in the lock ordering of
`src/docs/database-design.md:644-650`. `todo` is what the message still has to do, `inflow` whether it is
the workflow. Only processing and comparison look at the outcome of a stage
that was refused its lock.

One filing and one comparison; connections keep their number when replaced
(`DropIdle`); several transactions of the session inside one step rotate one
idle connection and change nothing; two identifiers whose moved values collide
are left out; the run lock's connection never reaches the pool before the invocation ends and is left out; `done` does not shrink.
Every invocation has a pool of its own, as with one worker thread per process.

### ProviderClient

Time is a clock of ticks (`Tick`). A call takes its pace (`BeginPace` reads the
class attribute all clients of the process share, `EndPace` writes it after
the sleep), is sent, and gets an answer of `Envelopes`: an error status, a
body that is not what it should be, an answer whose content fails validation.
`RetryRequest` backs off and sends again, `RepairContent` asks the model to
repair what it said. `AnswerAssumption` says what an answer can be: a hint how
long to wait is a number of ticks or missing. `usage` adds up what was paid for. Each step between two
awaits is one action, so that calls interleave exactly at the awaits. HTTP
below the client is external: it answers or times out.

### FactVerification, FindingRules and FinancialFindings

The first two are the arithmetic and the rules, as operators: a claim's
candidates scored and cut by `Selectable` and the ambiguity margin,
`Verdict` by the type of the claim, and the findings of `NumericalDetect`,
`MagnitudeDetect`, `CrossSectionDetect`, `TemporalDetect`. Scores and percentages are whole
ten-thousandths; a period is its kind, days and fiscal label; text is the set
of terms the rules look for. The order in which a Python set of qualifiers is
iterated is a parameter (`ranks`): a process has one, two may differ.

`FinancialFindings` has a worker verify and detect for one comparison, each as
one transaction with a draft that commits at its end: reading, then a step per
claim (`VerifyNext`) whose write may have to wait for a row another transaction
changed.

* `Claims` are the claims of the comparison's passages in the order
  `list_claims` gives them (by creation, then by id), each with the filing it is
  made in; `extracted` is how many of them are stored. `CommitExtracted` is the
  batched extraction of the workflow, which commits as it goes.
  `StartVerifyComparison` is the job of the API too: it extracts first, in its
  own transaction (`upto`), and lists one page (`FirstPage`, `ClaimLimit`: 1000
  in the code). That a rolled back extraction may store the same claims in
  another order is left out.
* A claim is verified with the facts of its own filing (`claim.filing`) and,
  when it compares, those of the filing compared with (`ComparisonOf`).
* `ReplaceFacts` is ingestion, which deletes and rewrites facts and takes
  verdicts' references with it.
* What an analysis found is a set, with the fingerprint of each finding;
  `StoringOrderIsFree` proves that the order it is stored in makes no
  difference.
* `FindingsAssumption` says what a database holds: rows known by their ids,
  edits that keep them.
* Reviewers edit claims and findings in short transactions of their own.
  `Overwritten` says which columns of a finding a repeated analysis writes:
  all but the review and the record of the edits (`edits`, what each edited
  column held before). Type and severity stand for the five columns a reviewer
  may edit.

### Alignment and Algorithms

`MatchSections` is the loop over the current filing's sections, each of which
takes the best that is left (`MatchOne`), then the one over the previous
filing's (`LeaveOver`). `AlignPassages` fills the table of best values
(`Values`) and walks back through it, a cell at a time (`StepBack`).

A behaviour picks a task and writes its inputs, two sequences, an element per
step, so that TLC visits each pair of inputs up to `Bound[task]` once; the
properties are about what the algorithms make of the inputs so far. What an
embedding model, a lexical index or a reranker says of two texts is a constant
(`Likeness`), the weights and thresholds are those of `core/config.py`.
A sentence is a sequence of words; which words are numbers, their scale, and the
terms and aliases they hold, are constants of the same kind, so that regular
expressions are modelled by what they find. `PlanIsSound`,
`AlignmentIsSound`, `SearchIsSound`, `LabelsFitTheirPair`, `ReadingsAreSound`,
`ProgressIsHonest` and `ReportHidesNothing` each say what the callers rely on,
and have their parts as definitions of their own.

## 3. The runs

Every run switches the deadlock check off: when the budgets (messages,
attempts, jobs) are spent and the work is done, the system stops. The modules
name each budget as a constant and count it in the guards.

| Run | Shows | Bounds, and why they are enough |
| --- | --- | --- |
| `analysis_run` | one worker per run, review before report, report before completion, a cancelled run nobody is inside of stops, refinement of `ExclusiveRun` | 2 workers, 3 messages or 2 and a death: a message for each of start, retry or resume and a stale duplicate, or a crash between any two steps; errors wherever the code can raise, with the actors' retries. Workers are symmetric (3,426,265 states) |
| `analysis_run_live` | the lock is released, an abandoned run becomes retryable | 1 worker thread (only one is ever active, which is proved), 2 messages or 1 and a death (223,835 states); with 3 events both were checked as well (951,453 states) |
| `run_lock` | the workers that still have their connection implement `ExclusiveRun` | 3 workers, 2 probes at a time, 4 messages, 1 dropped connection: a retry can overlap a worker that lost its lock, and a second retry both |
| `claim_extraction` | completed rows are complete and stay, nothing settled is asked twice, a stage reported ready is resolved, success is stored | 3 passages in batches of 2, three materials, two contexts, 3 attempts, a crash, a database fault and a drift |
| `comparison` | reuse is complete, completion is whole, results are kept and not invented | three section matches (added, in both, removed), two settings, two contexts, 2 attempts and one of crash, fault, re-parse and drift each; a third attempt with smaller budgets was checked too |
| `stage_locks` | the stages of one lock exclude each other, locks are taken in the documented order with the leftover ones counted in, lone stages release, every lock comes free | 2 workers, 2 messages of any kind: the workflow beside any actor, and beside itself (34,793 states) |
| `filing_processing` | what is ready, recorded completed or marked processed is whole; no committed embedding is paid for twice; requests are answered | three documents (two chunks; the same text with another table; no sections), one chunk per call, 3 retries as in the actor; 2 requests with either 2 ingestions and 1 fault or 1 ingestion, 2 faults and a new version of the parser, the tables, the chunker or the model, and 1 request with all of them once and 2 ingestions. With 2 requests, 2 faults and 2 ingestions the properties were checked as well (294,106 states) |
| `provider_client` | what a call may cost, that the calls of one caller are apart, that every call ends | 2 callers, so that two read the shared timestamp together; 2 requests an attempt, 1 repair; delays of 1 and 2 ticks |
| `findings` | verdicts rest on fitting facts, a verified comparison is wholly verified up to the limit of the listing, contradictions are found, decisions survive | 2 symmetric workers and a reviewer, 3 claims (one of each filing about one metric, one whose metric has no concepts and which a reviewer may edit) with a listing of 2, 2 sets of facts (700,390 states); changes and sections are empty here, since with them the state space passes what a run may take, and are the subject of the next run's `narrative` |
| `algorithms` | what each pure algorithm promises, on every input up to a bound | plan: 6 items of three sizes (two fit, three fit, none fits); sections, passages, narrative: 3 a side; chunks: 3 paragraphs and a table, of sizes around the limit and the overlap; retrieval: 4 chunks; claims: a sentence of 4 words; changes, progress: 2 a side; report: 3 findings with a listing limit of 2, and 2 verdicts or changes |
| `stage_skipped`, `decline_contradicted` | disagreements, section 6 | the smallest bounds that show them |

Every property has a mutant of the code that breaks it in its own run
(`PROJECT.json`, `mutants`; the operators are beside the definitions they
change, marked `mutant`).

## 4. Fairness

* `AnalysisRun`: weak fairness of a worker's progress (asyncio runs the
  coroutine to its end; a crash is not fair and is bounded), of delivery (the
  broker delivers and redelivers to a live worker), of the end of dead
  sessions (TCP keep-alive), of the clock, and of a cancel handler that has
  read the row. Users are not fair: nobody is obliged to retry, review or
  cancel.
* `RunLock` states safety only and assumes no fairness.
* `FilingProcessing`: workers take messages (the broker redelivers those of a
  dead worker), a stage ends (calls to provider and storage have timeouts, the
  actor a time limit), the server notices dead sessions. Requests, faults,
  ingestion and deployments are not fair.
* `ProviderClient`: the clock ticks, sleeps end and the HTTP client answers or
  times out (each with a timeout in the code). Nobody has to begin a call.
* `FinancialFindings` and `Algorithms` state safety only.
* `StageLocks`: the event loop runs an invocation to its end; failures,
  crashes and dropped connections have no fairness.

## 5. The proofs

Eight modules hold theorems; each is checked by `tlapm` for every value of the
constants that meets the module's named assumptions (holders distinct from
workers, bounds natural numbers, rows known by their ids). Every invariant,
action property and refinement that a passing run checks is a theorem.

* **`AnalysisRunProofs`**. `TypeCorrect`, `MutualExclusion`,
  `WorkersAreExclusive` (the run implements `ExclusiveRun`: the lock holder is
  the only active worker, so the mapped set is empty or a singleton),
  `CancelledRunsStop` (`CancelledRunStops`), `CompletionHasReport`. `Typed` strengthens `TypeOK`
  with the fact that a worker inside the graph is at one of its twelve nodes
  (without it `NodeStatus[next]` has no type). That a completed run has its
  report is not inductive, since finalisation writes "completed" when it
  starts: `FinalizedWithReport` follows every copy of the thread's channels
  (the checkpoint and each worker's own) and says that one which stands at
  finalisation has a written report or belongs to a run cancelled for good, or,
  for the checkpoint of a run whose skipping invocation failed, is left behind
  by workers that have restarted the thread (`Restarted`). `CancelledRunsStop`
  rests on the same: the only step out of such a cancellation is the failure of
  an invocation under way (`CancelledOrRestarted`). `SkipsCancelled` says that a worker about to skip its node does so because
  the row is still cancelled. `ReportsAreReviewed` follows the review number
  through its copies: thread, workers' states, the checkpoint a crash keeps.
  `AskedBefore`: no copy asks about a request that does not exist.
  `CarriedAnswer` and `ReportedWithAnswer`: a copy past the gate that needs
  review carries a decided request no older than the one it asked about.
  Review requests are only appended and decided (`ReviewsGrow`), so answers
  stay answers (`AnswersStable`). The readiness guard is not needed: the
  gate alone implies it.
* **`LockProofs`**, about the run's lock and the stages'. `ConnectionOwns`
  (`ConnectedIsOwner`) and `LockIsExclusive` (refinement of `ExclusiveRun`) for
  any number of workers, probes and losses. `StagesAreExclusive`
  (`WorkIsExclusive`), `LoneStagesRelease` (`AloneReleasesItsLock`) and
  `LocksFollowTheOrder` (`LocksAreTakenInOrder`): `PoolsAreGood` accounts for
  the connections of an invocation: those in the pool differ from each other
  and from the session's and the dedicated one. `WorkHoldsItsLock` says that a
  worker inside a stage holds the key on a connection of its own. `Alone` says
  that an invocation of a single stage has one connection, which is why its
  release finds the lock and that of the workflow may not. `Small` counts and
  orders: the idle connections, the session's and the dedicated one are all
  that were opened, two at most; and a lock left behind is of a level before
  the stage at hand (`InOrder`), because a workflow passes the levels one way
  and the one lock two of its stages share, that of extraction and
  verification, is held by the first on a connection of its own, which unlocks
  for certain. So no lock nests (`TypeCorrect`).
* **`ClaimExtractionProofs`**. `CompletionCarriesOutcomes`
  (`CompletedIsComplete`), `AnswersAreKept` (`NothingAskedTwice`) and
  `SuccessIsKept` (`FaultlessSuccessIsStored`). The attempt works on a copy of
  the rows: `SnapshotHolds` says the copy agrees with the ledger in the items
  everywhere and in the outcomes from the current batch on. `BatchCovered`
  says that what is asked, and what is then answered, is with the recorded
  outcomes the whole batch; so a batch is only completed when it is covered.
  `StoredInv` adds that the claims of each recorded success are committed with
  it. `CompletionIsKept` (`CompletedStays`): what marks a row stands at another
  (`MarksHold`). `TypeCorrect`; and `ReadyIsResolved`
  (`ReportedReadyIsResolved`), which needs the plan: `PlanCovers` says that the
  plan of an attempt and the regular expressions have every item the comparison
  yields, `ReportHolds` that what the node reported is the number of batches of
  such a plan, so that a ledger the guard finds complete is that plan's.
* **`FilingProcessingProofs`**. `ReadyWhole`, `AllCompletedWhole`,
  `ProcessedWhole`, `TypeCorrect`, for any documents and number of chunks,
  provided that what a chunk is cut from determines how many there are.
  `Coherent` is the strengthening: rows, committed or drafted, have no chunks
  or those of the sections beside them; it survives replacing either and
  embedding some. `InStep` says that a draft holds what the stages behind it
  made of the attempt's document, so that nothing left to embed means whole
  rows (`NothingLeft`). `PaidOnce` (`PaidForOnce`): as long as no document is
  replaced, rows and drafts only go forward through the versions, so what is
  asked for again is behind what the rows hold (`PaidInv`).
* **`ProviderClientProofs`**. `TypeCorrect`, `CostsAreBounded` (`CostIsBounded`)
  and `OwnCallsKeepApart` (`OwnCallsAreApart`), for any number of callers,
  answers and settings. `Spent` bounds what a call has sent by its phase: every
  repair may have used all retries. `Paced` says that the shared clock, which
  other callers wind back while one sleeps, is never older than the caller's own
  last request, so that the wait computed from it is long enough.
* **`ComparisonProofs`**. `ReusedMatching` (`ReusedMatchingIsComplete`),
  `ReuseKeepsChanges` (`ClassifiedIsKept`), `NothingIsRepaired`
  (`NothingToRepair`), `ResultsAreReused` (`ResultsAreNotAskedAgain`),
  `ResultsAreGenuine` (`ResultsWereGiven`), `CompletedComparisonsAreWhole`
  (`CompletedIsWhole`). `MatchInv` says what the fingerprint, the matches and
  the pairs owe each other, also after a new parse took some of them;
  `BatchesInv` which batches an attempt goes through; `LedgerInv` that the
  attempt's rows agree with those on record and what is asked is unknown;
  `GivenInv` that each result anywhere was given for its text; `CoverInv` that,
  while no parse comes, each pair is a candidate and has its change once
  passed. What `PlanBatches` computes it needs too, and proves for itself.
* **`AlgorithmsProofs`**, for inputs of any length. `InputsAreOfTheirTask` is
  the invariant of the behaviours that write the inputs (`InputsFit`: they are
  of the task's alphabet and within its bound); the rest is what the algorithms
  make of such inputs.
  - What the recursive functions compute. The library's induction theorems
    take an operator as a parameter, which the provers cannot instantiate;
    induction is done over sets instead: a set of naturals that holds 0 and
    with each number the next holds them all (`UpTo`, by way of a least element
    of the complement), and a function that a recursion describes exists
    (`FoldExists`).
  - The planner, for any items, estimates and limits: `PlansHoldEveryItem`,
    `PlansAreShortest` (with as many batches closed as another cut has, the
    plan's open batch is ahead of it), `PlansKeepTheirBatches`; together
    `PlansAreSound` (`PlanIsSound`).
  - The alignment, whatever texts score: `PassagesAreAligned` (what is behind
    the walk is matched, in order, and the walk gets to the corner),
    `SectionsAreMatched` (a section left alone is too far from every one that
    nothing took); together `AlignmentsAreSound` (`AlignmentIsSound`).
  - `LabelsFit` (`LabelsFitTheirPair`): the signals of a pair read backwards are
    those of the pair with added and removed exchanged, and a materiality is a
    weighted mean of shares.
  - `ReportsHideNothing` (`ReportHidesNothing`): the listing is a permutation
    cut at its limit; what is asked for is the same of every permutation.
  - `ProgressIsShownHonestly` (`ProgressIsHonest`): counts of rows bound the
    percentage, and a ledger without blockers has only completed rows.
  - `SearchesAreSound` (`SearchIsSound`). For the chunks: `Chained` says that
    each chunk starts with the end of the one before, `Arranged` where the
    tables' chunks are, and what the packing has in hand is followed through
    sentences, pieces and paragraphs. For the fusion: a ranking holds each
    place once, and a chunk that both rankings put no lower has no lower sum of
    reciprocal ranks.
  - `ReadingsHold` (`ReadingsAreSound`): a claim's type decides which of its
    numbers is there, so the branch of the verdict it comes to has what it
    needs (`ClaimsAreJudged`); a measured change is a number and cannot be both
    small and large (`FoundFairly`); the first conflicting pair of sentences
    stays first when the left section grows (`PairsGrowLeft`).
* **`FinancialFindingsProofs`**. `FactsFit` (`VerdictsUseFittingFacts`),
  `CommittedComparisonsAreWhole` (`VerifiedComparisonIsWhole`),
  `StoringOrderIsFree` (`FindingsApart`), `ContradictionsAreReported`
  (`ContradictionsAreFound`), `ReviewsSurvive` (`DecisionsSurvive`), for any
  claims, facts, workers and reviewers. `VerdictsInv` says that a verdict,
  committed or drafted, rests on facts that fit the claim as extracted, unless
  a reviewer changed it: that the choice of a fact yields one of the candidates
  needs a least rank to exist. `CoverInv` says that a job has a verdict for each
  claim of the page it lists or has it still to do, and that the page is that
  of the claims stored when it commits (`PagesAreListed`), `FindingsInv` that a job's findings are those of
  the rules for the claims it read.

One of these theorems has a hypothesis on the models beyond the named
assumptions, stated in the theorem: a text scores fully with itself
(`WhollyAlike`, for the clause of `AlignmentsAreSound` that an unchanged
section is wholly matched). It is true of the similarities and of the values
TLC uses; of an external reranker it is what one expects, not what the code
enforces. The theorems about reviews and readings hold for all the settings the
validator takes (`core/config.py:281-296`, `346`); what depends on a setting is
a condition inside the property: with reviews asked for from "critical" only,
a report published unreviewed may have findings of high severity, but no
critical one (`ReviewCovers`); with thresholds that cross, a claim can be an
overstatement in one process and an understatement in another
(`ClaimsAreFoundFairly`, `ThresholdsApart`).

The named assumptions say what the inputs are: `BoundAssumption` (bounds are
naturals), `AlphabetAssumption` (the fields the rows have),
`RequestsAssumption` (the reranker has a score for each chunk),
`FactsAssumption` (the facts a claim is checked with here are selected and
have a value), `ParsingAssumption` and `PolicyAssumption` (amounts and thresholds
are naturals), `RunsShownAssumption`. TLC evaluates all of them.

Proving changed what is stated in one place: `ProgressIsHonest` speaks of runs
the guard lets pass "but for one that failed when it was done again", since a
resumed node that had completed and then fails is shown as failed, with a
ledger that is complete.

Only model-checked: liveness (`LockIsReleased`, `AbandonedBecomesRetryable`,
`LocksComeFree`, `RequestIsAnswered`, `EveryCallEnds`), since the provers handle
neither fairness nor `ENABLED`.

## 6. Where code and documents disagree

With a run each:

* `stage_skipped`: a verification job of the API holds the lock of a comparison
  when the workflow of another worker reaches the same stage.
  `verify_claims_for_comparison` is refused and returns status 0
  (`financial_verification_service.py:82-84`), the node records the stage
  complete (`analysis_workflow_service.py:480-506`), and the run passes the
  readiness guard with nothing verified; the job that has the lock may still
  fail. `src/docs/architecture.md:327-330` says that the analysis advances only
  when the deterministic stages finished.
* `decline_contradicted`: the filing says a metric decreased by a percentage,
  the facts agree, and the verdict is "contradicted": the claim's change has no
  sign and the calculated one is negative
  (`financial_claim_verification_service.py:271`, against the example in
  `phase4_examples.json:22`).

Seen in the models (TLC reaches the state), or read while modelling, without a
run of their own. About the workflow:

* A cancellation committed between a node's read of the row and its start is
  overwritten, and so is one committed while the comparison, prioritisation,
  the gate or finalisation is at work, by the status the node writes at its
  end; the run goes on and completes (`analysis_workflow_service.py:762-768`,
  `435`, `641`, `677`, `733`, against `src/docs/frontend-architecture.md:47`).
* An error recorded after a cancellation makes the run "failed"
  (`_invoke_graph` and `_fail_run`, `analysis_workflow_service.py:298-321`,
  `819-829`), also one raised while a node is skipped because the run is
  cancelled; Dramatiq then retries the message and the run starts again
  (against `src/docs/langgraph-workflow.md:168-172`).
* The cancel handler decides on a status read earlier and cancels a run that
  has completed (`analysis_workflow_service.py:206-217`, `src/docs/api.md:180`).
* A resumed gate executes `create_review_request` again and leaves a pending
  request on a run that completes (`analysis_workflow_service.py:675`, against
  `src/docs/architecture.md:327-330`).
* A crash after the gate's status is committed and before its request exists
  leaves `awaiting_human_review` without a request, which neither review nor
  stale recovery can leave (line 768, `stale_run_recovery.py:5-7`).
* A node that fails under `resume_analysis` records no failure; the run becomes
  stale instead (lines 161-204, `src/docs/langgraph-workflow.md:90-95`).
* A retry can be refused with 409 because of another retry's probe
  (`db/session.py:109`, `src/docs/api.md:282-284`).
* After a dropped lock connection a second worker can start
  (`db/session.py:92`, against `routes/analyses.py:216-218`).
* `workflow_review_ambiguous_financial_claims` is documented
  (`src/docs/langgraph-workflow.md:143`) and read nowhere
  (`core/config.py:168`).
* Findings are listed the surest first and cut at a thousand, so that those of
  low confidence, for which a review is asked, are the ones cut
  (`contradiction_repository.py:112-120`, `analysis_workflow_service.py:636`).
* A review asked for because of a finding of low severity and low confidence
  names no finding (lines 665-672).
* Findings another job commits between the gate and the report are reported
  unreviewed; the report's own reads are separate statements
  (`analysis_report_service.py:46-66`).
* The evidence check for a missing formula is never true, since formulas
  default to "not_applicable" (`analysis_workflow_service.py:547`).
* A stage that is being retried is shown as failed while it runs
  (`analysis_progress.py:94-101`).

About the batched stages and the provider:

* A fault after the provider answered records "success" for items whose claims
  were rolled back; no retry asks for them again
  (`claim_batch_extraction_service.py:325`, `492`).
* A batch reset because the prompt's text changed is completed with the results
  of the old prompt when the version string is the same
  (`filing_comparison_service.py:213`, `comparison_repository.py:288`).
* Statuses 409 and 425 are retried and then reported as `client_error`
  (`openai_compatible.py:392-405`); a body of status 200 that is not JSON leaves
  the client as a bare decoding error (line 252).
* An empty plan does not synchronise the ledger, so rows of an earlier plan
  block the stage for ever (`claim_batch_extraction_service.py:211`, against
  `stage_batch_repository.py:189-190`).
* An extraction that finds the lock taken is reported as one that had nothing
  to do (`claim_batch_extraction_service.py:166`).
* When restoring the changes of a completed batch fails, the batch is marked
  failed and asked again (`filing_comparison_service.py:736`, against the
  comment at 661-663 and `src/docs/architecture.md:307-310`).

About processing and the algorithms:

* When only the tables or their extraction version change, the sections are
  found unchanged and the stored tables stay those of before, while the chunks
  made of them change (`section_repository.py:54`, against
  `src/docs/ingestion-pipeline.md:53`).
* Ingestion under a running attempt: the filing ends as processed with the rows
  of the document before, `_has_processing_ready` holds, and a request made in
  between was dropped as `already_running` (`filing_ingestion_service.py:78`,
  `filing_processing_service.py:103`).
* A retry runs all four stages again, not the failed ones only
  (`filing_processing_service.py:75-102`, against
  `src/docs/ingestion-pipeline.md:55`); what it reuses makes that cheap
  (`PaidForOnce`). A document without recognised sections is marked processed
  and never ready.
* "running" is never committed, so `current_stage` of the processing status is
  always null (`routes/filings.py:57`, against `src/docs/api.md:53`).
* A chunk may exceed its token limit by the overlap it starts with
  (`chunking_service.py:136-145`).
* Normalisation drops parentheses and years, so that "$(5)" and "$5" are the same
  text, unchanged without asking the model (`comparison_utils.py:21-29`).
* "conditional_removed" strengthens a passage and is missing from the list of
  signals that do (`semantic_change.py:106`).
* Retrieval is cut to the reranker's limit even without a reranker
  (`retrieval_service.py:87`).

About claims, verdicts and findings:

* Terms are found inside words, increases before decreases
  (`financial_claim_extraction_service.py:217-225`); an alias two metrics share
  is ambiguous (`financial_metric_registry.py:44-49`).
* Two jobs that store the same claim, or the first verdict of one, at once: no
  unique constraint keeps the claims apart (`financial_repository.py:100`), the
  verdicts' one rolls the second job back whole (206-216).
* A fact of the right kind of period and another date scores .25 of the period's
  weight, or .60 in the same fiscal year, and is selected when nothing better is
  stored: with the rest in its favour it totals 77.5 where 72 is asked
  (`xbrl_fact_resolution_service.py:178-191`, against
  `src/docs/xbrl-verification.md:47-49`, "a wrong-period candidate cannot be
  selected"). `VerdictsUseFittingFacts` is about the kind of period.
* A verification lists the first 1000 claims of the comparison; those beyond
  are never verified and nothing says so
  (`financial_verification_service.py:95`).
* A claim of change made by the previous filing is compared with the facts of
  that same filing, since the filing compared with is the previous one: the
  change is nought, and a claimed increase is contradicted
  (`financial_claim_verification_service.py:31`, `54`, `80-94`).
* A claim two comparisons of one filing share is stored once, for the first of
  them, and not listed for the other (`financial_repository.py:81-111`).
* A repeated analysis writes the type, severity, risk category, summary and
  explanation that a reviewer edited back to its own
  (`contradiction_repository.py:66-68`, `166-176`, `190-224`, against
  `src/docs/contradiction-detection.md:85-89`, "the system preserves ...
  reviewer edits"); the record of what the edits replaced stays, the values the
  reviewer gave are gone. `DecisionsSurvive` is about status and record.
* Of two reviewers who loaded one finding, the second to save writes the record
  of edits from what it loaded; the first one's entries are lost
  (`contradiction_repository.py:166-181`).
* Directional, comparative and ratio claims are never contradicted by the facts
  alone (`financial_claim_verification_service.py:231-244`).
* A reviewer's choice of facts is undone by the next verification, and a claim
  edited later keeps the verdict of the claim before
  (`financial_repository.py:147-176`).
* Findings that no longer hold are not withdrawn. Of two qualifiers of one rank
  the order of a set decides, which differs between processes
  (`contradiction_analysis_service.py:597`).

## 7. Not modelled, and why

Section 1 lists every part; `PROJECT.json` gives each one's status. Left out so
far: two comparisons that segment the same sections, the worker threads that
share one process's engine, two jobs that insert the same claim, the claim
jobs of a single filing, the derived metrics (only tests call them), the
regular expressions that parse documents, passages and numbers (modelled by
what they find), ingestion of companies, the SEC client's rate limiter. Left out for good: rendering and formatting,
offline evaluation and demo tools, object storage, which keep no state the
above depends on, configuration, authentication and the read-only routes, and
the frontend. `checkpointer`, broker, pool, locks and HTTP are modelled from
how the code uses them and marked external.

Not in reach of the provers: liveness, `ENABLED`, `RECURSIVE` operators (the
modules have none) and the operators of the community modules that fold, sort
or select with an operator as a parameter. Where a theorem needed what such an
operator computes, the definition is a recursive function or, for an order, a
set of places (`Rankings`, `Selection`), which the induction of section 5
reaches.

## 8. Plan

Done in this order: lock and run (most actors, most interleavings), planner
and ledger, claim stage, comparison, stage locks, filing processing, proofs
after each; then the provider client, facts, verdicts and findings, the pure
algorithms in one run, and the proofs of every invariant and action property
the runs check. What could follow:

1. The readiness guard composed with `ClaimExtraction` and
   `ComparisonPipeline`: what "ready" implies of all stages at once.
2. Two comparisons that share a filing, several threads on one engine.
