# CloudCause in TLA+

CloudCause explains why cloud spending changed.  A browser console asks a FastAPI
*gateway* for an investigation; the gateway runs it on an *orchestrator*, which
plans it, sends one task per provider to a *worker* (AWS, Azure, in-process GCP),
validates and reconciles the findings and writes a report.  Progress flows back
to the console as server-sent events.

These modules model the parts of it whose mistakes come from interleaving,
ordering, crashes, lost replies and limits; TLC checks them on small instances
and TLAPS proves the central ones for every instance.  They are written from the
code under `src/`; `PROJECT.json` maps each definition to the lines it stands for.

    tlc -workers 2 -config GatewayJobs.cfg GatewayJobs       # check one model
    tlapm GatewayJobsProofs.tla                              # check the proofs of one

## Inventory

Paths are short: `jobs.py` is `packages/worker_core/.../jobs.py`, `main.py` is
`api/.../main.py`.  "Module" names the model, or says *next* or *no*.

| component | code | state | operations | module |
|---|---|---|---|---|
| gateway job lifecycle | main.py, jobs.py, live_limits.py | job status, event log, store, capacity semaphore | create, run, cancel, prune | `GatewayJobs` |
| progress event stream | jobs.py, main.py `stream_events` | event list, one queue per job, generators | emit, finish, stream, disconnect | `EventStream` |
| durable history | history.py, sql.py | SQL rows, chain of pending writes, degraded reason | save, save_event, flush, prune, get | `JobHistory` |
| uploaded datasets | datasets `store.py`, `assembly.py`, `models.py`, api `datasets.py` | rows, per-dataset locks, expiry | create, upload, seal, delete, read | `DatasetStore` |
| admission control | rate_limit `admission.py`, `memory.py` | token buckets | check, evict | `Admission` |
| concurrency permits, one process | `memory.py` | semaphores, active counts | permit, evict | `PermitPool` |
| concurrency leases, Redis | `redis_backend.py` | sorted set of leases, heartbeats | acquire, renew, release | `RedisLeases` |
| worker engine | `engine.py`, `native_tools.py`, `context.py` | recorded findings, call budget, deadline | live attempt, retry, merge, fallback | `Investigation` |
| governor and retries | `governor.py`, `retry.py`, `retry_policy.py` | rate, permits, attempts | wait, permit, retry | `Investigation` |
| orchestrator pipeline | `orchestrator.py`, `planner.py`, `workers.py`, `http_app.py` | plan, results per provider | plan, dispatch, collect, report | `Investigation`, `CostPipeline` |
| framework agents | `live_agent.py` | sessions, permits held | ask a model, call tools | choices in `Investigation` |
| upload parsing | `ingest.py` | none | parse under limits | `UploadParsing` |
| FOCUS normalization | focus `parsers.py`, `normalizer.py` | none | map columns, filter | `UploadParsing`, `Analysis` |
| providers, live connectors | `live.py`, `uploads.py`, `registry.py` | fetch cache, its locks, windows | fetch, page, cache | `LiveCosts`, `CostPipeline` |
| period comparison, reconciliation | `comparison.py` | none | compare, reconcile | `PeriodComparison` |
| actor attribution | `actors.py` | none | weights, allocation | `ActorAllocation` |
| billing knowledge | knowledge `store.py` | none after loading | look up, cite | `BillingKnowledge` |
| rule playbooks | `playbooks.py`, those of each provider | none | select, score, build findings | `Playbooks` |
| evidence validation | `validation.py` | none | checks, ranking | `FindingValidation` |
| MCP servers and clients | mcp | processes, sessions | tools | `get_cost_breakdown` in `Analysis` |
| web console | `console.tsx`, `data-source.tsx` | case shown, source, panel, brief | start, follow, settle, reset; upload, seal, discard | `Console`, `UploadPanel`, `WebPage` |
| Cloud Tasks dispatch and claim | api `tasks.py`, main.py | claimed ids | enqueue, deliver, claim | next |
| gateway link | api `orchestration.py` | none | one awaited call | a choice in `GatewayJobs` |
| rendering, sanitizing | `rendering*.py`, `sanitize.py` | none | text | no: layout and wording |
| contracts and settings | contracts | none | types, limits | no: the limits are CONSTANTS |
| deployment, fixtures, evaluations | docker, fixtures, evaluations | none | - | no: data and infrastructure |

How they meet:

* *calls*: gateway -> orchestrator -> workers over HTTP; the gateway awaits the
  whole run and hands the events it gets to `job.emit`;
* *shared state on one event loop*: the store, the capacity semaphore, a job's
  queue, the limiter's semaphores, the live cache.  A step is the code between two `await`s;
* *threads*: history writes, prunes and dataset requests run in threads over one
  SQL connection, so other requests come between their statements;
* *across processes*: Redis for buckets and leases, SQL for history and datasets;
* *callbacks*: `emit` and `finish` notify the listener that queues a write;
* *in the browser*: every fetch is answered to whatever the page shows by then.

What is hard, and where it is looked at (`PROJECT.json`, "hazards", has the lines):
a timeout or a cancellation that races the hand-over of a slot (`GatewayJobs`,
`PermitPool`); a generator that reads a list, then a queue, then a status
(`EventStream`); two statements that a crash can separate (`JobHistory`);
read-modify-write under a lock that not everybody takes (`DatasetStore`); a sweep
that runs while a call is between two lines (`PermitPool`, `Admission`); replies
that are lost and requests that run late (`RedisLeases`); an agent that is retried, hangs or is
cut off in the middle of a model call (`Investigation`); a page that is reset while its calls are out
(`WebPage`); and money that goes through a parser, an aggregation, a cache, a comparison, a split and a
validator, none of which sees the whole (`CostPipeline`).

## The modules

A definition named `X_Y` is `X` with the mistake `Y`: a bug the code could have
had, there only to show that a property notices it (`PROJECT.json`, "mutants").
The specifications use none of them.

### InvestigationLifecycle and GatewayJobs

`InvestigationLifecycle` is what a client may rely on: an investigation is
submitted as `queued`, started at most once and never above the live capacity,
ended at most once; it may be refused (failed without running) only from the
queue of live investigations.

`GatewayJobs` is the code that has to keep this.  `pc[j]` is the suspension point
of `_run_job`: `scheduled` (the background task has not begun), `waiting` and
`granted` (in `capacity.reserve`), `admitted` (the woken acquire has run, `wait_for` has yet to
return), `executing` (in `link.run`), `ended`, `lost` (the job was pruned before the run).
`free` and `ticket` are the semaphore's value and the order of its waiters;
`active` is `_active`; `sequence` and `sentinels` count events and end markers.

| action | code |
|---|---|
| `Create` | `create_investigation`: new job, prune, background task |
| `StartPruned`, `StartStub`, `StartLive` | the beginning of `_run_job` |
| `Admit`, `BeginLive` | the acquire resumes; `reserve` yields and the job is marked running |
| `CapacityTimeout` | `wait_for` gives up, the job is failed |
| `Progress`, `Complete`, `Fail` | `execute` |
| `Cancel` | the `CancelledError` handler, from every suspension point in its `try` |

Run `GatewayJobs` (3 investigations, 1 slot, a store of 2, 3 events) checks that
the slot is conserved (`SlotsConserved`), that `finish` runs exactly once for a run that ended
(`FinishedOnce`), the refinement (`Lifecycle == INSTANCE InvestigationLifecycle WITH ...`, property
`ImplementsLifecycle`), and that every
scheduled run ends or is found pruned (`EveryRunEnds`) although the capacity timer has no
fairness.  Two waiters behind one slot are the least with an order between them and with
a timeout that meets a hand-over; the third id is pruned while others run.  Two or more
slots, and the release that finds several free, are covered by the proofs, which hold for every
capacity.

### EventStream

`log` is `job.events`; the queue is `log` entries and then the end marker, of which
`taken` are gone; each reader is a generator in its replay or its follow loop.
Actions: `Emit`, `Finish`, `Connect`, `Replay`, `ReplayDone`, `TakeEvent`,
`TakeEnd`, `Disconnect`.  The browser's `EventSource` does not reconnect in this code, so in
`WebPage` one reader connects once, disconnects when the page says so, and every stream ends
(`EveryStreamCloses`).  With two connections that is violated (run
`EventStreamTwoReaders`, which is also checked for deadlock): they share one queue with one end marker.

### JobHistory

The gateway with the SQL store.  `chain` is the chain of write tasks, `ahead[j]` how much of it
a flush still waits for, `at[j]` the suspension point of the request or run of
`j`; `row` and `events` are the tables.  `Save` and `SaveEvent` are the two statements of a
write; `PruneMemory`, `PruneQuery`, `PruneEvents` and `PruneRow` are the prune in its thread;
`FindHeld`, `FindStored`, `FindNothing` the lookup that rehydrates a job; `WriteFails` and
`PruneFails` a statement that raises (`_safely`); `Crash` the loss of everything but the
tables.  Run `JobHistory` (2 investigations, retention 1, one crash, one
failing statement; the orchestrator of each emits at most one event before the last, and a
live run adds its two capacity events): the stored log has no hole at any
moment, so also not after a crash (`StoredLogHasNoHole`), a stored outcome comes with the
whole log (`FinishedRowHasWholeLog`), what returned is stored unless the run worked on a
restored job, which has no listeners and so stores nothing of its
run (`ReturnedMeansStored`), and every request returns
whatever fails (`EveryRequestReturns`).  The first three speak of investigations none of whose statements
failed and which no prune has begun to delete.  Two investigations and retention 1
are the least with which a prune meets a run that still writes.

### DatasetStore

One action per SQL statement or lock step of a request: `CreateCheck`, `CreateWrite`;
`UploadRead`, `UploadCheck`, `UploadWrite`; `SealRead`, `SealGet`, `SealCheck`,
`SealWrite`; `DeleteLook`, `Delete`; `Read`; `Expire`, `GetExpired`.  A file is its slot, its
currency and a version; its size is one unit of records and bytes.  Run
`DatasetStore` (2 datasets, 2 requests at a time, 2 cost slots and another one, 2
currencies, limits of 2 sources and 3 files in all, so each refusal occurs): all reads of a sealed dataset agree
(`ReadersAgree`), no accepted upload is lost (`AcceptedSourcesKept`), and a sealed dataset
can be investigated (`SealedIsRunnable`).  `DatasetStoreDelete` shows a deleted dataset that comes
back.

### Admission, PermitPool, RedisLeases

`Admission` is the two-bucket check with refill and eviction in exact ticks.  Run `Admission`
(2 clients, buckets of one token, two checks per client and tick, 5 ticks): the deployment's rate is bounded
over every stretch of time (`GlobalRateBounded`), and whoever waits for its `retry_after` gets
through (`RetryAfterIsEnough`).  The sweep comes after 2 ticks and a global refill takes one, as
the code's 300 s stand to a minute.

`PermitPool` is `MemoryRateLimiter.concurrency_permit`: a call chooses a semaphore (`Call`),
acquires (`Acquire`, `Resume`), is counted (`Enter`), leaves, or gives up; `Sweep` is the part of
`evict_inactive` that drops semaphores.  The waiters of a semaphore are a deque in the code and a set
`ahead[c]` of those in front of each waiter here, which says the same and is easier to prove about.  Run `PermitPool` (4 calls, 2 permits, 3 semaphores over time):
permits are conserved on every semaphore, dropped ones too
(`PermitsConserved`), and only a sweep that drops a chosen semaphore can exceed
the limit (`OnlyASweepBreaksTheLimit`).

`RedisLeases` runs the Lua scripts one at a time on requests that may be late; a call may
crash, time out, miss renewals or fail to release.  Time is counted in heartbeat
intervals, three to a lease.  Run `RedisLeases` (3 calls, 1 lease, one renewal missed in a row, 6 intervals: two
whole leases): never more bodies at work than leases (`HoldersWithinMaximum`), a released lease
never comes back (`ReleasedStaysReleased`), an orphaned one expires (`OrphansExpire`).

### Investigation

One run of the orchestrator with a specialist per provider.  `stage` is the coordinator's
(`Load`, `Report`, `Cancel`); `at[p]` is where the specialist is: building its context, connecting, deciding what
to do next, waiting for a permit (`asking`), waiting for the model (`calling`), or sleeping before a retry;
`context[p]` is its `InvestigationContext` and current attempt; `calls` is the budget and
`holders` the permits.

| action | code |
|---|---|
| `ContextBuilt`, `ContextFails` | `build_context`; a stub run answers here |
| `Connect`, `ReadTool`, `RecordFinding`, `AgentEnds` | one call of the agent, each paid from the budget, and its end |
| `Ask`, `TakePermit`, `Reply` | a model call through the governor |
| `Raise`, `BudgetExhausted`, `Cut`, `Wake` | `run_with_retries` around the attempt: an error, the budget, `wait_for`, the delay |
| `Pass` | time, as far as somebody compares it: the engine's deadline is taken a moment before that of the retries |
| `ConnectionLost`, `WorkerTimeout` | a specialist that is a service of its own |

Specialists in one process share its budget and, if they ask the same model, its permits
(`Process`); a service has its own, because the request carries no budget.  Which tool an agent
calls, and whether it or the model fails or hangs, is a choice.  Run `Investigation` (2 providers that ask one model,
with 2 and 1 candidates, all in process or all services; 2 attempts, 4 calls, 1 permit): whatever ends a
model call gives its permit back (`PermitsReturned`); what one attempt recorded is in the answer of the next
(`NothingRecordedIsLost`) and there only once (`OneFindingPerCandidate`); a report is "live" only if every provider asked
ran live (`ModeIsHonest`); every investigation is reported or fails
(`EveryInvestigationSettles`).  Four calls are the least with which an attempt connects and records, the next one connects and
records for another candidate, and the two are merged; two attempts are the least for a merge, and one permit makes
the specialists wait for each other.

### The analysis: PeriodComparison, ActorAllocation, BillingKnowledge, Playbooks, FindingValidation

Pure functions of the code are operators, money is an integer number of tenths of a cent, scores are
thousandths, and a quotient that is only compared stays a pair of integers.  `PeriodComparison` groups rows, finds and ranks
candidates and reconciles; `ActorAllocation` splits a row among the actors of its day;
`BillingKnowledge` selects the rule in force; `Playbooks` has every playbook of the three providers,
with its guard, its evidence, its score and the cap of its confidence; `FindingValidation` has the
validator's checks in their order and the ranking.  `Analysis` strings them together as the
orchestrator does: `Compare`, `InvestigateByRules` or `InvestigateByAgent` (an agent claims what it
likes), `Publish`; or `GetCostBreakdown`, the tool that is asked for a cut of the same rows.

### UploadParsing, LiveCosts, CostPipeline

`UploadParsing` is an uploaded file from its media type to the stored source: packing, credentials,
sniffing, the three parsers, aggregation to days, what the file's end says about completeness.
`LiveCosts` is the operator's own bill: each caller asks for its periods (`Ask`), waits for the lock of
its cache key (`Acquire`; `ahead[c]` are those in front of it, as in `PermitPool`), posts, is refused and posts again, reads page after page or all at once,
and fails or is cancelled, while the provider goes on reporting (`Report`: the next row of the ledger, which may be of today or of a day long
over), entries expire (`Tick`) and the day ends (`Midnight`).

`CostPipeline` composes them with `Analysis`: the data come from a fixture, from the files of a sealed
dataset (`PutSource`, `LoadDataset`) or from the live bill (`LoadLive`, `LoadBundle` and their failures), with other callers of the same
cache beside them.  Run `CostPipeline` checks the algorithms against what they promise of their bounded inputs:

| property | what it says |
|---|---|
| `CandidatesNeverDoubleCount` | the candidates partition the rows they speak for, what is left over is the change of the others |
| `EveryDimensionCountsTheSameMoney` | however the bill is cut, the groups, omitted ones too, add up to it |
| `SharesHaveWitnesses` | an actor gets money only from a row an audit event of his speaks for, and the shares are the row |
| `RulesAreInForce` | a rule that is cited was in force on its date, and no newer one was passed over |
| `RuleFindingsSurviveValidation` | the validator changes and drops nothing the playbooks write |
| `ScoreStaysBelowCeiling` | the score of a playbook stays under its documented ceiling |
| `PublishedFindingsAreSupported` | whatever an agent claims, what is published passes every check at the end of all of them |
| `AggregationChangesNoAnswer` | the stored daily rows give every group and candidate the figures the file's own rows would |
| `OneFetchPerWindow` | callers that overlap fetch a window once |
| `AnswersAreWhole` | a caller is answered with the money of each of its days as it had been reported at one moment, neither before its own fetch began nor longer ago than a response is kept; at most the last day is cut off |
| `MissingUsageIsNotCertain` | when a file shows a gap at its end, or there will be usage of the current period on a later day than the worker was told of, the worker knows, and no rule finding is certain |

The inputs (`MCAnalysis`, `MCCostPipeline`): every bill of at most three of eight rows, which differ in service, resource, alias,
owner, region, day and sign, with three audit trails, two pairs of periods and two candidate limits; each of five shapes of candidate with every combination
of metrics, events, recommendations, owner, completeness and four sets of rules, for each provider; claims of every kind of
mistake; files of at most three rows (nine AWS, four Azure and four GCP ones) and every way of being refused; a ledger of four lines and callers
among which two tools are interchangeable (`SYMMETRY`).  Three rows are the least with two of one candidate and one of another.
Days have two hours, an entry lives one tick, the cache has two entries, a bill two pages and a request two attempts: the least with which each
of them runs out.  What the model assumes: one response, however many pages it has, is of one moment; other callers run while the investigation waits for
costs, since what it does with them it does without a wait.  In what order a provider reports is left open: in the run, usage of the third day comes after all there is of
the fourth for AWS, whose window is empty at first, and for GCP; the Azure bill is all reported, and its last day is not in the window before midnight.

Three of the properties say less than one may wish.  `AnswersAreWhole` does not say that a day is complete once it is
answered: "Usage for a day can land in a partition several days later" (live.py:125), so no answer is final, and
`MissingUsageIsNotCertain` speaks of days of which nothing was told at all, for baselines that do not end after the current
period.  What comes of it is below: a report that calls nothing
provisional may show a drop that later usage takes back.  `ScoreStaysBelowCeiling` leaves out candidates whose baseline costs less than nothing, where the
score has no bound (playbooks.py:121).  A live bill carries no metrics or events, so a live finding by a playbook is always uncertain; the live half of
`MissingUsageIsNotCertain` rests on the completeness of the bundle.  `OneFetchPerWindow` is about callers that overlap within the life of an entry.

### Console, UploadPanel, WebPage

`Console` is the page: `Submit`, `Answer`, `Refuse` (429 with `retry_after`), `Open`, `Message`, `StreamEnds`,
`StreamBreaks`, the two reads of `settle` (`TrailArrives`, `StateArrives`, `Settled`, `SettleFails`), `Reset`, `CooldownOver`.  Its
stream is `EventStream` with one reader.  `UploadPanel` is the panel: `PickFile`, `Created`, `Store`, `Stored`,
`Seal`, `Sealed`, `Discard`, `Discarded` and their failures, where what a request does at the gateway
and the moment the page hears of it are two steps.  "Delete now" stays enabled while a delete is under way: another click sends another, up to
`MaxDeletes`, and each answer resets the panel, whatever it has begun since.  `WebPage` puts both in one tab: the panel is disabled while a case is busy and
hidden behind a report, and what it seals is the brief that is submitted.

Run `WebPage`: the page never mixes two cases (`ShowsOneCase`), a completed case shows its whole trail (`CompletedCaseIsWhole`), a refused
submission starts a cooldown (`CooldownCoversRetryAfter`), the panel agrees with the store
(`PanelMatchesStore`), every stream closes and the page does not stay busy (`BusyEnds`).  They hold until an answer comes to a page that was reset (`late`) or a panel that had given its dataset up
(`strayed`), and `BusyEnds` unless a stream breaks (`broken`); beyond that they do not hold, see below, and the model stops following the page there.  Each session (`MCWebPage`) is a reader with his own limit of
cases, events and uploads: two cases overlap, one has three events, one is over a file of his own, three files meet in two slots and two
datasets; the product of all four would not finish.

### Bounds, deadlock, symmetry

Every bound is a CONSTANT: ids, calls and readers are never reused beyond their small set, and
`MaxSequence`, `MaxEvents`, `MaxCrashes`, `MaxFailures`, `MaxSemaphores`, `MaxTime`, `MaxStarts`, `MaxCases`, `MaxUploads`, `MaxDeletes`,
`Horizon` and `LastToday` are guards of the actions that count.  Runs that use up their ids or ticks stop, so
their configurations say `CHECK_DEADLOCK FALSE`.  `SYMMETRY` is used where the ids are only compared for equality, and
never in a run with a liveness property.

### Fairness

Weak fairness only, for what the code cannot refuse to do: asyncio runs a task that is
ready; a thread's statement answers, if with an error; `link.run` returns because each call
below it has a deadline; a model call ends by its own timeout.  No client action, cancellation,
crash, timer or sweep is fair.  Waiters need no strong fairness, because a release takes
the first of the queue.  In `Investigation` agents, models and connections have no fairness at all, only
the coordinator, the timers, and the loading of data; what this leaves out is the opening of the MCP sessions of
the AWS agent, which blocks the event loop (aws `live_agent.py:119`) and is taken to end.  In `WebPage` calls are answered or fail, runs end (they have the gateway's
deadlines) and frames arrive; no person and no timer of the page is fair.

## Proofs

Each module of proofs rests on the named assumptions of its model and on nothing else.
`GatewayJobsProofs`, for any finite set of investigations, any
capacity above zero, any retention and any number of events:

| theorem | property |
|---|---|
| `TypeCorrect` | `TypeOK` |
| `SlotsAreConserved` | `SlotsConserved` |
| `CapacityRespected` | `LiveWithinMaximum`: never more live runs than slots |
| `FreeSlotIsPassedOn` | `NoIdleSlot`: a slot is free in front of a waiter only while somebody is on the way to pass it on |
| `RunsFinishOnce` | `FinishedOnce` |
| `OutcomesAreFinal` | `OutcomeIsFinal`: an outcome never changes |
| `SlotsGoInOrder` | `NoOvertaking`: waiters are served in order |
| `GatewayImplementsLifecycle` | `ImplementsLifecycle` |

They follow from one inductive invariant, `IInv`.  `SlotsConserved` (free and held slots
add up to `MaxLive`, `active` counts the live runs) is not inductive alone: that a step takes or gives
back one slot needs `PointMatchesStatus`, which ties the suspension point of a run to its
status and mode, so that who ends was counted and who starts was not.  `TicketsDiffer`
makes the first waiter unique, which the order needs.  `WakeNextKeepsSlots` and
`GiveUpSlotKeepsSlots` say once what a release does to the counts, and each
action has a lemma that cites them.  `CapacityRespected` follows because live runs are
among the holders.  The refinement maps every step to a lifecycle step or a stutter; `RoomForOneMore`
is the only place where it needs a count: a run that is about to start holds a
slot itself.

`RedisLeasesProofs`, for any calls, any maximum, any time to live with `LeaseOutlastsMisses` (`MaxMissed + 2 <= Ttl`: the code renews
three times in the life of a lease, so a holder may miss one renewal):

| theorem | property |
|---|---|
| `LeaseTypesCorrect` | `TypeOK` |
| `LeasesBoundCluster` | `HoldersWithinMaximum` |
| `OrphanedLeasesExpire` | `OrphansExpire` |
| `ReleasedLeasesStayGone` | `ReleasedStaysReleased` |

That the limit holds needs to know that a body at work is still in the sorted set when a script throws expired
members out: the invariant ties the score of a holder's lease to the renewal that is due and those it missed (score >= due - 1 - missed + Ttl), and
the assumption turns that into a score above the present.

`MemoryLimiterProofs` is about both parts of the limiter.  Of `Admission`, for any clients, capacities and windows: `BucketTypesCorrect` (`TypeOK`) and `RetryAfterSuffices` (`RetryAfterIsEnough`).  The invariant is
that a promise is funded (`PromisesAreFunded`): by the moment promised a bucket that denied has earned what it lacked; only a check of the same key takes from it, and that check makes a promise of its own.

`DeploymentRateBounded` (`GlobalRateBounded`) is about every stretch of time at once.  Its invariant, `SpendingIsCovered`, looks from each
moment to the present: what was admitted since then and what is in the bucket are together no more than a full bucket
and what was earned since.  A take moves tokens from the bucket to the admitted; time adds to both sides what it adds to the bucket; and a key that the sweep has removed
comes back with a full bucket, which was full anyway if the sweep waits as long as a refill takes (`EvictedIsFull`: 300 s in the code against the 60 s of
a window).  The sums over stretches of time are those of the model's `SumFunctionOnSet`; `SumWithout` and `EveryNatural` are the lemmas about them.

Of `PermitPool`, for any calls, any limit above zero and any number of semaphores: `PermitTypesCorrect` (`TypeOK`),
`PermitsAreConserved` (`PermitsConserved`) and `LimitHoldsWithoutEarlySweep` (`OnlyASweepBreaksTheLimit`).  The last rests on this: as
long as no sweep dropped a semaphore a call had chosen, all holders hold permits of one semaphore (`OneSemaphore`), so
that the permits of one bound the bodies of all.

`InvestigationProofs`, for any finite set of providers, any candidates, models and limits:

| theorem | property |
|---|---|
| `PermitsAreReturned` | `PermitsReturned` |
| `TypeCorrect` | `TypeOK`, with the budget, the attempts and the recorded findings within their bounds |
| `CandidatesExplainedOnce` | `OneFindingPerCandidate` |
| `ReportedModeIsHonest` | `ModeIsHonest` |
| `RecordedFindingsSurvive` | `NothingRecordedIsLost` |

A specialist gives up what it holds, moves between points at which it holds nothing, or
takes a permit; three lemmas say that each keeps `IInv`, which adds to `PermitsReturned` that nobody holds a permit before
the coordinator starts anyone.  `TypeOK` needs `TInv`: a context that is being built has no attempt behind it, and one that sleeps before a
retry has an attempt left (`ContextOK`).  `ContextStep` says once what a step of one specialist may do to its context.

The last three are about the findings.  `HInv` adds that the tools of an attempt hold one finding to a candidate and that an answer
holds findings of its provider by one mode, one to a candidate (`AnswerOK`).  `EveryPlaceIsTaken` and `SortMoves` show that a sort by cost moves
findings and loses or doubles none, `ListsEachOnce` that a set listed as a sequence is listed once; `LiveFindingsOK` is the merge: what this attempt recorded comes first, of what earlier ones recorded only
the candidates it did not get to.

The first part of `StoreProofs`, about `JobHistory`, for any finite set of investigations, any retention and any number of events, crashes and failing statements:

| theorem | property |
|---|---|
| `HistoryTypesCorrect` | `TypeOK` |
| `StoredLogsAreWhole` | `StoredLogHasNoHole` |
| `FinishedRowsAreWhole` | `FinishedRowHasWholeLog` |
| `ReturnedRunsAreStored` | `ReturnedMeansStored`, which leaves out runs on a restored job |

The tables alone say too little: the invariant is about the chain.  For each investigation that is intact, an event stands in the chain only
behind those before it (or they are stored), and an outcome only behind them all (`Orderly`); what a run emitted is stored or in the
chain (`Queued`); a run in its last flush still awaits the write of its outcome, the last one of that run, or it is stored
(`Finishing`).  `OutcomesComeLast` gives that nothing is emitted once an outcome is queued.  A prune that deletes a row has begun to delete that investigation's events before
(`RowAfterEvents`), which needs that creation times differ (`BornFirst`).  `GrownByOthers`, `AppendOwn` and `FirstDone` say once what appending
and taking a write do to the order; `Undisturbed` covers every step that is about another investigation.

The second part of `StoreProofs`, about `DatasetStore`, for any ids, requests, finite sets of slots, files and limits:

| theorem | property |
|---|---|
| `DatasetTypesCorrect` | `StoreTypeOK` |
| `LocksFollowRequests` | `LockFollowsRequest`: the lock of a dataset belongs to exactly the request inside `mutate` |
| `AcceptedSourcesAreKept` | `AcceptedSourcesKept` |
| `ReadersOfSealedAgree` | `ReadersAgree` |
| `SealedDatasetsRun` | `SealedIsRunnable` |

What a request read outlives its statement because nobody else is inside (`LockFollowsRequest`); so its copy holds all that was accepted and
is fit to be sealed (`CopiesFit`), unless the dataset was deleted meanwhile, and a dataset that is sealed, or was read, has nobody left who could write it (`SealedIsQuiet`).  An id that is
created cannot be known to anyone (`FreshIds`).  Four lemmas say what keeps the invariant (a request that stays outside, enters, goes on inside, leaves); all actions but `CreateWrite` and `Read` are of one of these kinds.

`WebPageProofs`, for any numbers of cases, events, files, slots and datasets, any number of readers above zero and any sessions:

| theorem | property |
|---|---|
| `PageShowsOneCase` | `ShowsOneCase` |
| `CompletedCasesAreWhole` | `CompletedCaseIsWhole` |
| `RefusedPagesCoolDown` | `CooldownCoversRetryAfter` |
| `PanelAgreesWithStore` | `PanelMatchesStore` |

Every step belongs to the console or to the panel and leaves the other alone (`OneHalfAtATime`), so each has an invariant of its own.  The stream hands over
each event behind the one before it, although a replay and the queue may repeat events (`StreamInOrder`), so that a frame is one the page has or the next one
(`MessageInTime`).  As long as nothing is late an open source is that of the case the page shows (`SourceIsOfPage`), a page that has submitted is blank
(`SubmittedIsBlank`), what is being settled is what is shown (`SettlesWhatIsShown`), and nothing touches a completed case (`CompletedIsSettled`).  For the panel: its dataset
is at the gateway until its delete gets there (`PanelDatasetExists`), and a file that was taken is in the dataset it was sent to or that dataset is gone
(`UploadsHaveTargets`).

`CostPipelineProofs`, for any callers, periods, ledgers, lifetimes and sizes of the cache: `FetchesAreShared` (`OneFetchPerWindow`).  That the lock of a key is
held by one caller is not enough, as the purge takes locks away and later callers get new ones.  As long as the cache was not strained, the lock of everybody who waits or fetches
is the one its key has now (`LocksAreCurrent`), the callers at a lock are in one line (`LinesAreTotal`) of which only the first fetches
(`FetchingIsFirst`), and what it fetches is not in the cache, or has expired (`FetchedIsNotKept`), which needs that an entry in front of a waiter is fresh (`KeptIsFresh`).

Five theorems of `CostPipelineProofs` are about the analysis, for any bills, files, ledgers, tables of playbooks, dated rules, evidence and agents.  They share one
invariant, `DataIInv`, which takes the data through every source: an input is one a comparison can work with (`IsInput`: whole figures, days that are numbers, periods in order), which a
fixture is by assumption and an upload and a live answer are by what parsing, aggregating, querying and the cache do (`ParsedOK`, `AggregatedOK`, `QueryOK`, with `FilesOK` and `LiveOK` for
what was put aside); the candidates of a comparison have keys of their own, whole changes, resources of the bill and start days in the current period or none, and the comparison is that of the bill (`ComparedAre`); the findings
are what the investigator answers to this comparison (`FoundAre`); and the report is what the checks and the ranking make of them (`ReportedAre`).

* `CitedRulesAreInForce` (`RulesAreInForce`): the rule in force is the first of the newest (`Select`), and the date a finding is interpreted on is one a rule can be compared with.
* `ScoresStayBelowCeiling` (`ScoreStaysBelowCeiling`): a step from the base of the score towards the ceiling never closes the distance, because the axes add up to at most 865 thousandths
  whatever the counts are.  `Total` and `EverySubset` are the lemmas about sums over sets.
* `PublishedFindingsHaveSupport` (`PublishedFindingsAreSupported`): the order of the checks is what could go wrong, so the lemma per check says that it establishes its own part of `Passes`
  and that it only tightens (`Tightens`: no other candidate, evidence or rules, no more confidence, no fewer doubts, no more resources), which keeps the parts of the checks before it.
  Published and dropped findings partition the found ones (`FindingsJudged`), and `RankBefore`, ties broken by place, is a total order (`RankingOrders`), so that the ranking is the list in another order.
* `RuleFindingsAreKept` (`RuleFindingsSurviveValidation`): a finding of the rules names evidence, resources of the bill, rules not newer than the date and the rounded cost of its own candidate (`RulesFindClean`), to which no
  check objects (`CleanChecked`), so that what is published is a permutation of what was found (`AllPublished`, `BagKept`).
* `CostsAreCountedOnce` (`CandidatesNeverDoubleCount`): by induction over the records the groups share them out by their keys, each with the records of its key and their sums (`SharesMade`, `GroupedShares`), which sorting
  the groups and keeping those that changed does not touch (`ByChangeSorts`, `ComparedMove`).  By induction over sets, a sum over disjoint parts is the sum of their sums (`TotalUnion`, `TotalParts`), so the candidates add up to the rows they
  speak for (`CandidatesAddUp`).  The expected cost of a group is the cost of its share of the baseline, rounded to a whole unit, hence at most half a unit off (`RoundedNear`); those of the groups add up to that of
  the whole but for half a unit each (`NearSum`, `ExpectedNear`), and there are no more groups than rows (`LeftOver`).

`LiveAnswersAreWhole` (`AnswersAreWhole`, an action property) is about the answers of the providers, for any ledger of one format in any order of its days, any periods asked for, any lifetime and size of the cache,
however often the provider reports between two pages and whoever fetched what a caller reads.  Its invariant, `MoneyOK`, says that whatever is kept for a window, or is being paged for it, came from that window when some
number of rows had been reported (`CameAt`), not fewer than when it was asked for; `heard` remembers how many that were at each tick, and what has expired is not used.  Three arguments carry it:

* What came are grouped lines of what the ledger had reported then, with their money per day (`RowsCollected`, `QueryCame`, by induction over the lines).  A merge of two lines keeps the money because the lines of an AWS
  ledger have the amortized metric all or none (`MergedLine`).
* An answer ends at the last day it reports, or at the day before, or where its window begins when it reports nothing (`Reaches`, from `DayCame`, `HoursCame` and `NothingCame`), so that every day with something later than it is in the answer.
* A window begins no later than any of the caller's periods (`WindowIs`), so that what the caller cuts out of the response for its own periods, or another caller for other periods with the same key, is whole (`AnsweredWhole`).  What a provider
  will report does not change within a run (`LedgerStays`); how much of it has been reported does.

`BillProofs` extends it with four theorems about what is lost or given away on the way from a bill to an answer, for any bills, files, ledgers, audit trails and limits.

* `EveryCutAddsUp` (`EveryDimensionCountsTheSameMoney`): a split keeps the money of its row, because the shares are rounded and the largest takes what the rounding leaves over, and a
  row without an event goes to "unattributed" as a whole (`PartsMade`, for every set of actors at once, so that the same lemma serves the cuts that split nothing).  Grouping keeps what was selected, and what a page leaves out is what its groups do not have.
  `CutIInv` says that a breakdown is the one of the bill, and that a trail is finite with known principals, whichever of the three sources it came from.
* `SharesAreWitnessed` (`SharesHaveWitnesses`): a part has its actor from an event in play at the day and the resource of its own row (`OfARow`), and parts that agree in all but money add up to the rows that do
  (`ClassAddsUp`), which the total of all parts would not show.
* `MissingUsageIsKnown` (`MissingUsageIsNotCertain`): `KnownIInv` relates what was read to how far it reaches.  Of an upload, the boundary of the stored file is before the end of the period when days or hours are missing at its end; of a live answer,
  the boundary reaches the end of its window only with a row of the last day (`Reaches`, in `MoneyOK`), so that nothing comes on a later day of the period.  A bundle is complete only when that boundary is not before the end of the period, and a playbook with an incomplete bundle writes no certain finding.
* `AggregationIsLossless` (`AggregationChangesNoAnswer`): two lists of records are `Alike` when they have the same keys and, for every set of keys, the same amounts.  Collapsing rows and putting them in order keep them alike (`AllGathered`, `AggregatedAlike`), and so does every filter, since it looks
  at fields of the key only (`KeptAlike`, `InPeriodsAlike`, `FilteredAlike`).  A group is told by the keys that fall into it (`GroupsTell`), hence alike lists have groups of the same figures (`AnsweredAlike`); `RowsLoaded` ties the bill of a run to the stored rows.

The lemmas about the operators are reusable: `KeptList` and `KeptBill` for filters, `Sorted` for sorts, `BucketsMade` and `RowsGrouped` for the two groupings.  The assumptions are in
`CostPipeline`: `None` is not a number (`NoneAssumption`), a `DateRange` is in order (its validator, common.py:67), its bill has figures, its units of money are positive, its bundle has lists of series and events,
and the tables of playbooks, as those in the code, have ceilings between 0 and 1 (`InputsAssumption`, `PlaybooksAssumption`), a cost file and a ledger have rows of figures or blanks and listed names, so that two of them can
be put in order (`UploadsAssumption`, `LedgersAssumption`).  A ledger is of one of the three formats; BigQuery says of each row at which hour of its day the usage ended, the others bill whole days, and Cost Explorer returns the
metrics it is asked for on every line or on none (`LedgersAssumption`).  A request comes without data and counts its days from an epoch (`RequestsAssumption`); in an uploaded BigQuery file the usage of a row is over before the next day is, and a trail names listed principals and counts tokens from zero (`FilesAssumption`),
as the finite trails of fixtures do (`FixturesAssumption`).  The records of a bill have the fields a cut asks for, and no actor yet (`IsUnsplit`).  "unattributed" is in the list of names (`ActorNamesListed`), and `None` is neither a window nor the name of an unknown group.  A day has hours (`HoursAssumption`), and the periods asked for are finitely many, at least one, each in order (`AskedAssumption`).  An agent's answer is any list of findings that the `Finding` contract accepts (`AreFindings`, a guard of `InvestigateByAgent`).

Only model-checked: liveness (`EveryRunEnds`, `EveryStreamCloses`, `EveryRequestReturns`, `EveryInvestigationSettles`, `BusyEnds`), which needs ENABLED and
fairness and is out of the prover's reach.  Every invariant and every action property of the passing runs is a theorem.  The models filter and sort with `ElementsAt` and `Ordering`, as the prover does not look into `SelectSeq` and `SortSeq`.  The library's induction theorems take an operator and cannot be used; where data is folded
the proofs rest on `EveryNatural`, a form of induction over sets of numbers that follows from the well-foundedness of `<`.

## What the models show about the code

Runs that expect a violation, with the text they contradict under "findings":

* `EventStreamTwoReaders`: of two open streams of a job one never ends (jobs.py:116).
* `JobHistoryRestart`: after a crash, rows stay queued or running and are rehydrated so (history.py:239).
* `DatasetStoreDelete`: an upload that overlaps a delete writes the dataset back (store.py:328).

Further behaviour that is in the models, without a run of its own: a job pruned between its creation and its run is restored without
its listeners, so its run ends and returns and its row stays queued, although docs/usage.md:238 says that every state change is
written through to SQL (history.py:231); usage that BigQuery reports days later takes back the drop of a report that calls nothing
provisional (ingest.py:654), although ADR 0017 has the guarantee "that a drop in the report is a drop in the bill"; the sweep can drop a semaphore between an acquire and its
count, and the next call gets a fresh one (memory.py:154); each HTTP worker spends a call budget of its own, where ADR 0018
has one per investigation (context.py:107); a live run with a provider that has no candidates reports "stub", because an agent
that records nothing is a failed one (engine.py:158); `JobStore.prune` removes
queued and running investigations like any others (jobs.py:149), and one still running is
inserted into the database again by its next write; an event emitted before a stream opened is sent from the list and
again from the queue (jobs.py:111), and a job that ends during a replay closes the stream without what was
emitted meanwhile (jobs.py:113); `degraded_reason` is cleared by the next statement that succeeds (history.py:304); two
uploads to different datasets can both pass the byte check (store.py:302); the only cost export of a dataset
cannot be replaced by one in another currency (assembly.py:113); the charges without a resource of a service whose name is also that of a resource are
in the candidate of that resource (comparison.py:350); the sweep forgets an hourly bucket
after 300 s without a request (memory.py:143); with two renewals missed in a row a lease is over at the moment
the third is due (redis_backend.py:110), which is why `RedisLeases` allows one.  Outside the models: the number in a finding
id counts the toolset of one attempt, so findings merged from two attempts can share an id (native_tools.py:191).

A specialist run as a service is cut by `worker_timeout_seconds` (90 by default, settings.py:204) before its
live agent's window (180) is over, and nobody falls back (http_app.py:56).  In the page: a reset
forgets the case but not its calls, so a late answer or settle overwrites the next case (console.tsx); a
stream that is cut leaves the page busy for ever; a late success ends the cooldown of a newer refusal; and an
upload or seal that is answered after its dataset was discarded brings it back to the panel.  In the live cache: the lock of
a fetch that failed is never removed; a fetch that outlasts the life of an entry, an entry that has expired when the next waiter looks, and an eviction at
capacity each let one window be fetched twice; midnight moves the window, so an investigation may compare with one bill and explain with another.
A GCP line below zero lowers usage in the live query, where the upload's parser calls it a credit; `_aws_data_through` names the busiest earlier day complete even if every
day of the file is cut short.  A metric without samples averages to zero, which reads as idle.

## Not modelled

Beside the components marked *no*: `apply_migrations` and the connection handling of `sql.py`; the
ingest pool (a parse that times out goes on in its thread); the failure of the limiter's backend and clocks that differ
between replicas; the memory prune while a thread iterates over the store (one step here).  In `Investigation`: the wait for
a token of the rate, the length of delays, evidence and ranking (they are in `Analysis`), what becomes of a service nobody waits for; tool calls, and what a
cancelled attempt awaits while it cleans up, are one step, and the playbooks do not raise.  Requests
that wait for a dataset lock are not told apart: whoever finds the lock free may enter.  In `CostPipeline`: uploads of metrics, inventory and
recommendations, several providers in one comparison, credentials and several scopes of a live provider, wording of evidence and reports; an entry evicted among equals is any of them.  In `WebPage`: the
demo scenarios, a panel that is unmounted by a change of tab or a demo report, expiry of a dataset, the waking poll, the proxy.  Cloud Tasks (off unless a queue is configured) and the gateway link are
the next to model.

## How the modules build on each other

    InvestigationLifecycle <- GatewayJobs <- GatewayJobsProofs
    EventStream <- Console;  Console, UploadPanel <- WebPage <- MCWebPage, WebPageProofs
    PeriodComparison <- ActorAllocation, Playbooks (BillingKnowledge), FindingValidation <- Analysis
    UploadParsing <- LiveCosts;  Analysis, LiveCosts <- CostPipeline <- MCCostPipeline (MCAnalysis)
    CostPipeline <- CostPipelineProofs <- BillProofs;  Admission, PermitPool <- MemoryLimiterProofs
    JobHistory, DatasetStore <- StoreProofs;  RedisLeases, Investigation, each with its proofs

## What could come next

1. `ClaimDispatch`: at-least-once delivery against the claim set, with restarts; no investigation runs twice in a process, none waits for ever unnoticed.
2. `Ingest`: the pool of two threads and its timeouts; the other kinds of upload.
3. `Investigation` over `Analysis`: several specialists whose findings meet in one reconciliation.
4. A proof about `EventStream` with several readers (`StreamInOrder` of `WebPageProofs` is about one).
