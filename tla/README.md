# promshim-clickhouse: specifications, model checking and proofs

TLA+ specifications of promshim-clickhouse: who reloads the recording rules and
when, how rule files travel from Kubernetes to the query path, what a query's
plans, retries and shadow runs may do to its answer, what the answer is (the
local executor, the statements ClickHouse answers, the rewriting before both),
how the statistics behind the cost routing are kept, how a range is cut, and how
the long seeder throttles itself and stops. Paths
below are relative to the repository's root (`src/` in `PROJECT.json`), and
`service.go` means `internal/promshim/service.go`.

    tlc -workers 2 -config RuleReload.cfg MCRuleReload.tla    # one model check
    tlapm RuleReloadProofs.tla                                # one module's proofs

Contents: 1 the system, 2 the modules, 3 the runs, 4 fairness, 5 the proofs,
6 what the models disagree with, 7 what is abstracted, 8 what is not modelled,
9 the plan.

## 1 The system

promshim answers the Prometheus HTTP query API from ClickHouse `TimeSeries`
tables. A request is parsed, its recording rules are expanded, it is planned
into one of several tiers (the whole query delegated to ClickHouse's PromQL,
one native SQL query, a local tree with native parts, a local tree), possibly
re-routed by cost, evaluated, possibly retried locally, limited, compared with
a shadow run, and rendered. Beside the server there is a Kubernetes sidecar
that writes rule files, and a seeder that fills ClickHouse for benchmarks.

| component | state | operations | who it meets | hard because |
|---|---|---|---|---|
| rule registry and reload (`service.go` 880-960, `rules/registry.go`) | atomic pointer to a registry, atomic deadline, a mutex | reload when due, snapshot | every planning pass of every request; the file system | no background goroutine: requests race for the reload while the files change under it |
| rule expansion (`rules/expand.go`) | none | rewrite an expression | the registry, the query's evaluation | labels of rule, group and expression override each other; a rule has no history |
| PrometheusRule syncer (`rulesync/`, `cmd/promshim-rule-syncer`) | none but the output directory | list, render, write atomically, remove what is stale | Kubernetes API, the directory the server reads | every call can fail, the process can die between any two, the API moves on meanwhile |
| selector statistics (`selector_estimates.go`, `selector_probe*.go`) | cache with TTL and a limit, under a mutex; a semaphore | look up, put with eviction, schedule a probe | requests, background probes against ClickHouse | late, dropped, failing and duplicate probes; old clocks |
| cost model and classes (`routing_policy.go`, `query_cost_class.go`) | none | classify, decide | statistics, options | many gates in an order that matters |
| query pipeline (`service.go`, `service_native_fallback.go`, `cost_shadow.go`, `shadow_evaluator.go`, `shadow/`) | per request: mode, policy, plan, routing record, result | plan, route, replan, estimate, evaluate, retry, limit, shadow, respond | everything above, ClickHouse | modes times policies times failures; plans are built several times; the context may end at any point |
| range chunking and preflight (`local/chunking.go`, `range_strategy.go`, `native_range_preflight.go`) | per request: size of a chunk, what is merged | decide, probe, split, evaluate chunk by chunk, merge | the plan below, ClickHouse | borders; several caps on one number; data changes between chunks |
| logical plan and optimizer (`logical/`, `logical/opt`) | none | build, analyse, rewrite until nothing changes | expansion before, planner after | rewriting under wrong assumptions on names |
| local planner and executor (`local/`, `local/exec`) | none across requests | evaluate a tree of plans for an instant, a range or step by step | storage, native plans | every operator exists for vectors and for matrices, and the two have to agree |
| native plan and renderer (`native/`, `storage/*_sql.go`) | none across requests | decide what can be lowered, write one statement for it | ClickHouse, the executor around it | every operator exists a third and fourth time, in SQL |
| ClickHouse client (`storage/`) | rows under way | query, stream, close, observe | driver, HTTP | read, close and observe race |
| HTTP API, options, metrics, shadow summary | counters | decode, render, count | clients | streamed responses, shutdown |
| long seeder, stream (`cmd/ch-seed-long/seed.go`, `token_bucket.go`) | channel, limiter, cancellation, first error | generate, gate, post, cancel, return | remote-write endpoint | termination with a full channel, a moving target and a cancelled run |
| long seeder, throttle (`regulator.go`, `probe.go`, `rtt_ring.go`) | two atomics: target and freeze | regulate per tick, fire | the stream's limiter | two writers, no lock |
| harness and other tools (`internal/promharness`, `cmd/*`) | files | batch runs | both servers | sequential |

What makes each correct, in the order of importance used here:

- *registry*: a plan is built with a whole registry, never with part of a load;
  reloads exclude each other, never put an older content back, keep their
  distance, and nobody waits for good behind a reload that fails;
- *pipeline*: a retry happens once, for the same instant, locally, and only
  after a failure on ClickHouse's side; limits hold on every path; what is
  served is the strict plan unless the gates let cost decide; a shadow run
  never reaches the client; everybody is answered;
- *syncer and the whole flow of a rule*: nothing is removed that the API still
  has, the directory and the registry converge, a rule that moves is never out
  of the registry;
- *statistics*: cache and slots bounded, good entries lost only for room, and
  the estimates of a query asked for one time do arrive;
- *chunks*: no point lost, none twice, no more queries than allowed;
- *answers*: a range is its instants, a statement answers what the executor
  would, rewriting changes nothing, a rule answers what it would have recorded,
  label sets stay unique;
- *seeder*: success means everything was acknowledged once, the error reported
  is the cause, the run ends, the throttle holds and lets go.

`PROJECT.json` lists every component and, under `hazards`, each of these at the
line where it bites, with the properties that watch it.

## 2 The modules

| module | models | variables stand for | actions stand for |
|---|---|---|---|
| `RegistryCell` | nothing in the code: the abstract promise of the reload | a register, who asks, what each was given | publish, ask, answer |
| `RuleLoad` | one load: `loadRecordingRuleRegistry`, `rules.LoadFiles` | `dir` the files, `registry` the pointer, `load` a load's locals | `Glob`, `Reglob`, `ReadFile` one file each, `Swap` |
| `RuleReload` | `expandRecordingRules`, `maybeReloadRecordingRules`; extends `RuleLoad` | `nextReload`, `mu`, per request `pc`, `now`, `used` | `ReadClock`, `CheckDeadline`, `LockAndRecheck`, the load, `ScheduleAndUnlock`, `Snapshot`; environment `Tick`, `Edit` |
| `RuleSync` | `SyncOnce`, `Run`, `writeFileAtomic` | `api`, `dir`, `at`/`listed`/`rendered`/`left` the round | `Start`, `ListNamespace`, `WriteFile` one each, `ReadDir`, `RemoveFile` one each, `Finish`, `Fail` for a failed call or a crash; `Create`, `Delete`, `Edit` in Kubernetes |
| `RuleFlow` | both processes over one directory: extends `RuleSync`, instantiates `RuleLoad` | theirs, `standing` a history | theirs, interleaved |
| `SelectorStats` | cache, probes, and what a request does with them | `entries` observation times by selector and evaluation time, `tokens` the semaphore, `probes` the goroutines | `Ask`, `Classify`, `Read`, `Classified`, `Walk`, `Look`, `Acquire`; `Observe`, `Failed`, `Store`, `Release` |
| `QueryPipeline` | `InstantQuery`/`RangeQuery` from the modes to the response | configuration, request, plan and its instant, `routing`, `value`, `answer`, `response` | `Start`, `Build`, `Route`, `Replan`, `Estimate`, `Evaluate`, `Fallback`, `Retry`, `Limit`, `Prepare`, `Compare`, `Send`; `Tick`, `ContextEnds`. `Route` decides, `Alternates` picks a shadow run among the ranked candidates (`cbe_candidates.go`) |
| `CostRouting` | `routing_policy.go`: a query's class, missing estimates, hard caps, predicted costs and margin, families and gates | none: operators `QueryPipeline` decides with | |
| `CostClasses` | `query_cost_class.go`, `applyCachedSelectorEstimates`: from an expression and what the cache knows of its selectors to its class | none: `MCQueryPipeline` builds its classes with it | |
| `RangeChunks` | `applyRangeExecutionStrategy`, `ApplyNativeRangePreflight`, `chunkedRangePlan.execute` | `chunk`, `from`, `merged`, and what the store holds | `Plan`, `Preflight`, `Whole`, `Chunk`, `ChunksDone`, `Fail`; `Arrive` |
| `Seeder` | `runStream` and the limiter | channel, generator, workers, errors, flags | one action per step of the loops, selects as disjuncts |
| `SeedThrottle` | regulator and health probe | `target`, `freeze` and both actors' locals | every load, compare-and-swap and store is one action |

What a query answers is a chain of modules of operators, each extending the one
before, with a state machine at its end:

| module | models |
|---|---|
| `LocalData` | label sets, vectors, matrices and scalars (`model/`, `local/exec`), the regrouping of a matrix by timestamp, what a selector selects |
| `LocalExec` | the operators of `local/exec`: arithmetic and filters, vector matching, set operators, aggregation, relabelling, functions of samples and of ranges |
| `LogicalAnalysis` | `logical/analyze.go`: the domain of each node and whether its series are known to have no name; which selectors a plan has more than once (`metadata.go`) |
| `NativeAnalysis` | `native/analysis*.go`, `types.go`: what can be lowered, constants, selectors with arithmetic on top, the window a statement reads |
| `NativeRanges` | the parts of `native/renderer`, `storage` and `emit` that read ranges: grids, raw samples, the steps of a subquery, functions of a range by each of the strategies `native/physical` chooses from |
| `NativeRows` | the parts of `storage/selector_sql.go`, `join_sql.go`, `sql.go` and `native/renderer` that make rows of rows: selectors by each of their strategies, joins, set operations, groups, the orders of selections and sorts |
| `NativeRender` | `native/renderer`, `storage/sql.go`: what the statement of each node answers (selectors, constants, arithmetic, joins, a range function joined with itself, a range of samples read from a common table, reducers, `topk` and its like, `count_values`, clamps, `round`, `abs`, `sgn`, relabelling, the sorts, `absent` and `absent_over_time`) |
| `LocalEval` | `local/planner*.go`: the plans' `execute` for an instant and over a range, delegated selectors, subqueries, a subtree handed to ClickHouse |
| `QueryBuild` | `logical/promql*.go`, `build*.go`: from a parsed query to a plan; the analysis that refuses shapes, and the builder that asks it and then reads the arguments by itself |
| `RuleRegistry` | `rules/registry.go`: rules by name, conflicts, the labels a rule sets |
| `RuleExpand` | `rules/expand.go` |
| `PlanRewrite` | `logical/opt`: the two passes and their iteration |
| `NativePlan` | `local/planner.go`, `native_subtree*.go`: which node is handed over in which mode |
| `QueryAnswers` | the state machine: rules are loaded in any order (`Load`), a request is asked, rewritten, planned, evaluated (`Ask`, `Rewrite`, `BuildPlan`, `Evaluate`); `Reread` is no step of the program, it evaluates once what the properties compare the answer with |

A plan is a record whose field `node` says which plan node of the code it stands
for. The same plan is read by the local executor (`Eval`), by the statements
(`Render`) and by the rewriting, as the code's logical plan is.

`MC...` modules only give values to constants, and `QueryForms` names the
queries of `MCQueryAnswers`. The modules called `...Proofs` hold the proofs of
the module they are called after. Composition: `RuleReload` extends
`RuleLoad`; `RuleFlow` joins `RuleSync`'s directory with an instance of
`RuleLoad`, so the load that is proved about in `RuleReload` is the same text
that the syncer races with; `RuleReload` implements `RegistryCell` under the
mapping at its end (a request asks from reading the clock to loading the
pointer).

A word on the shape of some actions:

- A content of a file is a number, and an edit always takes a higher one, so
  that "older" has a meaning; numbers in `Missing` stand for no file and numbers
  in `Unparsable` for what rulefmt rejects.
- A crash of the syncer and a failed call end a round at the same places with
  the same state behind, hence one action `Fail`. Nothing is kept in memory
  between rounds.
- Times in `SeedThrottle` are kept as what is left of them and run down in
  `Elapse`, which keeps the state space finite without a bound on the clock.
- A definition that appears just before another of the same shape and that no
  action uses (`AssumeStillDue`, `SkipNamespace`, `Unpinned`, `SameBorder`...)
  is a plausible mistake in the code. `PROJECT.json` names, for every
  property, one of them that makes the property fail.

## 3 The runs

Every run finishes its whole state space, except those that look for a
violation, which stop at it. States are distinct states.

### rule_reload (`RuleReload.cfg`, 80 thousand states)

Two requests, two files, one named by a literal pattern (missing it fails the
load) and one by a glob. Contents 0 and 3 are absent and 2 does not parse, so a
file can appear, break, be mended, vanish and come back while loads run.
Two reloads can follow one another (`MaxTime` 2, `Interval` 1). Two requests
suffice for the race: the mutex lets a third do nothing a second could not, and
the proofs of section 5 are for any number.

- `PlansUseWholeRegistry`: a file that was there all the time is in every
  registry a plan was built with, however it was edited or broken.
- `OneLoader`, `ReloadsSpaced`: loads exclude one another; attempts are an
  interval apart although many requests find the deadline passed at once.
- `RegistryNeverOlder`: the pointer never goes back to an older content.
- `EveryPlanBuilt`: a request that began to plan gets its plan, whatever the
  reload met.
- `ImplementsCell`: all of it is an implementation of `RegistryCell`, with its
  fairness.

### rule_flow (`RuleFlow.cfg`, 384 thousand)

The syncer and promshim's file-by-file load over one directory: three objects in
two namespaces, a file somebody else put there, a body the renderer rejects,
three edits at any time, one failed call or crash: enough for an object to be
created, edited and deleted within one round, and for a fault to hit each of its
steps.

- `RemovesOnlyDeleted`, `RemovesAfterWrites`: the order inside a round.
- `StandingRulesServed`: while a rule moves from one object to another (the new
  one is created before the old one is deleted), no registry lacks it, at
  whatever two points of round and load the processes meet. It holds because the
  syncer removes only after it has written everything, because a load that finds
  a listed file gone fails as a whole, and because a failed load keeps the old
  registry; the run fails when, for instance, the removals may start among the
  writes. `standing` remembers what a namespace held without a break; two
  objects edited in place in the opposite order, or a move between namespaces
  that are listed one after the other, can open a window, and the code promises
  nothing there.
- `RegistryConverges`: when the API rests, promshim comes to serve its rules.

### selector_stats (`SelectorStats.cfg`, 757 thousand states, about a minute)

A signature is a selector at an evaluation time: its key holds where its range
begins and ends (`selector_estimates.go:132`). A client asks again and again for
one selector at the time 1; a visitor asks once, now, for that selector and for
another one. A cache of two, two slots, a probe that fails, entries that expire.
That is the smallest instance with eviction under concurrent probes, full slots
and expiry at once, and with two clients that share a signature or do not. `CacheBounded`,
`SlotsMatchProbes` and `LosesOnlyOldest` are safety. `EstimatesArrive` is
stated of clients that name their time, for only they ask twice for one
signature; it is `[]<>` and not `<>[]` on purpose: with the clock at its bound
observation times tie, and a tie allows an eviction of either entry. The
visitor's other selector matches nothing, which the code treats as no estimate.

### query_pipeline (`QueryPipeline.cfg`, 2.0 million states)

All six configured modes, all three policies, requests with and without
overrides, five shapes of query (what can be delegated, lowered, partly lowered,
run locally), the cost classes of ten queries with what the cache knows of their
selectors (rates, sums, a histogram's quantile, a repeated rate, a light subquery;
fresh, missing and stale), chosen so that each gate of `decide` is the
one that decides and that a histogram's candidate is listed or not, results at the limit and one above, `?limit=` or none, a clock
that ticks once and a context that may end anywhere. A second tick would only
move the instants further apart.

- `RetriesRightly`, `FailureNotMasked`: the fallback.
- `LimitsHold`: on each of the paths to the response.
- `NativeOnly`: `force_supported` against routing and fallback.
- `StrictUnlessGated`: what may replace the strict plan.
- `ShadowHarmless`, `AlwaysAnswered`: shadow runs and the end.

The classes are written out in `MCQueryPipeline`, and an assumption there, which
TLC evaluates, says that they are what `CostClasses` makes of the ten queries.
Translating the two files showed three things worth knowing. Over a range
`EstimatedOutputPoints` is set from the number of selectors before the number of
series is known, and kept (`query_cost_class.go:32-39`, `selector_estimates.go`), so
the cap on points counts one series for each selector. `docs/cost-routing.md:66-70`
says that only `rate_instant` may serve locally; the code also lets repeated rates,
quantiles of histograms and aggregations do so, once their gate is opened
(`costPreferServingCandidateAllowed`). And against native SQL the margin decides
nothing (`MarginDecidesNothing`, §6).

The shadow alternate of `cost_shadow` is the selected candidate where it can be
ranked and is not the one served, and any other ranked one that can be run
otherwise. The order by predicted latency is left open: each ranked candidate may
be first. Modelling it shows that the histogram's candidate `local_pushdown` is listed
but does not become an alternate: where candidates are ranked at all, the selected
one is there and is `full_local` or what is served.

### range_chunks (`RangeChunks.cfg`, 2.8 million states, a minute)

Four kinds of plan, ranges of two, three and four instants (one with an end
between two), caps of two points (the default), three and none, a cap on the
duration or none, limits of one and two chunks or none, a probe or none, every
initial content of the store for two series and one sample that arrives late.
Chunks of one, two and three points, an even and an uneven last chunk, and
ranges just at and above each cap occur. `AnswerComplete` (against a history of
what was stored when the request came in), `MergesCleanly`, `QueriesBounded` (the
limit, for all but a cumulative average under the default cap, which has two).

### seeder (`Seeder.cfg`, 316 thousand states), seed_throttle (`SeedThrottle.cfg`, 367 thousand)

Two workers, six batches against a channel of four (the generator does block),
a target that moves twice, two faults, a caller that cancels at any point:
`SuccessMeansAll`, `RootCauseReported`, `Terminates`. Targets up to five, where
halving, dividing by four and stepping down by one all differ; holds of one and
two ticks: `FreezeNeverShortened`, `ThrottleHolds`, `RampsBack`.

### query_answers (`QueryAnswers.cfg`, 198 thousand states)

Some nine hundred queries over five stores (one empty, samples missing, NaN
samples, equal values), for two instants and four ranges (steps longer and
shorter than the lookback, starting on samples and between them), in the four
lowering modes, by both strategies of a range's selector statement, with four
rules loaded in any order (two of one name that agree in everything but labels,
one that differs in its expression). Every operator stands over every kind of
operand (`Composed`, `LoweredForms`, `LoweredSelections`), every function of a range
over raw samples and over subqueries, alone and under other operators
(`LoweredWindows`), selectors are held and put back (`LoweredInstants`,
`LoweredRanges`), and some queries are refused by the shape analysis or by the
builder (`Shapes`). A lookback of 1400 ms keeps every sample off
the exact border at which instants and ranges are known to differ (section 6).
Queries that name no rule are asked only while none is loaded (the constraint
`RulesMatter`): the others are one state each more and change nothing.

- `RangeIsInstantAtEveryStep`: a range answers at each of its steps what an
  instant query there answers, though most operators are written twice.
- `MatchingMirrors`: `group_right` answers what `group_left` of the exchanged
  operation answers.
- `ExpansionKeepsMeaning`: over rules, what is answered is what would be had the
  rules been recorded (every half second, `RuleTimes`, which divides all steps and
  offsets asked); a name with two rules is not answered, and what is put in for a
  name makes no query an unsupported one unless it needs a rule's history or labels.
- `WindowsTile`: two adjacent windows count what their union counts.
- `LabelsetsUnique`: no answer holds one label set twice at one time.
- `OptimizerKeepsMeaning`: the optimized query answers what the query does.
- `LoweringKeepsMeaning`: what comes through ClickHouse's statements is what the
  local executor makes of the samples, and no timestamp more; sorts come in the
  same order.
- `LoweringRefusesLittle`: a statement throws only for an ambiguous "one" side, and
  for a range of samples it has twice as arrays (section 6).

### Runs that show a disagreement

`query_pipeline_override`, `query_answers_filter`, `query_answers_offset`,
`query_answers_join`: each checks the one statement of section 6 and finds it
violated.

## 4 Fairness

- Goroutines that can run do run (weak fairness of each actor's whole step);
  queries to ClickHouse and posts to the endpoint end, because each has a
  context or a client timeout; file reads return.
- `SF(LockAndRecheck)`: `sync.Mutex` hands itself to a waiter that has starved
  for a millisecond, so the lock cannot be refused for ever.
- `SF(GiveUp)` in `Seeder`: a worker polls the gate in a loop; a select entered
  with its context done finds it done long before the 50 ms timer, though the
  done case is not continuously enabled at the level of the loop.
- The syncer's ticker keeps firing; the regulator's and the probe's too, and
  time goes on (`Elapse`).
- `RangeChunks` and `QueryAnswers` have safety properties only and no fairness.
- Nothing is assumed of Kubernetes, of whoever edits files, of clients that
  come once, of faults, of the clock where a clock can be frozen, or of probes
  succeeding more often than the bound on faults says. No fairness makes a
  query fail.

## 5 The proofs

tlapm checks all of them, for every value of the constants that satisfies the
named ASSUMEs: any requests, files, contents and literal patterns, any interval;
any modes, policies, shapes, classes and limits; any namespaces, objects and
bodies of rules; any number of selectors, probes and slots; any hold, target and
length of a fire; any number of workers and batches; any ranges, caps and series.

`RuleReloadProofs` (assumptions: bounds are naturals, `NoOne` is no request)

| theorem | states | inductive argument |
|---|---|---|
| `TypeCorrect` | `[]TypeOK` | itself |
| `LoadsExclude` | `[]OneLoader` | itself, relative to the types |
| `NeverOlder` | `RegistryNeverOlder` | `Ordered`: outside a load a request holds nothing of one; `registry <= built <= dir` for what a load has read. The first half makes a swap harmless; the mutex (`OneLoader`) is needed so that no second swap comes in between |
| `WholeRegistry` | `[]PlansUseWholeRegistry` | `Whole`: for a file that never went, each load still has it to list, glob or read, or has read it, or has failed |
| `Spaced` | `ReloadsSpaced` | `Spacing`: with the mutex free the deadline is one interval after the last attempt; a holder's `now` is the last attempt |
| `CellSafety` | the safety part of `ImplementsCell` | every step is a publication, an ask, an answer or a stutter; a publication is nowhere older by `Ordered` |

`QueryPipelineProofs` (assumption: `PipelineAssumption`)

| theorem | states | inductive argument |
|---|---|---|
| `TypeCorrect` | `[]TypeOK` | `Typed`: with the types of the records `TypeOK` leaves out |
| `RetriesAreRight`, `FailuresShow` | `RetriesRightly`, `FailureNotMasked` | `Attempts`: what has been evaluated at each place of the pipeline, and that `error` is the first outcome |
| `MarginDecidesNothing` | a class of a family that may be run locally, under every cap, has the predicted win over native SQL | none: the caps leave at most two round trips, and the bases of each family alone then keep the margin, which samples and points only widen |
| `OnlyNative`, `StrictFirst` | `NativeOnly`, `StrictUnlessGated` | `Choice`: under `force_supported` the plan is native and no replan is reached; a plan that is not the strict one has passed the gates |
| `LimitsAreKept`, `ShadowIsHarmless` | `LimitsHold`, `ShadowHarmless` | `Served`: from `Limit` on the answer has passed the limits, before it there is none, and a response is either an error without an answer or the answer |

`RuleFlowProofs` (assumptions: those of `RuleSync` and `RuleLoad`)

| theorem | states | inductive argument |
|---|---|---|
| `RemovesLast` | `[]RemovesAfterWrites` | `SyncInv`: `Round` (what a round has rendered and has left to do at each of its places), `Missed` (what it found no object for was missing in it), `Known`, `GoneForGood` (the object of an unwanted file does not come back) |
| `RemovesDeleted` | `RemovesOnlyDeleted` | the same: a removal is of a file that `Round` says is not wanted, whose object `Missed` says was not there |
| `StandingServed` | `[]StandingRulesServed` | `FlowInv`: `InDirectory` (for a body that stands there is a file that holds it, one the round wants while it removes), and `LoadCarries` (for each such body the load has a file it read the body from, or has still to read, or will find gone and fail) |

`SelectorStatsProofs` (assumption: `StatsAssumption`)

| theorem | states | inductive argument |
|---|---|---|
| `TypeCorrect`, `SlotsMatch` | `[](TypeOK /\ ClocksBehind)`, `[]SlotsMatchProbes` | together: the semaphore stays in its range because it counts the probes at work (cardinalities of the two sets); an entry, an observation and a request's time were read from a clock that only moves on |
| `CacheKeepsLimit` | `[]CacheBounded` | an entry comes in at a full cache only after the loop of evictions has made room |
| `LosesOldest` | `LosesOnlyOldest` | `ClocksBehind`: nobody's time is ahead of the clock, so what a request deletes as expired has expired |

`SeedThrottleProofs` (assumption: `ThrottleAssumption`)

| theorem | states | inductive argument |
|---|---|---|
| `TypeCorrect` | `[]TypeOK` | itself; a lemma on quotients keeps halving above zero |
| `FreezeStands` | `FreezeNeverShortened` | `SwapsLater`: a compare-and-swap that will succeed brings no nearer deadline |
| `HoldsAreServed` | `ThrottleHolds`, with its exception of the fire that runs across the round | `Held`: what is left of a hold is in the freeze or in the hands of who is about to put it there, and a decision to raise was made with every hold served |

`SeederProofs` (assumption: `SeederAssumption`)

| theorem | states | inductive argument |
|---|---|---|
| `TypeCorrect` | `[]TypeOK` | `Holding`: who posts holds a batch |
| `RootCause` | `[]RootCauseReported` | `Caused`: a run nobody called off is cancelled only with an error of the endpoint on record, or after it has returned |
| `SuccessComplete` | `[]SuccessMeansAll` | `Complete`: the channel holds the last batches in order (`InOrder`), each one before them was posted once and is acknowledged or in the hands of a worker that is not done (`Accounted`), and worker zero, which no target keeps out, leaves only a closed, empty channel (`NoneLeft`) |

`RangeChunksProofs` (assumption: `ChunksAssumption`)

| theorem | states | inductive argument |
|---|---|---|
| `TypeCorrect`, `NothingLost`, `NeverRefused` | `[]TypeOK`, `[]AnswerComplete`, `[]MergesCleanly` | `SoFar`: what is merged are the points before the cursor. Lemmas on quotients number the instants (`Nth`), so that a chunk is an interval of numbers |
| `FewQueries` | `[]QueriesBounded` | `Cut` (the number allowed times the size holds all points) and `Cursor` (the cursor is behind `ran` full chunks, and the last one run was needed) |

`QueryOperatorProofs` (assumptions: the labels are numbered from 1, NaN is a number,
the evaluation interval and the lookback natural ones) has no state machine below
it: it proves of the operators of the executor, of the statements and of the rule
registry, for any labels, samples, matchings, requests, windows and rules, what the
properties of `QueryAnswers` come down to at one operator.

| theorem | states | argument |
|---|---|---|
| `SubqueryWindow`, `SubqueryWindowsTile` | a subquery is evaluated at the multiples of its resolution in a window open on the left, so windows end to end share no step and lose none (`WindowsTile`) | `StepsOfRange`, from what a quotient is |
| `KeyOrder` | `KeyLess` is a strict total order of label sets | two label sets differ at some label for the first time (well-foundedness of the numbers); which is less there depends on whether one of them ends, and the order of three is followed through the places where they part |
| `AggregatesOncePerGroup`, `CountedOncePerGroup`, `SeriesOncePerLabelset` | aggregations, `count_values` and matrices put together hold each label set once, in key order (`LabelsetsUnique`) | `Positions`: in a finite ordered set, having as many below is an injection into as many numbers, so each position is taken once |
| `MatchedResultsUnique` | results of a join are of different label sets (`LabelsetsUnique`), although the code only looks within a match group | `ResultShowsGroup`: what the group is told by can be read off the result |
| `PairsMirror` | a pair under `group_right` comes to what it comes to with the sides turned round (`MatchingMirrors`) | by operation |
| `DoubleNegation` | folding `-(-x)` is right exactly where no sample has a name (`OptimizerKeepsMeaning`) | the label sets lose their names once, the values their signs twice |
| `RowIsPairResult`, `SetOperationsAgree` | two joined rows come to what their pair comes to, a set operation to the same samples (`LoweringKeepsMeaning`) | the definitions of the Go and of the SQL side; the name is taken off before or after the labels are kept, which commutes |
| `JoinsRefuseAlike` | no side being ambiguous, statement and executor refuse the same joins (`LoweringRefusesLittle`) | `MatchedResultsUnique` one way; the other way, two pairs of one group have both sides in common |
| `GroupsAgree`, `ValueGroupsAgree`, `OrdersAgree` | rows are grouped, counted by value and ordered as samples are (`LoweringKeepsMeaning`) | the definitions, `KeyOrder` for the ties, `LeastNumber` for the first label that differs |
| `GridOfRange` | the grid of a statement is the request's, or has one point after its end | `OneBetween`: one multiple lies between two that are two steps apart |
| `SparseSamplesSuffice`, `SparseTimesAreWindows` | giving samples to timestamps by arithmetic gives each timestamp the samples of its window, and the prefilter drops none of them | the same; a sample on the border of two windows needs the second timestamp |
| `SubqueryEnvelope` | the times of a subquery's child, evaluated once for all windows, are for each window those the executor goes through | `EnvelopeGrid` and `SubqueryWindow`: both are the multiples of the resolution in an interval |
| `RegistryIsOfItsRules`, `LoadedInAnyOrder` | the registry is a function of the set of rules loaded (`RegistryOf`), so neither order nor repetition shows (`ExpansionKeepsMeaning`, where `Load` takes any order) | by name: the names of other rules keep their entries, the name of the new one has one rule or is in conflict |
| `RuleRelabels`, `MatchersSplit`, `MatcherJoin` | a rule's series have the labels they would be recorded with, and a selector's matchers select them as they would the recorded ones (`ExpansionKeepsMeaning`) | an invariant of the chain of `label_replace` (`SetSoFar`), kept by each of its links whatever their order |

`MatchedResultsUnique` needs a hypothesis that the proof brought to light
(`LosesItsGroup`, section 6). `DoubleNegation`, `GridOfRange`, `ValueGroupsAgree` and
`OrdersAgree` are equivalences: they show the exceptions section 6 lists (two minus
signs over a name, one point after the end, `count_values` by a name, ties of
`sort_desc`) to be the only ones there. What is in between, filtering (`SelectSeq`), gluing
(`FlattenSeq`) and sorting (`SortSeq`) sequences, is opaque to the prover, so these
are theorems about the keys, the pairs and their results, and not about the lists
they are kept in; that a selected sample is one of those it was selected from stays
with TLC. So do, of the statements, sums and extremes of a group's values (both
are told by the numbers among them, which the statement selects), the rows a function of a
range reads once they are sorted by time, and that the chain of `label_replace` is
a fold over the rule's labels.

None of these properties is inductive alone: `NeverOlder`, for instance, holds
of a step only because what the loader carries was read after the registry was
built, which is what `Ordered` says.

Only model-checked: all liveness and the fairness of the refinement (the
prover does not handle ENABLED); and the eight invariants of `QueryAnswers`. Those
speak of `Eval`, `Render` and the rewriting, which are recursive over plans, and
the prover has no induction over such data; `QueryOperatorProofs` proves the steps such
an induction would consist of for the operators it names, not the induction.

## 6 Disagreements between code and documents

Each of the first four is shown by a run.

1. `service.go:950` says internal replans are not client overrides. Only the
   execution fallback passes a forced mode; the copies of the request made for
   the mode shadow, for a `cost_prefer` override and for both shadow
   evaluations go through the gate at `service.go:705`. With overrides off, the
   default, the configured mode shadow answers every query with an error about
   an override nobody asked for (`query_pipeline_override`).
2. `README.md:108` calls full local execution the correctness fallback. In range
   mode a scalar is a matrix of one series without labels, and so is a vector
   aggregated to one: `5 < sum(x)` over a range answers 5, asked for an instant
   it answers the sum (`query_answers_filter`, `local/exec/localexpr.go:111`).
3. `.agents/plans/jit-recording-rules-plan.md:109` wants the expansion to
   preserve behaviour for instant vectors. A rule's selector loses its offset
   and its `@` modifier and is not refused: its value now is answered for a
   while ago (`query_answers_offset`, `rules/expand.go:138`).
4. `lower_binary_vector_join.go:29` gives each side of a join bounds of its own,
   and `docs/promql-coverage.md:69` counts offset as supported. Only range mode
   does so; for one instant `x - x offset 1s` is answered with `x - x`
   (`query_answers_join`).

Met while reading, without a run of its own:

- `logical/metadata.go:15` calls what it notes of a selector hints that "must not
  change query results". A selector noted to be there more than once is read from
  a common table, for one instant by the columns of a vector; the table of a range
  of samples does not have them (`lower.go:365`, `storage/selector_sql.go:1465`).
  `count_over_time(m[2s]) + count_over_time(m[2s])` is refused by ClickHouse, and so
  is every function of a range but those with a path of their own to the samples.
  The model has it (`LowerRange`), and `LoweringRefusesLittle` excepts it.
- `cmd/ch-seed-long/probe.go:54` says the freeze suppresses the regulator's
  ramp-up for the hold time after a fire. The regulator loads, judges and stores
  the target without a compare-and-swap: a fire between judgement and store is
  overwritten by the raised target (`regulator.go:210`). `ThrottleHolds` is what
  does hold: only the very round the fire ran across can raise it.
- `docs/recording-rules.md:49` lets in-flight queries keep "the registry
  snapshot they started with". The pointer is loaded anew by every planning
  pass, and a request plans again for a routing candidate, a fallback and a
  shadow run (`service.go:932`).
- `README.md:124` offers the mode shadow for divergence detection. The
  alternate is planned from the request again, so without `?time=` for another
  instant, and `?limit=` has cut only one of the two results: equal plans
  differ (`cost_shadow.go:44`).
- `docs/cost-routing.md:23-25`: missing statistics choose the strict plan "until
  `cost_shadow` or another bounded warmup path refreshes the estimate cache". The
  cache's key holds the absolute bounds of the evaluation time
  (`selector_estimates.go:132`, `:264-277`), so that a query without `?time=`, or
  over a range that moves on, never meets what its own probes brought.
- `seed.go:138` and `:216`: a worker that has passed the gate takes its next
  batch although the target fell below its number meanwhile.
- `probe.go:53`: a trip at target 1 lowers nothing and therefore freezes nothing.
- `regulator.go:75` says a stall steps down by one; the code halves (`:185`).
  MinSamples (`regulator.go:21`, "before the regulator acts") is given a default
  (`:113`) and never looked at.
- `service.go:766`: when the local replan fails, what is served is the strict
  plan, but the served candidate still reads `full_local`
  (`docs/optimization-rollout.md:88`).
- `service.go:630`: a query is rejected on an estimate of what its selectors
  match; `docs/configuration.md:55` rejects "when fresh estimates prove the cap
  would be exceeded" by the response, which an aggregation makes smaller.
- `service.go:245`: the shadow run is awaited before the response is sent;
  `docs/cost-routing.md:18` and `README.md:124` put it "in the background".
- `service_native_fallback.go:93`: a purely local plan is retried too, because
  the leaves of a local tree report the strategy `delegated_promql`.
- `local/range_strategy.go:112-118`: under the default cap a cumulative average
  is always cut in (at most) two. The larger of the two sizes wins, which
  overrides the duration cap that `docs/configuration.md:50` and
  `docs/native-optimization-notes.md:35` promise, cuts ranges of two points, and
  makes two chunks where `MaxChunks` is 1. `QueriesBounded` is stated with that
  exception.

Where local execution and the statements, or instants and ranges, are known to
differ; the queries of `query_answers` keep clear of each:

- *Order*: `sort` and `sort_desc` break ties by ascending labels locally; `sort_desc`
  breaks them by descending ones natively.
- *Timestamps*: natively `timestamp(x)`, and `time()` folded into a selector's
  arithmetic, take the sample's own time, locally the evaluation's (the comment
  at `lower_leaf.go:190` knows it); instant results of `rate`, `increase`, `delta`, `changes` and
  `deriv` carry their last sample's time locally, other range functions the
  evaluation's (`local/planner_rangefunc.go`). `time() - last_over_time(x[5m])`
  takes for `time()` the last sample's time natively when it is asked for one time
  (`native/analysis_synthetic.go:28`).
- *Names*: pointwise and range functions drop the name without looking for two
  label sets that became one (`exec/transform.go`, `exec/rangefunc.go`); a
  minus sign over two names reports it locally and answers twins natively; two
  minus signs are folded although they drop the name (`opt/constant_fold_unary.go:22`,
  with label sets among its preserved invariants at `:39`); an average of equal
  `topk` or `sum by (__name__)` terms is cancelled although those keep it.
- *Matched names*: `x + on (__name__) y` matches by name and drops it from the
  result. Results are compared within their match group only
  (`exec/vector_matching.go:74`), so two names leave two results of one label set.
- *Borders*: a selector's instant window is closed natively and open at the left
  in ClickHouse's PromQL; a range whose end lies between two steps gets one more
  point natively (`emit.go:88`); the probe by which `absent_over_time` looks for samples
  reads a little before its range, so that a sample 1 ms before it makes the answer
  empty; NULL compared by `!=` filters a row that NaN
  would have kept.
- *`@`*: `start()` and `end()` inside a range function or a subquery are
  resolved per step in range mode locally; natively `x @ t` and `sum(x @ t)` over a
  range are not anchored (the guard at `local/native_subtree.go:300` lets them
  through), and a common subexpression is keyed without its `@`. A modifier on a range
  selector or inside a subquery is dropped natively over a range
  (`harness/compliance/promshim-extra-queries.yml:28` asks such a query).
- *Matching*: fill modifiers are dropped by the join (`storage/join_sql.go:468`,
  promised at `docs/promql-coverage.md:73`), and with comparisons or
  `group_right` the local executor fills the wrong side.
- *Labels asked for*: a grouped aggregation asks the selector below it for the
  grouping labels only, and what it asks reaches the bounds of a clamp as well
  (`renderer/aggregation_params.go:13`): a join inside the bound of
  `sum by (job)(clamp_max(x, scalar(sum(x * x))))` sees series without the labels
  that tell them apart and throws, or with `on` a missing label matches nothing.
  `count_values by (__name__)` loses the name natively.
- *One window*: the bounds of a clamp share the window of the whole statement,
  in range mode too (as in 4 above).
- *Source expressions*: `label_replace` and `label_join` hand their child's on
  as their own, so that an operator over them reads past them (`native/analysis.go:885`).
- *Rules*: rules that name rules are not expanded in each other, an aggregation's parameter
  is not expanded at all, `absent` of a rule loses its labels, and a rule whose
  expression is a scalar stays one.
- *Refusals*: an argument of `round` that is no constant passes the shape analysis and
  is refused by the builder, as a bad request and not as unsupported.

## 7 Abstractions

- *Values*: file contents, rule bodies, selectors, batches and series are
  numbers or model values. Names of files are distinct per object: a Kubernetes
  object carries its UID in the name.
- *RuleReload*: `filepath.Glob` is one step. Rules of different files never
  conflict. A conflict is not among the errors a load fails on
  (`rules/registry.go:141-155`): the registry keeps the name apart, and an
  expansion that meets it is refused (`RuleRegistry`, `RuleExpand`).
- *RuleSync*: the temporary file of an atomic write is not a rule file and is
  left out, also when a crash leaks it.
- *SelectorStats*: of a statistic only its time and whether it matches anything
  are kept. A late probe may put an older observation over a newer one, and
  nothing joins two probes of one selector: both as in the code.
- *QueryPipeline*: every plan of a query computes the same result, so a
  difference found is the pipeline's doing. Which of its classes a query has is the
  environment's choice, whatever its shape. The registry stands still within a request (`RuleReload` is
  about that), chunking and its probe are folded into the plan (`RangeChunks`
  is about that), and the limit on points, rendering errors and explain bodies
  are left out.
- *RangeChunks*: that a value at an instant does not depend on the range it is
  asked in is the promise of the plans below. A chunk reads the store once.
  Delegated plans never come here.
- *Query modules*: values are integers with one NaN, labels numbers in the order
  of their names, a regular expression the set of values it matches. Reducers
  and functions whose result is a fraction (avg, stddev, quantile, rate and its
  like) are left out: they differ from the ones modelled in the number, not in
  which series and times they answer with. A statement is what it answers, not
  its text. Division is asked only where it is exact. Where a `topk` or a
  `limitk` breaks a tie, ClickHouse is taken to order arrays of tags as the local
  executor orders label sets. The window of a whole
  statement (`RequiredBounds`) and the row sets of ClickHouse are modelled;
  memoized plans and thread caps, which change the cost only, are not. Of the common
  tables of a statement, what a use can read of a table is modelled (`LowerRange`);
  which of several renderings the table holds is not: they differ only where one
  selector stands with an `@` and without, which no checked query has. Of the ways to write a range function those that are off by default
  (native grid functions, cumulative averages) and those of averages and rates only
  are left out.
- *Seeder*: a post succeeds, fails or is aborted; what is in a batch and the
  fan-out to several endpoints are one outcome.

Bounds are named constants (`MaxTime`, `MaxPlans`, `MaxEdits`, `MaxFaults`,
`MaxVisits`, `MaxRetargets`, `MaxLate`) in guards of the environment, never of
the code, with two exceptions that count code steps: `MaxPlans`, since a request
plans a few times only, and `RanBound`, which counts chunks up to one more than
there could rightly be.

## 8 Not modelled

- The floating-point arithmetic of rates, quantiles, histograms, deviations and
  predictions, and the text of SQL: what is correct there is defined by IEEE 754
  and by ClickHouse's parser.
- The parser of PromQL (a library), and the logical analyses nothing decides on
  (schemas, label lineage, time requirements, how difficult a query is found).
- HTTP decoding and rendering, options, schema discovery, value types: stateless
  conversions. The two transports' rows and the response's lifecycle, and the
  shadow summary's counters, are in the plan.
- The comparison harness and benchmark tools: sequential batch programs.

## 9 Plan

Done: `RuleReload` with `RegistryCell`, `QueryPipeline` with the gates and the
candidates of the cost routing, `RuleSync` with `RuleFlow`, `SelectorStats`, `Seeder`,
`SeedThrottle` and `RangeChunks`, all with proofs; the query chain from the parsed
query (`QueryBuild`) and the rules in it (`RuleExpand`) to the local executor, the
statements and `QueryAnswers`, with proofs about the operators of all three.

Next, extending the models:

1. `RowStream`: the two transports' `Read`, `Close` and one observation each
   (`storage/http_json_transport.go:140`), the streamed response above, and the
   ten-second shutdown, which cuts off what runs longer (`cmd/promshim/main.go:76-101`).
2. `ShadowSummary`: counting under the mutex and exporting after it
   (`shadow/summary.go:41`): between the two they disagree.
3. `avg`, `rate` and `increase` in the query chain over fractions, and histograms.

Next, proving: the functions of a range over sorted samples (`OverWindows` and
`InstantOverRows` in `NativeRanges`) against those of the executor, once what a sorted
sequence holds can be proved of `SortSeq`.
