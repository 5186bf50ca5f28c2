# A verification project for speedtest-clash

speedtest-clash measures the nodes of proxy configurations: a library
(`speedtest/`), a command line and a small download server around it. The part
that is hard to get right is not the measuring but the traffic around it:
callers add nodes from several goroutines while a dispatcher hands them to a
bounded number of workers, results stream out, and cancels, timeouts,
`CloseInput`, `Stop` and `Close` may come at any moment. This directory holds
TLA+ models of that part and of what a test measures and a `Test` reports, TLC
runs over small instances, and TLAPS proofs, for every instance, of every safety
property that the passing runs check.

Run a model with `tlc -config <cfg> <module>`, the proofs with
`tlapm <Module>Proofs.tla` (`SumLemmas.tla` holds lemmas the others use);
`PROJECT.json` lists runs, theorems, the source lines each definition stands
for, the hazards, and for each property a plausible bug that it catches.

## Inventory

| component | source | state | operations | what is hard |
|---|---|---|---|---|
| streaming engine | `speedtest/speedtest.go` | `proxiesCh`, `resultsStream`, worker slots, four counters, `state`, `closeOnce`, contexts | `AddProxy`, `AddProxies`, dispatcher, workers, `CloseInput`, `Stop` | senders against the close; accounts under every early exit; nobody left waiting |
| source loader | `speedtest/source_loader.go` | `partsCh`, `errCh`, `callbackMu`, `callbackErr`, the derived context | `LoadManyStreamBatched`, `LoadStream` | first error against the cancel it causes; callbacks that outlive the call |
| TestSpeed | `speedtest/speedtest.go` | `addDone`, the returned slice | `TestSpeed`, `AddProxyURLs` | both of the above under one context |
| lifecycle of a Test | `speedtest/speedtest.go` | the fields a run replaces: `proxiesCh`, `stopChan`, `cancel`, `logTicker`, `closeOnce`, `testing` | `RunStream`, `stopProgress`, `startAutoProgress`, `Close` | fields without a lock, restarts, check-then-close |
| node test | `speedtest/utils.go` | per test: probes, samples, jobs, the context | `testspeed`, `TestProxy`, `Test` | timeouts at any point; 16-bit delays where 0 means dead; nothing left running |
| service checks | `speedtest/checker.go`, `speedtest/check/` | the request each job is at, the country found | `checkProxy`, one `Check` per service | each may fail on any request, next to the others |
| result cache | `speedtest/cache.go` | `sync.Map` of results with expiry, ticker, stop channel | `Get`, `Set`, `cleanup`, `Close` | load and delete are separate; fields cleared under the goroutine |
| bandwidth test, limiter | `speedtest/utils.go`, `speedtest/models/speedtest.go` | bytes left and received per goroutine, the token bucket all tests share | `testBandwidth`, `copyLimitedN`, `Wait` | partial reads, a chunk of zero, refunds of cancelled waits |
| HTTP requests | `speedtest/requests/` | retries left | `Request` | retry against cancel |
| reports and writers | `speedtest/speedtest.go` | `_testedSpeed`, the two lists, the counters, the configuration maps | `AliveProxies...`, `LogNum`, `LogSummary`, `WriteTo...` | what belongs to which `TestSpeed` call; maps shared with the cache keys |
| options, CLI, server | `options.go`, `app/` | none of interest | | sequential |

How they interact. The caller gets a channel from `RunStream` (one goroutine,
the dispatcher, which starts the workers) and calls the add operations from its
own goroutines; they share `proxiesCh`, the atomic counters and `state` under
`stateMu`. A worker calls `testspeed`, which consults the shared cache before it
measures. `TestSpeed` is such a caller: its adding goroutine gives
`AddProxies` to the loader as the callback `fn`, adds `options.Proxies`, and
closes the input; its own goroutine reads the results and then `addDone`. The
progress goroutine reads what `stopProgress` clears; `stopProgress` is called by
the dispatcher at its end and by `Close`. All tests of a `Test` download through
its one limiter. The accessors call `TestSpeed` themselves when there was none.

What makes each component correct:

* engine: no send on a closed channel; each announced node counted exactly
  once; every measured result delivered unless cancelled; nothing after the
  close; the stream and all calls end.
* loader: `fn` serial and never again after it failed; `nil` only if nothing was
  lost; the first error is what is reported; no goroutine left behind.
* TestSpeed: complete results unless it was cut off, an error only with a cause
  outside, nothing running behind its back, and it returns.
* lifecycle: no run works on the channel of an earlier one; each channel closed
  once; `Stop` is final; a second run ends as well; the progress goroutine ends.
* node test: alive only if reached, dead only if fully tried; nothing left
  running; the loss rate is over all samples, the figures in order and bounded by
  what was measured; no job's failure loses what another found.
* cache: never another node's result, and a `Close` that stops the goroutine.
* bandwidth: the downloads together never exceed the limit; the result counts
  every byte that came.
* reports: lists, counters and summary speak of the same nodes; a cached node is
  not measured again.

## Modules

**`ResultStream`** is the abstract promise of `RunStream` to the reader of its
channel: each submitted node is delivered, rejected, or - after a cancel -
abandoned; the channel closes when nothing is pending, or after a cancel.

**`Stream`** is the engine from the moment `RunStream` has returned. A node has a
`stage` (the program counter of whichever goroutine has it: add goroutine,
queue, dispatcher, worker), a `verdict` and a place of its result, `out`. An add
call has a `callPc`; `Begin` is `ensureCanAdd`, whose answer is used later
without the lock (`CountTotal`, `Spawn`, `Send`). Either select of
`processProxy` that meets a closed channel may panic (`SendPanic`), which ends
the process. The dispatcher is `Recv`, `Acquire`, `AcquireCancel`, `RecvEnd`,
`WaitWorkers`, `UpdateState`, `CloseResults`; a worker `Tested` or `Untestable`,
`Emit` or `EmitCancel`, `Tally`, `Leave`. A parent's cancel reaches `streamCtx`
in a step of its own. Two constants describe the caller: `SharedCtx` (the adds
use `RunStream`'s context) and `Orderly` (`CloseInput` and `Stop` are called only
when no add call is in progress - what the code silently requires).
`checkAndLogProgress` needs no variable of its own: `Loads` is the order in which it
loads the counters, `Line(n)` what it prints if the first load gave `n` and the second
is now, however much later that is.

**`SourceLoader`** is `LoadManyStreamBatched` with its feeder, workers, closer
and own `select`. A source yields a sequence of batches; a read or a provider
may fail between any two of them. A remote source is read by `Request`:
`RequestFails` and `PauseOver` are its loop, with the pause that watches the
context. `fn` is the caller's: `EnterFn`, `FnOk`, `FnErr`.

**`TestSpeed`** extends `Stream` and instantiates `SourceLoader` as `L`: a batch is
one `AddProxies` call, `EnterFn` is that call's `Begin`, and the call's return
decides between `FnOk` and `FnErr`; the caller's context is the loader's parent.
The adding goroutine (`apc`) and the collecting loop (`tpc`) are the rest. `Orderly`
is `FALSE` here: when the input is closed follows from `TestSpeed`'s own code, not
from a promise about it. Meanwhile the caller may cancel, and other goroutines may
call `Stop` (or `Close`, which begins with it) and `CloseInput`: `OtherStop`,
`OtherClose`, remembered in `meddled`. `Meddling` says which of the three happen. The
loader's steps are possible once `AddProxyURLs` has started it (`started`).

**`Lifecycle`** is about the fields of `Test` that every run replaces. A run is a
number, and a field holds the number of the run that set it, so that stale and
fresh ones differ: `RunStream` step by step, the end of the dispatcher,
`closeOnce` split into lock, done and unlock, `Stop`, `Close`, `stopProgress` and
the progress goroutine. Nodes and workers are left to `Stream`. `Waits` says what the
caller waits for before it starts a run: for the result channels of the runs before
(`"results"`), for its calls of `CloseInput`, `Stop` and `Close` (`"calls"`), and, before
every call, for `RunStream` (`"setup"`). Without `"results"` a `RunStream` that the code
accepts in `stateInputClosed` (`speedtest.go:346`) meets a dispatcher that still drains.

**`ResultCache`** is `DefaultCache`.

**`ProxyTest`** is `TestProxy` and `proxyTest.Test`, as one record per worker: the
probes of the delay and of each test URL (`Launch` to `RetryFail`, with the one
compensating probe), the latency samples (`SampleOk`, `SampleFail`, `SamplesCut`)
and the figures made of them (`Metrics`, over the samples in the `Order` of a
`Sorted` copy) with the loop's `turn`, then the jobs side by side. A delay is
milliseconds modulo 2^16, as `uint16` keeps it; `Samples` is at most 65537, for the mean is the quotient of
a `uint32` sum (`utils.go:398`) that more samples of 65535 ms would overflow. A
check is the sequence of its requests (`Requests`); whether an answer lets it go
on, and the country it tells, are choices. `TimeOut` ends `probeCtx` or the whole
context at any point.
**`NodeTest`** puts `testspeed` around it and the cache beside it.

**`Bandwidth`** is `testBandwidth` and `copyLimitedN` for several tests at once
behind one limiter. Time is in the unit in which the limit allows one unit of data;
`Reserve` takes the tokens at once and waits for them, `Refund` is what `Cancel` of
`golang.org/x/time/rate` gives back, `Tick` refills. The limiter's external
definitions follow how the code uses it.

**`Reports`** is what outlives a `TestSpeed` call. Each node has a `fate`: the name filter
drops it, it cannot be parsed, its type is not tested, or it is tested - and even then
its test may panic (`Measured` is a partial function). A call is one step that
yields what it measured (`TestSpeed`), or what got to the workers before a cancel
(`TestSpeedCancelled`, with an error or without); `Stream` makes the counters of it,
which a cancelled call leaves incomplete. The accessors are two steps,
because they may have to test first. A configuration map is its content and the
`_check` it may have got (`Mark`): `Key` hashes both.

The theorems are in `StreamProofs`, `SourceLoaderProofs`, `TestSpeedProofs`,
`LifecycleProofs`, `NodeTestProofs` (for `ProxyTest` too), `BandwidthProofs` and
`ReportsProofs`; `SumLemmas` has what they need about sums, counts and greatest
elements of finite sets.

Definitions whose comment begins with "Slip" are not part of the models: each is
a plausible mistake in the action that follows it, kept to show that some
property notices.

## Runs

| run | instance | shows |
|---|---|---|
| `stream` | a batch of 2 and a single node, queue 1, 1 worker, 2 add goroutines, separate contexts, orderly | the engine's accounts, delivery and finality, and `ImplementsResultStream` |
| `stream_live` | a batch of 2, shared context, any caller | `StreamEnds`, `CallsReturn`: unless the process panics, the stream and each call end; `ProgressLineSound`: never more processed than announced |
| `loader` | 3 sources (2, 1 and 0 batches), one remote with 1 retry, 2 workers | loader safety, `LoaderEnds` |
| `ts_mixed` | 1 source or none, 1 inline node or none, a cancel, a `Stop` and a `CloseInput` by other goroutines | completeness, quiet return, the causes of errors, return; `UsesStream`: it is the orderly caller of the proofs, unless the loading of a `ConfigPath` is cancelled or another goroutine stops or closes |
| `lifecycle` | 2 runs without, or 1 with progress output, `Stop`, `Close`, `CloseInput`, cancels; a caller that waits for its calls | a second run, also beside a draining dispatcher, keeps off old channels, closes its input once and ends; so does the progress goroutine |
| `node_test` | 2 workers, one key, 2 probes, 1 sample | results mean what they say |
| `proxy_test` | 1 test: 1 probe and 3 samples of 0, 2 or 65537 ms, 1 URL, 2 checks and an unknown one, 2 countries | `LatencySound`, `NothingGivenUp` |
| `bandwidth` | 2 and 1 downloads, sizes 1 and 3, burst 2, 5 ticks | `RateKept` (until a second wait is cut off), `ResultTrue` |
| `reports` | 2 nodes of any fate, 3 delays, 2 calls | `ReportsAgree`, `KeptUnlessListed` |
| `ts_cancel` | as `ts_mixed` with `NoPanic` | counterexample, see Findings |
| `lifecycle_stop`, `cache_close` | 1 run; 1 cache | counterexamples, see Findings |

The bounds are named constants. A queue of one and one worker slot make every
limit bind with three nodes: the third finds the queue full and the slot taken,
so the blocking send, the wait for the slot and the drop on cancel all happen.
The two nodes of a batch race as add goroutines against each other and the
single call against both. Two workers are enough for a loader in which all
conflicts are pairwise (one mutex, one first error); a two-batch source lets an
error fall between batches. Two runs show every interference of a run with its
successor; with progress output they have too many states (17 million and not
done after five minutes), so that there a second run does not follow: a progress
goroutine that picks up the next run's ticker is not seen.
In `node_test` two workers with one key show the cache races; probe counts
enter only as "all of them", so 2 stands for 3. The jobs and samples do not meet
other tests, so `proxy_test` needs one worker; three samples separate the
percentiles, 0 and 65537 ms are the two ends of the 16 bits, and the checks have
one and two requests and an unknown name (disney's three differ from them in
length only). In `bandwidth` the size 1 makes the chunk of two downloads 0, the
size 3 takes a third download past the burst and thereby to a second reservation;
three downloads let a refund meet an earlier and a later reservation; the clock's
bound lets all tokens be used. In `reports` two calls are a call and its
successor, and two nodes can have different fates. The symmetries swap the two nodes
of one call (`stream`), two workers
with one key (`node_test`) and two downloads of one test (`bandwidth`), in runs
whose properties do not tell them apart and without liveness.

`CHECK_DEADLOCK` is on in all runs: a state in which everything has
returned, or the process has crashed, stutters explicitly (`Idle`, `Finished`).

## Fairness

Weak fairness stands for the scheduler: a goroutine that can go on does. Beyond
that:

* `Worker`: every test ends - `TestProxy` puts a timeout on each (`utils.go:624`).
* `Load`: a request ends, it carries a timeout too (`requests.go:60`).
* `Consume`, `NoCallInProgress /\ CloseInput`: the reader reads and, once no add call is
  in progress, the input is closed at last;
  `TestSpeed` does both, a caller of `RunStream` must.
* `ClientClose` in `Lifecycle`, for the same reason; `SF(Leave)`: a `select` chooses
  uniformly among ready cases, so it does not ignore a cancelled context for ever. That
  nodes keep coming (`TakeNode`) is not assumed.
* `SF(EnterFn)`, `SF(Aborted)`, `SF(ReturnDone)`, `SF(CallbackBegin)`: Go's mutex
  hands itself to a waiter after 1 ms (starvation mode).
* `CallbackEnd`, `FnOk \/ FnErr`: the callback returns.

No fairness is put on cancels, the calls of `Stop`, ticks or failures. `ProxyTest`, `Bandwidth` and
`Reports` are checked for safety only. No theorem uses fairness.

## What is proved

`StreamProofs.tla` proves of `Stream`, for any finite set of nodes, any calls, any
queue, worker and goroutine bound:

* for every caller: `TypeCorrect`, `CountsBounded`, `ProgressLineIsSound`,
  `AllResultsDelivered`, `ClosedStaysFinal`;
* for an orderly caller (`ASSUME Orderly`): `OrderlyNoPanic`, `EndCounts`,
  `TotalStaysFixed`, `StreamImplementsResultStream`.

The assumption is needed: without it `Begin` before and `Send` after a
`CloseInput` panic. The constants' assumptions are `ConfigAssumption` (a finite
set of nodes, each in one call, `AddProxy` calls have one) and
`BoundAssumption`.

The argument. None of the properties is inductive. Five named parts, at the end
of `Stream.tla`, are:

* `NodeInv` ties a node's stage to its call: a node in an add goroutine belongs
  to a call that has not returned - this is the `wg.Wait()` of `AddProxies`;
* `VerdictInv` ties verdict, stage and result, and says that a result may be
  missing only once `streamCtx` is done;
* `LoopInv`: the dispatcher holds at most one node, leaves its loop uncancelled
  only when the channel is closed and drained, and has outlived its workers
  when it leaves `WaitWorkers`;
* `HandoverInv` (orderly only): once closing has begun no call is in progress and
  none can be admitted, so no node can be sent;
* `CountInv`: each of the four counters is the cardinality of a set of nodes.
  The bounds and the final equality then are facts about those sets.

Each has a lemma `...Step` with one case per action. The refinement proof maps
each action to a step of `ResultStream` or a stutter: `MoveStep` for one node
moving, `StutterStep` for none, and `NothingPending` for the close.

`SourceLoaderProofs.tla` proves of `SourceLoader`, for any sources, batches, retries
and workers (`LoaderAssumption`; at least one worker), and whatever fails:
`TypeCorrect`, `FnStaysSerial`, `NilIsComplete`, `ErrorIsReported`, `FnIsOverAtReturn`. The
invariant behind them, checked with TLC before it was proved, has six parts:

* `MutexInv`: a worker between the call of `fn` and the offer of its error holds
  `callbackMu`, and `fn` runs only as long as `callbackErr` is not set;
* `ErrInv`: `callbackErr` stands for exactly one batch, whose error is in `errCh` or
  about to be;
* `ExitInv`: why the derived context is done - before the return only by the
  caller's cancel or a failed `fn`, which is what `ErrorIsReported` rests on - and
  why a worker has gone;
* `TakenInv`: a source that was handed out is some worker's, unless that one gave up;
* `BatchInv`: what a worker has left is a suffix of its source, and everything before
  it went through `fn`;
* `ReturnInv`: what each return value stands for, and that it remains true while
  goroutines outlive the call.

`TestSpeedProofs.tla` proves of `TestSpeed`, for any sources, batches, nodes, workers and
bounds (`TestSpeedAssumption`), first that it is a caller of both parts:
`TestSpeedUsesEngine` (every step is one of `Stream` or leaves it alone) and
`TestSpeedUsesLoader`, so that what is proved of either for any caller holds here.
Then `EngineUsedOrderly`, `PanicsHaveCauses`, `ErrorsHaveCauses`,
`QuietReturn` and `ResultsComplete`, with an invariant relative to those of the two
parts:

* `EngineInv`: why the contexts are done and who closed the input - the adding
  goroutine, or another that `meddled`;
* `CallInv`: an add call in progress is in a callback or is the one of
  `options.Proxies`; one that was cut short met a cancelled context, one that was
  refused that or a meddler; a batch that went through `fn` was added;
* `AddInv`: what each value of `addDone` stands for;
* `ReturnInv`: the collecting loop ends with everything read, and returns what
  `addDone` told;
* `OrderInv`: `HandoverInv` of `Stream`, unless a loading was cancelled or another
  goroutine meddled.

The step that matters is the close. When the adding goroutine is at `CloseInput`
and the loading was not cancelled, the loader has returned on a closed `errCh`, so
that all its workers have exited and no callback runs; the call of
`options.Proxies` has returned; hence no call is in progress and the close is
orderly. A cancelled loading breaks the first link - this is finding 1 - and a `Stop`
or `CloseInput` of another goroutine the last; `EngineUsedOrderly` says that nothing
else does. `QuietReturn` holds for a stopped `TestSpeed` as well. It leaves the adding
goroutine its deferred `CloseInput`: `addDone` is sent before that runs, so `TestSpeed`
may return while `closeOnce.Do` is under way (see Observations).

`LifecycleProofs.tla`: for any caller, `Typed` and `StopFinal`; for a `Careful` one, whose
calls have returned before the next run (`Waits` has `"calls"` and `"setup"`, not
necessarily `"results"`), `InputOwned` and `ClosedOnce`, for any number of runs and any
number of dispatchers still draining. `CarefulInv` is, beside the properties: `AloneInv`
(nothing closes or stops while `RunStream` sets up), `OwnInv` (`proxiesCh` never goes
back to an earlier run), `OnceInv` (`closeOnce` is a mutex, and who is to close finds it
not done) and `ClosedInv` (the present channel is closed only if `closeOnce` tells or is
about to). For a caller who does not wait so, both are false, see Observations.

`NodeTestProofs.tla`: of `ProxyTest`, for any number of probes, samples and checks,
`LatencyAlwaysSound` and `NeverGivenUp`; of `NodeTest`, for any workers and keys,
`Typed`, `AliveReached`, `DeadTried`, `QuietAfterTest` and `EverySampleCounted`. The
invariant is `TestOk` for each test's record - `ProbeInv` (launched probes run, failed
or told a delay), `StageInv` (the probes of a stage are idle before and done after),
`SamplesInv` with `StatsOk` (the figures are ordered and are of the samples) and
`JobInv` - and `ResultInv`: a result, cached or returned, is what the finished test of
the worker that made it ended with. The latter is why no interleaving of lookups,
stores and deletes can serve another node's result.

`BandwidthProofs.tla`: `Typed`, `LimitKept`, `ResultsTrue` for any tests, downloads and
sizes. `LimitInv` looks ahead: at every time to come no more may be used by then
(`DueBy`) than the limit allows by then, and received, reserved and left tokens
together (`Claimed`) never exceed the clock; both survive one refund because before
the first cut the latest reservation is the last to become usable. `TokensInv` bounds
the debt by what waits and unrefunded cuts are missing, and `ResultAt` keeps a
test's total equal to a sum over the downloads it has tallied.

`ReportsProofs.tla`: `KeptUntilListed` and `ReportsBelongTogether` over any sequence of
calls and any nodes. `CacheInv` says that a cached result is found under the
key its node has now, unless the node was listed since; `ListsInv` of which calls
the lists are, `CountsInv` that after a whole call the alive count is that of the lists
and the invalid count adds what is malformed or untestable. Nodes that the filter drops
or whose test panics are processed, but neither alive nor invalid, so that alive and
invalid nodes need not add up to the total.

`SumLemmas.tla`. The folds of the community modules are recursive, and the library's
induction theorems take a predicate, which the provers cannot instantiate. So
induction over a finite set is stated here about a set of good subsets
(`MinimalSubset`, `SetInduction`, from strict inclusion being well-founded), and
from it follow what a sum is, how it changes with one summand, its bounds,
and that a finite set of numbers has a greatest element and an order.

What the provers do not reach: liveness (`StreamEnds`, `CallsReturn`, `LoaderEnds`,
`TestSpeedReturns`, `RunsEnd`, `ProgressEnds`) stays with TLC, as do the three
counterexamples. Every other property of the passing runs has a theorem.

## Findings

1. `ts_cancel`: a cancelled `TestSpeed` with a `ConfigPath` can panic with "send on
   closed channel". On `ctx.Done()` `LoadManyStreamBatched` returns
   (`source_loader.go:133`) when no callback runs, for it takes `callbackMu` (134); but a
   worker that is past its `ctx.Err()` check (217, 231) enters the callback afterwards. By then the
   deferred `CloseInput` may close `proxiesCh`, and the callback's `AddProxies` sends.
   `TestNoPanicOnCtxCancelDuringAddProxies` wants this excluded, over `options.Proxies`.
   The theorem `PanicsHaveCauses` says when it is: without a `ConfigPath` a cancel alone
   never leads to the panic. A `Stop` or `CloseInput` that another goroutine calls
   during the adds does, with `options.Proxies` alone and no cancel: that is the missing
   check behind `ensureCanAdd` (hazard at `speedtest.go:204`), which no document denies.
2. `lifecycle_stop`: `stopProgress`, which is to stop the progress output safely, sets
   `logTicker` to nil before it closes `stopChan` (`speedtest.go:756`), while the
   progress goroutine may be about to select on it; and it closes `stopChan` in a step
   after its check (`speedtest.go:763`), so that `Close` and the ending dispatcher may
   both close it, although the test for a double stop passes in one goroutine.
3. `cache_close`: `Close` of a cache clears `cleanupTicker` under its goroutine
   (`cache.go:162`).

Observations no document speaks about, so no run judges them:

* a cancel before the first add makes `TestSpeed` return the refusal of
  `ensureCanAdd` instead of `context.Canceled`;
* a `Stop` by another goroutine makes `TestSpeed` return 测速已停止 with its context still
  live, or, once all nodes were added, the results so far without an error;
* two `TestSpeed` calls in a row can break each other: the first returns while its
  `CloseInput` may be inside `closeOnce.Do`, which the second's `RunStream` overwrites
  (`speedtest.go:355`). With `Waits = {"results", "setup"}` TLC finds for two runs of
  `Lifecycle` that `Do` then unlocks an unlocked mutex, which kills the process
  (`InputClosedOnce`), and that it marks the renewed `closeOnce` done, so that the second
  input is never closed and its reader hangs (`RunsEnd`);
* `RunStream` refuses a test at work with 测速正在进行中，请等待完成, but accepts it once the
  input is closed although the old dispatcher still drains (`speedtest.go:346`). Two
  dispatchers then serve side by side; the old one reads `t.proxiesCh` anew, may take
  the new run's nodes, and at its end clears `testing` and sets `stateInputClosed` under
  the new run, whose adds are refused. Run `lifecycle` has this caller: no old channel is
  served, the inputs are closed once each, and both runs end;
* `Stop` or `CloseInput` called while `RunStream` is still setting up act on the
  fields of the run before;
* `LogNum` loads the total before the processed count (466, 469), unlike
  `checkAndLogProgress`: called during a run it may show more processed than announced, as
  may a progress line between the resets of a restart (373-376);
* `AliveProxies` and `Proxies` put `_check` into the configuration maps
  (`speedtest.go:677`), which changes the nodes' cache keys ("节点的唯一标识",
  `models/speedtest.go:33`) and appears in a later `WriteToYaml`;
  `KeptUnlessListed` says that nothing else makes a cached node be measured again;
* after a cancelled or failed call the counters of `LogNum` are of that call, the
  lists of the one before; and a call cancelled after its adds returns the results
  it has without an error;
* a result that `Set` stores between a `Get`'s expiry check and its delete is lost
  (`cache.go:86`): the node is measured once more;
* a delay of a multiple of 65536 ms, or below 1 ms, counts as dead (`utils.go:287`);
* a download size below the number of downloads reads nothing (`utils.go:118`);
* the rate promised per `Test` (`models/speedtest.go:51`) can be exceeded once two
  waits were cut off, because a later reservation can move the limiter's last event
  backwards. Two tests with two downloads each (q and r, s and u), chunks of 5, a
  burst of 4: r and s reserve and read 4 each by time 8. At 8 q reserves 4 (usable at
  12) and r 1 (at 13). The context of q and r ends: q is refunded 3, s then reserves 1
  (at 11), which becomes the last event; r is now refunded 1 - (11 - 13) = 3 although
  it reserved 1, and u reserves 4 (at 12). At time 12 13 units were received. It
  takes about thirty steps, beyond a breadth-first search; `RateKept` therefore
  speaks of the time before a second wait is cut off (`CutOnce`), and the attempt to
  prove it without that bound is what showed the trace. (That a refund leaves out what
  later reservations took, `RateKept` cannot tell from a refund in full: with one wait
  cut off both keep the rate.)

## Not modelled, and why

* What the services' answers say: a check's answer is usable or not, or a country.
  The client's construction, redirects and decoding in `requests/`.
* The rates and times divided out of bytes (`utils.go:171-197`), a malformed
  `LivenessAddr`, `copyLimitedN` without an end.
* What a source's text contains, YAML and subscription formats, the name filter's
  regular expressions: data; a node may be filtered or malformed at will. Nor is
  `ForceCertVerify`, which rewrites a field of the map before it is parsed.
* `gpt_web` listed twice in the check types: `utils.go:597-602` then takes the first of
  its answers for the country, even an empty one; here the check types are a set.
* Add calls with a context of their own in liveness: `stream_live` shares one, as
  `TestSpeed` does. A blocked add whose context is never cancelled may wait for ever.
* In `Reports` one caller comes after the other; what a `Stop` does to a running
  `TestSpeed` is in `TestSpeed`.
* The order of nodes in a channel: no property is about it.
* Cache `nil` and failing caches of other types: `NodeTest` has a `DefaultCache`,
  whose `Set` does not fail; without one, a test is the same minus `Lookup`.
* Data races on plain fields are modelled as sequentially consistent reads and
  writes.
* File formats, log layout, `sortResult` (which nothing calls), options, CLI,
  server: no state that interleaves.

## Plan

Done: `ResultStream`, `Stream`, `SourceLoader`, `TestSpeed`, `Lifecycle`, `ResultCache`,
`ProxyTest`, `NodeTest`, `Bandwidth`, `Reports`, and theorems for every safety property
of their runs.

Next, in this order:

1. An abstract specification of the loader (every source loaded, skipped or
   abandoned; batches handed out one at a time; one outcome) that `SourceLoader`
   implements, in `SourceLoaderProofs`.
2. That `TestSpeed` implements `ResultStream` as long as no loading was cancelled:
   `StreamImplementsResultStream` asks for an orderly caller throughout, while
   `EngineUsedOrderly` holds step by step.
