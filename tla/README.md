# Verification of utility-backend

TLA+ models, TLC runs and TLAPS proofs about the Rust service in `src/`: the
part of it that keeps state shared between requests, tasks and threads. Line
numbers refer to the files under `src/src/`.

Contents: [inventory](#inventory), [modules](#modules-and-how-they-follow-the-code),
[runs](#runs), [disagreements found](#disagreements-found),
[fairness](#fairness), [proofs](#proofs), [limits](#what-is-not-shown),
[plan](#plan).

## Inventory

The service is one process: an axum HTTP server on a multi-threaded tokio
runtime. Nothing is persisted; state lives in process-wide statics or in
values owned by callers, and is guarded by tokio mutexes and read-write locks
(held across awaits), std mutexes (never held across one), or atomics. A
request's future may be dropped at any await when its client goes away.

| component | state | operations | what is hard | what makes it correct |
|---|---|---|---|---|
| drift pool, `time_series/drift.rs` | map of calibrations, bounded channel, counters, the reconciliation task's copy | `apply_drift_correction`, `recalibrate_meter`, `get_metrics`, worker loop, six-hourly reconciliation | two tasks write one map under separate locks; callers vanish; the runtime ends | calls are linearizable; nobody is answered with a fallback while the service lives; drift ages once per round; every call returns |
| nonce sequencer, `soroban/sequencer.rs` | atomic counter, last committed nonce under a mutex | `next_nonce`, `commit_nonce` | overlapping commits, retries, commits out of order | no nonce accepted twice; a refusal has a cause and is final |
| transaction controller, `soroban/tx_state.rs` | list of transactions under a mutex | `begin`, `commit`, `rollback` | opposite decisions overlap; ids reused | behaves as a table of decisions |
| advisory lock, `gateway/lock.rs` | concurrent map from resource to mutex | `lock(resource, f)` | racing creation of the mutex; cancelled owner or waiter | exclusion, no lost update, no lost hand-over, no starvation |
| meter registry, `gateway/crypto.rs`, `api/handlers.rs` | map of identities, bloom filter of revoked ids | register, rotate key, revoke, verify packet | HTTP requests arrive late, twice or not at all; filter collisions | replaced keys stay dead, meters are not stranded, revocation is final |
| token bucket, `api/middleware.rs` | one atomic counter | `try_consume` | compare-and-exchange race | tokens conserved, loop atomic and finite |
| preflight, `soroban/preflight.rs` | global LRU cache | `run_preflight`, `clear_cache` | cache read before and written after RPC awaits | only final results cached; leeway lands in its window |
| budget optimizer, `preflight.rs:173-199` | none | bisection | an untested upper bound, unsigned bounds that must not cross, iterations that run out | the result passed its test when any tested budget did, and is the least one when the iterations suffice |
| diagnostic engine, `time_series/analytics.rs` | readings and weather coefficients per meter, under one global mutex | `ingest_reading`, `fit_weather_model`, `analyze`, `get_diagnostics` | out-of-order and non-finite readings; a model that outlives them; a panic under the mutex | old readings go; a spoiled diagnosis and a refused one have their cause in a bad reading that can be named |
| stream, `gateway/stream.rs` | bounded channel | push, ingest | full buffer, several connections, consumer gone | no event lost or out of order while the consumer lives |
| syncer, `soroban/sync.rs` | cursor | `sync_events` | cursor is inclusive and shared by contracts; calls fail | no event of one contract served alone is missed; of several, only what another one overtook |
| circuit breaker, `soroban/rpc.rs` | failure counter and flag nothing ever sets | `call_rpc` | none: it has one reachable state | - |
| tariffs, `tariffs/` | none | pure evaluation and conversion | - | not modelled: a first-match scan, to be checked against itself |
| parser, mTLS, telemetry, metrics, tenant pools, router | none, or written once | decoding, configuration, logging | - | not modelled |

Interaction in this version of the code is thin: the HTTP handlers call the
drift pool (`calibrate_meter`) and the registry (`register_meter`,
`rotate_key`) and the diagnostic engine (`get_diagnostics`); the lock, the
sequencer, the transaction controller, preflight, the bucket, the syncer and
the stream are libraries that their callers share. The models are therefore one per component, each with the concurrent callers it has to stand,
and not a composition: no two of the modelled components touch each other's
state.

## Modules and how they follow the code

An action is what a task does between two awaits (or, for the atomics, between
two atomic operations). "History" variables exist only for the properties.
Each `X` has an `MCX` that instantiates it for TLC. Operators with the comment
"Mutant of" are wrong versions of the definition that follows them: each
property is known to fail when one of them takes its place.

- **DriftPool**. One `pc` per call: `sending` (at `command_tx.send().await`),
  `waiting` (at `rx.await`). The worker's `workerPc` follows `worker_loop` and
  the two locks of `compute_correction` (`handle` reads, `insert` writes,
  `count` increments and answers). `StartRound` copies the map, `ApplyDrift`
  writes one aged value back from the copy. `DropPool` and `Shutdown` end the
  pool. A calibration is its drift; the corrected value a caller gets is
  represented by the drift it was computed with. **DriftService** is the same
  service without channel, worker or lock: each call takes effect at one
  instant. The refinement mapping is at the end of DriftPool.
- **NonceSequencer**. `Issue`, and `Resubmit` for a caller that tries again;
  `Lock`, then `Refuse` or `Pass` and `Store`, as separate steps that only the
  mutex protects.
- **TxState**, with the abstract **TxTable**. The list is only reachable
  through the mutex guard and no step awaits under it, so each operation is
  one step after the wait.
- **AdvisoryLock**. `Lookup` is the atomic `entry().or_insert_with()`; the
  mutex is tokio's, modelled with its queue and its direct hand-over. The
  future under the lock reads a balance, awaits, and writes it back.
- **MeterRegistry**. Each registry method is one step under the global std
  mutex. Requests are never removed from `requests`, so they arrive late, in
  any order, and again. The meters are the environment: see the module's
  header for what is assumed of them (fresh keys, one rotation at a time, both
  keys kept until an answer arrives). The bloom filter is a set of bits with an
  arbitrary function from ids to bits.
- **TokenBucket**, with the abstract **Bucket**. `Load`, `Refuse`, `Exchange`,
  `Retry`.
- **Preflight**. `Hit` or `Miss` (up to the first await), then a `Round` per
  RPC answer and `LastRound` which stores and returns. Results keep
  instructions and fee. `ceil` of a floating-point product is a choice between
  the exact value and one more where the product is whole and the factor is
  not exact in binary. `ClearCache`, failures and dropped callers are actions.
- **BudgetOptimizer**. One pass of the loop per step, over an arbitrary set
  of sufficient budgets, which need not be upward closed. `GiveUp` is the end
  of the `for` range. `low`, `high` and `best` are the code's.
- **DiagnosticEngine**. The engine's methods never await and run under a std
  mutex, so each is one step; `Panic` is the step in which one of the two sorts
  panics, which poisons the mutex for all meters, and `Refuse` is the handler's
  500 from then on. Of a floating-point value the model keeps finite, inf, -inf
  or NaN and carries that through the code's sums and quotients (`SumOf`,
  `Trend`, `DetrendedIsNaN`, ...); which finite numbers come out, and how
  comparisons of them fall, is left open, so `Diagnose` may give any cause that
  the non-finite values do not exclude (`CausesOf`).
- **LedgerSync**. `Sync` and `SyncFails` are the two ends of `sync_events`,
  which holds the syncer exclusively. `Response` is the node: oldest events
  first, a page of them.
- **IngestStream**. One `task` per connection, reading or waiting in
  `send().await`; the channel; a consumer that takes events or is dropped.
- **MCSequential** extends BudgetOptimizer and instantiates DiagnosticEngine,
  LedgerSync and IngestStream for one run. They share no state and are not
  composed: `part`, chosen at the start, says which one a behaviour is about.
  It names the assumptions on the constants of the three; the month of each
  time is one of the constants, and any function will do for the proofs.

## Runs

| run | bounds | distinct states | question |
|---|---|---|---|
| `drift_safety` | 3 calls, 2 meters, 1 slot, 2 rounds, step 2, cap 3; symmetric | 249 298 | is the pool a linearizable service, and what can reconciliation spoil? |
| `drift_live` | 3 calls, 1 meter, 1 slot, 1 round | 197 588 | does every call come back? |
| `nonce` | 4 calls, 4 nonces | 59 673 | is double spending excluded, and what does a refusal mean? |
| `tx` | 4 calls, 2 ids | 359 490 | is the list a table? |
| `lock` | 4 calls, 2 resources | 79 240 | exclusion, updates, hand-over, starvation |
| `registry` | 3 meters, 3 keys each, 3 bits | 27 000 | what can late and lost messages do to keys and revocations? |
| `bucket` | 4 calls of 1, 2 or 5 tokens, 4 tokens | 23 792 | is the loop atomic, and finite? |
| `preflight` | 3 calls, 2 operations, 3 rounds, 1 entry | 203 898 | what is in the cache, and where does the leeway end? |
| `sequential` | see below; symmetric | 479 198 | the optimizer's result, the engine's windows and refusals, the syncer's cursor, the stream's order |
| `drift_cycle`, `drift_recalibration`, `nonce_refusal` | see below | - | disagreements |

Why the bounds are enough for the cases of interest. Three calls on a channel
of one slot give one in service, one queued and one blocked; two rounds let a
stale copy be written in the second; the cap of 3 is reached by two steps of 2.
Four commits or lock calls give two racing pairs, or an owner with two waiters
one of which is cancelled. Three meters with bits {1,2}, {2,3}, {1,3} make each
meter collide with the other two together, and with none alone; three keys are
two rotations, so that a request of the first arrives after the second. A count
of 5 on 4 tokens is always refused; 1 and 2 race. The preflight results are one
whose first leeway is far too high (31 instructions) and one where it is too
low (15 000 001, under the minimal fraction), both with odd parts that rounding
acts on; one cache entry for two operations makes eviction happen.

In `sequential`, the optimizer gets every estimate up to 4, every set of
sufficient budgets up to twice the estimate and 0 to 4 iterations: ranges that
are empty, that one budget fills, and that the iterations do not exhaust. The
engine gets two meters and four readings in all, at three times of which two
fall into one month, each finite or NaN with weather or infinite without
(`MCKinds`). Its constants are the code's scaled down so that four readings
reach what takes dozens there: a history of 1 unit for 30 days, a fit from 2
weather readings for 5, a moving average over at most 3 readings for 7, and a
threshold sort that may panic above 0 values for above 20; so a window can hold
a bad reading behind the threshold's slice, or lose its weather readings after
a fit. The syncer gets two contracts, three ledgers with up to two events of
each, and pages of 2: pages that end inside a ledger and ledgers that fill one.
The stream gets two connections with two datagrams each and a buffer of one:
both may wait for the place.

Bounds in guards, all named constants: `MaxRounds` (reconciliation rounds),
`NonceLimit` (nonces issued, far under the wrap at 2^64), `KeyLimit` (keys a
meter makes), `MaxClock` and `MaxReadings` (time and readings of the engine),
`MaxLedgers` and `MaxEvents`, `MaxDatagrams`. Deadlock is not checked: calls are finite in number, and a run in
which all are done really stops.

What the runs show, beyond types:

- *drift.* `FallbackOnlyWhenDown`: an uncorrected answer, a 500 or zero metrics
  mean the runtime is gone. `OneRawReadingPerMeter`: the gap between lookup and
  insertion is harmless because there is one worker, not because of the locks.
  `MetricsCoverAnsweredReadings`, and `ServiceSpec`, the refinement: a caller
  can pretend the pool is atomic, cancelled calls included. `DriftIsAgedOncePerRound` isolates the one exception, see below.
- *nonce.* `AcceptedInOrder`, `RefusedOnlyIfOvertaken`, `RefusalIsFinal`.
- *tx.* `TableSpec`: the table keeps the operation and the id of each call, so
  what a caller is told Ok for was done to the id it named, with the status its
  operation stands for; opposite decisions can both be answered Ok, and the last
  one stands; a dropped call did nothing. `OnlyOldestIsDecided` says what reuse
  of an id leads to.
- *lock.* `NoLostDeduction` is what the test in `gateway_tests.rs` means by
  "prevents concurrent deductions", for every interleaving and cancellation.
- *registry.* `RetiredKeysAreDead` under replay, `MeterNotStranded` under lost
  answers, `CrlMatchesStatus` (no false negatives, and the exact reason for a
  false positive), `RevocationIsFinal`, which also covers meters refused by a
  collision.
- *bucket.* `NothingGrantedTwice`, and `BucketSpec`: no call is refused while
  there are tokens for it.
- *preflight.* `CacheHoldsFinalResults`: a partial, failed or cancelled run
  leaves nothing behind. `LastRoundHasLeeway` needs the three default rounds
  and a simulation that answers alike in all of them (`steady`); the search
  starts with one million, as in the code.
- *optimizer.* `ResultIsLeast`: a result that no test supports can only be
  twice the estimate, which may not have been tested or may even have failed.
  With enough iterations, and if more budget never hurts, the result is the
  least sufficient budget of the range.
- *engine.* `OldReadingsOnlyOutOfOrder`: "readings older than
  `history_window_days` are pruned" (`analytics.rs:160`) holds of readings that
  come in the order of their times, apart from the one just pushed; a late one
  stays while a newer one is in front of it. `RefusalNeedsBadReading`: one
  infinite reading beside another of its month, in one meter, ends the
  diagnoses of all meters with 500 until the process restarts; a NaN alone does
  not, because the trend around it is NaN and 1.0 is taken in place of the
  quotient. `UnsoundOnlyByBadReading`: the effect of a bad reading ends with
  its presence in the window, except through the weather model, which is kept
  as it was when there are too few weather readings to fit it again.
- *syncer.* `OneContractMissesNothing`: the inclusive cursor delivers events
  again but skips none, failed calls included, as long as the syncer serves one
  contract; it stops for good at a ledger that fills a whole page.
  `OnlyOthersOvertake`, for several contracts: a second one starts at the cursor
  of the first, and that is the only way in which an event is left behind.
- *stream.* `NoGapWhileConsumed`: a full buffer delays and never drops; events
  are lost only when the consumer is gone, although the message then says
  "backpressure buffer full" (`stream.rs:35`).

## Disagreements found

- `drift_recalibration`: reconciliation copies the calibrations, then writes
  aged values back one by one under separate locks. A recalibration that falls
  between is overwritten with the old drift plus 5 (`drift.rs:299-308`).
- `drift_cycle`: the comment at `drift.rs:305` promises ±500 ppb per 30-day
  cycle; 120 rounds of 5 ppb give 600, and the cap is 500 000.
- `nonce_refusal`: "nonce already committed: possible double-spend"
  (`sequencer.rs:33`) is said of nonces that were never committed: the very
  first one, 0, and every nonce overtaken by a later commit.

Without a run of its own: "backpressure buffer full: dropping event"
(`stream.rs:35`) is said only when the consumer is gone (`PushFails`); a push
that meets a full buffer waits for a place (`Push`), and `NoGapWhileConsumed`
would fail if it dropped its event.

## Fairness

Only progress the runtime owes: a woken task is polled. So weak fairness on the
worker, on the write-backs of a round that has begun, and on each call's own
continuation (`FairSpec` of DriftPool, AdvisoryLock and TokenBucket). Callers are not obliged to call, the
timer is not obliged to fire, nobody is obliged to cancel. tokio's mutexes are
fair queues; AdvisoryLock models the queue and needs weak fairness only, the
other modules leave the order of admission open and use the finiteness of the
calls. The lock's `EveryCallEnters` assumes that the future under the lock
terminates. The sequencer and the transaction controller are checked without
fairness: no step of theirs waits under the mutex, so that their calls are
answered follows from tokio admitting the waiters. Preflight is
checked without fairness too: its HTTP client has no timeout
(`preflight.rs:98-106`), so a silent RPC keeps a call for ever, and that a run
ends cannot be claimed of the code.

## Proofs

The theorems hold for every value of the constants under the named `ASSUME`s,
which say that null values differ from the others, that bounds are naturals
(capacities and pages not zero), that readings are of the four kinds a float
has, and that the set of lock calls is finite. Each `XProofs` module proves
`Init => IInv`, `IInv /\ [Next]_vars => IInv'` (one lemma or step per action)
and `IInv => property`. `SequentialProofs` does this for the four parts of
`MCSequential` one after the other and carries the results over to `MCSpec`,
which for each part is the part's own specification (`EnginePart`,
`SyncerPart`, `StreamPart`, `OptimizerPart`).

Every safety and action property of the passing runs, and each of the three
refinements (`ServiceSpec`, `TableSpec`, `BucketSpec`), is also a theorem.

| module | theorems | why the invariant alone is not inductive |
|---|---|---|
| DriftPoolProofs | types; `DriftIsAgedOncePerRound`; `FallbackOnlyWhenDown`; `OneRawReadingPerMeter`; `MetricsCoverAnsweredReadings`; `DriftPool` implements `DriftService` | the worker must be known to hold a started call; the copy must equal the history drift for every meter still to be written; an unanswered waiting call must be in the channel or with the worker while the pool is up, and no call may be in flight once its handle is dropped; a call is in the channel at most once, and not when the worker has it; a meter that was answered raw is in the map and one the worker is about to insert is not; the counter is never less than the number of readings answered |
| NonceSequencerProofs | types; `AcceptedInOrder`; `RefusedOnlyIfOvertaken`; `RefusalIsFinal` | the mutex holder is the only call between compare and store; `lastCommitted` is the last and largest accepted nonce and bounds all refused ones |
| TxStateProofs | types; `NotFoundIsTrue`; `OnlyOldestIsDecided`; `TxState` implements `TxTable` | every known id has a first entry; begun ids are known and stay so; a call has its operation from its making on, so that each step is the same call's step in the table |
| AdvisoryLockProofs | types; `MutualExclusion`; `NoLostDeduction`; `NoLostHandOver` | one mutex per resource once looked up; owners and queues agree with `pc`, queues hold each call once; what the owner has read is still the balance |
| MeterRegistryProofs | types; `RetiredKeysAreDead`; `MeterNotStranded`; `CrlMatchesStatus`; `RevocationIsFinal` | rotations on the wire go from a key to the next one; the registry is at most one key ahead of the meter; retired keys are smaller than the current one |
| TokenBucketProofs | types (no subtraction wraps); `NothingGrantedTwice`; `TokenBucket` implements `Bucket` | a call about to exchange has loaded enough tokens; the tokens granted so far are those above the counter, each call's an interval that ends where it found the counter |
| PreflightProofs | types (the cache within its capacity, no key twice); `CacheHoldsFinalResults`; `LastRoundHasLeeway` | an entry's call has ended in its last round and moves no more, so what the entry was made from stays; with a steady answer the leeway is above its lower fraction after one round and below its upper one after two, so a third one uses a leeway between them |
| SequentialProofs, optimizer | types (the bounds never cross); `ResultIsLeast` | everything below `low` is known to fail when more budget never hurts; `best` is `high` while the loop runs; the width times two to the number of tests never exceeds the first width, so enough iterations end the loop by itself |
| SequentialProofs, engine | types; `OldReadingsOnlyOutOfOrder`; `UnsoundOnlyByBadReading`; `RefusalNeedsBadReading` | the window of a meter whose readings came in order is sorted by time, so that the readings in front of the first one kept are all the old ones; once the mutex is poisoned no window changes, and the one that poisoned it is bad; a trend over finite readings is finite, and a threshold over more than `SortLimit` residuals leaves `MaxSpan` readings out |
| SequentialProofs, syncer | types; `OneContractMissesNothing`; `OnlyOthersOvertake` | what was delivered is not after the cursor, and what was not is behind it only if another contract overtook it; a response that leaves an event out holds none of a later ledger; so if it holds only what was delivered, that is all in the ledger at the cursor, and fills the page |
| SequentialProofs, stream | types; `NoGapWhileConsumed` | an event that is being pushed came with a datagram; the property is inductive given that, because taking an event from the buffer leaves the concatenation as it was and dropping the buffer leaves a front part of it |

`AllTypesOK` of `MCSequential` is the theorem `AllTypesCorrect`.

Two constructions recur in the modules so that they can be reasoned about:
`NothingGrantedTwice` speaks of disjoint intervals of tokens, and
`NoGapWhileConsumed` of numbers at positions, where a sum over a set of calls
and a filtered sequence would need induction over data.

## What is not shown

Only model-checked: the liveness properties (`EveryCallReturns` of the pool and
of the bucket, `EveryCallEnters` of the lock);
fairness and ENABLED are out of the prover's reach here. What the violated runs
state is refuted by TLC, and nothing is proved about it.

Not modelled: floating-point values (corrections, statistics, prices),
cryptography (a signature verifies under the key that made it and no other;
ids hash to fixed bits), 64-bit wrap-around of the nonce counter and of the
preflight margin, memory ordering beyond the single atomic word of the bucket
(one word has one modification order under any ordering), a future that locks
the resource it already holds, unbounded growth of the transaction list and of
the lock's map, restarts (nothing is persisted; a restart is the initial
state), overflow of sums of finite readings and of weather covariates, the age
of the readings a diagnosis rests on. Tariffs, conversions and the envelope
parser are pure functions of a few lines whose model would be the same lines;
the circuit breaker has one reachable state. Components without a module are in the inventory with the reason in
`PROJECT.json`.

## Plan

Done: every component with state of its own has a module and a run, and every
safety property of a passing run is proved. What is left:

1. For the liveness properties, the safety facts their arguments rest on, as
   theorems: a bucket's loop that lost an exchange found the counter lower than
   before; a call waiting in the pool is in front of finitely many others.
2. For the disagreements, what does hold instead: between two reconciliation
   rounds a recalibration sticks; a cycle of n rounds drifts by at most n steps.
