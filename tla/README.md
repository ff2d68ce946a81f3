# A TLA+ model of the prediction-market arbitrage agent

The repository is a Python program that records the order books of Polymarket
and Kalshi, looks for pairs of contracts that cost less than the dollar they
pay, and fills them on paper within a capital budget, under ten kill-switch
rules. A live executor, a backtester and a pipeline that matches markets of the
two platforms are there too, not yet driven by the orchestrator. This
directory models it: one TLA+ module per component, TLC runs on small instances,
and TLAPS proofs, for every value of the constants, of all the safety properties that
the passing runs check of them.

Line numbers below are those of the files in the repository; `main.py` and the
other Python files are under `src/`, `PROJECT.json` maps every definition of a
module to the lines it stands for.

## The system

One asyncio process runs `main.run`: an endless loop of *cycles*, each of which
fetches both platforms, notes heartbeats, buffers the snapshot, detects
opportunities, filters them, sets gauges, sometimes probes USDC, sometimes
reconciles, evaluates the rules, reads the switch table, allocates capital and
fills unless halted, resolves what is due, persists and flushes, and sleeps to
the next poll. State that survives is in SQLite (autocommit: every statement is
its own transaction), Parquet files, `event_map.yaml` and logs. Beside it run the
operator's scripts, an editor, and the exchanges.

| component | state | operations | hard because | must hold |
|---|---|---|---|---|
| kill switches: `risk/policy.py`, `risk/rules.py`, `storage/state_db.py` 413-494, `scripts/kill_switch_reset.py` | tables `kill_switch_state`, `kill_switch_events`; cooldowns in memory | evaluate, enforce (two statements), observe, read halted, reset (two statements) | reset runs beside the loop; kills between statements; cooldowns lost at restart | nothing is filled under a tripped switch; only the operator clears one; a persistent condition halts again |
| paper trading: `layer4_execution/paper.py`, `layer3_strategy/allocation.py`, `risk/reconcile.py` | tables `opportunities`, `paper_trades` | allocate under three caps, fill (two inserts), resolve | budget spans cycles and restarts; fills fail one by one | locked capital within the total; ledger reconciles; due positions resolve |
| sizing: `intra_market.py`, `cross_market.py`, `allocation.py`, `models.py` | none (pure) | walk a book, gate, binary searches | gaps between passing sizes, gas, ticks | largest profitable size; cost is what the levels cost |
| settlement: `resolution.py`, `paper.py` 118-226 | `paper_trades` | book due positions unasked; probe both exchanges, book profit | awaits over a stale list; exchanges close before they decide; probes raise | what a pass books is what was decided; what is booked stays |
| live execution: `live.py`, `partial_fill.py`, `exchange.py`, `polymarket_live.py`, `kalshi_live.py` | orders in flight, positions at the exchange | send both legs, rebalance | lost answers, partial fills, kills, fresh order ids | what is reported is held; what lost answers cost is bounded; it ends |
| rate limiter: `rate_limit.py` | tokens, last refill | acquire, observe | sleepers compete | burst and rate are respected |
| snapshot log: `parquet_writer.py`, `replay_stream.py` | buffer, files per day | write_many, flush, rollover, close, replay | back-pressure, midnight, refused files, kills | nothing accepted is lost, repeated or out of order |
| monitoring: `metrics.py`, `probes.py`, `rules.py` | heartbeats, mids, windows, gauges | observe, probe, count | empty answers, sparse probes, restarts | silence, depeg, jumps and failure bursts are seen in time |
| backtest: `backtest/runner.py`, `fill_model.py` | liquidity consumed in a tick | recompute a fill | several opportunities on one book | no contract sold twice, no flattering price |
| event map: `matching/event_map.py`, `review_queue.py`, `scripts/review.py` | `event_map.yaml`, review log, loaded map | decide, append, edit, load | unlocked read-truncate-write beside an editor | only the operator enables; what nobody wrote by hand was approved in the log |
| fetchers: `polymarket_fetcher.py`, `kalshi_fetcher.py` | none | list, fetch books, parse | partial answers, concurrency | modelled by what a fetch may answer |
| adverse selection: `adverse_selection.py` | first sightings, in memory | observe, forget, filter by age, news, market age | what stays and what returns share one memory | a standing opportunity is rejected, a fresh one is not |
| graduation: `risk/gates.py`, `risk/tiers.py` | a GateState in memory, the row `gate_state` | record a fill, set the coverage, advance, persist, load | a failed or lost write makes the two differ | a gate is left for what was done at it; never lower than the operator's |
| rule extraction: `matching/extractor.py`, `extraction_cache.py` | cache in memory and in a Parquet file per platform | look up, ask the model, put, garbage-collect | texts edited meanwhile, unlocked rewrites, kills | a hit is what this text gave |
| matcher: `matching/matcher.py`, `schema.py` | none (pure) | compare two criteria | every field that decides an outcome has to be compared, windows of dates and open cases included | a match has an event in both windows and resolves alike on it |
| feature flags: `expansion/feature_flags.py` | two files a flag | disable, enable, clear, ask | every file-system call interleaves with every other | on only if granted and not killed |
| alerts: `alerts/telegram.py` | table `telegram_alert_log`, or a deque | send, force, suppress | restarts, refused rows, forced alerts | at most the limit in any hour |
| uncertainty, resolution convergence, HTTP server, reports, tax, configuration, offline scripts | | | | not modelled, see below |

Interactions: the fetchers feed the snapshot log, the detectors and the gauges;
gauges feed the rules; the rules write the switch table that gates fills; the
allocator reads the ledger the fills write; resolution gives capital back to it;
the loaded event map selects the cross-market pairs; the live executor stacks the
imbalance policy, the safety gate, the limiter and the exchange clients.

## The modules

Every module names the program's functions in its actions; a *Mutant* definition
is the same code with one plausible mistake, and shows that a property of the run
notices it. Variables marked *history* are read by properties only.

**KillSwitch** has the two tables, the engine's memory, the reset script as a
process of its own, and the world that raises and clears conditions.
`BeginEvaluation`, then per rule `PassRule`, `ObserveTrip` or `EnforceRecord` and
`EnforceTrip` (the two statements), `Decide` (the one read of the table), `Fill`,
`EndCycle`. The script has `ResetRead`, `ResetState`, `ResetEvents`, and may die
between them. A rule's condition changes while the orchestrator is scanning
(gauges are set before the evaluation), the kill file's at any time. Cooldowns are
counted in poll intervals.

**PaperTrading** is the same cycle seen from the ledger: `Scan` offers at most one
opportunity a market and reads the reserved capital, `Allocate`/`GiveUp` go over
the offers, `WriteOpportunity` and `WriteTrade` are the two inserts, `FillFails` a
swallowed exception, `Resolve` the due positions, `ScanNothing` a halted or empty
cycle. The amount an opportunity is cut down to is any positive one under the
trade's cap; Sizing says which one the code finds.

**CapitalBudget** is the abstract specification PaperTrading implements: a
position locks an amount once, gives it back whole, and all of them never exceed
the total. Its only variable is mapped to `Locked`, the open positions' capital.
**CapitalUnits** turns sums into cardinalities, for the proofs; the ledger's cap
per event and the alerts of an hour are counted by it too.

**OrderBook**, **Sizing**, **Backtest**. OrderBook walks the ask side level by level. Sizes
count parts of a contract (`Part` to one), because the platforms quote fractional sizes; the
searches go over whole contracts (`Truncated` is `int`). Sizing is the control flow of
`compute_opportunity`, `_detect_one_direction` and `allocate_capital`, one action per tried
size; money is in integer units, the fee a fraction of `Scale`. Cross-market pairs quote
Kalshi's leg rounded to ticks, half to even as `quantize` does; they are recorded and never
allocated. Backtest takes opportunities of one tick one after the other off the same book.

**Settlement** has the exchanges' markets (open, closed without a decision,
decided), the due positions, and both settlement paths: `Cycle` books intra-market
positions without asking; `Begin`, `Visit`, `AskFirst`, `AskSecond`, `Settle` walk
a list read once. A probe that fails answers "unresolved"; one whose body is not an
object raises out of the pass (`ProbeRaises`: `data.get` is outside the try), which
leaves the positions behind it. A closed, undecided Polymarket market may show the
prices of a winner, a closed Kalshi market without a result is void. Nothing under
`src/` starts a probing pass (`run` calls the synchronous path only); the model may
start one at any time, one at a time, or never.

**LiveExecution** has one call per leg (`gate`, `bucket`, `http`, `answered`), the requests
on their way, and what the exchange holds. A request is matched for any part of its size,
before or after the client gave up. `Retry`, `Resolved` and `Fail` are the imbalance policy.
A leg may raise before its request is sent or on an answer it cannot parse. No allocation is
stored: what `Execute` takes up after a `Crash` was detected anew, and its order ids hash
the new detection (live.py:42), so no id is sent twice, and what an exchange makes of a
repeated id plays no part. How a request is written is payload: Kalshi's count is truncated
(kalshi_live.py:188), which is one of the partial fills, and Polymarket's client names one
token for either leg (polymarket_live.py:135).

**Clock** is the time the next five read; it passes between any two of their
steps. They share nothing else, and `MCClocks` puts them side by side: a behaviour
is about one of them, chosen at the start.

**TokenBucket** counts tokens in units, so that a rate need not divide a token;
the block under the asyncio lock has no await and is one step.

**AlertLimiter** counts alerts by the time they were sent at, in the table when the
alerter has a connection and in its deque otherwise. `SendLimited` checks and
records in one step, since no await lies between; the table may refuse the row.
`SendForced` is counted and not limited. `AlertRestart` empties the deque alone.

**AdverseSelection** has what the cycle detected and when (`DetectOne`), the
memory of first sightings, and `ApplyFilters` over all of it at a later time.
The tags, news and listing times are those a caller could pass; `run` passes no
news and no listing times, of which the model's initial states are some.

**Graduation** has the state in memory and its row. A change (`RecordFill`,
`SetCoverage`, `Advance`) and its `Persist` are two steps; `Persist` may raise, and
then the change stays in memory, to be written with the next one. `OperatorGives`
is the manual restart of gates.py:17, on the row, external. Histories say what
really happened at each gate, whichever state survived.

**FeatureFlags** has one flag, whose default is off as every registered one's is,
and its two files. `disable` is one call; `enable` is up to four (look, unlink,
empty, write), `is_enabled` up to four (two looks, read, stat); `clear_all` removes
the files one by one; any `enable` may be killed.

**SnapshotLog** identifies a row by its fetch and position; `WriteMany` (kept in
the buffer), `WriteManyFlush`, `WriteManyRefused` (the new day's file cannot be
created), `Flush`, `Stop`, `Kill`, `Midnight`. A kill leaves the open file without its
footer, and replay skips it (replay_stream.py:72): it counts as empty.

**Monitoring** has the gauges and the rules over them. A cycle is `Fetch`, then
`Probe`, `ProbeFails` or `NoProbe`, the evaluation, `EndCycle` with the fills
that failed. What a fetch answers is any subset of the markets, each with or
without a mid price.

**EventMap** has the file as a sequence of entries, which starts with the pairs the
repository ships (`Shipped`, written by hand, disabled), reviewers in `process_decision`
(`Approve`, `Read`, `Truncate`, `Write`, `Die`), the command that only logs, the
operator's editor (external: `EditorChange` completes, enables or disables an entry,
`EditorAdd` writes one by hand, as review.py:78 asks, under an id the copy does not have) and the orchestrator's load at the start.
`write_text` is two steps, since opening the file empties it. A conditional approval
differs from an approval in a note; a rejection or a skip is logged and changes
nothing any step reads, so neither is an action.

**Extraction** has the market's text, which the platform edits at any time, the
cache's file as a sequence of rows, each worker's memory, and where each worker is.
`Extract` hashes the text and asks; `AnswerFails` (with retries), `PayloadFails`
or `Answer`, which puts: memory first, then read, `Open` (empties the file),
`WriteRows`. `Gc` rewrites the file with its newest rows and reads it anew. Nothing
under `src/` calls the cache yet: that a worker looks up before it extracts and
puts after is what its docstring (extraction_cache.py:1) says. The text is what the key
hashes, the rules: the title (extractor.py:111, :199) and the hint of an event type are inputs of
the extraction too and in no key, so an edited title still hits; both are held fixed.

**Matcher** is `compare` over records of what it reads: `Differences` is a set, of
which the verdict and the confidence are counts. What it is worth is stated against
`Resolves`, how a market of some criteria resolves on an event of some date when the
metric takes a value and an edge case happens or none. Two platforms date an event
within the tolerance of each other (`DatedAs`). `Alike` compares the two markets on an
event that both or neither have in their windows, in every case but those that both
leave open: "ambiguous" and "undefined" are no outcome. `Meet` says that there is an
event in both windows.

## The runs

| run | instance | shows |
|---|---|---|
| `kill_switch` | three rules (kill file and daily loss enforced, price jump observed), cooldown of two intervals, one crash | no fill while tripped; only the script clears; a trip has its event; an enforced condition that is missed was reset in the cooldown; a persistent one halts again and again |
| `paper_trading` | three markets on two events, total 3, caps 2, two cycles, one crash | implements CapitalBudget; reconciles clean; per-event cap per cycle; what is due is resolved |
| `live_execution` | three contracts, tolerance one, two retries, two executions | reported fills are held, and outcomes are true when every answer arrived (`OutcomeIsTrue`); no leg beyond the allocation then; with answers lost, both legs together at most the first orders and every retry in full (`ExposureIsBounded`); an execution ends |
| `clocks` | limiter: two tasks, 7/3 tokens of burst, 2/3 refilled a unit; alerts: two an hour of two units, with or without a table; filters: two opportunities, threshold 1, forgotten after 3; gates: a day and one or two fills each, a coverage for the second; flags: two operators, hours 1, 2 or none | the limiter's and the alerts' windows are respected; a standing opportunity is rejected until it is forgotten, a fresh one never for its age; a gate is left for what was done at it; a flag is on only if granted and not killed |
| `snapshot_log` | two rows a fetch, buffer of three, three days, four fetches, two ends of the process | accepted rows are kept; what is in a file is not in the buffer as well, and replay is in order |
| `append_only` | one row a fetch, two days, one restart | **violation**: a restart on the same day truncates the day's file, against parquet_writer.py:1 |
| `books` | sizing: every pair of books of up to two levels, sizes 2 to 7, of one, two and a half or four contracts each, three caps, one and two platforms; backtest: the same with fewer levels, three fill models, two opportunities | what is detected is worth its levels; both searches end within a contract of the largest size, across platforms but for the last whole one; no contract is bought twice, no trade charged under its cost |
| `kalshi_tick` | the same | **violation**: ticks are rounded half to even, against "rounds asks UP" (cross_market.py:85) |
| `monitoring` | two platforms with a market each, two mids, five intervals, a probe every three loops | a silence, a burst of failures, and a depeg or a price jump (`TroubleIsSeen`) are seen |
| `settlement` | a position of each strategy sharing two markets, one crash | a pass books what the markets were decided for, unless one was closed undecided (`ProbedPnlIsTrue`); what is booked stays booked, but for a profit booked unasked that a pass finds to be a loss (`SettledOnce`) |
| `matching` | matcher: every pair of criteria of which each differs from a common one in a field or its window; extraction: two versions of a text, two workers on one model, one retry, three rows; review: a shipped pair and a candidate, two reviewers, the editor | a match has an event in both windows and, with equal thresholds, resolves alike on it, in either order; a hit is what its text gave, and a row stays until a gc drops it unless writers overlapped; only the operator enables, what nobody wrote by hand has its approval in the log, without overlap edits stand |
| `thresholds` | the same | **violation**: two markets with different thresholds match, against matcher.py:3 and schema.py:51 |

`clocks`, `books` and `matching` each hold components that share no state but a
clock or a book: a variable `part` says which one a behaviour is about, and the
others keep their first state. So one run asks each question of all of them, and
none multiplies the states of another.

### Bounds

Each bound is a named constant in a guard. *Crashes*: one kill at any point of a cycle
already meets every intermediate state, and a second one meets the same tables; SnapshotLog
has two, since a file is opened again twice. *Cycles*: two, because the ledger carries over
one number, the locked capital. *Kill-switch cooldown*: two intervals, so it may end in the
middle of an operator's reset or outlast it. *Size* 3 with tolerance 1 makes an imbalance of
two or three, filled in parts by two retries. *Window* and *MaxSilence*: two intervals, with
cycles of one or two, so each limit is met exactly and overshot. *Levels*: two per book, so
a size crosses a level; sizes up to 7 give binary searches of three steps, and two parts to
a contract a book that ends within one. *Pairs*: two, a shipped one and a candidate that
lacks its edge cases. *Clock*: up to five, per part (`Horizon` in `MCClocks`): longer than
the part's longest window, so that a window opens, fills and ends. *Fills* at a gate: two,
the most a gate asks for, and the history stops counting there. *Alerts*: two a unit of time
in the table, with a limit of two, so that forced ones alone can exhaust it. *Rows* of the
cache: three, over two keys, so that a key has an older row that a gc drops. Symmetry is
used for the reviewers and the workers, in runs without liveness. Runs that say
`CHECK_DEADLOCK FALSE` are those whose bounded work ends: no cycle, fetch, execution or
opportunity is left.

### Fairness

`kill_switch` and `paper_trading` assume weak fairness of the orchestrator as a whole: the
service manager restarts the process, and every await of the loop has a timeout (the aiohttp
sessions, `wait_for` on the sleep). Nothing else is fair: not the operator, the world, the
crash, nor the fill. `live_execution` assumes it of the executor: requests have timeouts;
the exchange need not answer, and `TimeoutNever` shows what the property owes to the
timeout. No other run assumes fairness. That due positions of other strategies than
intra-market are ever settled is not claimed: it would need somebody who starts probing
passes, and there is nobody.

## The proofs

`KillSwitchProofs` holds for any rules, modes, cooldown and number of crashes. The
properties are not inductive. The inductive invariant adds four facts: what the one
read of the table is worth until the cycle ends (`ReadIsSafe`: in "trade" and not
halted, nothing is tripped, because only the orchestrator itself trips and it
reads after its evaluation); that an enforcement in mid-write has its event already
(`EventFirst`); that a running cooldown of an enforced rule means its switch is
tripped or was cleared by a reset (`CoolingIsTrippedOrCleared`); and that every rule already
visited whose condition still holds is cooling (`VisitedRulesCool`). From it follow
`TypeCorrect`, `TripsAreRecorded`, `NoFillWhenTripped`, `MissesFollowResets`, and
`ClearedByOperator` as an action property.

`PaperTradingProofs` holds for any markets, events, caps, offers, cycles and crashes. The
inductive invariant counts what is *claimed*: locked already, or allocated by this cycle and
not yet written. Claims fit the total, and during an allocation claims and `remaining` make
up the total exactly (`ClaimsFit`); a market is planned at most once and only while this
cycle has not filled it (`FreshPlan`). Sums are cardinalities of sets of units (`HeldAdd`,
`HeldLess`: adding to one holder adds as many, holding less is less), which spares an
induction over a sum. From it follow `TypeCorrect`, `CapitalWithinTotal`,
`LedgerReconciles`, and `LedgerImplementsBudget`: each initial state and each step of
PaperTrading is one of CapitalBudget, or leaves it unchanged.

`CapitalWithinTotal` states `BudgetRespected`, which no run repeats: it follows from
`ImplementsBudget`, which `paper_trading` checks.

The cap per event (`EventsAreCapped`) has an invariant of its own: while a cycle
allocates, what it has planned or filled on an event is within what
`committed_per_event` counts of it; afterwards plans only become trades of the same
amount or nothing; and a new cycle starts from nothing, because no row bears its number
yet.

`LiveExecutionProofs` holds for any size, tolerance, retries and executions. The properties
speak of what was reported and of what the exchange holds; between them are the requests on
their way. So the invariant says that a request of the running execution is either an
earlier attempt's or the very one its leg waits for (`NetIsCurrent`: an answer is never
counted for another order), that a leg is told at most what it asked for and never asks
beyond the size (`WithinOrder`), that a corrective order asks for exactly what the short leg
misses (`Correction`), and that the exchange holds at least what was reported
(`HeldByExchange`). From it follow `TypeCorrect`, `OutcomesAreTrue` and
`CorrectionsStayWithin`.

`FetchProofs` has what a fetch leaves behind. *The log*, for any width of a fetch, buffer,
days and stops: both properties rest on one fact, that the log only moves forward
(`Forward`): what is buffered is later than all that was written, and nothing was written
for a day after the one being written. So rows go behind those of every earlier file, and
the file that a rollover empties has nothing of this process (`Emptied`). From it follow
`TypeCorrect`, `NothingAcceptedIsLost` and `FilesAreInOrder`. *The gauges*, for any
platforms, markets, limits, probe intervals and restarts: each compares now with a
remembered past, and the invariants say that the memory is of that past. A heartbeat is the
platform's latest listing (`HeartbeatIsListing`); the latest mid known is that of the last
fetch if it had one (`LatestKnown`), and the gauge is the largest of finitely many changes
(`LargestJump`, from `HasLargest`); a depeg older than the last due probe was seen by it
(`PegInv`, where a loop makes that probe one loop older or due: `ProbeAges`); of all
failures since the start, those the rolling window lacks came first and are older than it is
wide (`WindowInv`; trimming drops just the oldest, `SinceIs`, so what it drops once never
counts again). `SilenceIsSeen`, `NoTroubleSlipsThrough`, `FailuresAreCounted`,
`GaugesAreTyped`.

`BooksProofs` has what is computed from two order books. *The searches*, for any books,
limits, caps, gates, fees, gas and ticks. What a book
holds and costs is computed level by level, so its facts need induction. The library's
induction theorems take an operator as a parameter and cannot be instantiated; over a
*set* of natural numbers the step works (`Induction`, from the well-foundedness of `<`
and a least counterexample), and with it the existence of what is computed step by step
(`Recursion`). `WalkIs` then says that walking a book costs what its contracts cost one
by one, and `PriceRises` that they only get dearer. So the profit of a further contract,
and its surplus over the gate, only fall (`NetFalls`), and sizes that pass are an
interval (`Concave`, `NoneLargerPasses`), those under the cap as well. The invariant
(`SearchInv`) is that a search has the boundary of that interval between its ends, which
are whole contracts (`Between`), and what is known once one has ended (`DetectedRight`,
`AllocatedRight`). `int` takes off less than a contract (`TruncatedIs`), so a size the
book has only part of is within one of the last whole size below it; and two whole sizes
more than a contract apart have one strictly between them (`MiddleIs`).
`DetectedPays`, `SearchesAreExact`, `TypeCorrect`. *The backtest*, for any books, fill
models, slippage and opportunities of a tick: a book from which contracts are consumed
is the recorded book from a later contract on (`Rest`, `RestIs`), and without its best
level from one later still (`TailIsRest`). So under each fill model a leg pays at least
what some run of recorded contracts costs that begins no earlier than what is charged
already (`FillIsLeg`). A trade's size may be smaller than a leg, and what it is counted for
lies earlier in the book; as prices only rise, the leg's average is no lower
(`LaterCostsMore`, `CostAround`, `AverageRises`), and the two legs add up (`LegsAdd`).
The invariant (`FillInv`) is that each trade was `Fair` given those before it, and that no
more was bought than is charged to the market, which is what lets the next trade be.
`FillsNeverFlatter`, `FillsAreTyped`.

`SettlementProofs` holds for any positions, strategies, markets and crashes. A pass
books by answers that it keeps over awaits. The invariant says what an answer in memory
still means (`AnswerHolds`: a decision is the market's, unless it came out of limbo),
and the argument is that the world only moves on (`Onward`: decisions stand, limbo is
not forgotten), so neither an answer nor a booked figure turns false later. The list of
a pass goes stale only by the cycle's own settlements (`QueueIsOpen`), so what it books
over is a profit booked unasked. `ProbedProfitsAreTrue` follows, and
`PositionsAreSettledOnce` as an action property.

`ClocksProofs` has the five components that read the clock, each with an invariant and
theorems about its own specification.
- *Rate limiter*, for any rate, burst, cost, sleeps and number of tasks: the window of
  `RateRespected` alone says nothing of the tokens still in the bucket, which the next
  step may grant; the invariant (`Funded`) adds them: what the window was granted, and
  what the bucket holds now, refill included, fit in the burst and the window's refill.
  The refill is linear in time as long as it stays under the burst (`RefilledOnce`:
  refilling now changes nothing of what the bucket would hold). `WindowsAreWithinRate`,
  `BucketTypes`.
- *Alerts*, for any limit, window and restarts: what the limiter looks at still has
  every alert it let through, or the table refused it (`SentIsCounted`), and none is
  ahead of time (`NoneAhead`). So the hour up to a new alert, and every later hour it
  falls in, had room for it. `HoursAreLimited`, `AlertTypes`.
- *Age filter*, for any opportunities, threshold and memory: of an accepted detection
  either the first sighting it was judged by is remembered, or it was forgotten and
  whatever comes is most of `MaxAge` later (`AcceptedIsKnown`); what is remembered was
  sighted by this process (`SeenIsSighted`). `AgesAreJudged`, `FilterTypes`.
- *Gates*, for any thresholds, coverages, fills, restarts and failed writes: the state
  may come from the row, and the row from an earlier state, so both are held to the same
  two facts: their counters are `Backed` by what really happened at their gate, and
  their gate was `Reached` from the operator's. A gate's history starts anew only when
  it is entered from below, and then the row is behind it, so nothing the row relies on
  is forgotten. `GatesAreEarned`, `GateTypes`.
- *Feature flags*, for any operators, hours and length of the day: nothing on the disk,
  and nothing an `enable` is about to write, counts for longer than somebody is entitled
  to (`FileIsEntitled`, `TextIsEntitled`); a killed flag has its disable file and nobody
  who would remove it (`KilledStays`); a check that goes on was asked of a flag that was
  not killed (`CheckGoesOn`). `OnByRight`, `FlagTypes`.

`MatchingProofs` has the three steps by which a pair comes to be traded.
- *Event map*, for any candidates and reviewers: the file is written from copies read
  long before, so what holds of the file is required of every copy (`CopiesAreSound`),
  and a reviewer adds a pair only to a copy without it (`NewIsNew`). What the operator
  saved is in the file, or, while one reviewer alone has emptied it, in that one's copy
  (`SavedStands`); of two the first to write fills the file, so the second writes over
  what it has not read, and that is what the second half of `OperatorDecides` excepts. A
  pair of a copy that nobody wrote by hand was approved before it was appended, whatever
  the file started with. `PairsAreApproved`,
  `PairsAreEnabledByHand`, `MapTypes`.
- *Cache*, for any texts, models, workers and retries: the rows a worker carries are as
  honest as those in the file (the type `Honest`), and unless somebody interfered one
  worker at most has the file cut, and has read all that was kept (`KeptIsRead`).
  `HitsAreCurrent`, `CacheTypes`.
- *Matcher*, for any criteria, vocabularies, tolerances and classes of sources: the
  invariant is only that a verdict is what `Compare` says; the theorems rest on lemmas
  about the operators: differences are finitely many (`DifferencesFinite`), so none is
  counted only if there is none; windows that overlap within the tolerance have an event
  that both platforms may date into theirs (`OverlapMeets`); no field and no case of the
  vocabulary differs but in words that are no outcome, so the two resolve alike on such
  an event (`MatchResolves`); and every part of the comparison is symmetric
  (`CompareSymmetric`). `MatchesAgree`, `VerdictTypes`.

The assumptions are the named ASSUMEs of the modules (types of the constants, caps natural
numbers); TLC evaluates them in the runs. Levels have positive sizes, because the fetchers
drop the others (kalshi_fetcher.py:55, polymarket_fetcher.py:42). Those of Matcher say that
criteria name finitely many edge cases and vocabularies are finite, as a parsed answer and a
constant of the program are, and that `NoCase`, which stands for no edge case happening, is
the name of none.

Only model-checked:
- liveness (`ConditionHalts`, `DueIsResolved`, `ExecutionEnds`): fairness and ENABLED
  are beyond the prover;
- `ExposureIsBounded`: what the exchange holds and what is still on its way is a sum over
  a set of requests, which needs an induction over data;
- `TypesOK` of `MCBooks`, `MCClocks` and `MCMatching`: the conjunctions of the type
  invariants of the components an instance puts side by side, each of which is a theorem
  of its component;
- that the window of failures and the consumed book are what the code's loops compute:
  `Since` and `Consume` state the result of a loop in closed form, as a loop written with
  the library's folds or `SelectSeq`, recursive definitions, is opaque to the provers.

## What the code does that its documents do not say

Three disagreements are runs of their own (`append_only`, `kalshi_tick`,
`thresholds`). Others came up while
modelling and are listed as hazards or here:

- `kill_switch_enforce` is two autocommitted statements (state_db.py:445); killed
  between them, an enforcement is on record and nothing is halted after the restart, if
  the condition has subsided (state_db.py:444: "Halts trading").
- A rule's cooldown also follows a reset (policy.py:127): a new kill file may be
  ignored for 300 s (runbook.md:14: "auto-detected next cycle").
- The per-event cap counts one call's allocations (allocation.py:59): earlier
  cycles' positions on the event are not counted.
- A corrective order that timed out is retried under a new id (partial_fill.py:113):
  if it was matched after all, the leg is bought twice (live.py:6: "Retries are safe").
  The ids of the first orders are "deterministic" only as long as the allocation is in
  memory: they hash the opportunity, the time it was detected at and the size
  (live.py:42), no allocation is stored, and after a restart the same opportunity is
  detected anew under other ids. `ExposureIsBounded` says what this can cost.
- The cycle books the expected profit of a due intra-market position without asking
  (main.py:439, paper.py:118), also when its market is void, for which resolution.py:144
  and test_resolution.py:51 have the loss of the capital; paper.py:122 calls the profit
  "correct", docs/HANDOFF.md:117 "optimistic".
- Nothing under `src/` calls `resolve_due_positions_with_probes`, which paper.py:125 prefers
  "in production": cross-market and convergence positions stay open for ever. If it ran, a
  body that is a list or null would raise at `data.get` (resolution.py:67, outside the try;
  likewise a "market" that is no object at :121), out of the whole pass, skipping the
  positions behind it.
- A closed Polymarket market with lopsided prices answers with a winner before it is
  decided (resolution.py:89), so a profit or a loss may be booked too early.
- `compare` matches windows of dates that merely overlap (matcher.py:47): a date inside one
  window and outside the other makes the two resolve apart, against matcher.py:3. Windows
  are not checked to be in order. Two sides that both leave a case "ambiguous" or
  "undefined" agree on it, though that says nothing of how either resolves; the stub
  extractor fills in "undefined" everywhere.
- docs/HANDOFF.md:120 says that `event_map.yaml` "is NOT shipped". It is, with five pairs
  that no review log approved.
- `_detect_one_direction` is to "find largest size where threshold holds"
  (cross_market.py:164). Its search never comes back to its upper end: when the books end
  within a contract, the fractional maximum is tried and the last whole size below it never is.
- A killed recorder leaves its open file without a footer, and replay skips the file
  (replay_stream.py:72): the rows flushed that day are lost with the kill, though nothing says so.
- A Kalshi market that is closed and undecided is booked void (resolution.py:123),
  though resolution.py:102 calls a missing result "still open".
- The api_disconnect rule never trips for a platform not heard since the start (rules.py:50).
- The rule event_map_drift compares the hash read at the start with itself, though
  main.py:128 says the current one is kept up to date: it cannot trip.
- The age filter "reject[s] opportunities visible longer than threshold_seconds"
  (adverse_selection.py:97), but forgets one 600 s after its first sighting, and
  accepts it anew.
- `compare` announces "all common keys" (matcher.py:120) and compares the required ones:
  different answers to another case both sides have are no difference, and an unknown
  event type has none that are compared.
- The cache's gc keeps "only the N newest entries per key" (extraction_cache.py:145): it
  keeps N rows of all keys, and all of them when N is 0.
- A date that cannot be parsed becomes now, and nothing is marked "low confidence"
  (extractor.py:129). The stub's pairs are never "review-queue candidates"
  (extractor.py:175): 0.5 is below the matcher's 0.6.
- A disable file touched between `enable`'s look and its unlink is removed
  (feature_flags.py:139; line 74 says it "always wins"). A flag enabled for an hour counts
  for a day when its file is read, or the command killed, before the expiry is in it.
- A gate's row edited beside a running orchestrator is overwritten by its next change.
  A coverage that fails to be written is lost at a restart, and an older, better one counts again.
- CRITICAL alerts of kill switches (telegram.py:7) are sent by nothing: the one caller of
  `send` is the startup recovery (main.py:241).
- uncertainty.py:153 takes a low fill rate for the worst case: of a losing trade it is the
  better one.

## Not modelled, and why

- *Fetchers*: JSON parsing and HTTP. Their effect is in Monitoring, SnapshotLog and OrderBook.
- *Uncertainty, backtest metrics, tax, reports, capital tiers, prefilter, resolution
  convergence*: pure arithmetic or text scoring, without state, over data the properties
  do not tell apart; most of it has no caller in `run`.
- *Configuration, provenance, health server, redaction, prompts, scripts*: parsing, hashing,
  printing.
- *Execution records, calibration rows*: tables that no program path writes yet;
  Graduation takes the coverage computed from them as an input.
- *Live stream and storage backend*: a thin iterator and an interface, without callers.
- *The safety gate against the switch table*: LiveExecution has the steps between the
  check and the request (`Pass`, `Post`), during which a switch may trip unseen
  (exchange.py:197); no caller composes the two yet.

## Plan

Built, in this order, the guards of the money first: KillSwitch; CapitalBudget
and PaperTrading with their proofs; LiveExecution; TokenBucket; SnapshotLog; OrderBook and Sizing;
Monitoring; Backtest; Settlement; EventMap; AdverseSelection, Graduation,
FeatureFlags and AlertLimiter beside TokenBucket; Extraction and Matcher; then the
proofs about the clocks, the executor, the snapshot log and the gauges, settlement, matching,
the cap per event, the searches of Sizing, the fills of Backtest and the window of failures.

Next, more of the system: KillSwitch and PaperTrading composed over one cycle, so that
the budget and the halting read meet in one state; the safety gate of LiveExecution over
the same switch table, once the orchestrator drives it.
