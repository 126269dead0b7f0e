# Formal models of oingg-analysis-ts

The program computes financial metrics of Taiwanese companies from databases that other
services export (mops, twse, tpex, gov, sitca) and stores each value with the date on which
it could be known. Upstream services announce what has changed; a job translates the
announced rows into work, recomputes it and writes the results. These modules model what
keeps state and can go wrong in time: the announcement queue and its job, the translation of
rows into work, the worker pools with their shared memo, the value store, the caches of
promises and the ranking of the market. They also model what is computed: every metric as a
function of the filings, dates and prices it reads, while these are filed late, corrected and
announced. Paths are relative to the repository root.

## Inventory

| component | state | operations | interacts with |
|---|---|---|---|
| Upstream change queue (`src/http/modules/upstream`, `src/application/upstream`, `upstreamChangeQueue.ts`) | table of notices (source, id, status); one lease row | enqueue, listPendingRanges, complete, fail, acquireLease, releaseLease | upstreams (HTTP), Cloud Run jobs (trigger), processor |
| Processor job (`scripts/processUpstreamChangesPit.ts`) | the listed ranges, the range under way | main, drainQueue, processSource | queue, translation, pools |
| Recompute targets (`src/domain/upstream/recomputeTargets.ts`) | maps under construction, newest date of each table | toRecomputeTargets | export.row_changes |
| Range processing (`quarterlyRefresh.ts`, `memoizedStatements.ts`, pools in the job) | pools of workers, memo of promises | refreshFromQuarters, runPool, memo get and clear | statements of mops, store |
| Metric value store (`persistComputations.ts`, `metricValueRepository.ts`, `upsertShadowExtension.ts`) | rows of a coordinate by knowledge date, shadow table | findLatest, decideWrite, upsert, snapshot | every writer, every reader |
| Metric use cases and formulas (`src/application/metrics`, `src/domain/metrics`) | none | a compute use case and a provenance answer for each metric | statements, announcements, prices, shares, store |
| Magic formula rank (`scripts/magicFormulaRank.ts`) | stored ranks | rankAndWriteMagicFormula, its provenance | store, after a quarterly phase; a backfill started by hand |
| Promise caches (`capitalStock.ts`, `metricValueQueries.ts`) | promises by key with the time they were begun | hourly, companyRankFromCachedTable | share counts of the use cases, ranks of the reads |
| Knowledge dates (`reportAnnouncementDate.ts`) | none | announcement date, or period end | store |
| Batch endpoints (`src/application/batch`) | none | runBatchCompute, completeness check | store |
| HTTP service, reads, screener, ranking | none | handlers | store, exports |
| Start-up (`src/bootstrap`, `industryCodes.ts`) | industry codes in memory, saved copy | connect, load with retry and fallback | twse, analysis database |
| Backfill, audit scripts, codemods, schemas | - | run by hand | store |

What is hard to test in it:

* several processors are woken at once, and the one that finds the lease taken leaves;
* notices are re-sent, reordered and skipped; a processor dies between a step and its record;
* a batch may last longer than the lease that is to keep others out;
* one execution handles several ranges with a memo that is never invalidated, only cleared;
* one worker of a pool may throw while the others go on;
* several writers update one coordinate with separate statements;
* the row served is chosen by knowledge date, not by the time of writing;
* rows arrive in any order and mixture, and a failed range is merged with later rows, when the
  newest quarter may be another one;
* a metric reads several quarters of several tables, any of which may be missing, filed later,
  corrected, cumulative only, or not announced yet; which quarters a change makes stale is
  decided elsewhere, by the translation, and the explanation of a value is computed elsewhere
  again, by its provenance answer;
* a cache of promises hands out queries that are still running, and that may fail;
* the ranks of a whole market are written company by company, by two programs.

`PROJECT.json` lists these hazards at their lines, with the properties that cover them and
with the reason where none does.

What makes each component correct:

* queue: a notice marked done covers only recomputed changes; no accepted notice is left
  behind; one processor at a time; every listed notice is settled;
* translation: every row is covered by the work it asks for, nothing is redone without a
  row asking, a merged range keeps the work of the failed one (but for a quarter asked for only
  because it was the newest), no row disappears silently;
* range processing: what is marked done was recomputed from present statements; the memo is
  bounded; at most eight workers;
* store: the row served has the present facts, a rerun writes nothing, what was overwritten
  is in the shadow table;
* metrics: a value or the reason for its absence; nothing dated before the reports of its period
  are out; no change reaches back before the quarter it is routed to; the value explained is the value
  stored, and the explanation shows what it was computed from; half-years add up to the year;
* caches: answers no older than promised, failures not remembered, one query at a time;
* rank: after a ranker that ran alone every rank is that of the market as stored.

## Modules

| module | models | state and actions |
|---|---|---|
| `UpstreamLog` | the promise of the queue, abstractly | a watermark for each source; Receive, Apply, Advance |
| `UpstreamQueue` | route, queue table, lease and the job's main loop | `status` is upstream_change_notices, `holder` and `leaseLeft` the lease row, `pc`, `todo`, `cur` a job execution; one action for each statement, one for each place an exception is caught |
| `RecomputeTargets` | `toRecomputeTargets` and the life of a range | `latest` and `targets` are the locals of the function, `latestQuarter` its bound, read again by each attempt; `Date` and `Row` are one iteration of its loops |
| `BatchRefresh` | the pools of one execution and the memo they share | `job[w]` is a worker, `cache` the memo with pending, rejected and answered promises; `Lookup`, `Answer` and `Finish` are the awaits of a worker, `EndQuarterly` the finally block, `Throw` an exception in a daily worker |
| `MetricStore` | one coordinate and its writers | `table[d]` is the row with knowledge date d, `shadow` metric_upsert_shadow; `Compute`, `FindLatest`, `FindPrevious`, `Upsert`, `Snapshot` are the statements in their order |
| `PromiseCaches` | the hourly caches of share capital, the ten-minute table of ranks | `entry[k]` is the promise kept under k, `call[c]` a promise with its stage and the moments it was begun and its rows were read; `Ask` is a lookup, `Read`, `ReadAndAsk`, `Throw` and `Join` the ways a load goes on |
| `MagicFormulaRank` | the two rankers and the ranks they write | `row` and `rank` are the stored values, `read` and `left` the locals of a ranker; one action for each query and each company written |
| `MetricArithmetic`, `Filings` | null-tolerant arithmetic, slots, provenance entries; what a company has filed, the calendar, the windows of quarters, announcement dates, averages and share counts | `reports`, `announced`, `industry`, `prices` |
| `SharedFamilies` | the families several groups use: cash flow valuation, DuPont, per share, live values | operators |
| `Resilience`, `Efficiency`, `Profitability`, `Quality`, `Growth`, `Dividend`, `Valuation`, `LiveValuation` | the use cases of a group and their provenance answers | one operator named for each use case (`computeDeRatio`, `getDeRatioProvenance`) |
| `MetricCatalogue` | what must hold of every metric, whichever formula it has | `File`, `Announce`, `CorrectPrice` change what the program reads; `Recompute` is a run of all use cases |
| `StatementCatalogue`, `MarketCatalogue` | the catalogues: which slots and which traces there are (`pitMetrics.ts`, `provenanceResolvers.ts`) | the specifications `StatementSpec` and `MarketSpec` |
| `UpstreamQueueProofs`, `MetricStoreProofs`, `RecomputeTargetsProofs`, `BatchRefreshProofs`, `PromiseCachesProofs`, `MagicFormulaRankProofs` | - | theorems, each about the module it is named for |
| `MetricCatalogueProofs`, `MetricProvenanceProofs` | - | theorems about both catalogues: what is stored has a value or a reason; what is told is what is stored |
| `MCCompany` | - | the figures of a small company, for both catalogues |
| `MC...` | - | instances for TLC |

`UpstreamQueue` is shown to implement `UpstreamLog`: received ids are the ids with a row in
the table, the watermark is the largest id marked done, as `listPendingRanges` computes it.
Time is relative there: `leaseLeft` is expires_at minus now, in ticks.
In `BatchRefresh` a statement is a version number, and every company is one key of the memo.
In `MetricStore` a value is a whole number of units smaller than the sixth decimal, so that
rounding and the comparison tolerance keep their meaning.
In `RecomputeTargets` a date is the number yyyymmdd; the code compares ISO strings, which
have the same order.
In the metric modules a quarter is 4 * rocYear + season - 1 and a day is a number with ten
days to a quarter. A use case is an operator of the query (a quarter, or Null for the latest)
that answers the slots it would hand to the store; a provenance answer is a set of entries
(quarter, field, amount) with a value. `reports` holds the row a company has filed for each
table and quarter; `Contents` lists what may be filed there (the original, a correction, a
loss, two ways of leaving half of the fields out), so a formula meets every sign and every
missing field. Both sides read the same operators of `Filings` only where the
sources share a function; everything a provenance answer repeats in the code it repeats
in the model.
In `PromiseCaches` the rows of an answer are the moment they were read at. A cache differs
by its lifetime, by the cache it is filled from, and by what a failure does to it: become an
empty answer (`getBalanceSheetCapitalRows`), stay as a rejected promise (`hourly`) or be
forgotten (`companyRankFromCachedTable`).

`PROJECT.json` maps every definition to its lines. Definitions called a mutant in their
comment are plausible errors; putting one in the place of its original violates a property.

## Runs

Passing:

* `queue_safety` (TypeOK, DoneCovered, RefinesLog): one source, two ids, two requests, two
  processors, every fault: crashes, lost answers of statements, failing triggers, failing
  batches, and batches longer than the lease. Whatever overlaps, a notice marked done covers
  only recomputed changes, and the table behaves as the watermark log.
* `queue_exclusion` (MutualExclusion, NoStrandedNotice): two sources and four executions,
  no batch longer than the lease. One processor drains at a time, and the system does not come to
  rest with a notice pending.
* `queue_liveness` (ListedNoticeSettles, NoticeSettlesOrRests): a listed notice is settled
  unless its processor dies, whatever fails; a pending one is settled or everything rests.
* `store_safety` (TypeOK, ServedIsCurrent, OverwrittenIsShadowed, RerunSkips): two writers
  whose statements interleave while value, reason, date and formula version change.
* `refresh_safety` (TypeOK, DrainedIsCurrent, DailyReadsFresh, MemoBounded): three companies,
  pools of two workers, two ranges in one execution, rejected queries, throwing workers
  and crashes.
* `targets_safety` (TypeOK, RowsCovered, NoMoreThanAsked, MergeCovers, NothingDropped): every
  sequence of up to three of eighteen rows, with failures in between and a newest quarter that may
  be another one at each attempt. `MergeCovers` excepts one case by name (`Overtaken`): the failed
  attempt had the newest quarter of its time only because it was the newest, and every row of the
  company now asks for a later one.

* `statement_metrics` and `market_metrics`: a company of 28 quarters, complete or newly listed,
  with holes, half-yearly, a bank, an insurer before its first insurance statement, announced late
  or out of order, or without prices; each filing, correction, announcement or price correction
  in turn, and all use cases before and after. `ValueXorReason`: a value or a reason.
  `NoLookAhead`: a slot that a change of one of the reports of its period moves is dated on or after
  the day that change was known, even when an earlier quarter is announced after the last. The
  reports are those `knowledgeDate.ts` 15-16 counts: one for a quarter or a year, four for a trailing
  year that has a value (one without is dated by its last quarter, as `computeRoe.ts` says). The ten
  metrics in `DatedByMainQuarter` are held to their last quarter only. `RoutedForward`: a report
  moves no slot of a quarter before its own, so recomputing from there on leaves nothing stale, other
  than the reason of margins without a value (`relabelled`). `ProvenanceAgrees` and `ProvenanceExplains`: the value
  explained is the value stored, and a value that moves has an entry that moves.
  `HalvesAddUp`: filing the missing quarter of a half-year changes no trailing sum.
* `promise_caches` (TypeOK, FreshWithinTtl, FailureForgotten, OneQueryAtATime): two callers over the
  par values, the cache those are filled from, and the table of ranks.
* `magic_rank` (TypeOK, RanksCurrent, TraceAddsUp): the processor and a backfill over a small market,
  with a notice, a changed value and a ranker that dies anywhere.

Violations; each is a statement of a comment that the code does not keep:

* `refresh_stale_memo` (NeverSilentlyStale): a range with prices only does not clear the memo
  (`refreshFromQuarters` returns before its finally block, and the daily phase never clears); the
  next range of the execution recomputes a corrected company from the old statement and is
  marked done.
* `market_price_correction` (PriceRoutedForward): a corrected price is routed to the quarter of its
  day, but what is priced by it is the quarter announced on that day, the one before. That
  quarter stays stale, against the comment in `recomputeTargets.ts` 61-62.

Other places where code and comments differ. The models show each when the assumption named
is dropped; they are described here and have no run of their own:

* The lease is renewed between batches only, and the answer of the renewal is ignored; the lease is
  120 minutes and `deploy/job-upstream-dev.yaml` lets the job run 180. With batches longer than
  the lease a second processor works beside the first; DoneCovered survives it (`queue_safety`
  has such batches).
* Two overlapping inserts of a source both see no larger notice, and both are accepted
  (`upstreamChanges.ts` 6). The effect is a needless wake-up; `queue_safety` has the overlap.
* `resolveDataType` may throw in a daily worker: `Promise.all` rejects at once, and the rest of the
  pool works on beside the next range, more than the eight of `quarterlyRefresh.ts` 13.
* A retry reads the newest quarter again (`processUpstreamChangesPit.ts` 55). When the first statement of a
  newer quarter comes in after a failed attempt, a `company_profile` row (`recomputeTargets.ts` 144-145), or a
  date that was brought back to the newest quarter, is taken up at the newer one: the quarter the
  failed attempt was to recompute is left as it was and the range is marked done, though the header
  (line 9) says the range is done again. MergeCovers names this case (`Overtaken`).
* `knowledgeDate.ts` 15-18 dates a trailing year by the last announcement of its four reports and
  asks every metric to do so. nonOperatingIncomeRatio (`computeNonOperatingIncomeRatio.ts` 62), revenueGrowthRate,
  netIncomeGrowthRate, priceToResearchRatio, buybackYield, cashDividendYield, shareholderYield,
  dividendCoverageRatio, grahamNumber and pegRatio carry the day of the last quarter alone, which is before
  an input was public when an earlier quarter is announced after it. NoLookAhead names them
  (`DatedByMainQuarter`); without that exception the instances violate it.
* The first insurance statement of a company changes the reason of its margins in earlier quarters
  too, because `computeMarginsFamily.ts` 235-236 asks for the latest one; the change is routed from its own
  quarter on (`recomputeTargets.ts` 114-115), and the earlier quarters keep the old reason, against
  `recomputeTargets.ts` 12. RoutedForward names this case (`relabelled`).
* What a value is compared with is dated by no use case: the year before of a growth rate, the opening
  balance of an average, the earlier years of oneDollarTest, consecutiveProfitYears,
  abnormalCapexRatio and roeWeighted5y. When these are announced out of order, the value carries the
  day of its own period. NoLookAhead asks for the reports of that period only.
* sus is not rounded to the six decimals of its column (`calculateSus.ts` 59), so each rerun writes it
  again; RerunSkips assumes `Rounds`.
* A recomputation with an earlier knowledge date is stored below the outdated row, which stays the
  one served; ServedIsCurrent assumes `~BackDating`.
* revenueCagr: only the earlier revenue must be positive; with a negative later one `Math.pow` answers
  NaN, which is stored without a reason (`revenueCagrDefinition.ts` 13-14 asks for null). `cagr`
  answers NaN there; no revenue of the instances is negative.
* The rank takes the newest row that has a value: a company whose newest return has none goes on
  being ranked and shown with an older quarter, though it should not take part
  (`magicFormulaRankDefinition.ts` 17-19). RanksCurrent leaves such companies out. The trace of a
  rank reads one quarter of all companies, so while the market files its reports it says that
  values were recomputed when the newest quarters merely differ; TraceAddsUp is about the
  other moments.
* The par values are an hourly cache filled from an hourly cache: an answer may be two hours old, where
  `capitalStock.ts` 30 says one. FreshWithinTtl states the two.
* Traces with other guards than their use case. ProvenanceAgrees names them in `GuardedOtherwise`, and in
  `Exempted` the scores that are traced but deliberately not stored for a financial company:
  - grossMargin, operatingMargin, netProfitMargin and the two DuPont burdens: the use case nulls them
    together with their family (`computeMarginsFamily.ts` 168 asks for both profits of every period,
    `getOperatingMarginProvenance.ts` 42 for the one it divides);
  - nonOperatingIncomeRatio: the trace has no guard on the pretax income;
  - abnormalCapexRatio: the trace shows nothing when the mean of the three years, divided in whole
    thousands, is zero (`getAbnormalCapexRatioProvenance.ts` 62-63); the use case only when their sum is
    (`computeAbnormalCapexRatio.ts` 74-75);
  - buybackYield: the trace prices the company on the date of the single-quarter cash flow statement
    (`getBuybackYieldProvenance.ts` 42-43), which a company that reports half-years has not; the use case
    falls back to the cumulative one.

  The instances show the first two kinds. The last two, and operatingMargin, came out of the proof of
  ProvenanceAgrees, which did not go through before they were named.
* accrualsRatio: its trace lists no balances of the average it divides by and has no note that says
  so (`getAccrualsRatioProvenance.ts` 81; `provenanceTypes.ts` 233-237 asks for one).
  ProvenanceExplains leaves it out, and the two metrics whose note says so (`Noted`).
* roic, nissimPenmanRnoa, the margins and pretaxIncomePerShare of a bank do not add up over half-years:
  taxes are clamped, and other statements are read, period by period. HalvesAddUp is about the
  metrics `ofFlowsAlone` names.

## Bounds

* Two ids are enough to have a range that starts after a done notice, a failed one below a
  pending one, and a notice that overtakes another; a second source adds only a second entry
  in a list, which `queue_exclusion` has. Two processors overlap; four let one find
  the lease taken while another is released and a third is woken. One tick of lease and two
  of batch are the smallest in which a batch outlasts the lease.
* Two writers interleave; three values are neighbours within and beyond the tolerance; two
  dates are an insert above and an overwrite; two changes let the value go back to what a
  writer read before.
* Three companies and a clearing after every two let the memo be filled, cleared and filled
  again while a second worker is half-way through its company, and workers share a promise or find it answered; three workers with pools of two let an
  orphan live beside a second pool; two ranges suffice for something to survive from one
  to the next. Two quarters of a company read the same statement, once before and once after
  a clearing.
* Two companies and three rows: two rows that compete for a minimum or a newest date, and a
  third to arrive after a failure. History is three or four quarters, so that rows fall before, inside
  and after it and the newest quarter can move by one between attempts (`LatestQuarters`); with the rows
  that ask for the newest quarter and for one beyond it, the exception `Overtaken` is reached.

* A company of 28 quarters holds the longest window (eight years less one quarter before the quarters
  asked for are out of every metric but the longest growth rates, which then answer
  insufficient_history; revenueCagr5y and 3y have values). The quarters asked for are the last two
  and "the latest"; changes touch the last quarter, those of its window, and the fiscal years
  before. One change per behaviour: the properties compare a computation with the next. Announcements
  are in order in some situations and not in others: two quarters before the last are announced
  after it, before the first computation (`OutOfOrder`) or as the change. Insurance statements are
  filed, corrected and left half empty in three quarters, for a company that has filed them all and for one
  that has filed none.
* Three promises let one be replaced while an older one is still being read from another cache; four
  moments are twice the longest lifetime.
* Two ranked companies, a financial one, two quarters and two values: ties, a company that falls
  back, and ranks of different quarters; one death leaves a half-written ranking.

The clocks, ids, steps and counters of the models are bounded, and some stop when the bound is
reached; `CHECK_DEADLOCK FALSE` stands in their configurations for that reason. That the queue
itself does not come to rest with work left is a property (NoStrandedNotice).

`SYMMETRY` is used for interchangeable processors, requests, workers and writers, in runs
without liveness properties.

## Fairness

Only `queue_liveness` assumes it: the service answers a request it has begun (the event loop
runs a handler until it is done), a started execution goes on with its next statement, and
time passes. Nothing is assumed of upstreams, of faults, or of a wake-up that failed. The other
modules have safety properties only.

## Proofs

TLAPS proves, for every value of the constants:

* `UpstreamQueueProofs!TypeCorrect`.
* `DoneIsCovered`: DoneCovered follows from `CoverInv`. It is not inductive alone: a processor
  may be about to mark a range it listed long ago, so the invariant adds that what a notice, a
  request or a listed range covers is visible, that each listed range starts where all is
  recomputed, and that a processor at `complete` has recomputed its range.
* `OneProcessor`: if MaxBusy <= LeaseTTL, mutual exclusion follows from `LeaseInv`: who is
  inside holds the lease, and the age of the lease is the time it has been busy.
* `ImplementsLog`: Spec implies `RefinesLog`. Every step of the queue is a step of the log or
  leaves it as it is; marking a range done is an advance of the watermark, because the largest
  settled id is that of the range.
* `NothingStranded`: if nothing but batches fails, no system at rest has a pending notice, for
  any lease and batch length. `WakeInv` says who will look at the table: a request about to
  trigger, an execution that has not started, a holder that will look again after its
  release, or one that will find the lease free.
* `MetricStoreProofs!TypeCorrect`.
* `CurrentIsServed` and `RerunIsSkipped`, assuming that knowledge dates only move forward
  (`~BackDating`) and that the formula rounds to what the column keeps (`Rounds`). The two
  cases above, a backdated row and an unrounded metric, show that neither can be dropped. `ServedInv` adds that no row has
  a date above that of the present facts, and that while `clean` holds every writer at work
  carries the present facts.

* `PromiseCachesProofs`: `CacheTypes`, `AnswersAreFresh`, `FailuresForgotten` and, when every query ends
  before its answer expires, `OneQuery`. The properties are about a request and the promise it
  got, possibly long ago and through another cache, so `IInv` adds: an entry is a promise
  of that cache (`EntryOfCache`), begun no later than now (`Started`) and not failed where failures are
  forgotten; a nested promise waits for one of the cache it is filled from (`NestedInFeed`)
  that was fresh when asked (`AskedInTime`), so that its rows reach back at most the sum of
  both lifetimes (`ReadSince`); losses only come from failures (`NothingLostYet`, `NoFailureKept`,
  `ToldOnly`). `RunningIsKept`, that a running query is the entry of its cache, is the strengthening
  for `OneQuery`.

* `MetricStoreProofs!OverwrittenIsKept`: `ShadowInv` adds that while nothing was disturbed one writer is
  at work and what it read is still in the table, so that its snapshot is of the row it overwrote.
  A row that is replaced by itself needs no snapshot because rounding is idempotent (`StoredTwice`).

* `RecomputeTargetsProofs` (`TypeCorrect`, `RowsAreCovered`, `NoMoreIsAsked`, `MergeLosesNothing`,
  `NothingIsDropped`): all follow from `LoopInv`. After n rows of the second loop the targets
  hold the work of each of them (`Holds`), a company goes back to a quarter one of them asks
  for (`HoldsOnly`), and the counter of a label is the number of such rows (`Counts`); the first
  loop leaves the newest date of each table (`NewestOf`). Of an earlier attempt it keeps that
  it asks only what rows still in the range ask, against the newest quarter of its own time
  (`earlierLatest`). That is what makes merging lose nothing: a row can only ask for more when later rows
  follow it, and under another newest quarter it asks for the same one again (`AskedAgain`, from
  `NamesQuarterAgrees`), unless it was brought back to the newest or anchored to it. That is the exception
  `MergeLosesNothing` states; nothing is assumed of how the newest quarter moves.

* `BatchRefreshProofs` (`TypeCorrect`, `DrainedCompaniesAreCurrent`, `DailyPhaseReadsFresh`,
  `MemoStaysBounded`): `IInv` says who waits for which promise (`WaitInv`: every pending promise of the
  memo has a worker whose query is under way), which pool works in which phase and that it has each
  company once (`PoolInv`); that the statement of a company no change names is the one the range
  began with (`BaseInv`); that what the memo, the jobs and the finished companies hold is at least
  as new, or was left by a daily phase (`MemoInv`, `QuarterlyInv`, `OutcomeInv`, `DailyInv`); that a new
  price waits for a job that will use it (`LiveInv`). For the bound, the memo holds at most
  `symbolsDone % ClearEvery` companies that are not under way (`SizeInv`), and each is counted
  once (`CountInv`). None of the properties is inductive: a stale statement gets into an outcome
  through a promise begun phases before.

* `MagicFormulaRankProofs` (`TypeCorrect`, `LoneRankingIsServed`, `TraceExplainsRank`): positions count the
  companies off (`PositionsList`, over any finite set), the newest row with a value exists
  (`LargestIn`). In `IInv`, a ranker nobody has run beside knows the market as it is and has stored the
  ranks of those it has no longer left (`AloneInv`); after it is done only ranges without quarterly work
  run (`SettledInv`), which change neither values nor ranks; a rank stands beside a return on
  capital (`RankedInv`), so that an older rank is hidden by the new one.

* `MetricCatalogueProofs` (`StatementTypes`, `StatementValueXorReason`, `MarketTypes`, `MarketValueXorReason`):
  every slot that is written has a value or a reason, for any company: any rows, with any fields
  missing, any announcements, prices, shares, dividends and monthly revenues. One lemma for each use
  case, resting on one for each family and formula. Most formulas need no induction: a slot is built by one of the constructors of
  a result, and the constructor decides. The rest need to know that a figure is a number: a sum over
  years, a deviation, a weighted mean, a largest close. For these `TypeOK` is the strengthening: a
  row of the six tables that are summed or divided has the columns it is asked for, and closes are
  positive. It follows from the same of everything that may be filed (`SituationsAssumption`,
  `ContentsAssumption`), which is what the database schema says of its columns. `MonthsAssumption`
  says that the monthly revenues are in order, one row for each month, as the query of
  `twse/monthlyRevenue.ts` sorts them.
* `MetricProvenanceProofs` (`StatementProvenanceAgrees`, `MarketProvenanceAgrees`): the value a trace shows is
  the value stored, for every metric but those named above. One lemma for each trace. The value told is
  computed by the trace's own guards and sums, so each lemma shows that its formula has no value where the
  use case stores none, or that two roads end at one figure: an operating expense summed by
  component and by quarter, a month found by its name and by its place.
* Induction over the terms of a sum or the events of a fold is done in these modules on sets: the numbers for which the
  partial sum has the wanted property contain 0 and are closed under successor (`Induction`, from the
  well-foundedness of the naturals), so they are all numbers. The function a fold over a finite
  set is chosen from exists (`FoldExists`), and its values stay in any set that one step does not leave
  (`FoldInside`). No lemma has an operator as a parameter.

Only model-checked: liveness (`ListedNoticeSettles`, `NoticeSettlesOrRests`), because fairness and
ENABLED are out of the prover's reach; and the four properties of the metrics that compare one computation
with the next. `NoLookAhead`, `RoutedForward` and `ProvenanceExplains` say on which of the filed figures each
of some two hundred formulas depends, and need a second lemma for each; `HalvesAddUp` needs that the
cumulative figures are the sums of the quarters, which is so of the figures of `MCCompany` and is not assumed of
every company.

## Abstractions and what is not modelled

* `UpstreamQueue`: an upstream posts a notice only when every row it covers is visible; the
  code relies on it and does not check it. Statements are atomic except the insert of
  enqueue, whose subquery reads an older snapshot. What a batch does is a set of ids; the
  other modules look inside.
* `MetricStore`: the three tables are one; the tolerance is absolute where the code's is
  relative for large values; the fallback flag of a knowledge date and `validateCoordinate`
  are left out.
* `BatchRefresh`: one execution at a time (see OneProcessor); the order in which a pool takes its
  items is left open; the ranking and the monthly phase, which read no statement, are left out.
* `RecomputeTargets`: a malformed date is a missing one; the newest quarter may be any of
  `LatestQuarters` at each attempt, and none of them lies before the history.
* Metrics: amounts are small integers and a quotient is an integer of its last decimal; a logarithm is
  that of the power of two below, a compound rate the largest of a grid below it. Texts, roles
  and units of a trace, the choice between consolidated and individual reports, and the
  subsidiaries are left out. Macro and government series are constants.
* `PromiseCaches`: caches loaded once per process (preferred issuers, report kinds, industry flags, the
  deflator of 1968) are a lifetime longer than the process and have no run.
* `MagicFormulaRank`: a row is addressed by its quarter; its knowledge date is left out.
* Not modelled: reads, screener and HTTP modules (stateless readers), the batch endpoints and audit
  scripts (one pass over use cases and store), start-up (one table with a saved copy), codemods
  and declarations. A daily phase over the whole market does not clear the memo at all, which
  the code accepts; two daily updates in one range make every price of the older day a correction.

## Plan

Done: the queue with its abstract log, the store, range processing, the translation of rows, all
metrics, the rank, the promise caches, and the proofs of every invariant of these. Left:

1. `ChangePipeline`: one company from a corrected statement to the row that readers are
   served, with several executions, composing the promises of `UpstreamLog`, of a range and of
   the store; the abstract specification is a value that follows its source.
2. `RoutedForward` for every company: an operator of `Filings` at a quarter reads nothing filed for a
   later one, but for the reason of an insurer's margins, which the property excepts.
3. Start-up with the industry codes, and the batch runner.
