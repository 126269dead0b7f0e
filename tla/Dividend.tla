------------------------------ MODULE Dividend ------------------------------
(***************************************************************************)
(* The dividend metrics: what was paid out according to the cash flow      *)
(* statements, and what was distributed according to the announcements     *)
(* (application/metrics/dividend).                                         *)
(***************************************************************************)
EXTENDS SharedFamilies

CONSTANTS
  DividendRows, \* announced distributions, amounts per share in hundredths
  DIVIDEND_EVENTS_WINDOW_START_FLOOR \* the day before which announcements are incomplete

ASSUME DividendRowsAssumption ==
  IsFiniteSet(DividendRows) /\ \A r \in DividendRows : {r.fromEarnings, r.fromReserve} \subseteq Nullable

\* An outflow in thousands as a percentage of the market capitalisation.
yieldOn(marketCap, thousands) == rounded(10000 * 1000 * thousands, marketCap.marketCap)

yieldCalc(complete, marketCap, thousands) ==
  LET value == IF complete /\ marketCap # Null /\ marketCap.marketCap > 0 THEN yieldOn(marketCap, thousands) ELSE Null
  IN calc(value, because(value, IF complete THEN "missing_input" ELSE "insufficient_history"))

marketCapEntry(q, marketCap) == entry(q, "marketCap", field(marketCap, "marketCap"))

marketCapOn(day) == IF day = Null THEN Null ELSE getMarketCap(day)

cashFlowAnchor(q) == resolveKnowledgeDate({<<q, resolveCashFlowReportDate(q)>>})

-----------------------------------------------------------------------------
(* Own shares bought back.                                                 *)

\* A quarter that was filed without the account bought none.
getTreasurySharesPurchased(q) ==
  LET row == cashFlowStatement(q) IN IF row = Null THEN Null ELSE orZero(row.treasurySharesPurchased)

bought(q) == [i \in 1..4 |-> getTreasurySharesPurchased(getPastNQuarters(q, 4)[i])]
boughtEntries(q) == {entry(at, "treasurySharesPurchased", getTreasurySharesPurchased(at)) : at \in q - 3..q}

buybackYieldOn(q, day) ==
  LET sum == total(bought(q)) IN yieldCalc(sum # Null, marketCapOn(day), IF sum = Null THEN 0 ELSE abs(sum))

computeBuybackYield(query) ==
  Batch(query, {"cashFlowStatement"}, {"ttm"}, LAMBDA q :
    [ttm |-> periodSlot(cashFlowAnchor(q), q, "TTM", buybackYieldOn(q, resolveCashFlowReportDate(q)))])

\* The trace takes the market capitalisation on the date of the quarter's own statement.
getBuybackYieldProvenance(query) ==
  traced(query, {"cashFlowStatement"}, LAMBDA q :
    LET day == reportDate(cashFlowStatement(q), q)
    IN provenance(q, buybackYieldOn(q, day).value, boughtEntries(q) \union {marketCapEntry(q, marketCapOn(day))}))

-----------------------------------------------------------------------------
(* Dividends and buybacks together, and the dividends alone.               *)

resolveShareholderYieldInputs(query) ==
  LET q == resolveQuarterOrLatest(query, {"cashFlowStatement"})
      day == resolveCashFlowReportDate(q)
      recent == getPastNQuarters(q, 4)
      complete == \A i \in 1..4 : getTreasurySharesPurchased(recent[i]) # Null
      dividends == IF complete THEN abs(total([i \in 1..4 |-> orZero(cashFlowStatement(recent[i]).dividendsPaid)])) ELSE 0
      marketCap == marketCapOn(day)
  IN IF q = Null THEN Null
     ELSE [quarter |-> q, reportDate |-> day, ttmComplete |-> complete, dividendsAbs |-> dividends, marketCap |-> marketCap,
           result |-> yieldCalc(complete, marketCap, IF complete THEN dividends + abs(total(bought(q))) ELSE 0)]

cashDividendYieldOf(r) == yieldCalc(r.ttmComplete, r.marketCap, r.dividendsAbs)

outflowSlot(r, result) == [ttm |-> periodSlot(resolveKnowledgeDate({<<r.quarter, r.reportDate>>}), r.quarter, "TTM", result)]

computeShareholderYield(query) ==
  LET r == resolveShareholderYieldInputs(query) IN IF r = Null THEN noQuarterBatch({"ttm"}) ELSE outflowSlot(r, r.result)

computeCashDividendYield(query) ==
  slotsFrom(resolveShareholderYieldInputs(query), {"ttm"}, LAMBDA r :
    outflowSlot(r, cashDividendYieldOf(r)))

paidEntries(q) == UNION {entriesOf(at, cashFlowStatement(at), {"dividendsPaid"}) : at \in q - 3..q}

getShareholderYieldProvenance(query) ==
  tracedFrom(resolveShareholderYieldInputs(query), LAMBDA r :
    provenance(r.quarter, r.result.value,
      paidEntries(r.quarter) \union boughtEntries(r.quarter) \union {marketCapEntry(r.quarter, r.marketCap)}))

getCashDividendYieldProvenance(query) ==
  tracedFrom(resolveShareholderYieldInputs(query), LAMBDA r :
    provenance(r.quarter, cashDividendYieldOf(r).value, paidEntries(r.quarter) \union {marketCapEntry(r.quarter, r.marketCap)}))

-----------------------------------------------------------------------------
(* Dividends of whole years.                                               *)

yearFlows(year) == resolveTrailingCashFlowStatements(4 * year + 3).periods
allThere(periods) == \A i \in DOMAIN periods : periods[i].record # Null
yearFiled(year) == allThere(yearFlows(year))
paidIn(periods) == sumTrailingPeriods(periods, LAMBDA r : orZero(r.dividendsPaid))

\* On the share basis of today.
dividendPerShareOf(paid, shares, end) ==
  [dps |-> IF shares = Null THEN Null
           ELSE rounded(100 * perShare4(abs(paid), shares.outstandingCommonShares), getShareSplitFactor(end, splitRestateBasis)),
   shares |-> field(shares, "outstandingCommonShares")]

dividendPerShareIn(flows, end) ==
  dividendPerShareOf(paidIn(flows), IF allThere(flows) THEN getOutstandingCommonShares(end) ELSE Null, end)

getAnnualDividendPerShareProxy(year) == dividendPerShareIn(yearFlows(year), QuarterEnd(4 * year + 3))

\* The growth of the dividend over some years, when there was one to grow from.
growthBetween(current, prior, years) ==
  IF Null \notin {current, prior} /\ prior > 0 THEN cagr(current, prior, years) ELSE Null
dividendGrowth(year, years) ==
  growthBetween(getAnnualDividendPerShareProxy(year).dps, getAnnualDividendPerShareProxy(year - years).dps, years)

dividendUnknown(year, years) ==
  Null \in {getAnnualDividendPerShareProxy(year).dps, getAnnualDividendPerShareProxy(year - years).dps}

buildYearEntries(year) ==
  entriesOfPeriods(yearFlows(year), {"dividendsPaid"})
  \union {entry(4 * year + 3, "outstandingCommonShares", getAnnualDividendPerShareProxy(year).shares)}

DIVIDEND_GROWTH_RATE_YEARS == {3, 5, 8}

computeDividendGrowthRateFamily(query) ==
  Batch(query, {"cashFlowStatement"}, DIVIDEND_GROWTH_RATE_YEARS, LAMBDA q :
    [years \in DIVIDEND_GROWTH_RATE_YEARS |->
       periodSlot(cashFlowAnchor(q), q, "FY",
         calcOr(dividendGrowth(annualYear(q), years),
                IF dividendUnknown(annualYear(q), years) THEN "insufficient_history" ELSE "zero_or_negative_denominator"))])

getDividendGrowthRateProvenanceForYears(years, query) ==
  traced(query, {"cashFlowStatement"}, LAMBDA q :
    provenance(q, dividendGrowth(annualYear(q), years),
      buildYearEntries(annualYear(q)) \union buildYearEntries(annualYear(q) - years)))

\* Yield and growth together.
DIVIDEND_GROWTH_LOOKBACK_YEARS == 5

resolveChowderNumberInputs(query) ==
  LET q == resolveQuarterOrLatest(query, {"cashFlowStatement"})
      main == cashFlowAnchor(q)
      yield == IF main = Null THEN Null ELSE field(getDailyValuation(main.date), "dividendYield")
      year == annualYear(q)
      value == plus(yield, times(100, dividendGrowth(year, DIVIDEND_GROWTH_LOOKBACK_YEARS)))
  IN IF q = Null THEN Null
     ELSE [quarter |-> q, mainAnchor |-> main, dividendYieldPct |-> yield, latestCompleteFiscalYear |-> year,
           result |-> calc(value, because(value,
             IF yield = Null \/ dividendUnknown(year, DIVIDEND_GROWTH_LOOKBACK_YEARS) THEN "insufficient_history" ELSE "missing_input"))]

computeChowderNumber(query) ==
  slotsFrom(resolveChowderNumberInputs(query), {"fy"}, LAMBDA r :
    [fy |-> periodSlot(r.mainAnchor, r.quarter, "FY", r.result)])

getChowderNumberProvenance(query) ==
  tracedFrom(resolveChowderNumberInputs(query), LAMBDA r :
    provenance(r.quarter, r.result.value,
      {entry(r.quarter, "dividendYield", r.dividendYieldPct)} \union buildYearEntries(r.latestCompleteFiscalYear)
      \union buildYearEntries(r.latestCompleteFiscalYear - DIVIDEND_GROWTH_LOOKBACK_YEARS)))

\* Back from the last complete year, until one was not filed or paid nothing.
MAX_LOOKBACK_DIVIDEND_YEARS == 30

paidYears(year) ==
  LET from[n \in 0..MAX_LOOKBACK_DIVIDEND_YEARS] ==
        IF n = MAX_LOOKBACK_DIVIDEND_YEARS \/ ~yearFiled(year - n) \/ paidIn(yearFlows(year - n)) = 0 THEN 0 ELSE 1 + from[n + 1]
  IN from[0]

consecutiveDividendYears(year) == IF yearFiled(year) THEN paidYears(year) ELSE Null

computeConsecutiveDividendYears(query) ==
  Batch(query, {"cashFlowStatement"}, {"fy"}, LAMBDA q :
    LET value == consecutiveDividendYears(annualYear(q))
    IN [fy |-> periodSlot(cashFlowAnchor(q), q, "FY", calc(value, because(value, "insufficient_history")))])

\* Every year that counts is shown, and the year of no dividend that ends the count.
getConsecutiveDividendYearsProvenance(query) ==
  traced(query, {"cashFlowStatement"}, LAMBDA q :
    LET year == annualYear(q)
        shown == {y \in year - paidYears(year)..year : y > year - MAX_LOOKBACK_DIVIDEND_YEARS /\ yearFiled(y)}
    IN provenance(q, consecutiveDividendYears(year), {entry(4 * y + 3, "dividendsPaid", paidIn(yearFlows(y))) : y \in shown}))

-----------------------------------------------------------------------------
(* Dividends against the free cash flow and the earnings of the year.      *)

dividendCoverage(q) ==
  LET flows == resolveTrailingCashFlowStatements(q).periods
      complete == allFiled(flows, {"netCashFromOperatingActivities", "capitalExpenditures"})
      free == sumOf(flows, "netCashFromOperatingActivities") + sumOf(flows, "capitalExpenditures")
      paid == abs(paidIn(flows))
      value == IF complete /\ paid > 0 THEN toRatio(free, paid) ELSE Null
  IN calc(value, because(value, IF complete THEN "zero_or_negative_denominator" ELSE "insufficient_history"))

computeDividendCoverageRatio(query) ==
  Batch(query, {"cashFlowStatement"}, {"ttm"}, LAMBDA q : [ttm |-> periodSlot(cashFlowAnchor(q), q, "TTM", dividendCoverage(q))])

getDividendCoverageRatioProvenance(query) ==
  traced(query, {"cashFlowStatement"}, LAMBDA q :
    provenance(q, dividendCoverage(q).value,
      entriesOfPeriods(resolveTrailingCashFlowStatements(q).periods,
                       {"netCashFromOperatingActivities", "capitalExpenditures", "dividendsPaid"})))

resolveDividendPayoutRatioInputs(query) ==
  LET q == resolveQuarterOrLatest(query, {"incomeStatement", "cashFlowStatement"})
      filed == firstOf(<<reportDate(incomeStatement(q), q), reportDate(cashFlowStatement(q), q)>>)
      income == resolveTrailingIncomeStatements(q).periods
      flows == resolveTrailingCashFlowStatements(q).periods
      paired(i) == pickNetIncome(income[i].record) # Null /\ i \in DOMAIN flows /\ flows[i].record # Null
      complete == \A i \in DOMAIN income : paired(i)
      earned == IF complete THEN sumTrailingPeriods(income, pickNetIncome) ELSE Null
      value == IF complete /\ earned > 0 THEN toPercent(abs(paidIn(flows)), earned) ELSE Null
  IN IF q = Null THEN Null
     ELSE [quarter |-> q, mainAnchor |-> resolveKnowledgeDate({<<q, filed>>}), income |-> income, flows |-> flows, ttmComplete |-> complete,
           payoutRatioTtm |-> calc(value, because(value, IF complete THEN "zero_or_negative_denominator" ELSE "insufficient_history"))]

cashDividendFromEarningsPerShare(rows) == FoldSet(LAMBDA r, sum : sum + orZero(r.fromEarnings), 0, rows)
earningsPayoutRatio(dividend, eps) == IF eps # Null /\ eps > 0 THEN rounded(10000 * dividend, eps) ELSE Null

\* What was announced out of the earnings of the year, known with the last announcement.
resolveEarningsPayoutRatioFy(q) ==
  LET context == resolveAnnualReportContext(q)
      rows == {r \in DividendRows : r.fiscalYear = context.year}
      eps == context.annual.basicEps
      value == IF rows = {} THEN Null ELSE earningsPayoutRatio(cashDividendFromEarningsPerShare(rows), eps)
      known == [context.anchor EXCEPT !.date = Max({@} \union {r.announced : r \in {x \in rows : x.announced # Null}})]
  IN IF context = Null THEN skip("skipped_no_quarter")
     ELSE IF context.anchor = Null THEN skip("skipped_no_knowledge_date")
     ELSE periodSlot(known, context.quarter, "FY",
            calc(value, because(value, IF rows = {} \/ eps = Null THEN "missing_input" ELSE "zero_or_negative_denominator")))

computeDividendPayoutRatio(query) ==
  slotsFrom(resolveDividendPayoutRatioInputs(query), {"ttm", "fy"}, LAMBDA r :
    [ttm |-> ttmSlot(r.income, r.ttmComplete, r.payoutRatioTtm, r.mainAnchor, r.quarter),
     fy |-> resolveEarningsPayoutRatioFy(r.quarter)])

getDividendPayoutRatioProvenance(query) ==
  tracedFrom(resolveDividendPayoutRatioInputs(query), LAMBDA r :
    provenance(r.quarter, r.payoutRatioTtm.value,
      netIncomeEntries(r.income)
      \union {entry(r.income[i].quarter, "dividendsPaid",
                    IF i \in DOMAIN r.flows THEN field(r.flows[i].record, "dividendsPaid") ELSE Null) : i \in DOMAIN r.income}))

-----------------------------------------------------------------------------
(* Announced distributions.                                                *)

getDividendDistributionEvents == {r \in DividendRows : r.exDate # Null}

latestTwoYears ==
  LET years == {r.fiscalYear : r \in {x \in getDividendDistributionEvents : x.fiscalYear # Null}}
  IN {y \in years : Cardinality({z \in years : z > y}) < 2}

calculateDistributionsPerFiscalYear ==
  LET daysOf(y) == {r.exDate : r \in {x \in getDividendDistributionEvents : x.fiscalYear = y}}
  IN IF latestTwoYears = {} THEN Null ELSE Max({Cardinality(daysOf(y)) : y \in latestTwoYears})

latestDistribution ==
  CHOOSE r \in getDividendDistributionEvents : \A x \in getDividendDistributionEvents : x.exDate <= r.exDate

computeDividendDistributionCount ==
  LET latest == latestDistribution
      count == calculateDistributionsPerFiscalYear
  IN IF getDividendDistributionEvents = {} THEN noQuarterBatch({"ttm"})
     ELSE [ttm |-> periodSlot([date |-> orElse(latest.announced, latest.exDate), isFallback |-> latest.announced = Null],
                              latest.exDate \div 10, "TTM", calc(count, because(count, "missing_input")))]

getDividendDistributionCountProvenance ==
  IF getDividendDistributionEvents = {} THEN notFound
  ELSE provenance(latestDistribution.exDate \div 10, calculateDistributionsPerFiscalYear,
         {entry(r.fiscalYear, "exDividendDate", r.exDate) :
            r \in {x \in getDividendDistributionEvents : x.fiscalYear \in latestTwoYears}})

\* A year ends on windowEnd; its first day is left out.
dividendWindowStart(windowEnd) == windowEnd - 40
isInDividendWindow(exDate, windowEnd) == exDate # Null /\ dividendWindowStart(windowEnd) < exDate /\ exDate <= windowEnd

dividendPerShareWindowEnd(q) == QuarterEnd(q)

\* Amounts are restated to the share basis at the end of the window.
restatedAmount(amount, factor) == IF amount = Null THEN 0 ELSE rounded(100 * amount, factor)

splitFactorOf(r, windowEnd) ==
  IF r.exDate = Null \/ r.exDate > windowEnd THEN 100 ELSE getShareSplitFactor(r.exDate, windowEnd)

restatedRow(r, factor) ==
  [row |-> r, splitFactor |-> factor, cash |-> restatedAmount(r.fromEarnings, factor) + restatedAmount(r.fromReserve, factor)]

listRestatedDividendRows(windowEnd) == {restatedRow(r, splitFactorOf(r, windowEnd)) : r \in DividendRows}

rowsInDividendWindow(windowEnd) ==
  {e \in listRestatedDividendRows(windowEnd) : isInDividendWindow(e.row.exDate, windowEnd)}

calculateDividendPerShare(windowEnd) ==
  IF dividendWindowStart(windowEnd) < DIVIDEND_EVENTS_WINDOW_START_FLOOR THEN insufficientHistory
  ELSE IF DividendRows = {} THEN calc(Null, "missing_input")
  ELSE calc(FoldSet(LAMBDA e, sum : sum + e.cash, 0, rowsInDividendWindow(windowEnd)), Null)

buildDividendWindowProvenance(q, windowEnd) ==
  provenance(q, calculateDividendPerShare(windowEnd).value,
    {entry(e.row.exDate, "cashDividend", e.cash) : e \in rowsInDividendWindow(windowEnd)})

computeDividendPerShare(query) ==
  Batch(query, {"cashFlowStatement"}, {"ttm"}, LAMBDA q :
    [ttm |-> periodSlot(anchorOf(q, cashFlowStatement(q)), q, "TTM", calculateDividendPerShare(dividendPerShareWindowEnd(q)))])

getDividendPerShareProvenance(query) ==
  traced(query, {"cashFlowStatement"}, LAMBDA q : buildDividendWindowProvenance(q, dividendPerShareWindowEnd(q)))

computeLiveDividendPerShare ==
  LET price == getLatestDailyPrice
  IN IF price = Null THEN [eod |-> skip("skipped_no_trade_date")]
     ELSE [eod |-> dailySlot(price.tradeDate, calculateDividendPerShare(price.tradeDate))]

getLiveDividendPerShareProvenance(day) ==
  LET price == getLatestDailyPrice
  IN IF price = Null \/ isBeforeLatestTradeDate(day, price.tradeDate) THEN notFound
     ELSE buildDividendWindowProvenance(Null, price.tradeDate)

-----------------------------------------------------------------------------
(* The share count against that of a year before, on one basis.            *)

shareCountChange(current, prior) ==
  calcOr(IF Null \notin {current, prior} /\ prior # 0 THEN toPercent(current - prior, prior) ELSE Null,
         determineNullReason(current, prior))

sharesOfQuarter(at) == IF balanceSheet(at) = Null THEN Null ELSE getOutstandingCommonShares(QuarterEnd(at))

\* The share count of a year before, on the basis of this quarter.
shareSplitFactor(q) ==
  IF Null \in {balanceSheet(q), balanceSheet(q - 4)} THEN 100 ELSE getShareSplitFactor(QuarterEnd(q - 4), QuarterEnd(q))
onOneBasis(count, factor) == IF count = Null THEN Null ELSE rounded(count * factor, 100)

shareCountChangeAt(q) ==
  [quarter |-> q, currentShares |-> sharesOfQuarter(q), priorShares |-> sharesOfQuarter(q - 4), splitFactor |-> shareSplitFactor(q),
   changeRate |-> shareCountChange(field(sharesOfQuarter(q), "outstandingCommonShares"),
                    onOneBasis(field(sharesOfQuarter(q - 4), "outstandingCommonShares"), shareSplitFactor(q)))]

resolveShareCountChangeRateInputs(query) ==
  LET q == resolveQuarterOrLatest(query, {"balanceSheet"})
  IN IF q = Null THEN Null ELSE shareCountChangeAt(q)

computeShareCountChangeRate(query) ==
  slotsFrom(resolveShareCountChangeRateInputs(query), {"q"}, LAMBDA r :
    [q |-> periodSlot(anchorOf(r.quarter, balanceSheet(r.quarter)), r.quarter, "Q", r.changeRate)])

getShareCountChangeRateProvenance(query) ==
  tracedFrom(resolveShareCountChangeRateInputs(query), LAMBDA r :
    provenance(r.quarter, r.changeRate.value,
      commonShareEntries(r.quarter, r.currentShares, {}) \union commonShareEntries(r.quarter - 4, r.priorShares, {})
      \union {entry(r.quarter, "splitFactor", r.splitFactor)}))
=============================================================================
