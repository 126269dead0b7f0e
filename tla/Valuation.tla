------------------------------ MODULE Valuation ------------------------------
(***************************************************************************)
(* The metrics of application/metrics/valuation that are computed once a   *)
(* quarter.  They set what was filed for a quarter against the price of    *)
(* the day it was announced on, which is in the quarter after it.          *)
(***************************************************************************)
EXTENDS SharedFamilies

\* The announcement of what was filed for q, the price and the market
\* capitalisation of that day, and the shares at the end of the quarter.
pricedOn(main, filed) ==
  [main |-> main, price |-> IF main = Null THEN Null ELSE getStockPrice(main.date),
   marketCap |-> IF main = Null THEN Null ELSE getMarketCap(main.date),
   shares |-> IF filed = Null THEN Null ELSE getOutstandingCommonShares(filed)]
valuedAt(q, filed) == pricedOn(resolveKnowledgeDate({<<q, filed>>}), filed)

filedBoth(q) == firstOf(<<reportDate(balanceSheet(q), q), reportDate(incomeStatement(q), q)>>)

close(at) == field(at.price, "closePrice")
closeEntry(at) == entry(field(at.price, "tradeDate"), "close", close(at))
capEntry(q, at) == entry(q, "marketCap", field(at.marketCap, "marketCap"))

\* An amount in thousands as a percentage of one in dollars, which is a whole
\* number of tens.
percentOfValue(thousands, dollars) == IF dollars = 0 THEN Null ELSE rounded(1000000 * thousands, dollars \div 10)

yearIncome(q) == resolveTrailingIncomeStatements(q).periods
yearCash(q) == resolveTrailingCashFlowStatements(q).periods

\* Over a trailing year: history, then what it is set against, then the sum itself.
trailingReason(complete, given) ==
  IF ~complete THEN "insufficient_history" ELSE IF given THEN "zero_or_negative_denominator" ELSE "missing_input"

\* Mutant of multipleCalc: the reason looks at the sum alone.
multipleCalcHalfReason(sum, amount) ==
  calc(IF Null \in {sum, amount} THEN Null ELSE toMultipleFromThousands(amount, sum), because(sum, "insufficient_history"))

multipleCalc(sum, amount) ==
  LET value == IF Null \in {sum, amount} THEN Null ELSE toMultipleFromThousands(amount, sum)
  IN calc(value, because(value, trailingReason(sum # Null, amount # Null)))

-----------------------------------------------------------------------------
(* Price and market capitalisation.                                        *)

\* To four figures.
roundToSignificantFigures(x) ==
  LET unit == Max({1} \union {10^k : k \in {j \in 1..5 : 10^(j + 3) <= x}}) IN unit * rounded(x, unit)

onAnnouncement(query, Value(_, _), Reason(_)) ==
  Batch(query, {"balanceSheet"}, {"q"}, LAMBDA q :
    LET at == valuedAt(q, reportDate(balanceSheet(q), q))
        value == Value(q, at)
    IN [q |-> periodSlot(at.main, q, "Q", calc(value, because(value, Reason(at))))])

missing(at) == "missing_input"
roundedCap(q, at) == IF at.marketCap = Null THEN Null ELSE roundToSignificantFigures(at.marketCap.marketCap)
closeAt(q, at) == close(at)

computeMarketCap(query) == onAnnouncement(query, roundedCap, missing)
computeStockPrice(query) == onAnnouncement(query, closeAt, missing)

getMarketCapProvenance(query) ==
  traced(query, {"balanceSheet"}, LAMBDA q :
    LET at == valuedAt(q, reportDate(balanceSheet(q), q))
    IN provenance(q, roundedCap(q, at),
         {entry(q, "close", field(at.marketCap, "closePrice")),
          entry(q, "outstandingCommonShares", field(at.marketCap, "outstandingCommonShares"))}))
getStockPriceProvenance(query) ==
  traced(query, {"balanceSheet"}, LAMBDA q :
    LET at == valuedAt(q, reportDate(balanceSheet(q), q)) IN provenance(q, close(at), {closeEntry(at)}))

\* In ten-thousandths: what is owed is in dollars, the assets are in thousands.
tobinsQOf(q, at) ==
  LET b == balanceSheet(q)
      owed == plus(field(at.marketCap, "marketCap"), times(1000, field(b, "totalLiabilities")))
  IN IF Null \in {owed, totalAssets(b)} \/ totalAssets(b) = 0 THEN Null ELSE rounded(10 * owed, totalAssets(b))

computeTobinsQ(query) ==
  Batch(query, {"balanceSheet"}, {"q"}, LAMBDA q :
    LET b == balanceSheet(q)
        at == valuedAt(q, reportDate(b, q))
        value == tobinsQOf(q, at)
        given == at.marketCap # Null /\ Null \notin {field(b, "totalLiabilities"), totalAssets(b)}
    IN [q |-> periodSlot(at.main, q, "Q", calc(value, because(value, trailingReason(TRUE, given))))])

getTobinsQProvenance(query) ==
  traced(query, {"balanceSheet"}, LAMBDA q :
    LET at == valuedAt(q, reportDate(balanceSheet(q), q))
    IN provenance(q, tobinsQOf(q, at),
         {capEntry(q, at)} \union entriesOf(q, balanceSheet(q), {"totalLiabilities", "totalAssets"})))

-----------------------------------------------------------------------------
(* Book value.                                                             *)

commonBook(q, shares) == toCommonEquity(pickEquity(balanceSheet(q)), orZero(field(shares, "preferredClaimThousands")))

resolveBvpsInputs(query) ==
  LET q == resolveQuarterOrLatest(query, {"balanceSheet"})
      at == valuedAt(q, reportDate(balanceSheet(q), q))
      outstanding == field(at.shares, "outstandingCommonShares")
      bvps == perShareOf(commonBook(q, at.shares), outstanding)
  IN IF q = Null THEN Null
     ELSE [quarter |-> q, at |-> at,
           result |-> calc(bvps, because(bvps, determineNullReason(pickEquity(balanceSheet(q)), outstanding)))]

computeBvps(query) ==
  slotsFrom(resolveBvpsInputs(query), {"q"}, LAMBDA r :
    [q |-> periodSlot(r.at.main, r.quarter, "Q", r.result)])

getBvpsProvenance(query) ==
  tracedFrom(resolveBvpsInputs(query), LAMBDA r :
    provenance(r.quarter, r.result.value,
      {equityEntry(r.quarter, balanceSheet(r.quarter))}
      \union commonShareEntries(r.quarter, r.at.shares, {"preferredClaimThousands"})))

\* A close over a thousand dollars of something, per share.
priceMultiple(at, thousands) ==
  IF Null \in {close(at), thousands} \/ at.shares = Null \/ thousands = 0 THEN Null
  ELSE rounded(close(at) * at.shares.outstandingCommonShares, 10 * thousands)

resolvePbRatioInputs(query) ==
  LET q == resolveQuarterOrLatest(query, {"balanceSheet"})
      at == valuedAt(q, reportDate(balanceSheet(q), q))
      book == IF at.shares = Null THEN Null ELSE commonBook(q, at.shares)
      value == priceMultiple(at, book)
  IN IF q = Null THEN Null
     ELSE [quarter |-> q, at |-> at,
           result |-> calc(value, because(value, trailingReason(TRUE, Null \notin {book, close(at)})))]

computePbRatio(query) ==
  slotsFrom(resolvePbRatioInputs(query), {"q"}, LAMBDA r :
    [q |-> periodSlot(r.at.main, r.quarter, "Q", r.result)])

getPbRatioProvenance(query) ==
  tracedFrom(resolvePbRatioInputs(query), LAMBDA r :
    provenance(r.quarter, r.result.value,
      {closeEntry(r.at), equityEntry(r.quarter, balanceSheet(r.quarter))}
      \union commonShareEntries(r.quarter, r.at.shares, {"preferredClaimThousands"})))

\* Preferred stock counts at what it can claim, or at par without a share row.
resolveNcavInputs(query) ==
  LET q == resolveQuarterOrLatest(query, {"balanceSheet"})
      b == balanceSheet(q)
      preferred == orZero(field(b, "preferredStockCapital"))
      claim == IF preferred = 0 THEN 0
               ELSE orElse(field(getOutstandingCommonShares(QuarterEnd(q)), "preferredClaimThousands"), preferred)
      value == times(1000, minus(minus(field(b, "currentAssets"), field(b, "totalLiabilities")), claim))
  IN IF q = Null THEN Null ELSE [quarter |-> q, claim |-> claim, result |-> missingCalc(value)]

computeNcav(query) ==
  slotsFrom(resolveNcavInputs(query), {"q"}, LAMBDA r :
    [q |-> periodSlot(anchorOf(r.quarter, balanceSheet(r.quarter)), r.quarter, "Q", r.result)])

getNcavProvenance(query) ==
  tracedFrom(resolveNcavInputs(query), LAMBDA r :
    provenance(r.quarter, r.result.value,
      entriesOf(r.quarter, balanceSheet(r.quarter), {"currentAssets", "totalLiabilities"})
      \union {entry(r.quarter, "preferredClaim", r.claim)}))

-----------------------------------------------------------------------------
(* Earnings.                                                               *)

\* What the common shares earned over the trailing year, in thousands.
commonEarningsTtm(q, shares) ==
  toCommonEarnings(sumTrailingPeriods(yearIncome(q), pickNetIncome),
                   orZero(field(shares, "preferredDividendsTtmThousands")), "TTM")

\* Nothing is per share without shares.
epsThousands(q, at) == IF at.shares = Null THEN Null ELSE commonEarningsTtm(q, at.shares)
earned(q) == sumTrailingPeriods(yearIncome(q), pickNetIncome) # Null

perEarnings(query, Value(_, _)) ==
  LET q == resolveQuarterOrLatest(query, {"incomeStatement"})
      at == valuedAt(q, reportDate(incomeStatement(q), q))
      eps == epsThousands(q, at)
      value == Value(eps, at)
  IN IF q = Null THEN Null
     ELSE [quarter |-> q, at |-> at,
           result |-> calc(value, because(value, trailingReason(earned(q), Null \notin {eps, close(at)})))]

yieldOnPrice(eps, at) ==
  IF Null \in {eps, close(at)} THEN Null
  ELSE percentOfValue(eps, close(at) * at.shares.outstandingCommonShares)

resolvePeRatioInputs(query) == perEarnings(query, LAMBDA eps, at : priceMultiple(at, eps))
resolveEarningsYieldInputs(query) == perEarnings(query, yieldOnPrice)

perEarningsSlot(r) ==
  IF r = Null THEN noQuarterBatch({"ttm"})
  ELSE [ttm |-> ttmSlot(yearIncome(r.quarter), earned(r.quarter), r.result, r.at.main, r.quarter)]

perEarningsTrace(r) ==
  IF r = Null THEN notFound
  ELSE provenance(r.quarter, r.result.value,
         {closeEntry(r.at)} \union netIncomeEntries(yearIncome(r.quarter))
         \union commonShareEntries(r.quarter, r.at.shares, {"preferredDividendsTtmThousands"}))

computePeRatio(query) == perEarningsSlot(resolvePeRatioInputs(query))
computeEarningsYield(query) == perEarningsSlot(resolveEarningsYieldInputs(query))
getPeRatioProvenance(query) == perEarningsTrace(resolvePeRatioInputs(query))
getEarningsYieldProvenance(query) == perEarningsTrace(resolveEarningsYieldInputs(query))

\* Both multiples at once, rounded once.
grahamOf(at, eps, book) ==
  IF Null \in {close(at), eps, book} \/ eps = 0 \/ book = 0 THEN Null
  ELSE LET hundreds == (close(at) * at.shares.outstandingCommonShares) \div 100 IN rounded(hundreds * hundreds, eps * book)

resolveGrahamNumberInputs(query) ==
  LET q == resolveQuarterOrLatest(query, {"balanceSheet", "incomeStatement"})
      at == valuedAt(q, filedBoth(q))
      eps == epsThousands(q, at)
      book == IF at.shares = Null THEN Null ELSE commonBook(q, at.shares)
      value == grahamOf(at, eps, book)
  IN IF q = Null THEN Null
     ELSE [quarter |-> q, at |-> at,
           result |-> calc(value, because(value, trailingReason(earned(q), Null \notin {eps, book, close(at)})))]

computeGrahamNumber(query) ==
  slotsFrom(resolveGrahamNumberInputs(query), {"ttm"}, LAMBDA r :
    [ttm |-> periodSlot(r.at.main, r.quarter, "TTM", r.result)])

getGrahamNumberProvenance(query) ==
  tracedFrom(resolveGrahamNumberInputs(query), LAMBDA r :
    provenance(r.quarter, r.result.value,
      {closeEntry(r.at), equityEntry(r.quarter, balanceSheet(r.quarter))} \union netIncomeEntries(yearIncome(r.quarter))
      \union commonShareEntries(r.quarter, r.at.shares, {"preferredDividendsTtmThousands", "preferredClaimThousands"})))

-----------------------------------------------------------------------------
(* Price to earnings over the growth of the earnings.                      *)

PEG_GROWTH_YEARS == 5

\* The earnings per share of a whole year on the share basis of the last one.
annualEps(year, sum) ==
  LET end == QuarterEnd(4 * year + 3)
      shares == getOutstandingCommonShares(end)
  IN IF sum = Null \/ shares = Null THEN Null
     ELSE rounded(100 * perShare4(sum - shares.preferredDividendsTtmThousands, shares.outstandingCommonShares),
                  getShareSplitFactor(end, splitRestateBasis))

pegAnnualEps(year) == annualEps(year, sumTrailingPeriods(yearIncome(4 * year + 3), pickNetIncome))

\* Growth divides only where there is some.
pegOf(pe, current, prior) ==
  LET growth == IF Null \notin {current, prior} /\ current > 0 /\ prior > 0 THEN cagr(current, prior, PEG_GROWTH_YEARS) ELSE 0
  IN IF pe = Null \/ growth <= 0 THEN Null ELSE rounded(pe, growth)

resolvePegRatioInputs(query) ==
  LET q == resolveQuarterOrLatest(query, {"incomeStatement"})
      at == valuedAt(q, reportDate(incomeStatement(q), q))
      eps == epsThousands(q, at)
      year == annualYear(q)
      current == pegAnnualEps(year)
      prior == pegAnnualEps(year - PEG_GROWTH_YEARS)
      value == pegOf(priceMultiple(at, eps), current, prior)
  IN IF q = Null THEN Null
     ELSE [quarter |-> q, at |-> at, year |-> year,
           result |-> calc(value, because(value, trailingReason(earned(q), Null \notin {eps, close(at), current, prior})))]

computePegRatio(query) ==
  slotsFrom(resolvePegRatioInputs(query), {"ttm"}, LAMBDA r :
    [ttm |-> periodSlot(r.at.main, r.quarter, "TTM", r.result)])

\* Without all the earnings of the year its shares are not shown.
annualEntries(year) ==
  LET end == 4 * year + 3
      known == earned(end)
      shares == IF known THEN getOutstandingCommonShares(QuarterEnd(end)) ELSE Null
      factor == IF shares = Null THEN Null ELSE getShareSplitFactor(QuarterEnd(end), splitRestateBasis)
  IN netIncomeEntries(yearIncome(end)) \union commonShareEntries(end, shares, {"preferredDividendsTtmThousands"})
     \union {entry(end, "splitFactor", factor)}

getPegRatioProvenance(query) ==
  tracedFrom(resolvePegRatioInputs(query), LAMBDA r :
    provenance(r.quarter, r.result.value,
      {closeEntry(r.at)} \union netIncomeEntries(yearIncome(r.quarter))
      \union commonShareEntries(r.quarter, r.at.shares, {"preferredDividendsTtmThousands"})
      \union annualEntries(r.year) \union annualEntries(r.year - PEG_GROWTH_YEARS)))

-----------------------------------------------------------------------------
(* Cash.                                                                   *)

fcfSum(periods) ==
  sumTrailingPeriods(periods, LAMBDA r : plus(r.netCashFromOperatingActivities, r.capitalExpenditures))

cashEntries(periods) == entriesOfPeriods(periods, {"netCashFromOperatingActivities", "capitalExpenditures"})

\* A half year stands in for the quarter's own statement.
cashFiled(q) == LET periods == yearCash(q) IN reportDate(periods[Len(periods)].record, q)

resolveFcfYieldInputs(query) ==
  LET q == resolveQuarterOrLatest(query, {"cashFlowStatement"})
      periods == yearCash(q)
      at == valuedAt(q, cashFiled(q))
      fcf == fcfSum(periods)
      value == IF at.shares = Null \/ fcf = Null THEN Null ELSE yieldOnPrice(fcf, at)
  IN IF q = Null THEN Null
     ELSE [quarter |-> q, at |-> at, periods |-> periods, complete |-> fcf # Null,
           result |-> calc(value, because(value, trailingReason(fcf # Null, FALSE)))]

computeFcfYield(query) ==
  slotsFrom(resolveFcfYieldInputs(query), {"ttm"}, LAMBDA r :
    [ttm |-> ttmSlot(r.periods, r.complete, r.result, r.at.main, r.quarter)])

getFcfYieldProvenance(query) ==
  tracedFrom(resolveFcfYieldInputs(query), LAMBDA r :
    provenance(r.quarter, r.result.value,
      {closeEntry(r.at)} \union commonShareEntries(r.quarter, r.at.shares, {}) \union cashEntries(r.periods)))

computePFcf(query) ==
  Batch(query, {"cashFlowStatement"}, {"ttm"}, LAMBDA q :
    LET at == valuedAt(q, cashFiled(q))
        fcf == fcfSum(yearCash(q))
    IN [ttm |-> ttmSlot(yearCash(q), fcf # Null, multipleCalc(fcf, field(at.marketCap, "marketCap")), at.main, q)])

getPFcfProvenance(query) ==
  traced(query, {"cashFlowStatement"}, LAMBDA q :
    LET at == valuedAt(q, cashFiled(q))
    IN provenance(q, multipleCalc(fcfSum(yearCash(q)), field(at.marketCap, "marketCap")).value,
         {capEntry(q, at)} \union cashEntries(yearCash(q))))

computePsr(query) ==
  Batch(query, {"incomeStatement"}, {"ttm"}, LAMBDA q :
    LET at == valuedAt(q, reportDate(incomeStatement(q), q))
        revenue == sumOf(yearIncome(q), "operatingRevenue")
    IN [ttm |-> ttmSlot(yearIncome(q), revenue # Null, multipleCalc(revenue, field(at.marketCap, "marketCap")), at.main, q)])

getPsrProvenance(query) ==
  traced(query, {"incomeStatement"}, LAMBDA q :
    LET at == valuedAt(q, reportDate(incomeStatement(q), q))
        revenue == sumOf(yearIncome(q), "operatingRevenue")
    IN provenance(q, multipleCalc(revenue, field(at.marketCap, "marketCap")).value,
         {capEntry(q, at)} \union entriesOfPeriods(yearIncome(q), {"operatingRevenue"})))

getPriceToOcfProvenance(query) == tracedCashFlow(query, "priceToOcf", {"marketCap", "ocf"})

-----------------------------------------------------------------------------
(* Enterprise value.                                                       *)

enterpriseValue(b, marketCap) ==
  plus(field(marketCap, "marketCap"), times(1000, minus(interestBearingDebt(b), field(b, "cashAndEquivalents"))))

\* The multiple of a sum over the periods, for a resolver of the quarter.
evSlot(q, filed, periods, sum) ==
  LET at == valuedAt(q, filed)
  IN [ttm |-> ttmSlot(periods, sum # Null, multipleCalc(sum, enterpriseValue(balanceSheet(q), at.marketCap)), at.main, q)]

\* Mutant of evTrace: the cash is not taken off the enterprise value.
evTraceWithoutCash(q, filed, sum, entries) ==
  LET at == valuedAt(q, filed)
      b == balanceSheet(q)
      value == plus(field(at.marketCap, "marketCap"), times(1000, interestBearingDebt(b)))
  IN provenance(q, multipleCalc(sum, value).value,
       debtEntries(q, b) \union entriesOf(q, b, {"cashAndEquivalents"}) \union {capEntry(q, at)} \union entries)

evTrace(q, filed, sum, entries) ==
  LET at == valuedAt(q, filed)
      b == balanceSheet(q)
  IN provenance(q, multipleCalc(sum, enterpriseValue(b, at.marketCap)).value,
       debtEntries(q, b) \union entriesOf(q, b, {"cashAndEquivalents"}) \union {capEntry(q, at)} \union entries)

\* The periods of the two statements are taken pair by pair.
ebitdaSum(q) ==
  LET years == yearIncome(q)
      flows == yearCash(q)
      cash(i) == IF i \in DOMAIN flows THEN flows[i].record ELSE Null
  IN total([i \in DOMAIN years |->
              plus(ebit(years[i].record), plus(field(cash(i), "depreciation"), field(cash(i), "amortization")))])

filedAny(q) == firstOf(<<filedBoth(q), reportDate(cashFlowStatement(q), q)>>)
filedBalance(q) == reportDate(balanceSheet(q), q)
ebitSum(q) == sumTrailingPeriods(yearIncome(q), ebit)
ebitEntries(q) == entriesOfPeriods(yearIncome(q), {"profitBeforeTax", "financeCosts"})

computeEvEbitda(query) ==
  Batch(query, {"balanceSheet", "incomeStatement", "cashFlowStatement"}, {"ttm"},
        LAMBDA q : evSlot(q, filedAny(q), yearIncome(q), ebitdaSum(q)))
computeEvToEbit(query) ==
  Batch(query, {"balanceSheet", "incomeStatement"}, {"ttm"}, LAMBDA q : evSlot(q, filedBoth(q), yearIncome(q), ebitSum(q)))
computeEvToFcf(query) ==
  Batch(query, {"balanceSheet", "cashFlowStatement"}, {"ttm"},
        LAMBDA q : evSlot(q, filedBalance(q), yearCash(q), fcfSum(yearCash(q))))

getEvEbitdaProvenance(query) ==
  traced(query, {"balanceSheet", "incomeStatement", "cashFlowStatement"}, LAMBDA q :
    evTrace(q, filedAny(q), ebitdaSum(q),
            ebitEntries(q) \union entriesOfPeriods(yearCash(q), {"depreciation", "amortization"})))
getEvToEbitProvenance(query) ==
  traced(query, {"balanceSheet", "incomeStatement"}, LAMBDA q : evTrace(q, filedBoth(q), ebitSum(q), ebitEntries(q)))
getEvToFcfProvenance(query) ==
  traced(query, {"balanceSheet", "cashFlowStatement"}, LAMBDA q :
    evTrace(q, filedBalance(q), fcfSum(yearCash(q)), cashEntries(yearCash(q))))
getEvToOcfProvenance(query) == tracedCashFlow(query, "evToOcf", {"debt", "cash", "marketCap", "ocf"})
getEvToSalesProvenance(query) == tracedCashFlow(query, "evToSales", {"debt", "cash", "marketCap", "revenue"})

\* Earnings before interest and tax over the enterprise value.
resolveGreenblattEarningsYieldInputs(query) ==
  LET q == resolveQuarterOrLatest(query, {"balanceSheet", "incomeStatement"})
      at == valuedAt(q, filedBalance(q))
      ev == enterpriseValue(balanceSheet(q), at.marketCap)
      sum == ebitSum(q)
      value == IF Null \in {sum, ev} THEN Null ELSE percentOfValue(sum, ev)
  IN IF q = Null THEN Null
     ELSE [quarter |-> q, at |-> at, complete |-> sum # Null,
           result |-> calc(value, because(value, trailingReason(sum # Null, ev # Null)))]

computeGreenblattEarningsYield(query) ==
  slotsFrom(resolveGreenblattEarningsYieldInputs(query), {"ttm"}, LAMBDA r :
    [ttm |-> scoreSlot(r.at.main, yearIncome(r.quarter), r.complete, r.quarter, r.result)])

getGreenblattEarningsYieldProvenance(query) ==
  tracedFrom(resolveGreenblattEarningsYieldInputs(query), LAMBDA r :
    LET b == balanceSheet(r.quarter)
    IN provenance(r.quarter, r.result.value,
         debtEntries(r.quarter, b) \union entriesOf(r.quarter, b, {"cashAndEquivalents"})
         \union {capEntry(r.quarter, r.at)} \union ebitEntries(r.quarter)))
=============================================================================
