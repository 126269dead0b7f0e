-------------------------------- MODULE Growth --------------------------------
(***************************************************************************)
(* The metrics of application/metrics/growth and what each of them is      *)
(* traced to.                                                              *)
(***************************************************************************)
EXTENDS SharedFamilies

CONSTANT MonthlyRevenue \* entries [month, revenue, reportedOn], oldest first; the last two may be Null

ASSUME MonthlyRevenueAssumption == MonthlyRevenue \in Seq([month : Int, revenue : Nullable, reportedOn : Nullable])

\* A company has one row of a month.
ASSUME MonthsAssumption ==
  \A i, j \in DOMAIN MonthlyRevenue : i < j => MonthlyRevenue[i].month < MonthlyRevenue[j].month

-----------------------------------------------------------------------------
(* Against the same quarter of the year before.                            *)

calculateYoyGrowthRateBigint(current, prior) == calculateYoyGrowthRate(current, prior)

sameQuarterLastYear(q) == getPastNQuarters(q, 5)[1]

yoyOf(q, Amount(_)) == calculateYoyGrowthRateBigint(Amount(q), Amount(sameQuarterLastYear(q)))

\* A side that is missing is history that is missing, over a year.
yoy(current, prior) ==
  IF current = Null \/ prior = Null THEN insufficientHistory ELSE calculateYoyGrowthRateBigint(current, prior)

trailing(q, Pick(_)) == sumTrailingPeriods(resolveTrailingIncomeStatements(q).periods, Pick)

\* Slots of the quarter, of the trailing year and of the fiscal year.
yoySlots(q, Pick(_)) ==
  LET main == anchorOf(q, incomeStatement(q))
      context == resolveAnnualReportContext(q)
      of(row) == IF row = Null THEN Null ELSE Pick(row)
  IN [q |-> periodSlot(main, q, "Q", yoyOf(q, LAMBDA at : of(incomeStatement(at)))),
      ttm |-> periodSlot(main, q, "TTM", yoy(trailing(q, Pick), trailing(q - 4, Pick))),
      fy |-> annualReportSlot(context, yoy(IF context = Null THEN Null ELSE Pick(context.annual),
                                           of(getPriorAnnualIncomeStatement(context))))]

revenueOf(row) == row.operatingRevenue

computeRevenueGrowthRate(query) ==
  Batch(query, {"incomeStatement"}, {"q", "ttm", "fy"}, LAMBDA q : yoySlots(q, revenueOf))
computeNetIncomeGrowthRate(query) ==
  Batch(query, {"incomeStatement"}, {"q", "ttm", "fy"}, LAMBDA q : yoySlots(q, pickNetIncome))

computeOperatingIncomeGrowthRate(query) ==
  Batch(query, {"incomeStatement"}, {"q"}, LAMBDA q :
    [q |-> periodSlot(anchorOf(q, incomeStatement(q)), q, "Q", yoyOf(q, LAMBDA at : field(incomeStatement(at), "operatingIncome")))])

computeAssetGrowth(query) ==
  Batch(query, {"balanceSheet"}, {"q"}, LAMBDA q :
    [q |-> periodSlot(anchorOf(q, balanceSheet(q)), q, "Q", yoyOf(q, LAMBDA at : totalAssets(balanceSheet(at))))])

equityOf(q) == pickEquity(balanceSheet(q))

computeEquityGrowthRate(query) ==
  Batch(query, {"balanceSheet"}, {"q", "fy"}, LAMBDA q :
    LET context == resolveAnnualReportContext(q)
        close == IF context = Null THEN Null ELSE equityOf(4 * context.year + 3)
        open == IF context = Null THEN Null ELSE equityOf(4 * context.year - 1)
    IN [q |-> periodSlot(anchorOf(q, balanceSheet(q)), q, "Q", yoyOf(q, equityOf)),
        fy |-> annualReportSlot(context, calculateYoyGrowthRateBigint(close, open))])

\* The two quarters a growth rate is traced to.
tracedYoy(query, source, Amount(_), Entry(_)) ==
  traced(query, {source}, LAMBDA q :
    provenance(q, yoyOf(q, Amount).value, {Entry(q), Entry(sameQuarterLastYear(q))}))

tracedToIncome(query, name) ==
  tracedYoy(query, "incomeStatement", LAMBDA q : field(incomeStatement(q), name),
            LAMBDA q : entry(q, name, field(incomeStatement(q), name)))

getRevenueGrowthRateProvenance(query) == tracedToIncome(query, "operatingRevenue")
getOperatingIncomeGrowthRateProvenance(query) == tracedToIncome(query, "operatingIncome")
getNetIncomeGrowthRateProvenance(query) ==
  tracedYoy(query, "incomeStatement", LAMBDA q : pickNetIncome(incomeStatement(q)), LAMBDA q : netIncomeEntry(q, incomeStatement(q)))
getAssetGrowthProvenance(query) ==
  tracedYoy(query, "balanceSheet", LAMBDA q : totalAssets(balanceSheet(q)), LAMBDA q : entry(q, "totalAssets", totalAssets(balanceSheet(q))))
getEquityGrowthRateProvenance(query) ==
  tracedYoy(query, "balanceSheet", equityOf, LAMBDA q : equityEntry(q, balanceSheet(q)))

-----------------------------------------------------------------------------
(* Per share, the year before on the share basis of this quarter.          *)

splitFactorBetween(prior, current) ==
  IF prior = Null \/ current = Null THEN 100 ELSE getShareSplitFactor(prior, current)

restated(perShare, factor) == IF perShare = Null THEN Null ELSE rounded(perShare * 100, factor)

\* The two sides of a growth rate per share, from the statements Get answers.
perShareSides(q, Get(_), Thousands(_, _)) ==
  LET prior == sameQuarterLastYear(q)
      shares(at) == IF Get(at) = Null THEN Null ELSE getOutstandingCommonShares(QuarterEnd(at))
      perShare(at) == IF shares(at) = Null THEN Null ELSE perShare4(Thousands(Get(at), shares(at)), shares(at).outstandingCommonShares)
      factor == splitFactorBetween(reportDate(Get(prior), prior), reportDate(Get(q), q))
  IN [quarter |-> q, prior |-> prior, splitFactor |-> factor, currentShares |-> shares(q), priorShares |-> shares(prior),
      priorRow |-> Get(prior), priorValue |-> restated(perShare(prior), factor),
      growth |-> calculateYoyGrowthRate(perShare(q), restated(perShare(prior), factor))]

quarterEarnings(income, shares) == toCommonEarnings(pickNetIncome(income), shares.preferredDividendsTtmThousands, "Q")
commonEquity(balance, shares) == toCommonEquity(pickEquity(balance), shares.preferredClaimThousands)

resolveEpsGrowthRateInputs(query) ==
  LET q == resolveQuarterOrLatest(query, {"incomeStatement"})
  IN IF q = Null THEN Null ELSE perShareSides(q, incomeStatement, quarterEarnings)
resolveBvpsGrowthRateInputs(query) ==
  LET q == resolveQuarterOrLatest(query, {"balanceSheet"})
  IN IF q = Null THEN Null ELSE perShareSides(q, balanceSheet, commonEquity)

sidesSlot(r, Get(_), result) == [q |-> periodSlot(anchorOf(r.quarter, Get(r.quarter)), r.quarter, "Q", result)]

computeEpsGrowthRate(query) ==
  slotsFrom(resolveEpsGrowthRateInputs(query), {"q"}, LAMBDA r : sidesSlot(r, incomeStatement, r.growth))
computeBvpsGrowthRate(query) ==
  slotsFrom(resolveBvpsGrowthRateInputs(query), {"q"}, LAMBDA r : sidesSlot(r, balanceSheet, r.growth))

priorYearOf(r) ==
  IF r = Null THEN Null
  ELSE [sides |-> r, result |-> calcOr(IF r.priorValue = Null THEN Null ELSE rounded(r.priorValue, 100),
                                       IF r.priorRow = Null THEN "insufficient_history" ELSE "missing_input")]

resolveEpsPriorYear(query) == priorYearOf(resolveEpsGrowthRateInputs(query))

computeEpsPriorYear(query) ==
  slotsFrom(resolveEpsPriorYear(query), {"q"}, LAMBDA r : sidesSlot(r.sides, incomeStatement, r.result))

priorSideEntries(r, names) ==
  commonShareEntries(r.prior, r.priorShares, names) \union {entry(r.quarter, "splitFactor", r.splitFactor)}
bothSidesEntries(r, names) == commonShareEntries(r.quarter, r.currentShares, names) \union priorSideEntries(r, names)

getEpsGrowthRateProvenance(query) ==
  tracedFrom(resolveEpsGrowthRateInputs(query), LAMBDA r :
    provenance(r.quarter, r.growth.value,
      {netIncomeEntry(r.quarter, incomeStatement(r.quarter)), netIncomeEntry(r.prior, incomeStatement(r.prior))}
      \union bothSidesEntries(r, {"preferredDividendsTtmThousands"})))
getBvpsGrowthRateProvenance(query) ==
  tracedFrom(resolveBvpsGrowthRateInputs(query), LAMBDA r :
    provenance(r.quarter, r.growth.value,
      {equityEntry(r.quarter, balanceSheet(r.quarter)), equityEntry(r.prior, balanceSheet(r.prior))}
      \union bothSidesEntries(r, {"preferredClaimThousands"})))
getEpsPriorYearProvenance(query) ==
  tracedFrom(resolveEpsPriorYear(query), LAMBDA r :
    provenance(r.sides.quarter, r.result.value,
      {netIncomeEntry(r.sides.prior, r.sides.priorRow)} \union priorSideEntries(r.sides, {"preferredDividendsTtmThousands"})))

-----------------------------------------------------------------------------
(* Over several years.                                                     *)

EPS_CAGR_YEARS == {3, 5, 8}
REVENUE_CAGR_YEARS == {3, 5, 8}

yearPeriods(year) == resolveTrailingIncomeStatements(4 * year + 3).periods

\* On the share basis of today, in ten-thousandths.
getAnnualEps(year) ==
  LET sum == sumTrailingPeriods(yearPeriods(year), pickNetIncome)
      filed == QuarterEnd(4 * year + 3)
      shares == getOutstandingCommonShares(filed)
  IN IF sum = Null \/ shares = Null THEN Null
     ELSE restated(perShare4(sum - shares.preferredDividendsTtmThousands, shares.outstandingCommonShares),
                   getShareSplitFactor(filed, splitRestateBasis))

getAnnualRevenue(year) == sumOf(yearPeriods(year), "operatingRevenue")

\* The slots of a family, one for each number of years.
cagrSlots(query, Years, Annual(_), Defined(_, _)) ==
  Batch(query, {"incomeStatement"}, Years, LAMBDA q :
    LET current == Annual(annualYear(q))
        of(years) == LET prior == Annual(annualYear(q) - years)
                         value == IF Defined(current, prior) THEN cagr(current, prior, years) ELSE Null
                     IN calc(value, because(value, IF Null \in {current, prior} THEN "insufficient_history"
                                                   ELSE "zero_or_negative_denominator"))
    IN [years \in Years |-> periodSlot(anchorOf(q, incomeStatement(q)), q, "FY", of(years))])

bothPositive(current, prior) == Null \notin {current, prior} /\ current > 0 /\ prior > 0
priorPositive(current, prior) == Null \notin {current, prior} /\ prior > 0

computeEpsCagrFamily(query) == cagrSlots(query, EPS_CAGR_YEARS, getAnnualEps, bothPositive)
computeRevenueCagrFamily(query) == cagrSlots(query, REVENUE_CAGR_YEARS, getAnnualRevenue, priorPositive)

tracedCagr(years, query, Annual(_), Defined(_, _), Entries(_)) ==
  traced(query, {"incomeStatement"}, LAMBDA q :
    LET year == annualYear(q)
        value == IF Defined(Annual(year), Annual(year - years)) THEN cagr(Annual(year), Annual(year - years), years) ELSE Null
    IN provenance(q, value, Entries(year) \union Entries(year - years)))

getEpsCagrProvenanceForYears(years, query) ==
  tracedCagr(years, query, getAnnualEps, bothPositive, LAMBDA year :
    LET complete == sumTrailingPeriods(yearPeriods(year), pickNetIncome) # Null
        shares == IF complete THEN getOutstandingCommonShares(QuarterEnd(4 * year + 3)) ELSE Null
    IN netIncomeEntries(yearPeriods(year)) \union entriesOf(4 * year + 3, shares, {"outstandingCommonShares"}))

getRevenueCagrProvenanceForYears(years, query) ==
  tracedCagr(years, query, getAnnualRevenue, priorPositive,
             LAMBDA year : entriesOfPeriods(yearPeriods(year), {"operatingRevenue"}))

LOOKBACK_QUARTERS == 12

\* The first of the quarters that earned most, or Null when one is missing.
recordHigh(priors, Earned(_)) ==
  IF \E q \in priors : Earned(q) = Null THEN Null
  ELSE CHOOSE q \in priors : \A p \in priors : Earned(p) <= Earned(q) /\ (p < q => Earned(p) < Earned(q))

earningsToHigh(q, current, high, highest) ==
  [quarter |-> q, recordHighQuarter |-> high,
   result |-> calcOr(IF Null \notin {current, highest} /\ highest > 0 THEN toPercent(current, highest) ELSE Null,
                     IF current = Null THEN "missing_input" ELSE IF high = Null THEN "insufficient_history"
                     ELSE "zero_or_negative_denominator")]

earningsOf(q) == pickNetIncome(incomeStatement(q))

earningsToHighOf(q, high) == earningsToHigh(q, earningsOf(q), high, IF high = Null THEN Null ELSE earningsOf(high))

earningsToRecordHighAt(q) ==
  IF q = Null THEN Null ELSE earningsToHighOf(q, recordHigh(q - LOOKBACK_QUARTERS..q - 1, earningsOf))

resolveEarningsToRecordHighInputs(query) == earningsToRecordHighAt(resolveQuarterOrLatest(query, {"incomeStatement"}))

computeEarningsToRecordHigh(query) ==
  slotsFrom(resolveEarningsToRecordHighInputs(query), {"q"}, LAMBDA r : sidesSlot(r, incomeStatement, r.result))

getEarningsToRecordHighProvenance(query) ==
  tracedFrom(resolveEarningsToRecordHighInputs(query), LAMBDA r :
    provenance(r.quarter, r.result.value,
      {netIncomeEntry(r.quarter, incomeStatement(r.quarter)), netIncomeEntry(r.recordHighQuarter, incomeStatement(r.recordHighQuarter))}))

-----------------------------------------------------------------------------
(* Research.                                                               *)

\* The statement of a period that may not be there.
recordAt(periods, i) == IF i \in DOMAIN periods THEN periods[i].record ELSE Null

researchQuarters(q) == [i \in 1..4 |-> [quarter |-> getPastNQuarters(q, 4)[i], research |-> getResearchAndDevelopmentExpense(getPastNQuarters(q, 4)[i])]]
researchTtm(q) == total([i \in 1..4 |-> researchQuarters(q)[i].research])
researchEntries(q) == {entry(r.quarter, "researchAndDevelopmentExpense", r.research) : r \in {researchQuarters(q)[i] : i \in 1..4}}

priceToResearch(q, main, marketCap, research) ==
  [quarter |-> q, mainAnchor |-> main, marketCap |-> marketCap,
   result |-> calcOr(multipleOfThousands(field(marketCap, "marketCap"), research),
                     IF research = Null THEN "insufficient_history" ELSE determineNullReason(marketCap, research))]
priceToResearchOn(q, main) == priceToResearch(q, main, IF main = Null THEN Null ELSE getMarketCap(main.date), researchTtm(q))
priceToResearchAt(q) == IF q = Null THEN Null ELSE priceToResearchOn(q, anchorOf(q, incomeStatement(q)))

resolvePriceToResearchRatioInputs(query) == priceToResearchAt(resolveQuarterOrLatest(query, {"incomeStatement"}))

computePriceToResearchRatio(query) ==
  slotsFrom(resolvePriceToResearchRatioInputs(query), {"ttm"}, LAMBDA r :
    [ttm |-> periodSlot(r.mainAnchor, r.quarter, "TTM", r.result)])

getPriceToResearchRatioProvenance(query) ==
  tracedFrom(resolvePriceToResearchRatioInputs(query), LAMBDA r :
    provenance(r.quarter, r.result.value,
      {entry(r.quarter, "marketCap", field(r.marketCap, "marketCap"))} \union researchEntries(r.quarter)))

researchAndRevenue(q) ==
  LET recent == getPastNQuarters(q, 4)
      both(Amount(_)) == total([i \in 1..4 |->
        IF Null \in {getResearchAndDevelopmentExpense(recent[i]), field(incomeStatement(recent[i]), "operatingRevenue")}
        THEN Null ELSE Amount(recent[i])])
  IN percentCalc(both(getResearchAndDevelopmentExpense), both(LAMBDA at : incomeStatement(at).operatingRevenue))

computeRdIntensity(query) ==
  Batch(query, {"incomeStatement"}, {"q", "ttm"}, LAMBDA q :
    LET year == researchAndRevenue(q)
        recent == [i \in 1..4 |-> period(q - 4 + i, FALSE, incomeStatement(q - 4 + i))]
    IN [q |-> periodSlot(anchorOf(q, incomeStatement(q)), q, "Q",
               percentCalc(getResearchAndDevelopmentExpense(q), field(incomeStatement(q), "operatingRevenue"))),
        ttm |-> ttmSlot(recent, year.nullReason # "missing_input", year, anchorOf(q, incomeStatement(q)), q)])

getRdIntensityProvenance(query) ==
  traced(query, {"incomeStatement"}, LAMBDA q :
    provenance(q, researchAndRevenue(q).value,
      researchEntries(q) \union UNION {entriesOf(at, incomeStatement(at), {"operatingRevenue"}) : at \in q - 3..q}))

-----------------------------------------------------------------------------
(* Growth and cash flow together; growth a company can sustain.            *)

ruleOf40Value(revenue, free, prior) ==
  plus(toPercent(revenue - prior, abs(prior)), toPercent(free, revenue))

ruleOf40Of(q, income, flows, before, revenue, free, prior) ==
  [quarter |-> q, currentIncome |-> income, currentCashFlow |-> flows, priorIncome |-> before,
   ttmComplete |-> Null \notin {revenue, prior},
   ttm |-> IF Null \in {revenue, prior} THEN insufficientHistory
           ELSE calcOr(ruleOf40Value(revenue, free, prior), determineNullReason(revenue, prior))]

\* Of the periods that have both a revenue and a free cash flow.
pairedWithCash(income, flows, Amount(_, _)) ==
  total([i \in DOMAIN income |->
    IF Null \in {field(income[i].record, "operatingRevenue"), freeCashFlow(recordAt(flows, i))} THEN Null
    ELSE Amount(income[i].record, freeCashFlow(recordAt(flows, i)))])

ruleOf40Over(q, income, flows, before) ==
  ruleOf40Of(q, income, flows, before, pairedWithCash(income, flows, LAMBDA row, free : row.operatingRevenue),
             pairedWithCash(income, flows, LAMBDA row, free : free), sumOf(before, "operatingRevenue"))

ruleOf40At(q) ==
  IF ~isSoftwareOrCloudIndustryCompany \/ q = Null THEN Null
  ELSE ruleOf40Over(q, resolveTrailingIncomeStatements(q).periods, resolveTrailingCashFlowStatements(q).periods,
                    resolveTrailingIncomeStatements(q - 4).periods)

resolveRuleOf40Inputs(query) == ruleOf40At(resolveQuarterOrLatest(query, {"incomeStatement", "cashFlowStatement"}))

computeRuleOf40(query) ==
  slotsFrom(resolveRuleOf40Inputs(query), {"ttm"}, LAMBDA r :
    [ttm |-> ttmSlot(r.currentIncome, r.ttmComplete, r.ttm, anchorOf(r.quarter, incomeStatement(r.quarter)), r.quarter)])

getRuleOf40Provenance(query) ==
  tracedFrom(resolveRuleOf40Inputs(query), LAMBDA r :
    provenance(r.quarter, r.ttm.value,
      entriesOfPeriods(r.currentIncome, {"operatingRevenue"}) \union entriesOfPeriods(r.priorIncome, {"operatingRevenue"})
      \union entriesOfPeriods(r.currentCashFlow, {"netCashFromOperatingActivities", "capitalExpenditures"})))

\* A quarter that paid no dividend counts as zero, one never filed as history.
pairedWithDividends(income, flows, Amount(_, _)) ==
  total([i \in DOMAIN income |->
    IF Null \in {pickNetIncome(income[i].record), recordAt(flows, i)} THEN Null
    ELSE Amount(income[i].record, recordAt(flows, i))])

sustained(roe, payout) == IF Null \in {roe, payout} THEN Null ELSE rounded(roe * (10000 - payout), 10000)
payoutOf(earned, paid) == IF earned = Null \/ earned <= 0 THEN Null ELSE toPercent(abs(paid), earned)

sgrOf(q, balances, income, flows, earned, paid, average) ==
  [quarter |-> q, balances |-> balances, income |-> income, flows |-> flows, ttmComplete |-> earned # Null,
   sgr |-> calcOr(sustained(percentOf(earned, average), payoutOf(earned, paid)),
                  IF earned # Null /\ (average # Null \/ equityOf(q) = Null) THEN "missing_input" ELSE "insufficient_history")]

sgrOver(q, balances, income, flows) ==
  sgrOf(q, balances, income, flows, pairedWithDividends(income, flows, LAMBDA row, flow : pickNetIncome(row)),
        pairedWithDividends(income, flows, LAMBDA row, flow : orZero(flow.dividendsPaid)), equityAvgTtm(balances))

sgrAt(q) ==
  IF q = Null THEN Null
  ELSE sgrOver(q, resolveAverageBalances(q), resolveTrailingIncomeStatements(q).periods, resolveTrailingCashFlowStatements(q).periods)

resolveSgrData(query) == sgrAt(resolveQuarterOrLatest(query, {"balanceSheet", "incomeStatement", "cashFlowStatement"}))

computeSgr(query) ==
  slotsFrom(resolveSgrData(query), {"ttm"}, LAMBDA r :
    [ttm |-> ttmSlot(r.income, r.ttmComplete, r.sgr, anchorOf(r.quarter, balanceSheet(r.quarter)), r.quarter)])

getSgrProvenance(query) ==
  tracedFrom(resolveSgrData(query), LAMBDA r :
    provenance(r.quarter, r.sgr.value,
      averageBalanceEntries(r.balances, LAMBDA at, b : {equityEntry(at, b)})
      \union {averagedDenominatorEntry(r.balances, "averageEquity", equityAvgTtm(r.balances))}
      \union netIncomeEntries(r.income) \union entriesOfPeriods(r.flows, {"dividendsPaid"})))

-----------------------------------------------------------------------------
(* Surprises, in tenths of a standard deviation.                           *)

MaxDeviations == 50 \* in tenths; a larger surprise is not told apart

\* n times the sum of the squared differences from the mean.
spread(values) ==
  LET n == Len(values)
      sum == total(values)
  IN total([i \in DOMAIN values |-> (n * values[i] - sum) * (n * values[i] - sum)])

\* deviation / standard deviation of the values, cut to a tenth; both are n times what they stand for.
standardized(deviation, values) ==
  LET n == Len(values)
      squares == spread(values)
      reached(k) == k * k * squares <= 100 * deviation * deviation * (n - 1)
      size == Max({k \in 0..MaxDeviations : reached(k)})
  IN IF deviation < 0 THEN -size ELSE size

SIGMA_WINDOW == 8
QUARTERS_OF_EARNINGS_NEEDED == SIGMA_WINDOW + 4 + 1

sampleStdDev(values) == spread(values)

earningsChange(q) == minus(earningsOf(q), earningsOf(q - 4))

surprise(change, window) ==
  IF change = Null \/ total(window) = Null THEN insufficientHistory
  ELSE IF sampleStdDev(window) = 0 THEN calc(Null, "zero_or_negative_denominator")
  ELSE calc(standardized(SIGMA_WINDOW * change, window), Null)

sueAt(q) ==
  IF q = Null THEN Null
  ELSE [quarter |-> q, result |-> surprise(earningsChange(q), [k \in 1..SIGMA_WINDOW |-> earningsChange(q - k)])]

resolveSueInputs(query) == sueAt(resolveQuarterOrLatest(query, {"incomeStatement"}))

computeSue(query) ==
  slotsFrom(resolveSueInputs(query), {"q"}, LAMBDA r : sidesSlot(r, incomeStatement, r.result))

getSueProvenance(query) ==
  tracedFrom(resolveSueInputs(query), LAMBDA r :
    provenance(r.quarter, r.result.value,
      {netIncomeEntry(at, incomeStatement(at)) : at \in {r.quarter, sameQuarterLastYear(r.quarter)}}))

-----------------------------------------------------------------------------
(* Monthly revenue.  A month is an integer, and ends before the tenth day  *)
(* of the next.                                                            *)

SUS_SEASONAL_LAG == 12
SUS_DIFF_COUNT == 8
SUS_WINDOW_MONTHS == SUS_SEASONAL_LAG + SUS_DIFF_COUNT + 1
REVENUE_YOY_3M_MONTHS == 3
REVENUE_YOY_3M_WINDOW_MONTHS == 12 + REVENUE_YOY_3M_MONTHS

statutoryDeadline(month) == 10 * (month + 1) + 3

monthsUpTo(target, months) ==
  LET start == target - (months - 1) IN IF start >= 1 THEN SubSeq(MonthlyRevenue, start, target) ELSE <<>>

targetMonths(month) ==
  LET n == Len(MonthlyRevenue)
  IN IF month = Null THEN {n} \ {0} ELSE {i \in 1..n : MonthlyRevenue[i].month = month}

monthWindow(target, window, months) ==
  [target |-> MonthlyRevenue[target], window |-> window,
   isContiguous |-> /\ Len(window) = months
                    /\ \A i \in 2..Len(window) : window[i].month = window[i - 1].month + 1]

resolveContiguousMonthWindow(month, months) ==
  LET targets == targetMonths(month)
      target == CHOOSE i \in targets : \A j \in targets : i <= j
  IN IF targets = {} THEN Null ELSE monthWindow(target, monthsUpTo(target, months), months)

resolveSusWindow(month) == resolveContiguousMonthWindow(month, SUS_WINDOW_MONTHS)
resolveRevenueYoy3mWindow(month) == resolveContiguousMonthWindow(month, REVENUE_YOY_3M_WINDOW_MONTHS)

calculateSus(revenues) ==
  LET t == Len(revenues)
      change(j) == revenues[t - j] - revenues[t - j - SUS_SEASONAL_LAG]
      diffs == [j \in 1..SUS_DIFF_COUNT |-> change(j)]
  IN IF Len(revenues) # SUS_WINDOW_MONTHS \/ total(revenues) = Null THEN insufficientHistory
     ELSE IF spread(diffs) = 0 THEN calc(Null, "zero_or_negative_denominator")
     ELSE calc(standardized(SUS_DIFF_COUNT * change(0) - total(diffs), diffs), Null)

calculateRevenueYoy3m(revenues) ==
  LET n == Len(revenues)
  IN IF n # REVENUE_YOY_3M_WINDOW_MONTHS \/ total(revenues) = Null THEN insufficientHistory
     ELSE calculateYoyGrowthRate(total(SubSeq(revenues, n - REVENUE_YOY_3M_MONTHS + 1, n)),
                                 total(SubSeq(revenues, 1, REVENUE_YOY_3M_MONTHS)))

revenuesOf(window) == [i \in DOMAIN window |-> window[i].revenue]

monthlySlot(resolved, Calculate(_)) ==
  IF resolved = Null THEN skip("skipped_no_quarter")
  ELSE LET target == resolved.target
           known == [date |-> orElse(target.reportedOn, statutoryDeadline(target.month)), isFallback |-> target.reportedOn = Null]
       IN periodSlot(known, target.month, "M", IF resolved.isContiguous THEN Calculate(revenuesOf(resolved.window)) ELSE insufficientHistory)

computeSus(month) == [sus |-> monthlySlot(resolveSusWindow(month), calculateSus)]
computeRevenueYoy3m(month) == [revenueYoy3m |-> monthlySlot(resolveRevenueYoy3mWindow(month), calculateRevenueYoy3m)]

\* The last month up to the one asked for.
monthAsOf(month) ==
  LET upTo == {m \in {MonthlyRevenue[i].month : i \in DOMAIN MonthlyRevenue} : month = Null \/ m <= month}
  IN IF upTo = {} THEN Null ELSE Max(upTo)

tracedMonths(month, Window(_), Calculate(_), Used(_)) ==
  LET at == monthAsOf(month)
      resolved == Window(at)
  IN IF at = Null \/ resolved = Null THEN notFound
     ELSE provenance(resolved.target.month, IF resolved.isContiguous THEN Calculate(revenuesOf(resolved.window)).value ELSE Null,
            {entry(e.month, "currentMonthRevenue", e.revenue) : e \in {resolved.window[i] : i \in Used(Len(resolved.window))}})

getSusProvenance(month) == tracedMonths(month, resolveSusWindow, calculateSus, LAMBDA n : 1..n)
getRevenueYoy3mProvenance(month) ==
  tracedMonths(month, resolveRevenueYoy3mWindow, calculateRevenueYoy3m, LAMBDA n :
    IF n = REVENUE_YOY_3M_WINDOW_MONTHS THEN 1..REVENUE_YOY_3M_MONTHS \union (n - REVENUE_YOY_3M_MONTHS + 1)..n ELSE 1..n)

-----------------------------------------------------------------------------
(* Three margins above those of the quarter and of the year before.        *)

threeMargins == {"gross", "operating", "net"}

marginsOrNull(found) == IF \E k \in threeMargins : isComputationSkip(found[k]) THEN Null ELSE found
marginsOf(margins, dupont) ==
  marginsOrNull([gross |-> margins.grossMarginQ, operating |-> margins.operatingMarginQ, net |-> dupont[<<"netProfitMargin", "q">>]])

getMarginsAt(q) == marginsOf(computeMarginsFamily(q), computeDupontFamily(q))

risingBoth(current, qoqBase, yoyBase) ==
  IF Null \in {current.value, qoqBase.value, yoyBase.value} THEN "unknown"
  ELSE IF current.value > qoqBase.value /\ current.value > yoyBase.value THEN "rising" ELSE "not rising"

risingScore(signals) ==
  IF \E k \in threeMargins : signals[k] = "unknown" THEN Null ELSE Cardinality({k \in threeMargins : signals[k] = "rising"})

\* bases: the margins of the quarter before, and of the year before.
marginsRising(current, bases) ==
  IF current = Null THEN Null
  ELSE [current |-> current, qoqBase |-> bases[1], yoyBase |-> bases[2],
        result |-> IF Null \in {bases[1], bases[2]} THEN insufficientHistory
                   ELSE missingCalc(risingScore([k \in threeMargins |-> risingBoth(current[k], bases[1][k], bases[2][k])]))]

threeMarginsRisingAt(q) ==
  IF q = Null THEN Null
  ELSE [quarter |-> q,
        resolution |-> marginsRising(getMarginsAt(q), [i \in 1..2 |-> getMarginsAt(<<q - 1, sameQuarterLastYear(q)>>[i])])]

resolveThreeMarginsRisingInputs(query) == threeMarginsRisingAt(resolveQuarterOrLatest(query, {"incomeStatement"}))

anchorOfSlots(slots) ==
  [date |-> Max({s.knowledgeDate : s \in slots}), isFallback |-> \E s \in slots : s.isFallback]

computeThreeMarginsRising(query) ==
  slotsFrom(resolveThreeMarginsRisingInputs(query), {"q"}, LAMBDA r :
    [q |-> IF r.resolution = Null THEN skip("skipped_no_knowledge_date")
           ELSE periodSlot(anchorOfSlots({r.resolution.current[k] : k \in threeMargins}), r.quarter, "Q", r.resolution.result)])

marginEntries(q, margins) == {entry(q, k, IF margins = Null THEN Null ELSE margins[k].value) : k \in threeMargins}

getThreeMarginsRisingProvenance(query) ==
  tracedFrom(resolveThreeMarginsRisingInputs(query), LAMBDA r :
    tracedFrom(r.resolution, LAMBDA margins :
      provenance(r.quarter, margins.result.value,
        marginEntries(r.quarter, margins.current) \union marginEntries(r.quarter - 1, margins.qoqBase)
        \union marginEntries(sameQuarterLastYear(r.quarter), margins.yoyBase))))
=============================================================================
