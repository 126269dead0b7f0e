------------------------------- MODULE Quality -------------------------------
(***************************************************************************)
(* The metrics of application/metrics/quality and what each of them is     *)
(* traced to.                                                              *)
(***************************************************************************)
EXTENDS SharedFamilies

-----------------------------------------------------------------------------
(* A trailing year of two statements, taken period by period.              *)

pairedSum(periods, flows, Amount(_, _)) ==
  total([i \in DOMAIN periods |->
    IF periods[i].record = Null \/ flows[i].record = Null THEN Null ELSE Amount(periods[i].record, flows[i].record)])

incomeOf(q) == resolveTrailingIncomeStatements(q).periods
flowsOf(q) == resolveTrailingCashFlowStatements(q).periods

calculateFcf(operatingCashFlow, capitalExpenditures) == plus(operatingCashFlow, capitalExpenditures)
fcfOf(flow) == calculateFcf(field(flow, "netCashFromOperatingActivities"), field(flow, "capitalExpenditures"))

accrualsOf(income, flow) ==
  minus(minus(pickNetIncome(income), field(flow, "netCashFromOperatingActivities")), field(flow, "netCashFromInvestingActivities"))

resolveAccrualsRatioInputs(query) ==
  LET q == resolveQuarterOrLatest(query, {"balanceSheet", "incomeStatement", "cashFlowStatement"})
      b == balanceSheet(q)
      income == incomeStatement(q)
      flow == cashFlowStatement(q)
      balances == resolveAverageBalances(q)
      periods == incomeOf(q)
      sum == pairedSum(periods, flowsOf(q), accrualsOf)
      average == assetsAvgTtm(balances)
      value == percentOf(sum, average)
  IN IF q = Null THEN Null
     ELSE [quarter |-> q, totalAssets |-> totalAssets(b), periods |-> periods, flows |-> flowsOf(q), complete |-> sum # Null,
           mainAnchor |-> resolveKnowledgeDate({<<q, firstOf(<<reportDate(b, q), reportDate(income, q), reportDate(flow, q)>>)>>}),
           quarterly |-> averagedCalc(accrualsOf(income, flow), assetsAvgQ(balances), totalAssets(b)),
           ttm |-> calc(value, because(value,
             IF sum = Null \/ (average = Null /\ totalAssets(b) # Null) THEN "insufficient_history"
             ELSE determineNullReason(sum, orElse(average, totalAssets(b)))))]

computeAccrualsRatio(query) ==
  slotsFrom(resolveAccrualsRatioInputs(query), {"q", "ttm"}, LAMBDA r :
    [q |-> periodSlot(r.mainAnchor, r.quarter, "Q", r.quarterly),
     ttm |-> ttmSlot(r.periods, r.complete, r.ttm, r.mainAnchor, r.quarter)])

\* The assets shown are those of the quarter; the ratio is over their average.
getAccrualsRatioProvenance(query) ==
  tracedFrom(resolveAccrualsRatioInputs(query), LAMBDA r :
    provenance(r.quarter, r.ttm.value,
      netIncomeEntries(r.periods)
      \union entriesOfPeriods(r.flows, {"netCashFromOperatingActivities", "netCashFromInvestingActivities"})
      \union {entry(r.quarter, "totalAssets", r.totalAssets)}))

resolveCashFlowPerShareInputs(query) ==
  LET q == resolveQuarterOrLatest(query, {"cashFlowStatement"})
      flow == cashFlowStatement(q)
      filed == resolveCashFlowReportDate(q)
      shares == IF filed = Null THEN Null ELSE getOutstandingCommonShares(filed)
      count == field(shares, "outstandingCommonShares")
      flows == flowsOf(q)
      complete == allFiled(flows, {"netCashFromOperatingActivities", "capitalExpenditures", "depreciation", "amortization"})
      depreciated(row) == plus(field(row, "depreciation"), field(row, "amortization"))
      amounts == [ocfPerShare |-> <<field(flow, "netCashFromOperatingActivities"), sumOf(flows, "netCashFromOperatingActivities")>>,
                  fcfPerShare |-> <<fcfOf(flow), sumTrailingPeriods(flows, fcfOf)>>,
                  depreciationAmortisationPerShare |-> <<depreciated(flow), sumTrailingPeriods(flows, depreciated)>>]
  IN IF q = Null THEN Null
     ELSE [quarter |-> q, filedOn |-> filed, shares |-> shares, flows |-> flows, complete |-> complete,
           quarterly |-> [m \in DOMAIN amounts |-> perShareCalc(amounts[m][1], count)],
           ttm |-> [m \in DOMAIN amounts |-> IF complete THEN perShareCalc(amounts[m][2], count) ELSE insufficientHistory]]

cashFlowPerShareMetrics == {"ocfPerShare", "fcfPerShare", "depreciationAmortisationPerShare"}

computeCashFlowPerShare(query) ==
  slotsFrom(resolveCashFlowPerShareInputs(query), cashFlowPerShareMetrics \X {"q", "ttm"}, LAMBDA r :
    LET main == resolveKnowledgeDate({<<r.quarter, r.filedOn>>})
    IN [k \in cashFlowPerShareMetrics \X {"q", "ttm"} |->
          IF k[2] = "q" THEN periodSlot(main, r.quarter, "Q", r.quarterly[k[1]])
          ELSE ttmSlot(r.flows, r.complete, r.ttm[k[1]], main, r.quarter)])

cashFlowPerShareEntries(r, names) == commonShareEntries(r.quarter, r.shares, {}) \union entriesOfPeriods(r.flows, names)

tracedPerShare(query, metric, names) ==
  tracedFrom(resolveCashFlowPerShareInputs(query), LAMBDA r :
    provenance(r.quarter, r.ttm[metric].value, cashFlowPerShareEntries(r, names)))

getOcfPerShareProvenance(query) == tracedPerShare(query, "ocfPerShare", {"netCashFromOperatingActivities"})
getFcfPerShareProvenance(query) == tracedPerShare(query, "fcfPerShare", {"netCashFromOperatingActivities", "capitalExpenditures"})
getDepreciationAmortisationPerShareProvenance(query) ==
  tracedPerShare(query, "depreciationAmortisationPerShare", {"depreciation", "amortization"})

getFcfConversionRateProvenance(query) == tracedCashFlow(query, "fcfConversionRate", {"netIncome", "ocf", "capex"})
getOcfMarginProvenance(query) == tracedCashFlow(query, "ocfMargin", {"revenue", "ocf"})

fcfMarginOf(q) == 
  LET of(income, flow) == IF income.operatingRevenue = Null THEN Null ELSE fcfOf(flow)
      fcf == pairedSum(incomeOf(q), flowsOf(q), of)
  IN percentCalc(fcf, IF fcf = Null THEN Null ELSE sumOf(incomeOf(q), "operatingRevenue"))

fcfMarginFiled(q) ==
  \A i \in DOMAIN incomeOf(q) :
    /\ field(incomeOf(q)[i].record, "operatingRevenue") # Null
    /\ \A name \in {"netCashFromOperatingActivities", "capitalExpenditures"} : field(flowsOf(q)[i].record, name) # Null

computeFcfMargin(query) ==
  Batch(query, {"incomeStatement", "cashFlowStatement"}, {"ttm"}, LAMBDA q :
    [ttm |-> ttmSlot(incomeOf(q), fcfMarginFiled(q), fcfMarginOf(q), anchorOf(q, incomeStatement(q)), q)])

getFcfMarginProvenance(query) ==
  traced(query, {"incomeStatement", "cashFlowStatement"}, LAMBDA q :
    provenance(q, fcfMarginOf(q).value,
      entriesOfPeriods(incomeOf(q), {"operatingRevenue"})
      \union entriesOfPeriods(flowsOf(q), {"netCashFromOperatingActivities", "capitalExpenditures"})))

\* Both sums stop at the first period that lacks either amount.
ocfAndNetIncome(q) ==
  LET both(pick(_, _)) == pairedSum(incomeOf(q), flowsOf(q), LAMBDA i, f :
        IF Null \in {pickNetIncome(i), f.netCashFromOperatingActivities} THEN Null ELSE pick(i, f))
  IN <<both(LAMBDA i, f : f.netCashFromOperatingActivities), both(LAMBDA i, f : pickNetIncome(i))>>

computeOcfToNetIncome(query) ==
  Batch(query, {"incomeStatement", "cashFlowStatement"}, {"q", "ttm"}, LAMBDA q :
    LET income == incomeStatement(q)
        flow == cashFlowStatement(q)
        main == resolveKnowledgeDate({<<q, firstOf(<<reportDate(income, q), reportDate(flow, q)>>)>>})
        sums == ocfAndNetIncome(q)
    IN [q |-> periodSlot(main, q, "Q", ratioCalc(field(flow, "netCashFromOperatingActivities"), pickNetIncome(income))),
        ttm |-> ttmSlot(incomeOf(q), sums[1] # Null, ratioCalc(sums[1], sums[2]), main, q)])

getOcfToNetIncomeProvenance(query) ==
  traced(query, {"incomeStatement", "cashFlowStatement"}, LAMBDA q :
    LET sums == ocfAndNetIncome(q)
    IN provenance(q, ratioOf(sums[1], sums[2]),
                  netIncomeEntries(incomeOf(q)) \union entriesOfPeriods(flowsOf(q), {"netCashFromOperatingActivities"})))

\* Net income, what was written off, less what was invested.
ownerEarningsOf(income, flow) ==
  plus(plus(pickNetIncome(income), field(flow, "depreciation")), plus(field(flow, "amortization"), field(flow, "capitalExpenditures")))

reportedShares(q) ==
  IF incomeStatement(q) = Null THEN sharesAt(cashFlowStatement(q), q) ELSE sharesAt(incomeStatement(q), q)

computeOwnerEarnings(query) ==
  Batch(query, {"incomeStatement", "cashFlowStatement"}, {"q", "ttm"}, LAMBDA q :
    LET income == incomeStatement(q)
        flow == cashFlowStatement(q)
        main == resolveKnowledgeDate({<<q, firstOf(<<reportDate(income, q), reportDate(flow, q)>>)>>})
        sum == pairedSum(incomeOf(q), flowsOf(q), ownerEarningsOf)
    IN [q |-> periodSlot(main, q, "Q", perShareCalc(ownerEarningsOf(income, flow), reportedShares(q))),
        ttm |-> ttmSlot(incomeOf(q), sum # Null, perShareCalc(sum, reportedShares(q)), main, q)])

getOwnerEarningsProvenance(query) ==
  traced(query, {"incomeStatement", "cashFlowStatement"}, LAMBDA q :
    provenance(q, perShareOf(pairedSum(incomeOf(q), flowsOf(q), ownerEarningsOf), reportedShares(q)),
      {entry(q, "outstandingCommonShares", reportedShares(q))} \union netIncomeEntries(incomeOf(q))
      \union entriesOfPeriods(flowsOf(q), {"depreciation", "amortization", "capitalExpenditures"})))

-----------------------------------------------------------------------------
(* Years.                                                                  *)

getAnnualCapex(year) ==
  LET sum == sumOf(flowsOf(4 * year + 3), "capitalExpenditures") IN IF sum = Null THEN Null ELSE abs(sum)

priorCapexOf(year) == [i \in 1..3 |-> getAnnualCapex(year - i)]

\* How far the year is above the mean of the three before it.
abnormalCapexOf(year) ==
  LET current == getAnnualCapex(year)
      prior == total(priorCapexOf(year))
  IN IF current = Null THEN calc(Null, "missing_input")
     ELSE IF prior = Null THEN insufficientHistory
     ELSE IF prior = 0 THEN calc(Null, "zero_or_negative_denominator")
     ELSE calc(toPercent(3 * current - prior, prior), Null)

computeAbnormalCapexRatio(query) ==
  Batch(query, {"cashFlowStatement"}, {"fy"}, LAMBDA q :
    [fy |-> periodSlot(resolveKnowledgeDate({<<q, resolveCashFlowReportDate(q)>>}), q, "FY", abnormalCapexOf(annualYear(q)))])

\* A mean that rounds down to none has no ratio here.
getAbnormalCapexRatioProvenance(query) ==
  traced(query, {"cashFlowStatement"}, LAMBDA q :
    LET prior == total(priorCapexOf(annualYear(q)))
    IN provenance(q, IF prior # Null /\ prior \div 3 = 0 THEN Null ELSE abnormalCapexOf(annualYear(q)).value,
                  {entry(4 * y + 3, "capex", getAnnualCapex(y)) : y \in annualYear(q) - 3..annualYear(q)}))

MAX_LOOKBACK_YEARS == 30

yearNetIncome(year) == sumTrailingPeriods(incomeOf(4 * year + 3), pickNetIncome)
profitable(year) == yearNetIncome(year) # Null /\ yearNetIncome(year) > 0

\* The count stops at the first year that made no profit or is not complete.
consecutiveYears(latest) ==
  IF yearNetIncome(latest) = Null THEN Null
  ELSE CHOOSE n \in 0..MAX_LOOKBACK_YEARS :
         /\ \A i \in 0..n - 1 : profitable(latest - i)
         /\ n = MAX_LOOKBACK_YEARS \/ ~profitable(latest - n)

computeConsecutiveProfitYears(query) ==
  Batch(query, {"incomeStatement"}, {"fy"}, LAMBDA q :
    LET years == consecutiveYears(annualYear(q))
    IN [fy |-> periodSlot(anchorOf(q, incomeStatement(q)), q, "FY", calc(years, because(years, "insufficient_history")))])

getConsecutiveProfitYearsProvenance(query) ==
  traced(query, {"incomeStatement"}, LAMBDA q :
    LET years == consecutiveYears(annualYear(q))
    IN provenance(q, years, {entry(4 * y + 3, "netIncome", yearNetIncome(y)) : y \in annualYear(q) - orZero(years) + 1..annualYear(q)}))

-----------------------------------------------------------------------------
(* Beneish M-score: eight indexes of the quarter over the same quarter of  *)
(* the year before.  A quotient is kept in ten-thousandths.                *)

ratio(n, d) == ratio4Of(n, d)
divide(n, d) == ratio4Of(n, d)

quarterData(q, b, i, f) ==
  [balance |-> b, income |-> i, flow |-> f, available |-> Null \notin {b, i, f},
   reportDate |-> reportDate(firstOf(<<b, i, f>>), q)]
fetchQuarterData(q) == quarterData(q, balanceSheet(q), incomeStatement(q), cashFlowStatement(q))

assetQuality(d) ==
  ratio(minus(minus(field(d.balance, "totalAssets"), field(d.balance, "currentAssets")), field(d.balance, "propertyPlantEquipment")),
        field(d.balance, "totalAssets"))

rateOf(depreciation, equipment) ==
  ratio(IF equipment = Null THEN Null ELSE depreciation, plus(depreciation, equipment))
depreciationRate(d) == rateOf(field(d.flow, "depreciation"), field(d.balance, "propertyPlantEquipment"))

sgaRatio(d) == ratio(plus(field(d.income, "sellingExpenses"), field(d.income, "adminExpenses")), field(d.income, "operatingRevenue"))

receivables(d) == ratio(field(d.balance, "accountsReceivable"), field(d.income, "operatingRevenue"))
grossMarginOf(d) == ratio(field(d.income, "grossProfit"), field(d.income, "operatingRevenue"))
leverageOf(d) == ratio(field(d.balance, "totalLiabilities"), field(d.balance, "totalAssets"))

beneishIndexes(curr, prev, accruals) ==
  [dsri |-> divide(receivables(curr), receivables(prev)), gmi |-> divide(grossMarginOf(prev), grossMarginOf(curr)),
   aqi |-> divide(assetQuality(curr), assetQuality(prev)),
   sgi |-> ratio(field(curr.income, "operatingRevenue"), field(prev.income, "operatingRevenue")),
   depi |-> divide(depreciationRate(prev), depreciationRate(curr)), sgai |-> divide(sgaRatio(curr), sgaRatio(prev)),
   tata |-> ratio(accruals, field(curr.balance, "totalAssets")), lvgi |-> divide(leverageOf(curr), leverageOf(prev))]

weightedIndexes(x) ==
  total(<<times(9200, x.dsri), times(5280, x.gmi), times(4040, x.aqi), times(8920, x.sgi), times(1150, x.depi),
          times(-1720, x.sgai), times(40370, x.tata), times(327, x.lvgi)>>)
scoreOfWeighted(weighted) == IF weighted = Null THEN Null ELSE rounded(weighted, 10000) - 48400

beneishOf(q, curr, prev, x) ==
  [quarter |-> q, curr |-> curr, prev |-> prev, prevAvailable |-> prev.available, dsri |-> x.dsri, aqi |-> x.aqi,
   mScore |-> scoreOfWeighted(weightedIndexes(x)),
   mainAnchor |-> resolveKnowledgeDate({<<q, curr.reportDate>>, <<q - 4, prev.reportDate>>})]

beneishOver(q, curr, prev) ==
  beneishOf(q, curr, prev,
    beneishIndexes(curr, prev,
      pairedSum(incomeOf(q), flowsOf(q), LAMBDA i, f : minus(pickNetIncome(i), f.netCashFromOperatingActivities))))

beneishAt(q) == IF q = Null THEN Null ELSE beneishOver(q, fetchQuarterData(q), fetchQuarterData(q - 4))

resolveBeneishMScoreInputs(query) ==
  beneishAt(resolveQuarterOrLatest(query, {"balanceSheet", "incomeStatement", "cashFlowStatement"}))

resolveVariableNullReason(value, r) ==
  IF isFinancialIndustryCompany THEN "not_applicable_industry"
  ELSE because(value, IF r.prevAvailable THEN "missing_input" ELSE "insufficient_history")

beneishSlot(query, Variable(_)) ==
  slotsFrom(resolveBeneishMScoreInputs(query), {"q"}, LAMBDA r :
    [q |-> periodSlot(r.mainAnchor, r.quarter, "Q",
             calc(IF isFinancialIndustryCompany THEN Null ELSE Variable(r), resolveVariableNullReason(Variable(r), r)))])

computeBeneishMScore(query) == beneishSlot(query, LAMBDA r : r.mScore)
computeBeneishAqi(query) == beneishSlot(query, LAMBDA r : r.aqi)
computeBeneishDsri(query) == beneishSlot(query, LAMBDA r : r.dsri)

buildEntries(q, d, balanceNames, incomeNames, flowNames) ==
  entriesOf(q, d.balance, balanceNames) \union entriesOf(q, d.income, incomeNames) \union entriesOf(q, d.flow, flowNames)

\* The formula itself, whatever the industry.
tracedBeneish(query, Variable(_), balanceNames, incomeNames, flowNames, more) ==
  tracedFrom(resolveBeneishMScoreInputs(query), LAMBDA r :
    LET of(q, d) == buildEntries(q, d, balanceNames, incomeNames, flowNames)
                    \union (IF "netIncome" \in more THEN {entry(q, "netIncome", pickNetIncome(d.income))} ELSE {})
    IN provenance(r.quarter, Variable(r), of(r.quarter, r.curr) \union of(r.quarter - 4, r.prev)))

getBeneishMScoreProvenance(query) ==
  tracedBeneish(query, LAMBDA r : r.mScore,
    {"accountsReceivable", "currentAssets", "totalAssets", "propertyPlantEquipment", "totalLiabilities"},
    {"operatingRevenue", "grossProfit", "sellingExpenses", "adminExpenses"}, {"depreciation", "netCashFromOperatingActivities"}, {"netIncome"})
getBeneishAqiProvenance(query) ==
  tracedBeneish(query, LAMBDA r : r.aqi, {"currentAssets", "propertyPlantEquipment", "totalAssets"}, {}, {}, {})
getBeneishDsriProvenance(query) == tracedBeneish(query, LAMBDA r : r.dsri, {"accountsReceivable"}, {"operatingRevenue"}, {}, {})

-----------------------------------------------------------------------------
(* Piotroski F-score: nine signals, one point each.  Quotients are         *)
(* compared exactly.                                                       *)

quotient(n, d) == IF n = Null \/ d = Null \/ d = 0 THEN Null ELSE IF d > 0 THEN <<n, d>> ELSE <<-n, -d>>
above(x, y) == IF x = Null \/ y = Null THEN Null ELSE x[1] * y[2] > y[1] * x[2]
exceeds(x, y) == IF x = Null \/ y = Null THEN Null ELSE x > y

negated(met) == IF met = Null THEN Null ELSE ~met

assetsIn(d) == field(d.balance, "totalAssets")
roaOf(d) == quotient(pickNetIncome(d.income), assetsIn(d))
borrowed(d) == quotient(orZero(field(d.balance, "longTermBorrowings")), assetsIn(d))
liquidity(d) == quotient(field(d.balance, "currentAssets"), field(d.balance, "currentLiabilities"))
marginIn(d) == quotient(field(d.income, "grossProfit"), field(d.income, "operatingRevenue"))
turnoverOf(d) == quotient(field(d.income, "operatingRevenue"), assetsIn(d))

\* shares: now, and the year before on the share basis of now.
piotroskiSignals(curr, prev, shares) ==
  [positiveRoa |-> above(roaOf(curr), <<0, 1>>), positiveCfo |-> exceeds(field(curr.flow, "netCashFromOperatingActivities"), 0),
   roaImproved |-> above(roaOf(curr), roaOf(prev)),
   accrualQuality |-> exceeds(field(curr.flow, "netCashFromOperatingActivities"), pickNetIncome(curr.income)),
   leverageDecreased |-> above(borrowed(prev), borrowed(curr)), liquidityImproved |-> above(liquidity(curr), liquidity(prev)),
   noDilution |-> negated(exceeds(shares[1], shares[2])),
   grossMarginImproved |-> above(marginIn(curr), marginIn(prev)), assetTurnoverImproved |-> above(turnoverOf(curr), turnoverOf(prev))]

scoreOfSignals(signals) ==
  IF \E s \in DOMAIN signals : signals[s] = Null THEN Null ELSE Cardinality({s \in DOMAIN signals : signals[s]})

sharesIn(d) == IF d.reportDate = Null THEN Null ELSE field(getOutstandingCommonShares(d.reportDate), "outstandingCommonShares")
splitBetween(prev, curr) ==
  IF Null \in {prev.reportDate, curr.reportDate} THEN 100 ELSE getShareSplitFactor(prev.reportDate, curr.reportDate)
onBasis(shares, split) == IF shares = Null THEN Null ELSE rounded(shares * split, 100)

piotroskiOf(q, curr, prev, shares, signals, score) ==
  [quarter |-> q, curr |-> curr, prev |-> prev, signals |-> signals, shares |-> shares,
   result |-> calcOr(score, IF prev.available THEN "missing_input" ELSE "insufficient_history"),
   anchor |-> resolveKnowledgeDate({<<q, curr.reportDate>>, <<q - 4, prev.reportDate>>})]

scoredPiotroski(q, curr, prev, shares, signals) == piotroskiOf(q, curr, prev, shares, signals, scoreOfSignals(signals))
signalledPiotroski(q, curr, prev, shares) == scoredPiotroski(q, curr, prev, shares, piotroskiSignals(curr, prev, shares))
piotroskiOver(q, curr, prev) ==
  signalledPiotroski(q, curr, prev, [i \in 1..2 |-> IF i = 1 THEN sharesIn(curr) ELSE onBasis(sharesIn(prev), splitBetween(prev, curr))])

piotroskiAt(q) == IF q = Null THEN Null ELSE piotroskiOver(q, fetchQuarterData(q), fetchQuarterData(q - 4))

resolvePiotroskiFScoreSignals(query) ==
  piotroskiAt(resolveQuarterOrLatest(query, {"balanceSheet", "incomeStatement", "cashFlowStatement"}))

computePiotroskiFScore(query) ==
  slotsFrom(resolvePiotroskiFScoreSignals(query), {"q"}, LAMBDA r :
    [q |-> periodSlot(r.anchor, r.quarter, "Q", r.result)])

buildQuarterEntries(q, d, shares) ==
  buildEntries(q, d, {"totalAssets", "longTermBorrowings", "currentAssets", "currentLiabilities"},
               {"operatingRevenue", "grossProfit"}, {"netCashFromOperatingActivities"})
  \union {netIncomeEntry(q, d.income), entry(q, "outstandingCommonShares", shares)}

getPiotroskiFScoreProvenance(query) ==
  tracedFrom(resolvePiotroskiFScoreSignals(query), LAMBDA r :
    LET point(met) == IF met = Null THEN Null ELSE IF met THEN 1 ELSE 0
    IN provenance(r.quarter, r.result.value,
         {entry(r.quarter, s, point(r.signals[s])) : s \in DOMAIN r.signals}
         \union buildQuarterEntries(r.quarter, r.curr, r.shares[1]) \union buildQuarterEntries(r.quarter - 4, r.prev, r.shares[2])))
=============================================================================
