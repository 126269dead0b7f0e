---------------------------- MODULE Profitability ----------------------------
(***************************************************************************)
(* The metrics of application/metrics/profitability and what each of them  *)
(* is traced to.                                                           *)
(***************************************************************************)
EXTENDS SharedFamilies

-----------------------------------------------------------------------------
(* What the margins are traced to.                                         *)

\* A margin is traced as soon as its own two figures are there.
tracedMargin(query, like, ordinary, insured) ==
  tracedFrom(marginQuarter(query), LAMBDA q :
    LET periods == resolveTrailingMarginInputs(q)
        of(p) == LET fromInsurance == p.record # Null /\ p.record.isInsuranceFallback
                 IN {entry(p.quarter, IF fromInsurance THEN "insuranceRevenue" ELSE "operatingRevenue", field(p.record, "revenue")),
                     entry(p.quarter, IF fromInsurance THEN insured ELSE ordinary, field(p.record, like))}
    IN provenance(q, percentOf(sumOf(periods, like), sumOf(periods, "revenue")),
                  UNION {of(periods[i]) : i \in DOMAIN periods}))

getGrossMarginProvenance(query) == tracedMargin(query, "grossProfitLike", "grossProfit", "insuranceServiceResult")
getOperatingMarginProvenance(query) == tracedMargin(query, "operatingIncomeLike", "operatingIncome", "netOperatingIncomeLoss")

getNetProfitMarginProvenance(query) ==
  traced(query, {"incomeStatement"}, LAMBDA q :
    LET periods == resolveTrailingIncomeStatements(q).periods
    IN provenance(q, percentOf(sumTrailingPeriods(periods, pickNetIncome), sumOf(periods, "operatingRevenue")),
                  netIncomeEntries(periods) \union entriesOfPeriods(periods, {"operatingRevenue"})))

-----------------------------------------------------------------------------
(* Returns on what is employed: a flow over the average of a balance.      *)

\* Over a trailing year only the average counts.
averagedYearCalc(sum, average) ==
  LET value == percentOf(sum, average)
  IN calc(value, because(value, IF sum # Null /\ average # Null THEN determineNullReason(sum, average) ELSE "insufficient_history"))

totalEquity(balance) == orElse(field(balance, "totalEquity"), field(balance, "equityAttributableToParent"))
yearEnd(year) == balanceSheet(4 * year + 3)

\* The average of the opening and the closing balance, its fraction dropped.
annualReturn(numerator, opening, closing) ==
  IF numerator = Null \/ closing = Null THEN calc(Null, "missing_input")
  ELSE IF opening = Null THEN insufficientHistory
  ELSE percentCalc(numerator, truncated(opening + closing, 2))

calculateAnnualRoe(netIncome, openingEquity, closingEquity) == annualReturn(netIncome, openingEquity, closingEquity)

resolveAnnualRoe(context) ==
  IF context = Null THEN calc(Null, "missing_input")
  ELSE calculateAnnualRoe(annualNetIncome(context.annual), totalEquity(yearEnd(context.year - 1)), totalEquity(yearEnd(context.year)))

resolveRoeQuarterData(query) ==
  LET q == resolveQuarterOrLatest(query, {"balanceSheet", "incomeStatement"})
      income == incomeStatement(q)
      b == balanceSheet(q)
      balances == resolveAverageBalances(q)
      periods == resolveTrailingIncomeStatements(q).periods
      sum == sumTrailingPeriods(periods, pickNetIncome)
  IN IF q = Null THEN Null
     ELSE [quarter |-> q, balances |-> balances, periods |-> periods, complete |-> sum # Null,
           mainAnchor |-> resolveKnowledgeDate({<<q, firstOf(<<reportDate(b, q), reportDate(income, q)>>)>>}),
           quarterly |-> averagedCalc(pickNetIncome(income), equityAvgQ(balances), pickEquity(b)),
           ttm |-> averagedYearCalc(sum, equityAvgTtm(balances))]

computeRoe(query) ==
  slotsFrom(resolveRoeQuarterData(query), {"q", "ttm", "fy"}, LAMBDA r :
    LET context == resolveAnnualReportContext(r.quarter)
    IN [q |-> periodSlot(r.mainAnchor, r.quarter, "Q", r.quarterly),
        ttm |-> ttmSlot(r.periods, r.complete, r.ttm, r.mainAnchor, r.quarter),
        fy |-> annualReportSlot(context, resolveAnnualRoe(context))])

getRoeProvenance(query) ==
  tracedFrom(resolveRoeQuarterData(query), LAMBDA r :
    provenance(r.quarter, r.ttm.value,
      netIncomeEntries(r.periods) \union averageBalanceEntries(r.balances, LAMBDA at, b : {equityEntry(at, b)})))

STATUTORY_TAX_RATE_PCT == 20

calculateAnnualRoa(netIncome, financeCosts, openingAssets, closingAssets) ==
  annualReturn(plus(netIncome, truncated(orZero(financeCosts) * (100 - STATUTORY_TAX_RATE_PCT), 100)), openingAssets, closingAssets)

resolveAnnualRoa(context) ==
  IF context = Null THEN calc(Null, "missing_input")
  ELSE calculateAnnualRoa(annualNetIncome(context.annual), context.annual.financeCosts,
                          totalAssets(yearEnd(context.year - 1)), totalAssets(yearEnd(context.year)))

resolveRoaData(query) ==
  LET q == resolveQuarterOrLatest(query, {"balanceSheet", "incomeStatement"})
      income == incomeStatement(q)
      b == balanceSheet(q)
      balances == resolveAverageBalances(q)
      periods == resolveTrailingIncomeStatements(q).periods
      sum == sumTrailingPeriods(periods, pickNetIncome)
  IN IF q = Null THEN Null
     ELSE [quarter |-> q, balances |-> balances, periods |-> periods, complete |-> sum # Null,
           filedOn |-> firstOf(<<reportDate(b, q), reportDate(income, q)>>),
           quarterly |-> averagedCalc(pickNetIncome(income), assetsAvgQ(balances), totalAssets(b)),
           ttm |-> averagedYearCalc(sum, assetsAvgTtm(balances))]

computeRoa(query) ==
  slotsFrom(resolveRoaData(query), {"q", "ttm", "fy"}, LAMBDA r :
    LET main == resolveKnowledgeDate({<<r.quarter, r.filedOn>>})
        context == resolveAnnualReportContext(r.quarter)
    IN [q |-> periodSlot(main, r.quarter, "Q", r.quarterly),
        ttm |-> ttmSlot(r.periods, r.complete, r.ttm, main, r.quarter),
        fy |-> annualReportSlot(context, resolveAnnualRoa(context))])

getRoaProvenance(query) ==
  tracedFrom(resolveRoaData(query), LAMBDA r :
    provenance(r.quarter, r.ttm.value,
      netIncomeEntries(r.periods) \union averageBalanceEntries(r.balances, LAMBDA at, b : entriesOf(at, b, {"totalAssets"}))
      \union {averagedDenominatorEntry(r.balances, "assets", assetsAvgTtm(r.balances))}))

ROE_WEIGHTED_YEARS == 5

\* netIncomes of five years; the equities at their six ends, oldest first.
calculateRoeWeighted5y(netIncomes, yearEndEquities) ==
  LET sum == total(netIncomes)
      doubled == total([i \in 1..ROE_WEIGHTED_YEARS |-> plus(yearEndEquities[i], yearEndEquities[i + 1])])
  IN IF sum = Null \/ doubled = Null THEN insufficientHistory
     ELSE IF doubled <= 0 THEN calc(Null, "zero_or_negative_denominator")
     ELSE calc(toPercent(2 * sum, doubled), Null)

roeWeighted5yOf(context) ==
  [context |-> context,
   netIncomes |-> [i \in 1..ROE_WEIGHTED_YEARS |-> annualNetIncome(annualIncomeStatement(context.year - ROE_WEIGHTED_YEARS + i))],
   yearEndEquities |-> [i \in 1..ROE_WEIGHTED_YEARS + 1 |-> totalEquity(yearEnd(context.year - ROE_WEIGHTED_YEARS + i - 1))]]

resolveRoeWeighted5yInputs(query) ==
  LET q == resolveQuarterOrLatest(query, {"incomeStatement"})
      context == IF q = Null THEN Null ELSE resolveAnnualReportContext(q)
  IN IF context = Null THEN Null ELSE roeWeighted5yOf(context)

computeRoeWeighted5y(query) ==
  slotsFrom(resolveRoeWeighted5yInputs(query), {"fy"}, LAMBDA r :
    [fy |-> annualReportSlot(r.context, calculateRoeWeighted5y(r.netIncomes, r.yearEndEquities))])

getRoeWeighted5yProvenance(query) ==
  tracedFrom(resolveRoeWeighted5yInputs(query), LAMBDA r :
    LET end(i) == 4 * (r.context.year - ROE_WEIGHTED_YEARS + i) + 3
    IN provenance(r.context.quarter, calculateRoeWeighted5y(r.netIncomes, r.yearEndEquities).value,
         {entry(end(i), "netIncome", r.netIncomes[i]) : i \in DOMAIN r.netIncomes}
         \union {entry(end(i - 1), "equity", r.yearEndEquities[i]) : i \in DOMAIN r.yearEndEquities}))

investedCapital(b) == plus(interestBearingDebt(b), minus(pickEquity(b), field(b, "cashAndEquivalents")))

\* Taxed at the effective rate, kept between none and all of it; a loss is not taxed.
afterTax(amount, income) ==
  IF amount = Null \/ field(income, "incomeTaxExpense") = Null \/ field(income, "profitBeforeTax") = Null THEN Null
  ELSE IF income.profitBeforeTax <= 0 THEN amount
  ELSE LET tax == Max({0, Min({income.incomeTaxExpense, income.profitBeforeTax})})
       IN rounded(amount * (income.profitBeforeTax - tax), income.profitBeforeTax)

computeNopat(income) == afterTax(ebit(income), income)
calculateNopat(income) == afterTax(field(income, "operatingIncome"), income)

\* ROIC and RNOA: the same capital under profits taxed in two ways.
returnOnCapital(query, Nopat(_)) ==
  LET q == resolveQuarterOrLatest(query, {"balanceSheet", "incomeStatement"})
      income == incomeStatement(q)
      b == balanceSheet(q)
      balances == resolveAverageBalances(q)
      average == averageOf(balances, investedCapital, "ttm")
      periods == resolveTrailingIncomeStatements(q).periods
      sum == sumTrailingPeriods(periods, Nopat)
  IN IF q = Null THEN Null
     ELSE [quarter |-> q, balances |-> balances, average |-> average, periods |-> periods, complete |-> sum # Null,
           filedOn |-> firstOf(<<reportDate(b, q), reportDate(income, q)>>),
           quarterly |-> averagedCalc(Nopat(income), averageOf(balances, investedCapital, "q"), investedCapital(b)),
           ttm |-> IF sum = Null THEN insufficientHistory ELSE averagedCalc(sum, average, investedCapital(b))]

resolveRoicData(query) == returnOnCapital(query, computeNopat)
resolveNissimPenmanRnoaData(query) == returnOnCapital(query, calculateNopat)

returnSlots(r) ==
  LET main == resolveKnowledgeDate({<<r.quarter, r.filedOn>>})
  IN IF r = Null THEN noQuarterBatch({"q", "ttm"})
     ELSE [q |-> periodSlot(main, r.quarter, "Q", r.quarterly), ttm |-> ttmSlot(r.periods, r.complete, r.ttm, main, r.quarter)]

computeRoic(query) == returnSlots(resolveRoicData(query))
computeNissimPenmanRnoa(query) == returnSlots(resolveNissimPenmanRnoaData(query))

tracedReturn(r, names) ==
  IF r = Null THEN notFound
  ELSE provenance(r.quarter, r.ttm.value,
         averageBalanceEntries(r.balances, investedCapitalComponents)
         \union {averagedDenominatorEntry(r.balances, "investedCapital", r.average)} \union entriesOfPeriods(r.periods, names))

getRoicProvenance(query) == tracedReturn(resolveRoicData(query), {"profitBeforeTax", "financeCosts", "incomeTaxExpense"})
getNissimPenmanRnoaProvenance(query) ==
  tracedReturn(resolveNissimPenmanRnoaData(query), {"operatingIncome", "profitBeforeTax", "incomeTaxExpense"})

economicCapital(b) == minus(totalAssets(b), field(b, "currentLiabilities"))

resolveCrociData(query) ==
  LET q == resolveQuarterOrLatest(query, {"balanceSheet", "incomeStatement", "cashFlowStatement"})
      b == balanceSheet(q)
      balances == resolveAverageBalances(q)
      average == averageOf(balances, economicCapital, "ttm")
      periods == resolveTrailingIncomeStatements(q).periods
      flows == resolveTrailingCashFlowStatements(q).periods
      sum == total(<<sumTrailingPeriods(periods, pickNetIncome), sumOf(periods, "financeCosts"),
                     sumOf(flows, "depreciation"), sumOf(flows, "amortization")>>)
  IN IF q = Null THEN Null
     ELSE [quarter |-> q, balance |-> b, balances |-> balances, average |-> average, periods |-> periods, flows |-> flows,
           complete |-> sum # Null,
           ttm |-> IF sum = Null THEN insufficientHistory ELSE averagedCalc(sum, average, economicCapital(b))]

computeCroci(query) ==
  slotsFrom(resolveCrociData(query), {"ttm"}, LAMBDA r :
    [ttm |-> ttmSlot(r.periods, r.complete, r.ttm, anchorOf(r.quarter, r.balance), r.quarter)])

getCrociProvenance(query) ==
  tracedFrom(resolveCrociData(query), LAMBDA r :
    provenance(r.quarter, r.ttm.value,
      averageBalanceEntries(r.balances, LAMBDA at, b : entriesOf(at, b, {"totalAssets", "currentLiabilities"}))
      \union {averagedDenominatorEntry(r.balances, "economicCapital", r.average)}
      \union netIncomeEntries(r.periods) \union entriesOfPeriods(r.periods, {"financeCosts"})
      \union entriesOfPeriods(r.flows, {"depreciation", "amortization"})))

getCroicProvenance(query) == tracedCashFlow(query, "croic", {"debt", "equity", "cash", "ocf", "capex"})

-----------------------------------------------------------------------------
(* Amounts per share, on the shares of the day the quarter ended.          *)

\* The quarter, its trailing year and the fiscal year of one amount.
perShareSlots(q, anchor, amount, shares, periods, amounts, context, annualAmount) ==
  [q |-> periodSlot(anchor, q, "Q", perShareCalc(amount, shares)),
   ttm |-> ttmSlot(periods, total(amounts) # Null, perShareCalc(total(amounts), shares), anchor, q),
   fy |-> annualReportSlot(context, perShareCalc(annualAmount, field(context, "weightedShares")))]

annualOf(context, name) == IF context = Null THEN Null ELSE context.annual[name]

resolveEpsInputs(query) ==
  LET q == resolveQuarterOrLatest(query, {"incomeStatement"})
      row == IF q = Null THEN Null ELSE incomeStatement(q)
      shares == IF row = Null THEN Null ELSE getOutstandingCommonShares(QuarterEnd(q))
      preferred == orZero(field(shares, "preferredDividendsTtmThousands"))
      count == field(shares, "outstandingCommonShares")
      periods == resolveTrailingIncomeStatements(q).periods
      sum == sumTrailingPeriods(periods, pickNetIncome)
      perCommonShare(netIncome, window) ==
        LET value == perShareOf(toCommonEarnings(netIncome, preferred, window), count)
        IN calc(value, because(value, determineNullReason(netIncome, count)))
  IN IF q = Null THEN Null
     ELSE [quarter |-> q, row |-> row, shares |-> shares, periods |-> periods, complete |-> sum # Null,
           quarterly |-> perCommonShare(pickNetIncome(row), "Q"),
           ttm |-> IF sum = Null THEN insufficientHistory ELSE perCommonShare(sum, "TTM")]

computeEps(query) ==
  slotsFrom(resolveEpsInputs(query), {"q", "ttm", "fy"}, LAMBDA r :
    LET main == anchorOf(r.quarter, r.row)
        context == resolveAnnualReportContext(r.quarter)
    IN [q |-> periodSlot(main, r.quarter, "Q", r.quarterly),
        ttm |-> ttmSlot(r.periods, r.complete, r.ttm, main, r.quarter),
        fy |-> annualReportSlot(context, missingCalc(annualOf(context, "basicEps")))])

getEpsProvenance(query) ==
  tracedFrom(resolveEpsInputs(query), LAMBDA r :
    provenance(r.quarter, r.ttm.value, netIncomeEntries(r.periods)
      \union commonShareEntries(r.quarter, r.shares, {"preferredDividendsTtmThousands"})))

\* A bank that files no income statement is read from the bank's own, quarter by quarter.
resolveProfitBeforeTax(q, row, fromBank) ==
  LET bank == IF fromBank /\ field(row, "profitBeforeTax") = Null THEN bankIncomeStatement(q) ELSE Null
      amount == orElse(field(row, "profitBeforeTax"), field(bank, "profitBeforeTax"))
  IN [profitBeforeTax |-> amount,
      reportDate |-> orElse(reportDate(row, q), IF field(bank, "profitBeforeTax") = Null THEN Null ELSE reportDate(bank, q))]

resolvePretaxIncomePerShareInputs(query) ==
  LET q == resolveQuarterOrLatest(query, {"incomeStatement"})
      own == resolveProfitBeforeTax(q, incomeStatement(q), isFinancialIndustryCompany)
      trailing == resolveTrailingIncomeStatements(q)
      resolved(p) == resolveProfitBeforeTax(p.quarter, p.record, isFinancialIndustryCompany /\ trailing.basis = "quarters")
      records == [i \in DOMAIN trailing.periods |-> resolved(trailing.periods[i])]
      shares == IF own.reportDate = Null THEN Null ELSE getOutstandingCommonShares(own.reportDate)
      count == field(shares, "outstandingCommonShares")
      sum == total([i \in DOMAIN records |-> records[i].profitBeforeTax])
  IN IF q = Null THEN Null
     ELSE [quarter |-> q, reportDate |-> own.reportDate, shares |-> shares, periods |-> trailing.periods, records |-> records,
           complete |-> sum # Null, quarterly |-> perShareCalc(own.profitBeforeTax, count),
           ttm |-> IF sum = Null THEN insufficientHistory ELSE perShareCalc(sum, count)]

computePretaxIncomePerShare(query) ==
  slotsFrom(resolvePretaxIncomePerShareInputs(query), {"q", "ttm", "fy"}, LAMBDA r :
    LET main == resolveKnowledgeDate({<<r.quarter, r.reportDate>>})
        anchor == resolveKnowledgeDate({<<r.periods[i].quarter, r.records[i].reportDate>> : i \in DOMAIN r.periods})
        context == resolveAnnualReportContext(r.quarter)
    IN [q |-> periodSlot(main, r.quarter, "Q", r.quarterly),
        ttm |-> periodSlot(IF r.complete THEN anchor ELSE main, r.quarter, "TTM", r.ttm),
        fy |-> annualReportSlot(context, perShareCalc(annualOf(context, "profitBeforeTax"), field(context, "weightedShares")))])

getPretaxIncomePerShareProvenance(query) ==
  tracedFrom(resolvePretaxIncomePerShareInputs(query), LAMBDA r :
    provenance(r.quarter, r.ttm.value, commonShareEntries(r.quarter, r.shares, {})
      \union {entry(r.periods[i].quarter, "profitBeforeTax", r.records[i].profitBeforeTax) : i \in DOMAIN r.periods}))

computeRevenuePerShare(query) ==
  Batch(query, {"incomeStatement"}, {"q", "ttm", "fy"}, LAMBDA q :
    LET row == incomeStatement(q)
        periods == resolveTrailingIncomeStatements(q).periods
        context == resolveAnnualReportContext(q)
    IN perShareSlots(q, anchorOf(q, row), field(row, "operatingRevenue"), sharesAt(row, q), periods,
         [i \in DOMAIN periods |-> field(periods[i].record, "operatingRevenue")], context, annualOf(context, "operatingRevenue")))

getRevenuePerShareProvenance(query) ==
  traced(query, {"incomeStatement"}, LAMBDA q :
    LET shares == sharesAt(incomeStatement(q), q)
        periods == resolveTrailingIncomeStatements(q).periods
    IN provenance(q, perShareOf(sumOf(periods, "operatingRevenue"), shares),
         entriesOfPeriods(periods, {"operatingRevenue"}) \union {entry(q, "outstandingCommonShares", shares)}))

\* Components that a statement leaves out are zero when the others already add
\* up to the operating expense, give or take one.
OperatingExpenseComponents == {"sellingExpenses", "adminExpenses", "researchAndDevelopmentExpense", "expectedCreditLoss"}

fillAbsentOperatingExpenseComponents(row) ==
  LET absent == {f \in OperatingExpenseComponents : row[f] = Null}
      present == FoldSet(LAMBDA f, sum : sum + row[f], 0, OperatingExpenseComponents \ absent)
  IN IF row.operatingExpense = Null \/ absent \in {{}, OperatingExpenseComponents} \/ abs(row.operatingExpense - present) > 1
     THEN row ELSE [f \in DOMAIN row |-> IF f \in absent THEN 0 ELSE row[f]]

filledRow(row) == IF row = Null THEN Null ELSE fillAbsentOperatingExpenseComponents(row)
filledPeriods(q) ==
  LET periods == resolveTrailingIncomeStatements(q).periods
  IN [i \in DOMAIN periods |-> [periods[i] EXCEPT !.record = filledRow(@)]]

nonOperatingIncomeOf(row) == minus(field(row, "profitBeforeTax"), field(row, "operatingIncome"))
minorityInterestOf(row) == minus(field(row, "netIncome"), field(row, "netIncomeAttributableToParent"))

\* The line of the statement each metric divides by the shares.
FIELDS ==
  [grossProfitPerShare |-> "grossProfit", operatingIncomePerShare |-> "operatingIncome", operatingCostsPerShare |-> "operatingCost",
   operatingExpensePerShare |-> "operatingExpense", incomeTaxExpensePerShare |-> "incomeTaxExpense",
   sellingExpensePerShare |-> "sellingExpenses", administrativeExpensePerShare |-> "adminExpenses",
   researchAndDevelopmentExpensePerShare |-> "researchAndDevelopmentExpense", impairmentLossGainIfrs9PerShare |-> "expectedCreditLoss",
   netOtherIncomeExpensesPerShare |-> "netOtherIncomeExpenses", interestRevenuePerShare |-> "interestIncome",
   otherRevenuePerShare |-> "otherIncome", otherGainsLossesPerShare |-> "otherGainsLosses",
   shareOfProfitLossOfAssociatesPerShare |-> "equityMethodIncome", financeCostPerShare |-> "financeCosts"]

perShareCodes == DOMAIN FIELDS \union {"nonOperatingIncomeExpensesPerShare", "nonControllingInterestsPerShare"}

amountOf(code, row) ==
  CASE code = "nonOperatingIncomeExpensesPerShare" -> nonOperatingIncomeOf(row)
    [] code = "nonControllingInterestsPerShare" -> minorityInterestOf(row)
    [] OTHER -> field(row, FIELDS[code])

computeIncomeStatementPerShare(query) ==
  slotsFrom(resolveQuarterOrLatest(query, {"incomeStatement"}), perShareCodes \X {"q", "ttm", "fy"}, LAMBDA q :
    LET row == filledRow(incomeStatement(q))
        periods == filledPeriods(q)
        context == resolveAnnualReportContext(q)
        annual == filledRow(field(context, "annual"))
        shares == sharesAt(incomeStatement(q), q)
        slots(code) == perShareSlots(q, anchorOf(q, row), amountOf(code, row), shares, periods,
          [i \in DOMAIN periods |-> amountOf(code, periods[i].record)], context, amountOf(code, annual))
        byCode == [code \in perShareCodes |-> slots(code)]
    IN [k \in perShareCodes \X {"q", "ttm", "fy"} |-> byCode[k[1]][k[2]]])

\* The lines an amount is made of.
shownFields(code) ==
  CASE code = "nonOperatingIncomeExpensesPerShare" -> {"profitBeforeTax", "operatingIncome"}
    [] code = "nonControllingInterestsPerShare" -> {"netIncome", "netIncomeAttributableToParent"}
    [] OTHER -> {FIELDS[code]}

getIncomeStatementPerShareProvenance(code, query) ==
  traced(query, {"incomeStatement"}, LAMBDA q :
    LET shares == sharesAt(incomeStatement(q), q)
        periods == filledPeriods(q)
    IN provenance(q, perShareOf(total([i \in DOMAIN periods |-> amountOf(code, periods[i].record)]), shares),
         entriesOfPeriods(periods, shownFields(code)) \union {entry(q, "outstandingCommonShares", shares)}))

-----------------------------------------------------------------------------
(* Banks: the steps from interest to profit, and the operating expense,    *)
(* per share over four quarters of the bank's own statement.               *)

bankPeriods(q, Get(_)) == [i \in 1..4 |-> period(q - 4 + i, FALSE, Get(q - 4 + i))]

\* What is left once the named steps are taken off.
otherOperatingExpense(row) ==
  minus(minus(plus(field(row, "netInterestIncome"), field(row, "netNonInterestIncome")), field(row, "badDebtProvision")),
        field(row, "profitBeforeTax"))

waterfallFields == {"netInterestIncome", "netNonInterestIncome", "badDebtProvision", "profitBeforeTax"}
waterfallCodes == {"bankNetInterestIncomePerShare", "bankNetNonInterestIncomePerShare",
                   "bankBadDebtProvisionPerShare", "bankOtherOperatingExpensePerShare"}

waterfallAmount(code, row) ==
  CASE code = "bankNetInterestIncomePerShare" -> field(row, "netInterestIncome")
    [] code = "bankNetNonInterestIncomePerShare" -> field(row, "netNonInterestIncome")
    [] code = "bankBadDebtProvisionPerShare" -> field(row, "badDebtProvision")
    [] code = "bankOtherOperatingExpensePerShare" -> otherOperatingExpense(row)

\* Four quarters are complete for all codes or for none.
bankPerShare(q, row, periods, complete, shares, codes, Amount(_, _)) ==
  [quarter |-> q, row |-> row, periods |-> periods, complete |-> complete, shares |-> shares,
   quarterly |-> [c \in codes |-> perShareCalc(Amount(c, row), shares)],
   ttm |-> [c \in codes |-> IF complete THEN perShareCalc(sumTrailingPeriods(periods, LAMBDA r : Amount(c, r)), shares)
                            ELSE insufficientHistory]]

bankPerShareBatch(r, codes) ==
  IF r = Null THEN noQuarterBatch(codes \X {"q", "ttm"})
  ELSE [k \in codes \X {"q", "ttm"} |->
          IF k[2] = "q" THEN periodSlot(anchorOf(r.quarter, r.row), r.quarter, "Q", r.quarterly[k[1]])
          ELSE ttmSlot(r.periods, r.complete, r.ttm[k[1]], anchorOf(r.quarter, r.row), r.quarter)]

tracedBankPerShare(r, code, names) ==
  IF r = Null THEN notFound
  ELSE provenance(r.quarter, r.ttm[code].value,
         entriesOfPeriods(r.periods, names) \union {entry(r.quarter, "outstandingCommonShares", r.shares)})

resolveBankIncomeWaterfallData(query) ==
  LET q == bankQuarter(query, "bankIncomeStatement")
      row == bankIncomeStatement(q)
      periods == bankPeriods(q, bankIncomeStatement)
  IN IF q = Null THEN Null
     ELSE bankPerShare(q, row, periods, allFiled(periods, waterfallFields), sharesAt(row, q), waterfallCodes, waterfallAmount)

computeBankIncomeWaterfall(query) == bankPerShareBatch(resolveBankIncomeWaterfallData(query), waterfallCodes)

getBankIncomeWaterfallProvenance(code, query) ==
  tracedBankPerShare(resolveBankIncomeWaterfallData(query), code,
    CASE code = "bankNetInterestIncomePerShare" -> {"netInterestIncome"}
      [] code = "bankNetNonInterestIncomePerShare" -> {"netNonInterestIncome"}
      [] code = "bankBadDebtProvisionPerShare" -> {"badDebtProvision"}
      [] code = "bankOtherOperatingExpensePerShare" -> waterfallFields)

COMPONENTS == [bankEmployeeBenefitsExpensePerShare |-> "employeeBenefits",
               bankDepreciationAmortisationExpensePerShare |-> "depreciationAmortisation",
               bankGeneralAdministrativeExpensePerShare |-> "otherGeneralAdministrative"]

expenseFields == {COMPONENTS[c] : c \in DOMAIN COMPONENTS}

resolveBankOperatingExpenseBreakdownData(query) ==
  LET q == IF isFinancialIndustryCompany THEN resolveQuarterOrLatest(query, {"incomeStatement"}) ELSE Null
      row == IF q = Null THEN Null ELSE bankOperatingExpense(q)
      periods == bankPeriods(q, bankOperatingExpense)
  IN IF field(row, "otherGeneralAdministrative") = Null THEN Null
     ELSE bankPerShare(q, row, periods, allFiled(periods, expenseFields), sharesAt(row, q), DOMAIN COMPONENTS,
                       LAMBDA c, r : field(r, COMPONENTS[c]))

computeBankOperatingExpenseBreakdown(query) ==
  bankPerShareBatch(resolveBankOperatingExpenseBreakdownData(query), DOMAIN COMPONENTS)

getBankOperatingExpenseBreakdownProvenance(code, query) ==
  tracedBankPerShare(resolveBankOperatingExpenseBreakdownData(query), code, {COMPONENTS[code]})

-----------------------------------------------------------------------------
(* Published factors.                                                      *)

greenblattFields == {"currentAssets", "currentLiabilities", "propertyPlantEquipment"}

\* The capital employed: working capital plus the plant.
capitalOf(b) ==
  plus(minus(field(b, "currentAssets"), field(b, "currentLiabilities")), field(b, "propertyPlantEquipment"))

resolveGreenblattRocInputs(query) ==
  LET q == resolveQuarterOrLatest(query, {"balanceSheet", "incomeStatement"})
      b == balanceSheet(q)
      periods == resolveTrailingIncomeStatements(q).periods
      earnings == sumTrailingPeriods(periods, ebit)
      value == percentOf(earnings, capitalOf(b))
  IN IF q = Null THEN Null
     ELSE [quarter |-> q, balance |-> b, periods |-> periods, complete |-> earnings # Null,
           result |-> calc(value, because(value,
             IF earnings = Null THEN "insufficient_history"
             ELSE IF capitalOf(b) = Null THEN "missing_input" ELSE "zero_or_negative_denominator"))]

computeGreenblattRoc(query) ==
  slotsFrom(resolveGreenblattRocInputs(query), {"ttm"}, LAMBDA r :
    [ttm |-> scoreSlot(anchorOf(r.quarter, r.balance), r.periods, r.complete, r.quarter, r.result)])

getGreenblattRocProvenance(query) ==
  tracedFrom(resolveGreenblattRocInputs(query), LAMBDA r :
    provenance(r.quarter, r.result.value, entriesOf(r.quarter, r.balance, greenblattFields)
                                          \union entriesOfPeriods(r.periods, {"profitBeforeTax", "financeCosts"})))

mainAnchorOf(q, b, income) == resolveKnowledgeDate({<<q, firstOf(<<reportDate(b, q), reportDate(income, q)>>)>>})

computeNovyMarxGpToAssets(query) ==
  Batch(query, {"balanceSheet", "incomeStatement"}, {"q", "ttm"}, LAMBDA q :
    LET b == balanceSheet(q)
        income == incomeStatement(q)
        main == mainAnchorOf(q, b, income)
        periods == resolveTrailingIncomeStatements(q).periods
        sum == sumOf(periods, "grossProfit")
    IN [q |-> periodSlot(main, q, "Q", percentCalc(field(income, "grossProfit"), totalAssets(b))),
        ttm |-> ttmSlot(periods, sum # Null, percentCalc(sum, totalAssets(b)), main, q)])

getNovyMarxGpToAssetsProvenance(query) ==
  traced(query, {"balanceSheet", "incomeStatement"}, LAMBDA q :
    LET b == balanceSheet(q)
        periods == resolveTrailingIncomeStatements(q).periods
    IN provenance(q, percentOf(sumOf(periods, "grossProfit"), totalAssets(b)),
                  entriesOf(q, b, {"totalAssets"}) \union entriesOfPeriods(periods, {"grossProfit"})))

operatingProfit(row) ==
  minus(minus(minus(field(row, "grossProfit"), field(row, "sellingExpenses")), field(row, "adminExpenses")), field(row, "financeCosts"))

computeFamaFrenchOperatingProfitability(query) ==
  Batch(query, {"incomeStatement", "balanceSheet"}, {"q", "ttm"}, LAMBDA q :
    LET b == balanceSheet(q)
        income == incomeStatement(q)
        main == resolveKnowledgeDate({<<q, firstOf(<<reportDate(income, q), reportDate(b, q)>>)>>})
        periods == resolveTrailingIncomeStatements(q).periods
        sum == sumTrailingPeriods(periods, operatingProfit)
    IN [q |-> periodSlot(main, q, "Q", percentCalc(operatingProfit(income), pickEquity(b))),
        ttm |-> ttmSlot(periods, Null \notin {sum, pickEquity(b)}, percentCalc(sum, pickEquity(b)), main, q)])

getFamaFrenchOperatingProfitabilityProvenance(query) ==
  traced(query, {"incomeStatement", "balanceSheet"}, LAMBDA q :
    LET b == balanceSheet(q)
        periods == resolveTrailingIncomeStatements(q).periods
    IN provenance(q, percentOf(sumTrailingPeriods(periods, operatingProfit), pickEquity(b)),
                  {equityEntry(q, b)}
                  \union entriesOfPeriods(periods, {"grossProfit", "sellingExpenses", "adminExpenses", "financeCosts"})))

\* Only a profit has a share that is not from operations.
calculateNonOperatingIncomeRatio(profitBeforeTax, operatingIncome) ==
  LET value == IF profitBeforeTax = Null \/ profitBeforeTax <= 0 THEN Null
               ELSE percentOf(minus(profitBeforeTax, operatingIncome), profitBeforeTax)
  IN calc(value, because(value, determineNullReason(profitBeforeTax, operatingIncome)))

computeNonOperatingIncomeRatio(query) ==
  Batch(query, {"incomeStatement"}, {"q", "ttm", "fy"}, LAMBDA q :
    LET income == incomeStatement(q)
        main == anchorOf(q, income)
        periods == resolveTrailingIncomeStatements(q).periods
        pretax == sumOf(periods, "profitBeforeTax")
        operating == sumOf(periods, "operatingIncome")
        context == resolveAnnualReportContext(q)
    IN [q |-> periodSlot(main, q, "Q", calculateNonOperatingIncomeRatio(field(income, "profitBeforeTax"), field(income, "operatingIncome"))),
        ttm |-> periodSlot(main, q, "TTM", IF Null \in {pretax, operating} THEN insufficientHistory
                                           ELSE calculateNonOperatingIncomeRatio(pretax, operating)),
        fy |-> annualReportSlot(context, calculateNonOperatingIncomeRatio(annualOf(context, "profitBeforeTax"), annualOf(context, "operatingIncome")))])

\* Of the quarter, and of a loss too.
getNonOperatingIncomeRatioProvenance(query) ==
  traced(query, {"incomeStatement"}, LAMBDA q :
    LET income == incomeStatement(q)
    IN provenance(q, percentOf(minus(field(income, "profitBeforeTax"), field(income, "operatingIncome")), field(income, "profitBeforeTax")),
                  entriesOf(q, income, {"profitBeforeTax", "operatingIncome"})))

\* Buffett's test: what the market added for every dollar kept over five years.
ONE_DOLLAR_TEST_YEARS == 5

resolveOneDollarTestInputs(query) ==
  LET q == resolveQuarterOrLatest(query, {"incomeStatement"})
      latest == annualYear(q)
      base == latest - ONE_DOLLAR_TEST_YEARS
      ends == {4 * y + 3 : y \in base + 1..latest}
      years == [e \in ends |-> resolveTrailingIncomeStatements(e).periods]
      flows == [e \in ends |-> resolveTrailingCashFlowStatements(e).periods]
      complete == \A e \in ends : sumTrailingPeriods(years[e], pickNetIncome) # Null
                                  /\ \A i \in DOMAIN years[e] : flows[e][i].record # Null
      netIncome == FoldSet(LAMBDA e, x : x + sumTrailingPeriods(years[e], pickNetIncome), 0, ends)
      paid == FoldSet(LAMBDA e, x : x + sumTrailingPeriods(flows[e], LAMBDA r : orZero(r.dividendsPaid)), 0, ends)
      retained == netIncome - abs(paid)
      capAt(year) == IF incomeStatement(4 * year + 3) = Null THEN Null ELSE field(getMarketCap(QuarterEnd(4 * year + 3)), "marketCap")
      gained == minus(capAt(latest), capAt(base))
      value == IF ~complete \/ gained = Null \/ retained <= 0 THEN Null ELSE toMultipleFromThousands(gained, retained)
  IN IF q = Null THEN Null
     ELSE [quarter |-> q, years |-> years, flows |-> flows, ends |-> ends,
           marketCaps |-> {entry(4 * y + 3, "marketCap", capAt(y)) : y \in {base, latest}},
           result |-> calc(value, because(value, IF ~complete THEN "insufficient_history"
                                                 ELSE IF retained <= 0 THEN "zero_or_negative_denominator" ELSE "missing_input"))]

computeOneDollarTest(query) ==
  slotsFrom(resolveOneDollarTestInputs(query), {"fy"}, LAMBDA r :
    [fy |-> periodSlot(anchorOf(r.quarter, incomeStatement(r.quarter)), r.quarter, "FY", r.result)])

getOneDollarTestProvenance(query) ==
  tracedFrom(resolveOneDollarTestInputs(query), LAMBDA r :
    provenance(r.quarter, r.result.value, r.marketCaps
      \union UNION {netIncomeEntries(r.years[e]) \union entriesOfPeriods(r.flows[e], {"dividendsPaid"}) : e \in r.ends}))

-----------------------------------------------------------------------------
(* The DuPont parts that are metrics of this group.                        *)

getDupontEbitMarginProvenance(query) ==
  traced(query, {"incomeStatement"}, LAMBDA q :
    LET periods == resolveTrailingIncomeStatements(q).periods
        complete == allFiled(periods, {"profitBeforeTax", "financeCosts", "operatingRevenue"})
    IN provenance(q, IF complete THEN percentOf(sumTrailingPeriods(periods, ebit), sumOf(periods, "operatingRevenue")) ELSE Null,
                  entriesOfPeriods(periods, {"profitBeforeTax", "financeCosts", "operatingRevenue"})))

getDupontInterestBurdenProvenance(query) ==
  traced(query, {"incomeStatement"}, LAMBDA q :
    LET periods == resolveTrailingIncomeStatements(q).periods
    IN provenance(q, calculateDupontInterestBurden(sumOf(periods, "profitBeforeTax"), sumTrailingPeriods(periods, ebit)).value,
                  entriesOfPeriods(periods, {"profitBeforeTax", "financeCosts"})))

getDupontTaxBurdenProvenance(query) ==
  tracedFrom(resolveDupontFamilyData(query), LAMBDA r :
    provenance(r.quarter, r.trailing.dupontTaxBurden.value,
               netIncomeEntries(r.periods) \union entriesOfPeriods(r.periods, {"profitBeforeTax", "financeCosts"})))
=============================================================================
