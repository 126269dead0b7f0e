---------------------------- MODULE SharedFamilies ----------------------------
(***************************************************************************)
(* The families of metrics several groups share: the cash flow family, the *)
(* DuPont family, the exchange's own ratios and the figures per share on   *)
(* the day of the latest price (application/metrics/shared).               *)
(***************************************************************************)
EXTENDS Filings

CONSTANT NaN \* what Math.pow answers when it has no real root to give

ASSUME NaNAssumption == NaN # Null

-----------------------------------------------------------------------------
(* Cash flow family: eight metrics over one trailing year, and two of the  *)
(* quarter.                                                                *)

cashFlowKeys == {"evToOcf", "evToSales", "priceToOcf", "debtToFcf", "capexToOcfRatio", "croic", "ocfMargin",
                 "fcfConversionRate", "ocfMarginQ", "fcfConversionRateQ"}

percentOfPositive(n, d) == IF d = Null \/ d <= 0 THEN Null ELSE percentOf(n, d)
multipleOfThousands(amount, thousands) ==
  IF amount = Null \/ thousands = Null THEN Null ELSE toMultipleFromThousands(amount, thousands)

netDebtOf(b) == minus(interestBearingDebt(b), field(b, "cashAndEquivalents"))
investedIn(b) == plus(netDebtOf(b), pickEquity(b))
enterpriseValueOf(b, marketCap) == plus(field(marketCap, "marketCap"), times(1000, netDebtOf(b)))
freeCashFlow(flow) == plus(field(flow, "netCashFromOperatingActivities"), field(flow, "capitalExpenditures"))

\* The anchor of the first of several statements of a quarter that is there.
anchorOfFirst(q, rows) == resolveKnowledgeDate({<<q, reportDate(firstOf(rows), q)>>})

\* year: the sums of a complete trailing year.
cashFlowValues(b, marketCap, year) ==
  [evToOcf |-> multipleOfThousands(enterpriseValueOf(b, marketCap), year.ocf),
   evToSales |-> multipleOfThousands(enterpriseValueOf(b, marketCap), year.revenue),
   priceToOcf |-> multipleOfThousands(field(marketCap, "marketCap"), year.ocf),
   debtToFcf |-> IF year.fcf = Null \/ year.fcf <= 0 THEN Null ELSE ratioOf(interestBearingDebt(b), year.fcf),
   capexToOcfRatio |-> percentOfPositive(IF year.capex = Null THEN Null ELSE abs(year.capex), year.ocf),
   croic |-> percentOf(year.fcf, investedIn(b)), ocfMargin |-> percentOf(year.ocf, year.revenue),
   fcfConversionRate |-> percentOfPositive(year.fcf, year.netIncome)]

cashFlowYear(complete, years, flows) ==
  IF ~complete THEN [ocf |-> Null, capex |-> Null, revenue |-> Null, netIncome |-> Null, fcf |-> Null]
  ELSE [ocf |-> sumOf(flows, "netCashFromOperatingActivities"), capex |-> sumOf(flows, "capitalExpenditures"),
        revenue |-> sumOf(years, "operatingRevenue"), netIncome |-> sumOf(years, "netIncome"),
        fcf |-> sumTrailingPeriods(flows, freeCashFlow)]

cashFlowComplete(years, flows) ==
  /\ allFiled(years, {"operatingRevenue", "netIncome"})
  /\ allFiled(flows, {"netCashFromOperatingActivities", "capitalExpenditures"})

valuedCashFlow(q, b, income, flow, main, marketCap, years, flows, complete) ==
  [quarter |-> q, balance |-> b, mainAnchor |-> main, marketCap |-> marketCap,
   enterpriseValue |-> enterpriseValueOf(b, marketCap), totalDebt |-> interestBearingDebt(b), investedCapital |-> investedIn(b),
   periods |-> years, flows |-> flows, complete |-> complete,
   quarterInputs |-> [ocfMarginQ |-> Null \notin {field(flow, "netCashFromOperatingActivities"), field(income, "operatingRevenue")},
                      fcfConversionRateQ |-> Null \notin {freeCashFlow(flow), field(income, "netIncome")}],
   quarterValues |-> [ocfMarginQ |-> percentOf(field(flow, "netCashFromOperatingActivities"), field(income, "operatingRevenue")),
                      fcfConversionRateQ |-> percentOfPositive(freeCashFlow(flow), field(income, "netIncome"))],
   values |-> cashFlowValues(b, marketCap, cashFlowYear(complete, years, flows))]

cashFlowInputs(q, b, income, flow, main, years, flows) ==
  valuedCashFlow(q, b, income, flow, main, IF main = Null THEN Null ELSE getMarketCap(main.date),
                 years, flows, cashFlowComplete(years, flows))

cashFlowInputsAt(q) ==
  IF q = Null THEN Null
  ELSE cashFlowInputs(q, balanceSheet(q), incomeStatement(q), cashFlowStatement(q),
                      anchorOfFirst(q, <<balanceSheet(q), incomeStatement(q), cashFlowStatement(q)>>),
                      resolveTrailingIncomeStatements(q).periods, resolveTrailingCashFlowStatements(q).periods)

resolveCashFlowValuationInputs(query) ==
  cashFlowInputsAt(resolveQuarterOrLatest(query, {"balanceSheet", "incomeStatement", "cashFlowStatement"}))

\* What each value needs besides the trailing year.
cashFlowInput(r, metric) ==
  CASE metric \in {"evToOcf", "evToSales"} -> r.enterpriseValue
    [] metric = "priceToOcf" -> r.marketCap
    [] metric = "debtToFcf" -> r.totalDebt
    [] metric = "croic" -> r.investedCapital
    [] OTHER -> 0

calcWhenKnown(value, known) == calcOr(value, IF known THEN "zero_or_negative_denominator" ELSE "missing_input")

cashFlowSlot(r, anchor, m) ==
  IF m \in DOMAIN r.quarterValues
  THEN periodSlot(r.mainAnchor, r.quarter, "Q", calcWhenKnown(r.quarterValues[m], r.quarterInputs[m]))
  ELSE IF r.complete
  THEN periodSlot(anchor, r.quarter, "TTM", calcWhenKnown(r.values[m], cashFlowInput(r, m) # Null))
  ELSE periodSlot(r.mainAnchor, r.quarter, "TTM", insufficientHistory)

anchoredCashFlowSlots(r, anchor) ==
  IF r.mainAnchor = Null \/ (r.complete /\ anchor = Null) THEN noQuarterBatch(cashFlowKeys)
  ELSE [m \in cashFlowKeys |-> cashFlowSlot(r, anchor, m)]

cashFlowSlots(r) ==
  IF r = Null THEN noQuarterBatch(cashFlowKeys)
  ELSE anchoredCashFlowSlots(r, resolveKnowledgeDate(pointsOf(r.periods)))

computeCashFlowValuationFamily(query) == cashFlowSlots(resolveCashFlowValuationInputs(query))

\* The entries of the parts a metric is made of.
entriesOfPart(r, part) ==
  CASE part = "debt" -> debtEntries(r.quarter, r.balance)
    [] part = "equity" -> {equityEntry(r.quarter, r.balance)}
    [] part = "cash" -> entriesOf(r.quarter, r.balance, {"cashAndEquivalents"})
    [] part = "marketCap" -> {entry(r.quarter, "marketCap", field(r.marketCap, "marketCap"))}
    [] part = "revenue" -> entriesOfPeriods(r.periods, {"operatingRevenue"})
    [] part = "netIncome" -> entriesOfPeriods(r.periods, {"netIncome"})
    [] part = "ocf" -> entriesOfPeriods(r.flows, {"netCashFromOperatingActivities"})
    [] part = "capex" -> entriesOfPeriods(r.flows, {"capitalExpenditures"})

cashFlowValuationEntries(r, parts) == UNION {entriesOfPart(r, part) : part \in parts}

tracedCashFlowOf(r, metric, parts) ==
  IF r = Null THEN notFound ELSE provenance(r.quarter, r.values[metric], cashFlowValuationEntries(r, parts))
tracedCashFlow(query, metric, parts) == tracedCashFlowOf(resolveCashFlowValuationInputs(query), metric, parts)

-----------------------------------------------------------------------------
(* DuPont family.                                                          *)

calculateNetProfitMargin(netIncome, operatingRevenue) == percentCalc(netIncome, operatingRevenue)
calculateAssetTurnover(operatingRevenue, assets) == ratio4Calc(operatingRevenue, assets)
calculateEquityMultiplier(assets, equity) == ratio4Calc(assets, equity)
calculateDupontTaxBurden(netIncome, profitBeforeTax) == percentCalc(netIncome, profitBeforeTax)
calculateDupontInterestBurden(profitBeforeTax, earnings) == percentCalc(profitBeforeTax, earnings)
calculateDupontEbitMargin(earnings, operatingRevenue) == percentCalc(earnings, operatingRevenue)

\* Rounded after each factor to stay in range; the source rounds once.
scaled(x, ratio4) == x * (ratio4 \div 10000) + rounded(x * (ratio4 % 10000), 10000)
productOf(margin, turnover, multiplier) == scaled(scaled(margin, turnover), multiplier)

calculateDupontDecomposedRoe(margin, turnover, multiplier) ==
  missingCalc(IF Null \in {margin, turnover, multiplier} THEN Null ELSE productOf(margin, turnover, multiplier))

calculateDupontExtendedRoe(taxBurden, interestBurden, ebitMargin, turnover, multiplier) ==
  missingCalc(IF Null \in {taxBurden, interestBurden, ebitMargin, turnover, multiplier} THEN Null
              ELSE productOf(scaled(scaled(taxBurden, interestBurden), ebitMargin), turnover, multiplier))

\* An average that is missing though the balance itself is there is history.
withAverageDenominator(result, average, current) ==
  IF result.value = Null /\ average = Null /\ current # Null THEN insufficientHistory ELSE result

dupontParts == {"netProfitMargin", "assetTurnover", "equityMultiplier", "dupontDecomposedRoe", "dupontTaxBurden",
                "dupontInterestBurden", "dupontEbitMargin", "dupontExtendedRoe"}

\* The eight parts of one period.
dupontFrom(margin, tax, interest, operating, turnover, multiplier) ==
  [netProfitMargin |-> margin, assetTurnover |-> turnover, equityMultiplier |-> multiplier,
   dupontDecomposedRoe |-> calculateDupontDecomposedRoe(margin.value, turnover.value, multiplier.value),
   dupontTaxBurden |-> tax, dupontInterestBurden |-> interest, dupontEbitMargin |-> operating,
   dupontExtendedRoe |-> calculateDupontExtendedRoe(tax.value, interest.value, operating.value,
                                                    turnover.value, multiplier.value)]
dupontOf(netIncome, revenue, preTax, earnings, turnover, multiplier) ==
  dupontFrom(calculateNetProfitMargin(netIncome, revenue), calculateDupontTaxBurden(netIncome, preTax),
             calculateDupontInterestBurden(preTax, earnings), calculateDupontEbitMargin(earnings, revenue), turnover, multiplier)

dupontMultiplier(assets, equity, b) ==
  withAverageDenominator(calculateEquityMultiplier(assets, equity), equity, pickEquity(b))

quarterlyDupont(income, b, assets, equity) ==
  dupontOf(pickNetIncome(income), field(income, "operatingRevenue"), field(income, "profitBeforeTax"), ebit(income),
    withAverageDenominator(calculateAssetTurnover(field(income, "operatingRevenue"), assets), assets, totalAssets(b)),
    dupontMultiplier(assets, equity, b))

yearlyDupont(periods, complete, b, assets, equity) ==
  dupontOf(sumTrailingPeriods(periods, pickNetIncome), sumOf(periods, "operatingRevenue"), sumOf(periods, "profitBeforeTax"),
    sumTrailingPeriods(periods, ebit),
    IF complete /\ assets # Null THEN calculateAssetTurnover(sumOf(periods, "operatingRevenue"), assets) ELSE insufficientHistory,
    dupontMultiplier(assets, equity, b))

whenKnown(known, result) == IF known THEN result ELSE insufficientHistory
roeWhen(known, roe) ==
  calcOr(IF known THEN roe.value ELSE Null, IF known THEN "missing_input" ELSE "insufficient_history")

trailingDupont(year, complete, extended) ==
  [year EXCEPT
    !.netProfitMargin = whenKnown(complete, @), !.dupontTaxBurden = whenKnown(extended, @),
    !.dupontInterestBurden = whenKnown(extended, @), !.dupontEbitMargin = whenKnown(extended, @),
    !.dupontDecomposedRoe = roeWhen(complete, @), !.dupontExtendedRoe = roeWhen(extended, @)]

dupontData(q, income, b, balances, periods, complete, extended) ==
  [quarter |-> q, income |-> income, balance |-> b, balances |-> balances, periods |-> periods, complete |-> complete,
   extended |-> extended, revenueTtm |-> sumOf(periods, "operatingRevenue"),
   quarterly |-> quarterlyDupont(income, b, assetsAvgQ(balances), equityAvgQ(balances)),
   trailing |-> trailingDupont(yearlyDupont(periods, complete, b, assetsAvgTtm(balances), equityAvgTtm(balances)), complete, extended)]

dupontComplete(periods) == allFiled(periods, {"operatingRevenue"}) /\ sumTrailingPeriods(periods, pickNetIncome) # Null

dupontDataOver(q, periods) ==
  dupontData(q, incomeStatement(q), balanceSheet(q), resolveAverageBalances(q), periods, dupontComplete(periods),
             dupontComplete(periods) /\ allFiled(periods, {"profitBeforeTax", "financeCosts"}))

dupontDataAt(q) == IF q = Null THEN Null ELSE dupontDataOver(q, resolveTrailingIncomeStatements(q).periods)

resolveDupontFamilyData(query) == dupontDataAt(resolveQuarterOrLatest(query, {"balanceSheet", "incomeStatement"}))

dupontSlot(r, main, k) ==
  IF k[2] = "q" THEN periodSlot(main, r.quarter, "Q", r.quarterly[k[1]])
  ELSE ttmSlot(r.periods, r.complete, r.trailing[k[1]], main, r.quarter)
anchoredDupontSlots(r, main) == [k \in dupontParts \X {"q", "ttm"} |-> dupontSlot(r, main, k)]

dupontSlots(r) ==
  IF r = Null THEN noQuarterBatch(dupontParts \X {"q", "ttm"})
  ELSE anchoredDupontSlots(r, anchorOfFirst(r.quarter, <<r.balance, r.income>>))

computeDupontFamily(query) == dupontSlots(resolveDupontFamilyData(query))

\* Without an anchor of its own the quarter is skipped, even if its year has one.
scoreSlot(mainAnchor, periods, complete, q, result) ==
  IF mainAnchor = Null THEN skip("skipped_no_knowledge_date")
  ELSE IF complete THEN periodSlot(resolveKnowledgeDate(pointsOf(periods)), q, "TTM", result)
  ELSE periodSlot(mainAnchor, q, "TTM", calc(Null, result.nullReason))

\* Mutant of averagedCalc: the reason looks at the denominator alone.
averagedCalcHalfReason(numerator, average, current) ==
  calc(percentOf(numerator, average), because(average, "insufficient_history"))

\* The balance is there but not the one before it: there is no history yet.
averagedCalc(numerator, average, current) ==
  calcOr(percentOf(numerator, average),
         IF numerator # Null /\ current # Null /\ average = Null THEN "insufficient_history"
         ELSE determineNullReason(numerator, orElse(average, current)))

averageBalanceEntries(balances, Entries(_, _)) ==
  UNION {Entries(balances.at - 5 + i, balances.sheets[i]) : i \in {balances.points[j] : j \in DOMAIN balances.points}}

averagedDenominatorEntry(balances, name, value) == entry(balances.at, name, value)

commonShareEntries(q, shares, more) ==
  entriesOf(q, shares, {"outstandingCommonShares", "issuedShares", "preferredShares", "treasuryShares"} \union more)

investedCapitalComponents(q, b) ==
  debtEntries(q, b) \union {equityEntry(q, b)} \union entriesOf(q, b, {"cashAndEquivalents"})

-----------------------------------------------------------------------------
(* Margins.  An insurer that reports no revenue is read from the insurance *)
(* statement instead, quarter by quarter.                                  *)

calculateGrossMargin(grossProfit, revenue) == percentCalc(grossProfit, revenue)
calculateOperatingMargin(operatingIncome, revenue) == percentCalc(operatingIncome, revenue)

marginInputs(revenue, gross, operating, isInsurance) ==
  [revenue |-> revenue, grossProfitLike |-> gross, operatingIncomeLike |-> operating, isInsuranceFallback |-> isInsurance]

marginInputsFrom(income, insurance) ==
  IF field(income, "operatingRevenue") # Null
  THEN marginInputs(income.operatingRevenue, income.grossProfit, income.operatingIncome, FALSE)
  ELSE IF insurance # Null
  THEN marginInputs(insurance.insuranceRevenue, insurance.insuranceServiceResult, insurance.netOperatingIncomeLoss, TRUE)
  ELSE IF income # Null THEN marginInputs(Null, Null, Null, FALSE)
  ELSE Null

getMarginInputs(q) == marginInputsFrom(incomeStatement(q), insuranceIncomeStatement(q))

\* A half year has no insurance statement of its own.
marginInputsOver(trailing) ==
  [i \in DOMAIN trailing.periods |->
     [trailing.periods[i] EXCEPT
        !.record = marginInputsFrom(@, IF trailing.basis = "quarters" THEN insuranceIncomeStatement(trailing.periods[i].quarter)
                                       ELSE Null)]]
resolveTrailingMarginInputs(q) == marginInputsOver(resolveTrailingIncomeStatements(q))

marginQuarter(query) ==
  IF query # Null THEN query
  ELSE orElse(getLatestAvailableQuarter({"incomeStatement"}), latestQuarterWith("insuranceIncomeStatement"))

quarterMargins(q, inputs, main) ==
  [grossMarginQ |-> periodSlot(main, q, "Q", calculateGrossMargin(field(inputs, "grossProfitLike"), field(inputs, "revenue"))),
   operatingMarginQ |-> periodSlot(main, q, "Q", calculateOperatingMargin(field(inputs, "operatingIncomeLike"), field(inputs, "revenue")))]

trailingMargins(q, periods, complete, main) ==
  [grossMarginTtm |-> ttmSlot(periods, complete, calculateGrossMargin(sumOf(periods, "grossProfitLike"), sumOf(periods, "revenue")), main, q),
   operatingMarginTtm |->
     ttmSlot(periods, complete, calculateOperatingMargin(sumOf(periods, "operatingIncomeLike"), sumOf(periods, "revenue")), main, q)]

annualMarginsOf(context, year) ==
  [grossMarginFy |-> annualReportSlot(context, calculateGrossMargin(field(year, "grossProfit"), field(year, "operatingRevenue"))),
   operatingMarginFy |-> annualReportSlot(context, calculateOperatingMargin(field(year, "operatingIncome"), field(year, "operatingRevenue"))),
   netProfitMarginFy |-> annualReportSlot(context, calculateNetProfitMargin(annualNetIncome(year), field(year, "operatingRevenue")))]
annualMargins(context) == annualMarginsOf(context, field(context, "annual"))

marginKeys == {"grossMarginQ", "grossMarginTtm", "grossMarginFy", "operatingMarginQ", "operatingMarginTtm", "operatingMarginFy",
               "netProfitMarginFy"}

\* A financial company that is no insurer has no margins.
marginsInapplicable == isFinancialIndustryCompany /\ latestQuarterWith("insuranceIncomeStatement") = Null
relabelMargin(slot, inapplicable) ==
  IF inapplicable /\ ~isComputationSkip(slot) /\ slot.value = Null
  THEN [slot EXCEPT !.nullReason = "not_applicable_industry"] ELSE slot
relabelMargins(slots, inapplicable) == [k \in DOMAIN slots |-> relabelMargin(slots[k], inapplicable)]

trailingMarginsFrom(q, periods, main) ==
  trailingMargins(q, periods, allFiled(periods, {"revenue", "grossProfitLike", "operatingIncomeLike"}), main)

marginsFrom(q, inputs, main) ==
  relabelMargins(joined(joined(quarterMargins(q, inputs, main), trailingMarginsFrom(q, resolveTrailingMarginInputs(q), main)),
                        annualMargins(resolveAnnualReportContext(q))), marginsInapplicable)

computeMarginsFamily(query) ==
  slotsFrom(marginQuarter(query), marginKeys,
              LAMBDA q : marginsFrom(q, getMarginInputs(q), anchorOf(q, getMarginInputs(q))))

-----------------------------------------------------------------------------
(* Compound annual growth, in steps of CagrStep percent: an abstraction of *)
(* the rounding to the hundredth that keeps the order of the rates.        *)

CagrStep == 5
MaxCagr == 100

\* A factor of 10000 compounded for some years.
compounded(percent, years) ==
  LET after[n \in 0..years] == IF n = 0 THEN 10000 ELSE (after[n - 1] * (100 + percent)) \div 100
  IN after[years]

reachesCagr(percent, current, prior, years) ==
  percent = -100 \/ compounded(percent, years) <= rounded(100 * current, prior) * 100

\* A root of a negative number is no number.
cagr(current, prior, years) ==
  IF current < 0 THEN NaN
  ELSE Max({p \in {CagrStep * k : k \in (-100 \div CagrStep)..(MaxCagr \div CagrStep)} : reachesCagr(p, current, prior, years)})

\* The share basis every year is restated to: that of the last change on record.
splitRestateBasis == Max({0} \union {e.registered : e \in {x \in shareChanges : x.registered # Null}})

-----------------------------------------------------------------------------
(* What the exchange publishes every day is passed through.                *)

calculateExchangePeRatio(peRatio) == calc(peRatio, because(peRatio, "missing_input"))
calculateExchangePbRatio(pbRatio) == calc(pbRatio, because(pbRatio, "missing_input"))
calculateDividendYield(dividendYield) == calc(dividendYield, because(dividendYield, "missing_input"))

marketRatio(metric, valuation) ==
  CASE metric = "exchangePeRatio" -> calculateExchangePeRatio(valuation.peRatio)
    [] metric = "exchangePbRatio" -> calculateExchangePbRatio(valuation.pbRatio)
    [] metric = "dividendYield" -> calculateDividendYield(valuation.dividendYield)

computeMarketRatios(day) ==
  LET valuation == getDailyValuation(day)
      metrics == {"exchangePeRatio", "exchangePbRatio", "dividendYield"}
  IN IF valuation = Null THEN [m \in metrics |-> skip("skipped_no_trade_date")]
     ELSE [m \in metrics |-> dailySlot(valuation.tradeDate, marketRatio(m, valuation))]

getMarketRatioProvenanceFor(metric, day) ==
  tracedFrom(getDailyValuation(day), LAMBDA valuation :
    LET price == getStockPrice(valuation.tradeDate)
    IN provenance(Null, marketRatio(metric, valuation).value,
         {entry(valuation.tradeDate, metric, marketRatio(metric, valuation).value),
          entry(valuation.tradeDate, "close", field(price, "closePrice"))}))

-----------------------------------------------------------------------------
(* Per-share figures of the latest quarter on the share basis of the day   *)
(* of the latest price, in ten-thousandths.                                *)

MaxBasisAge == 20 \* days of this calendar, for MAX_BASIS_AGE_DAYS

\* Events are applied in the order of their days; of one day, dividends first.
sameDayOrder(e) == CASE e.kind = "cashDividend" -> 0 [] e.kind = "shareChange" -> 1 [] OTHER -> 2

rollForwardPerShare(base, events, day) ==
  LET added == {e \in events : e.kind = "cashDividend" /\ e.recognizedAtBasis /\ e.date > day}
      start == [base EXCEPT !.bvps = IF @ = Null THEN Null ELSE FoldSet(LAMBDA e, x : x + e.perShare, @, added)]
      applied == SetToSortSeq({e \in events : e.date <= day},
                   LAMBDA x, y : \/ x.date < y.date
                                 \/ x.date = y.date /\ sameDayOrder(x) < sameDayOrder(y))
      apply(e, x) ==
        CASE e.kind = "cashDividend" ->
               IF e.recognizedAtBasis THEN x ELSE [x EXCEPT !.bvps = minus(@, e.perShare)]
          [] e.kind = "shareChange" ->
               [x EXCEPT !.shares = rounded(@ * e.multiplier, 100),
                         !.bvps = IF @ = Null THEN Null ELSE rounded((@ - e.cashPerOldShare) * 100, e.multiplier),
                         !.eps = IF @ = Null THEN Null ELSE rounded(@ * 100, e.multiplier)]
          [] OTHER -> [x EXCEPT !.shares = @ + e.newShares]
  IN FoldLeft(LAMBDA x, e : apply(e, x), start, applied)

\* Shares come in lots of ten.
perShare4(thousands, shares) == IF thousands = Null THEN Null ELSE rounded(1000000 * thousands, shares \div 10)

\* The shares the figures are per; none of a quarter filed too long ago.
basisShares(filed, day) ==
  IF filed = Null \/ day - filed > MaxBasisAge THEN Null ELSE getOutstandingCommonShares(filed)

perBasisShare(b, earned, shares, atBasis) ==
  [shares |-> atBasis, bvps |-> perShare4(toCommonEquity(pickEquity(b), shares.preferredClaimThousands), atBasis),
   eps |-> perShare4(minus(earned, shares.preferredDividendsTtmThousands), atBasis)]

rolledTo(day, b, earned, shares, basis) ==
  rollForwardPerShare(perBasisShare(b, earned, shares, rounded(shares.outstandingCommonShares * basis.basisMultiplier, 100)),
                      basis.events, day)

live(price, q, b, earned, shares, basis, figures) ==
  [status |-> "ok", tradeDate |-> price.tradeDate, close |-> price.close, quarter |-> q, epsTtm |-> figures.eps,
   bvps |-> figures.bvps, ttmComplete |-> earned # Null, shares |-> shares, balance |-> b, basis |-> basis,
   recent |-> getPastNQuarters(q, 4)]

liveOnBasis(price, q, b, earned, shares, basis) ==
  live(price, q, b, earned, shares, basis,
       IF shares = Null THEN [eps |-> Null, bvps |-> Null] ELSE rolledTo(price.tradeDate, b, earned, shares, basis))

liveSince(filed, price, q, b, earned, shares) ==
  liveOnBasis(price, q, b, earned, shares, IF shares = Null THEN Null ELSE getShareBasisEvents(filed, price.tradeDate))

liveFrom(filed, price, q, b, earned) == liveSince(filed, price, q, b, earned, basisShares(filed, price.tradeDate))

liveAt(price, q, sources) ==
  IF price = Null THEN [status |-> "no_trade_date"]
  ELSE IF q = Null THEN [status |-> "no_quarter", tradeDate |-> price.tradeDate]
  ELSE liveFrom(firstOf(<<reportDate(balanceSheet(q), q), reportDate(incomeStatement(q), q)>>), price, q, balanceSheet(q),
                IF "incomeStatement" \in sources THEN total([i \in 1..4 |-> pickNetIncome(incomeStatement(q - 4 + i))]) ELSE Null)

resolveLivePerShare(sources) == liveAt(getLatestDailyPrice, getLatestAvailableQuarter(sources), sources)

isBeforeLatestTradeDate(day, tradeDate) == day # Null /\ day < tradeDate

liveClosePriceEntry(of) == entry(of.tradeDate, "close", of.close)

livePerShareEntries(of, wantBvps, wantEps) ==
  LET q == of.quarter
      when(wanted, entries) == IF wanted THEN entries ELSE {}
      relevant == {e \in of.basis.events : /\ e.date <= of.tradeDate \/ (e.kind = "cashDividend" /\ e.recognizedAtBasis)
                                           /\ e.kind = "cashDividend" => wantBvps}
  IN when(wantBvps, {equityEntry(q, of.balance), entry(q, "bvps", of.bvps)})
     \union when(wantEps, {netIncomeEntry(r, incomeStatement(r)) : r \in {of.recent[i] : i \in 1..4}}
                          \union {entry(q, "epsTtm", of.epsTtm)})
     \union when(of.shares # Null,
              {entry(q, "outstandingCommonShares", field(of.shares, "outstandingCommonShares"))}
              \union when(wantBvps, {entry(q, "preferredClaim", field(of.shares, "preferredClaimThousands"))})
              \union when(wantEps, {entry(q, "preferredDividends", field(of.shares, "preferredDividendsTtmThousands"))}))
     \union when(of.basis # Null,
              {entry(q, "basisMultiplier", of.basis.basisMultiplier)}
              \union UNION {entriesOf(e.date, e, {"perShare", "multiplier", "newShares"}) : e \in relevant})
=============================================================================
