----------------------------- MODULE Resilience -----------------------------
(***************************************************************************)
(* The metrics of application/metrics/resilience and what each of them is  *)
(* traced to.  A compute operator answers the slots of its batch, a get    *)
(* operator the value shown with its entries; the two are written apart in *)
(* the source and are written apart here.                                  *)
(***************************************************************************)
EXTENDS SharedFamilies

-----------------------------------------------------------------------------
(* One balance sheet.                                                      *)

calculateCurrentRatio(currentAssets, currentLiabilities) == percentCalc(currentAssets, currentLiabilities)
calculateQuickRatio(currentAssets, inventory, currentLiabilities) ==
  percentCalc(minus(currentAssets, inventory), currentLiabilities)
calculateCashRatio(cash, currentLiabilities) == percentCalc(cash, currentLiabilities)

computeLiquidityRatio(query) ==
  onBalanceSheet(query, LAMBDA b :
    LET current == field(b, "currentAssets")
        owed == field(b, "currentLiabilities")
    IN [currentRatio |-> calculateCurrentRatio(current, owed),
        quickRatio |-> calculateQuickRatio(current, field(b, "inventory"), owed),
        cashRatio |-> calculateCashRatio(field(b, "cashAndEquivalents"), owed)])

resolveLiquidityRatioProvenanceInputs(query, Value(_), names) == tracedToBalanceSheet(query, Value, names)

getCurrentRatioProvenance(query) ==
  resolveLiquidityRatioProvenanceInputs(query,
    LAMBDA b : calculateCurrentRatio(field(b, "currentAssets"), field(b, "currentLiabilities")).value,
    {"currentAssets", "currentLiabilities"})

getQuickRatioProvenance(query) ==
  resolveLiquidityRatioProvenanceInputs(query,
    LAMBDA b : calculateQuickRatio(field(b, "currentAssets"), field(b, "inventory"), field(b, "currentLiabilities")).value,
    {"currentAssets", "inventory", "currentLiabilities"})

getCashRatioProvenance(query) ==
  resolveLiquidityRatioProvenanceInputs(query,
    LAMBDA b : calculateCashRatio(field(b, "cashAndEquivalents"), field(b, "currentLiabilities")).value,
    {"cashAndEquivalents", "currentLiabilities"})

computeDeRatio(query) ==
  onBalanceSheet(query, LAMBDA b : [q |-> percentCalc(interestBearingDebt(b), pickEquity(b))])

additionalDebtEntries(quarter, balance) ==
  entriesOf(quarter, balance, {"shortTermNotesAndBillsPayable", "currentPortionOfLongTermLiabilities"})

borrowingEntries(quarter, balance) ==
  entriesOf(quarter, balance, {"shortTermBorrowings", "bondsPayable", "longTermBorrowings"})
  \union additionalDebtEntries(quarter, balance)

\* Mutant of getDeRatioProvenance: the equity is not picked the way the use case picks it.
getDeRatioProvenanceTotalEquity(query) ==
  tracedToBalanceSheet(query, LAMBDA b : percentOf(interestBearingDebt(b), field(b, "totalEquity")),
                       DebtFields \union {"totalEquity"})

getDeRatioProvenance(query) ==
  traced(query, {"balanceSheet"}, LAMBDA q :
    LET b == balanceSheet(q)
    IN provenance(q, percentOf(interestBearingDebt(b), pickEquity(b)),
                  borrowingEntries(q, b) \union {equityEntry(q, b)}))

computeDebtRatio(query) ==
  onBalanceSheet(query, LAMBDA b : [q |-> percentCalc(field(b, "totalLiabilities"), totalAssets(b))])

getDebtRatioProvenance(query) ==
  tracedToBalanceSheet(query, LAMBDA b : percentOf(field(b, "totalLiabilities"), totalAssets(b)),
                       {"totalLiabilities", "totalAssets"})

computeCashToAssetsRatio(query) ==
  onBalanceSheet(query, LAMBDA b : [q |-> percentCalc(field(b, "cashAndEquivalents"), totalAssets(b))])

getCashToAssetsRatioProvenance(query) ==
  tracedToBalanceSheet(query, LAMBDA b : percentOf(field(b, "cashAndEquivalents"), totalAssets(b)),
                       {"cashAndEquivalents", "totalAssets"})

computeEquityRatio(query) ==
  onBalanceSheet(query, LAMBDA b : [q |-> percentCalc(field(b, "totalEquity"), totalAssets(b))])

getEquityRatioProvenance(query) ==
  tracedToBalanceSheet(query, LAMBDA b : percentOf(field(b, "totalEquity"), totalAssets(b)),
                       {"totalEquity", "totalAssets"})

computeTotalDebtToCapital(query) ==
  onBalanceSheet(query, LAMBDA b :
    LET debt == interestBearingDebt(b) IN [q |-> percentCalc(debt, plus(debt, pickEquity(b)))])

getTotalDebtToCapitalProvenance(query) ==
  traced(query, {"balanceSheet"}, LAMBDA q :
    LET b == balanceSheet(q)
        debt == interestBearingDebt(b)
    IN provenance(q, percentOf(debt, plus(debt, pickEquity(b))), borrowingEntries(q, b) \union {equityEntry(q, b)}))

netCurrentAssets(b) == minus(field(b, "currentAssets"), field(b, "currentLiabilities"))

computeNetWorkingCapitalToAssets(query) ==
  onBalanceSheet(query, LAMBDA b : [q |-> percentCalc(netCurrentAssets(b), totalAssets(b))])

getNetWorkingCapitalToAssetsProvenance(query) ==
  tracedToBalanceSheet(query, LAMBDA b : percentOf(netCurrentAssets(b), totalAssets(b)),
                       {"currentAssets", "currentLiabilities", "totalAssets"})

longTermDebt(b) == IF b = Null THEN Null ELSE orZero(b.longTermBorrowings) + orZero(b.bondsPayable)

\* Net current assets that are not positive make the multiple meaningless.
longTermDebtShare(b) ==
  IF netCurrentAssets(b) = Null \/ netCurrentAssets(b) <= 0 THEN Null
  ELSE percentOf(longTermDebt(b), netCurrentAssets(b))

computeLongTermDebtToNetCurrentAssets(query) ==
  onBalanceSheet(query, LAMBDA b :
    [q |-> calc(longTermDebtShare(b),
                because(longTermDebtShare(b), determineNullReason(longTermDebt(b), netCurrentAssets(b))))])

getLongTermDebtToNetCurrentAssetsProvenance(query) ==
  tracedToBalanceSheet(query, longTermDebtShare,
                       {"longTermBorrowings", "bondsPayable", "currentAssets", "currentLiabilities"})

computeCashPerShare(query) ==
  Batch(query, {"balanceSheet"}, {"q"}, LAMBDA q :
    LET b == balanceSheet(q)
        cash == field(b, "cashAndEquivalents")
        value == perShareOf(cash, sharesAt(b, q))
    IN [k \in {"q"} |-> periodSlot(anchorOf(q, b), q, "Q",
                                   calc(value, because(value, determineNullReason(cash, sharesAt(b, q)))))])

getCashPerShareProvenance(query) ==
  traced(query, {"balanceSheet"}, LAMBDA q :
    LET b == balanceSheet(q)
    IN provenance(q, perShareOf(field(b, "cashAndEquivalents"), sharesAt(b, q)),
                  entriesOf(q, b, {"cashAndEquivalents"}) \union {entry(q, "outstandingCommonShares", sharesAt(b, q))}))

-----------------------------------------------------------------------------
(* A trailing year.                                                        *)

computeInterestCoverage(query) ==
  Batch(query, {"incomeStatement"}, {"q", "ttm"}, LAMBDA q :
    LET income == incomeStatement(q)
        main == anchorOf(q, income)
        periods == resolveTrailingIncomeStatements(q).periods
        complete == allFiled(periods, {"profitBeforeTax", "financeCosts"})
        ttm == ratioCalc(sumTrailingPeriods(periods, ebit), sumOf(periods, "financeCosts"))
    IN [q |-> periodSlot(main, q, "Q", ratioCalc(ebit(income), field(income, "financeCosts"))),
        ttm |-> ttmSlot(periods, complete, ttm, main, q)])

getInterestCoverageProvenance(query) ==
  traced(query, {"incomeStatement"}, LAMBDA q :
    LET periods == resolveTrailingIncomeStatements(q).periods
        value == ratioOf(sumTrailingPeriods(periods, ebit), sumOf(periods, "financeCosts"))
    IN provenance(q, value, entriesOfPeriods(periods, {"profitBeforeTax", "financeCosts"})))

\* Scores are rounded to hundredths, their weights are in thousandths and
\* the ratios in ten-thousandths.

\* The two parts that are flows wait for a complete trailing year.
altmanZ(b, marketCap, periods, complete) ==
  LET assets == totalAssets(b)
      x1 == ratio4Of(netCurrentAssets(b), assets)
      x2 == ratio4Of(field(b, "retainedEarnings"), assets)
      x3 == IF complete THEN ratio4Of(sumTrailingPeriods(periods, ebit), assets) ELSE Null
      x4 == IF marketCap = Null \/ field(b, "totalLiabilities") = Null THEN Null
            ELSE rounded(10 * marketCap.marketCap, b.totalLiabilities)
      x5 == IF complete THEN ratio4Of(sumOf(periods, "operatingRevenue"), assets) ELSE Null
      weighted == total(<<times(1200, x1), times(1400, x2), times(3300, x3), times(600, x4), times(999, x5)>>)
  IN IF weighted = Null THEN Null ELSE rounded(weighted, 100000)

scoreResult(score, reason) == IF isFinancialIndustryCompany THEN notApplicable ELSE calcOr(score, reason)

resolveAltmanZScoreInputs(query) ==
  LET q == resolveQuarterOrLatest(query, {"balanceSheet", "incomeStatement"})
      b == balanceSheet(q)
      main == anchorOf(q, b)
      marketCap == IF main = Null THEN Null ELSE getMarketCap(main.date)
      periods == resolveTrailingIncomeStatements(q).periods
      complete == allFiled(periods, {"profitBeforeTax", "financeCosts", "operatingRevenue"})
  IN IF q = Null THEN Null
     ELSE [quarter |-> q, balance |-> b, marketCap |-> marketCap, periods |-> periods, complete |-> complete,
           result |-> scoreResult(altmanZ(b, marketCap, periods, complete),
                                  IF complete THEN "missing_input" ELSE "insufficient_history"),
           mainAnchor |-> main]

computeAltmanZScore(query) ==
  slotsFrom(resolveAltmanZScoreInputs(query), {"ttm"}, LAMBDA r :
    [ttm |-> scoreSlot(r.mainAnchor, r.periods, r.complete, r.quarter, r.result)])

getAltmanZScoreProvenance(query) ==
  tracedFrom(resolveAltmanZScoreInputs(query), LAMBDA r :
    LET balanceFields == {"currentAssets", "currentLiabilities", "retainedEarnings", "totalAssets", "totalLiabilities"}
    IN provenance(r.quarter, r.result.value,
         entriesOf(r.quarter, r.balance, balanceFields)
         \union {entry(r.quarter, "marketCap", field(r.marketCap, "marketCap"))}
         \union entriesOfPeriods(r.periods, {"profitBeforeTax", "financeCosts", "operatingRevenue"})))

isZDoublePrimeSector == industry \in {"service", "software"}

zDoublePrime(b, periods) ==
  LET assets == totalAssets(b)
      x1 == ratio4Of(netCurrentAssets(b), assets)
      x2 == ratio4Of(field(b, "retainedEarnings"), assets)
      x3 == ratio4Of(sumTrailingPeriods(periods, ebit), assets)
      x4 == ratio4Of(pickEquity(b), field(b, "totalLiabilities"))
      weighted == total(<<times(656, x1), times(326, x2), times(672, x3), times(105, x4)>>)
  IN IF weighted = Null THEN Null ELSE rounded(weighted, 10000)

computeAltmanZDoublePrimeScore(query) ==
  IF ~isZDoublePrimeSector THEN noQuarterBatch({"ttm"})
  ELSE Batch(query, {"balanceSheet", "incomeStatement"}, {"ttm"}, LAMBDA q :
    LET b == balanceSheet(q)
        periods == resolveTrailingIncomeStatements(q).periods
        complete == allFiled(periods, {"profitBeforeTax", "financeCosts"})
        result == calcOr(zDoublePrime(b, periods), IF complete THEN "missing_input" ELSE "insufficient_history")
    IN [ttm |-> scoreSlot(anchorOf(q, b), periods, complete, q, result)])

\* The sector is not asked again.
getAltmanZDoublePrimeScoreProvenance(query) ==
  traced(query, {"balanceSheet", "incomeStatement"}, LAMBDA q :
    LET b == balanceSheet(q)
        periods == resolveTrailingIncomeStatements(q).periods
        balanceFields == {"currentAssets", "currentLiabilities", "totalAssets", "totalLiabilities", "retainedEarnings"}
    IN provenance(q, zDoublePrime(b, periods),
         entriesOf(q, b, balanceFields) \union {equityEntry(q, b)}
         \union entriesOfPeriods(periods, {"profitBeforeTax", "financeCosts"})))

\* In ten-thousandths: -4.3 - 4.5 roa + 5.7 leverage - 0.004 current ratio.
zmijewski(b, netIncomeTtm) ==
  LET assets == totalAssets(b)
      owed == field(b, "currentLiabilities")
  IN IF Null \in {netIncomeTtm, assets, owed, field(b, "totalLiabilities"), field(b, "currentAssets")}
        \/ assets = 0 \/ owed = 0
     THEN Null
     ELSE rounded(-43000 * assets * owed - 45000 * netIncomeTtm * owed + 57000 * b.totalLiabilities * owed
                  - 40 * b.currentAssets * assets, assets * owed)

\* Why there is no score.
zmijewskiReason(b, netIncomeTtm) ==
  LET known == {totalAssets(b)} \union {field(b, f) : f \in {"totalLiabilities", "currentAssets", "currentLiabilities"}}
  IN IF netIncomeTtm = Null THEN "insufficient_history"
     ELSE IF Null \in known THEN "missing_input" ELSE "zero_or_negative_denominator"

zmijewskiSlot(q, b, periods, netIncomeTtm, result) ==
  IF netIncomeTtm # Null THEN periodSlot(resolveKnowledgeDate(pointsOf(periods)), q, "TTM", result)
  ELSE periodSlot(anchorOf(q, b), q, "TTM", calc(Null, result.nullReason))

zmijewskiSlotOf(q, b, periods, netIncomeTtm) ==
  zmijewskiSlot(q, b, periods, netIncomeTtm,
                scoreResult(zmijewski(b, netIncomeTtm), zmijewskiReason(b, netIncomeTtm)))

computeZmijewskiScore(query) ==
  Batch(query, {"balanceSheet", "incomeStatement"}, {"ttm"}, LAMBDA q :
    LET periods == resolveTrailingIncomeStatements(q).periods
    IN [ttm |-> zmijewskiSlotOf(q, balanceSheet(q), periods, sumTrailingPeriods(periods, pickNetIncome))])

\* Nor is the industry here.
getZmijewskiScoreProvenance(query) ==
  traced(query, {"balanceSheet", "incomeStatement"}, LAMBDA q :
    LET b == balanceSheet(q)
        periods == resolveTrailingIncomeStatements(q).periods
    IN provenance(q, zmijewski(b, sumTrailingPeriods(periods, pickNetIncome)),
         entriesOf(q, b, {"totalAssets", "totalLiabilities", "currentAssets", "currentLiabilities"})
         \union netIncomeEntries(periods)))

\* Natural logarithm in ten-thousandths, of the power of two below n.
lnBelow(n) == 6931 * Cardinality({k \in 1..20 : 2 ^ k <= n})

priceLevelAvailable == PriceLevel # Null /\ PriceLevel.usdTwd > 0 /\ PriceLevel.deflator > 0 /\ PriceLevel.deflatorBase > 0

ohlsonO(b, netIncome, prior, ocf) ==
  LET assets == totalAssets(b)
      liabilities == field(b, "totalLiabilities")
      size == IF assets = Null \/ assets <= 0 \/ ~priceLevelAvailable THEN Null
              ELSE lnBelow((assets * 1000 * PriceLevel.deflatorBase) \div (PriceLevel.usdTwd * PriceLevel.deflator * 100))
      oeneg == IF assets = Null \/ liabilities = Null THEN Null ELSE IF liabilities > assets THEN 10000 ELSE 0
      intwo == IF netIncome = Null \/ prior = Null THEN Null ELSE IF netIncome < 0 /\ prior < 0 THEN 10000 ELSE 0
      chin == IF netIncome = Null \/ prior = Null THEN Null
              ELSE toRatio4(netIncome - prior, abs(netIncome) + abs(prior))
      weighted == total(<<times(-407, size), times(6030, ratio4Of(liabilities, assets)),
                          times(-1430, ratio4Of(netCurrentAssets(b), assets)),
                          times(76, ratio4Of(field(b, "currentLiabilities"), field(b, "currentAssets"))),
                          times(-1720, oeneg), times(-2370, ratio4Of(netIncome, assets)),
                          times(-1830, ratio4Of(ocf, liabilities)), times(285, intwo), times(-521, chin)>>)
  IN IF weighted = Null THEN Null ELSE rounded(weighted, 1000) - 13200

ohlsonReason(b, complete) ==
  LET known == {totalAssets(b)} \union {field(b, f) : f \in {"totalLiabilities", "currentAssets", "currentLiabilities"}}
  IN IF ~complete THEN "insufficient_history"
     ELSE IF Null \in known \/ ~priceLevelAvailable THEN "missing_input" ELSE "zero_or_negative_denominator"

ohlsonInputs(q, b, income, priorIncome, cashFlow, netIncome, prior, ocf) ==
  [quarter |-> q, balance |-> b, income |-> income, priorIncome |-> priorIncome, cashFlow |-> cashFlow,
   complete |-> Null \notin {netIncome, prior, ocf},
   result |-> calcOr(ohlsonO(b, netIncome, prior, ocf), ohlsonReason(b, Null \notin {netIncome, prior, ocf}))]

resolveOhlsonOScoreInputs(query) ==
  LET q == resolveQuarterOrLatest(query, {"balanceSheet", "incomeStatement", "cashFlowStatement"})
      income == resolveTrailingIncomeStatements(q).periods
      priorIncome == resolveTrailingIncomeStatements(q - 4).periods
      cashFlow == resolveTrailingCashFlowStatements(q).periods
  IN IF q = Null THEN Null
     ELSE ohlsonInputs(q, balanceSheet(q), income, priorIncome, cashFlow, sumTrailingPeriods(income, pickNetIncome),
                       sumTrailingPeriods(priorIncome, pickNetIncome), sumOf(cashFlow, "netCashFromOperatingActivities"))

ohlsonSlot(r, result) ==
  IF r.complete
  THEN periodSlot(resolveKnowledgeDate(pointsOf(r.income) \union pointsOf(r.priorIncome)), r.quarter, "TTM", result)
  ELSE periodSlot(anchorOf(r.quarter, r.balance), r.quarter, "TTM", calc(Null, result.nullReason))

computeOhlsonOScore(query) ==
  slotsFrom(resolveOhlsonOScoreInputs(query), {"ttm"}, LAMBDA r :
    [ttm |-> ohlsonSlot(r, IF isFinancialIndustryCompany THEN notApplicable ELSE r.result)])

getOhlsonOScoreProvenance(query) ==
  tracedFrom(resolveOhlsonOScoreInputs(query), LAMBDA r :
    provenance(r.quarter, r.result.value,
      entriesOf(r.quarter, r.balance, {"totalAssets", "totalLiabilities", "currentAssets", "currentLiabilities"})
      \union entriesOf(r.quarter, PriceLevel, {"usdTwd", "deflator", "deflatorBase"})
      \union netIncomeEntries(r.income) \union netIncomeEntries(r.priorIncome)
      \union entriesOfPeriods(r.cashFlow, {"netCashFromOperatingActivities"})))

PensionTaxRate == 20

sAndPAdjustedDebt(b) ==
  IF b = Null THEN Null
  ELSE interestBearingDebt(b) + orZero(b.currentLeaseLiabilities) + orZero(b.noncurrentLeaseLiabilities)
       + rounded((100 - PensionTaxRate) * orZero(b.netDefinedBenefitLiability), 100)

ebitdaFields == {"profitBeforeTax", "financeCosts"}
nonCashFields == {"depreciation", "amortization"}

\* Income and cash flow periods are paired by position.
ebitdaTtm(income, cashFlow) ==
  total(<<sumTrailingPeriods(income, ebit), sumOf(cashFlow, "depreciation"), sumOf(cashFlow, "amortization")>>)

netDebtMultiple(netDebt, ebitda) ==
  IF netDebt = Null \/ ebitda = Null \/ ebitda <= 0 THEN Null ELSE toRatio(netDebt, ebitda)

netDebtSlot(q, filed, income, netDebt, ebitda) ==
  ttmSlot(income, ebitda # Null,
          calc(netDebtMultiple(netDebt, ebitda), because(netDebtMultiple(netDebt, ebitda), determineNullReason(netDebt, ebitda))),
          resolveKnowledgeDate({<<q, filed>>}), q)

computeNetDebtToEbitda(query) ==
  Batch(query, {"balanceSheet", "incomeStatement", "cashFlowStatement"}, {"ttm"}, LAMBDA q :
    LET b == balanceSheet(q)
        netDebt == minus(sAndPAdjustedDebt(b), field(b, "cashAndEquivalents"))
        filed == firstOf(<<reportDate(b, q), reportDate(incomeStatement(q), q), reportDate(cashFlowStatement(q), q)>>)
        income == resolveTrailingIncomeStatements(q).periods
        cashFlow == resolveTrailingCashFlowStatements(q).periods
    IN [ttm |-> netDebtSlot(q, filed, income, netDebt, ebitdaTtm(income, cashFlow))])

getNetDebtToEbitdaProvenance(query) ==
  traced(query, {"balanceSheet", "incomeStatement", "cashFlowStatement"}, LAMBDA q :
    LET b == balanceSheet(q)
        netDebt == minus(sAndPAdjustedDebt(b), field(b, "cashAndEquivalents"))
        income == resolveTrailingIncomeStatements(q).periods
        cashFlow == resolveTrailingCashFlowStatements(q).periods
        leases == {"currentLeaseLiabilities", "noncurrentLeaseLiabilities", "netDefinedBenefitLiability"}
    IN provenance(q, netDebtMultiple(netDebt, ebitdaTtm(income, cashFlow)),
         borrowingEntries(q, b) \union entriesOf(q, b, leases \union {"cashAndEquivalents"})
         \union entriesOfPeriods(income, ebitdaFields) \union entriesOfPeriods(cashFlow, nonCashFields)))

-----------------------------------------------------------------------------
(* What banks report to their regulator, twice a year.                     *)

bankBatch(q, row, keys, Calc(_)) ==
  IF q = Null THEN noQuarterBatch(keys)
  ELSE [k \in keys |-> periodSlot(anchorOf(q, row), q, "Q", Calc(k))]

calculateBankNplRatio(reported) == calc(reported, because(reported, "missing_input"))
calculateBankNplCoverageRatio(reported) == calc(reported, because(reported, "missing_input"))

resolveBankAssetQualityQuarter(query) ==
  LET q == bankQuarter(query, "bankAssetQuality") IN [quarter |-> q, row |-> bankAssetQuality(q)]

bankAssetQualityRatio(row, metric) ==
  IF metric = "bankNplRatio" THEN calculateBankNplRatio(field(row, "nonPerformingLoansRatio"))
  ELSE calculateBankNplCoverageRatio(field(row, "coverageRatio"))

computeBankAssetQualityFamily(query) ==
  LET r == resolveBankAssetQualityQuarter(query)
  IN bankBatch(r.quarter, r.row, {"bankNplRatio", "bankNplCoverageRatio"}, LAMBDA k : bankAssetQualityRatio(r.row, k))

getBankAssetQualityProvenance(metric, query) ==
  LET r == resolveBankAssetQualityQuarter(query)
      reported == IF metric = "bankNplRatio" THEN "nonPerformingLoansRatio" ELSE "coverageRatio"
  IN IF r.quarter = Null THEN notFound
     ELSE provenance(r.quarter, bankAssetQualityRatio(r.row, metric).value, entriesOf(r.quarter, r.row, {reported}))

calculateBankCarRatio(eligibleCapital, riskWeightedAssets) == percentCalc(eligibleCapital, riskWeightedAssets)
calculateBankCet1Ratio(reported) == calc(reported, because(reported, "missing_input"))
calculateBankTier1Ratio(reported) == calc(reported, because(reported, "missing_input"))

resolveBankCapitalAdequacyQuarter(query) ==
  LET q == bankQuarter(query, "bankCapitalAdequacy") IN [quarter |-> q, row |-> bankCapitalAdequacy(q)]

bankCapitalInputs(metric) ==
  CASE metric = "bankCarRatio" -> {"eligibleCapital", "riskWeightedAssets"}
    [] metric = "bankCet1Ratio" -> {"ratioOrdinaryShareEquityToRwa"}
    [] metric = "bankTier1Ratio" -> {"ratioTierICapitalToRwa"}

bankCapitalRatio(row, metric) ==
  CASE metric = "bankCarRatio" -> calculateBankCarRatio(field(row, "eligibleCapital"), field(row, "riskWeightedAssets"))
    [] metric = "bankCet1Ratio" -> calculateBankCet1Ratio(field(row, "ratioOrdinaryShareEquityToRwa"))
    [] metric = "bankTier1Ratio" -> calculateBankTier1Ratio(field(row, "ratioTierICapitalToRwa"))

computeBankCapitalAdequacyFamily(query) ==
  LET r == resolveBankCapitalAdequacyQuarter(query)
  IN bankBatch(r.quarter, r.row, {"bankCarRatio", "bankCet1Ratio", "bankTier1Ratio"},
               LAMBDA k : bankCapitalRatio(r.row, k))

getBankCapitalAdequacyProvenance(metric, query) ==
  LET r == resolveBankCapitalAdequacyQuarter(query)
  IN IF r.quarter = Null THEN notFound
     ELSE provenance(r.quarter, bankCapitalRatio(r.row, metric).value,
                     entriesOf(r.quarter, r.row, bankCapitalInputs(metric)))

-----------------------------------------------------------------------------
(* Degrees of leverage: growth over growth, on one share basis.            *)

\* In hundredths of a percent; the prior figure is divided by the splits.
growthPct(current, prior, splitFactor) ==
  IF current = Null \/ prior = Null \/ prior = 0 THEN Null
  ELSE rounded((current * splitFactor - 100 * prior) * 100, abs(prior))

\* The growth of the earnings per share over that of another figure.
leverageDegree(epsGrowth, growth) ==
  LET value == IF epsGrowth = Null \/ growth = Null \/ growth = 0 THEN Null ELSE rounded(100 * epsGrowth, growth)
  IN calc(value, because(value, determineNullReason(epsGrowth, growth)))

resolveLeverageDegreeInputs(query) ==
  LET q == resolveQuarterOrLatest(query, {"incomeStatement"})
      current == incomeStatement(q)
      prior == incomeStatement(q - 4)
      eps(income, day) == perShareOf(pickNetIncome(income), sharesAt(income, day))
      splitFactor == IF current = Null \/ prior = Null THEN 100
                     ELSE getShareSplitFactor(QuarterEnd(q - 4), QuarterEnd(q))
      epsGrowth == growthPct(eps(current, q), eps(prior, q - 4), splitFactor)
      degree(name) == leverageDegree(epsGrowth, growthPct(field(current, name), field(prior, name), 100))
  IN IF q = Null THEN Null
     ELSE [quarter |-> q, current |-> current, prior |-> prior, splitFactor |-> splitFactor,
           financialLeverageDegree |-> degree("operatingIncome"), totalLeverageDegree |-> degree("operatingRevenue")]

leverageDegrees == {"financialLeverageDegree", "totalLeverageDegree"}

computeLeverageDegreeFamily(query) ==
  slotsFrom(resolveLeverageDegreeInputs(query), leverageDegrees, LAMBDA r :
    [k \in leverageDegrees |-> periodSlot(anchorOf(r.quarter, r.current), r.quarter, "Q", r[k])])

leverageDegreeEntries(r, denominator) ==
  LET of(q, income) == {netIncomeEntry(q, income), entry(q, "shares", sharesAt(income, q))}
                       \union entriesOf(q, income, {denominator})
  IN of(r.quarter, r.current) \union of(r.quarter - 4, r.prior) \union {entry(r.quarter, "splitFactor", r.splitFactor)}

getFinancialLeverageDegreeProvenance(query) ==
  tracedFrom(resolveLeverageDegreeInputs(query), LAMBDA r :
    provenance(r.quarter, r.financialLeverageDegree.value, leverageDegreeEntries(r, "operatingIncome")))

getTotalLeverageDegreeProvenance(query) ==
  tracedFrom(resolveLeverageDegreeInputs(query), LAMBDA r :
    provenance(r.quarter, r.totalLeverageDegree.value, leverageDegreeEntries(r, "operatingRevenue")))

-----------------------------------------------------------------------------
(* Members of the shared families.                                         *)

getDebtToFcfProvenance(query) == tracedCashFlow(query, "debtToFcf", {"debt", "ocf", "capex"})

assetsAndEquity(q, b) == entriesOf(q, b, {"totalAssets"}) \union {equityEntry(q, b)}

getEquityMultiplierProvenance(query) ==
  tracedFrom(resolveDupontFamilyData(query), LAMBDA r :
    provenance(r.quarter, IF r.complete THEN r.trailing.equityMultiplier.value ELSE Null,
      averageBalanceEntries(r.balances, assetsAndEquity)
      \union {averagedDenominatorEntry(r.balances, "assets", assetsAvgTtm(r.balances)),
              averagedDenominatorEntry(r.balances, "equity", equityAvgTtm(r.balances))}))
=============================================================================
