------------------------ MODULE MetricProvenanceProofs ------------------------
(***************************************************************************)
(* Theorems about what is told of a metric: the value that a trace shows,  *)
(* recomputed from what is filed, is the value that is stored, for every   *)
(* metric of both catalogues but those that MetricCatalogue exempts by     *)
(* name.                                                                   *)
(*                                                                         *)
(* A use case and its trace resolve the same inputs, mostly through one    *)
(* shared resolver, and then go separate ways: the one answers null when a *)
(* trailing year is not complete, or skips a quarter it does not find; the *)
(* other shows the value of its formula. What has to be shown of each      *)
(* metric is that its formula has no value where the use case stores none; *)
(* and where the two read the company by different roads - a sum by        *)
(* component and by quarter, the last month and the month of that name -   *)
(* that both roads end at the same figures.                                *)
(***************************************************************************)
EXTENDS MetricCatalogueProofs

-----------------------------------------------------------------------------
(* What a trace shows and what is stored: the ways in which both come from *)
(* one result.                                                             *)

(* A slot that is not stored agrees with anything.                         *)
LEMMA SkippedAgrees == ASSUME NEW told, NEW action PROVE Agrees(trace(told, skip(action)))
BY DEF Agrees, trace, isComputationSkip, skip

(* A trace that shows the value of the result that is stored agrees with   *)
(* it.                                                                     *)
LEMMA SameAgrees ==
  ASSUME NEW q, NEW entries, NEW anchor, NEW at, NEW p, NEW result
  PROVE  Agrees(trace(provenance(q, result.value, entries), periodSlot(anchor, at, p, result)))
BY SkippedAgrees DEF Agrees, trace, provenance, periodSlot, computation

(* So does one that shows a value equal to it.                             *)
LEMMA PeriodAgrees ==
  ASSUME NEW q, NEW v, NEW entries, NEW anchor, NEW at, NEW p, NEW result, result.value = v
  PROVE  Agrees(trace(provenance(q, v, entries), periodSlot(anchor, at, p, result)))
BY SameAgrees

(* A trace that shows the value of a complete year, and none of another,   *)
(* agrees with the slot of a trailing year.                                *)
LEMMA YearAgrees ==
  ASSUME NEW q, NEW v, NEW entries, NEW periods, NEW complete, NEW result, NEW main, NEW at,
         complete => result.value = v, ~complete => v = Null
  PROVE  Agrees(trace(provenance(q, v, entries), ttmSlot(periods, complete, result, main, at)))
BY PeriodAgrees DEF ttmSlot, insufficientHistory, calc

(* The same of the slot of a score.                                        *)
LEMMA ScoreAgrees ==
  ASSUME NEW q, NEW v, NEW entries, NEW anchor, NEW periods, NEW complete, NEW at, NEW result,
         result.value = v, ~complete => v = Null
  PROVE  Agrees(trace(provenance(q, v, entries), scoreSlot(anchor, periods, complete, at, result)))
BY SkippedAgrees, PeriodAgrees DEF scoreSlot, calc

(* The same of the slot of a trading day.                                  *)
LEMMA DailyAgrees ==
  ASSUME NEW q, NEW v, NEW entries, NEW day, NEW result, result.value = v
  PROVE  Agrees(trace(provenance(q, v, entries), dailySlot(day, result)))
BY PeriodAgrees DEF dailySlot

(* The same of the slot of an annual report.                               *)
LEMMA AnnualAgrees ==
  ASSUME NEW q, NEW v, NEW entries, NEW context, NEW result, result.value = v
  PROVE  Agrees(trace(provenance(q, v, entries), annualReportSlot(context, result)))
BY SkippedAgrees, PeriodAgrees DEF annualReportSlot

(* The value that each calculation returns.                                *)
LEMMA Values ==
  ASSUME NEW n, NEW d
  PROVE  /\ calc(n, d).value = n /\ calcOr(n, d).value = n
         /\ percentCalc(n, d).value = percentOf(n, d) /\ ratioCalc(n, d).value = ratioOf(n, d)
         /\ ratio4Calc(n, d).value = ratio4Of(n, d) /\ perShareCalc(n, d).value = perShareOf(n, d)
         /\ missingCalc(n).value = n /\ calcWhenKnown(n, d).value = n
         /\ notApplicable.value = Null /\ insufficientHistory.value = Null
BY
DEF calc, calcOr, percentCalc, ratioCalc, ratio4Calc, perShareCalc, missingCalc, calcWhenKnown, notApplicable,
    insufficientHistory

(* A trace agrees with the slot of the value it shows, whatever the reason *)
(* beside it.                                                              *)
LEMMA CalcAgrees ==
  ASSUME NEW q, NEW v, NEW reason, NEW entries, NEW anchor, NEW at, NEW p
  PROVE  /\ Agrees(trace(provenance(q, v, entries), periodSlot(anchor, at, p, calc(v, reason))))
         /\ Agrees(trace(provenance(q, v, entries), periodSlot(anchor, at, p, calcOr(v, reason))))
         /\ Agrees(trace(provenance(q, v, entries), periodSlot(anchor, at, p, missingCalc(v))))
BY PeriodAgrees, Values

(* The same of the four quotients.                                         *)
LEMMA QuotientAgrees ==
  ASSUME NEW q, NEW n, NEW d, NEW entries, NEW anchor, NEW at, NEW p
  PROVE  /\ Agrees(trace(provenance(q, percentOf(n, d), entries), periodSlot(anchor, at, p, percentCalc(n, d))))
         /\ Agrees(trace(provenance(q, ratioOf(n, d), entries), periodSlot(anchor, at, p, ratioCalc(n, d))))
         /\ Agrees(trace(provenance(q, ratio4Of(n, d), entries), periodSlot(anchor, at, p, ratio4Calc(n, d))))
         /\ Agrees(trace(provenance(q, perShareOf(n, d), entries), periodSlot(anchor, at, p, perShareCalc(n, d))))
BY PeriodAgrees, Values

(* The same of a trailing year, where an incomplete one has no value.      *)
LEMMA YearCalcAgrees ==
  ASSUME NEW q, NEW v, NEW reason, NEW entries, NEW periods, NEW complete, NEW main, NEW at, ~complete => v = Null
  PROVE  /\ Agrees(trace(provenance(q, v, entries), ttmSlot(periods, complete, calc(v, reason), main, at)))
         /\ Agrees(trace(provenance(q, v, entries), ttmSlot(periods, complete, calcOr(v, reason), main, at)))
         /\ Agrees(trace(provenance(q, v, entries), ttmSlot(periods, complete, missingCalc(v), main, at)))
         /\ Agrees(trace(provenance(q, v, entries), scoreSlot(main, periods, complete, at, calcOr(v, reason))))
BY YearAgrees, ScoreAgrees, Values

(* The same of a quotient over a trailing year that lacks a term when it   *)
(* is incomplete.                                                          *)
LEMMA YearQuotientAgrees ==
  ASSUME NEW q, NEW n, NEW d, NEW entries, NEW periods, NEW complete, NEW main, NEW at, ~complete => Null \in {n, d}
  PROVE  /\ Agrees(trace(provenance(q, percentOf(n, d), entries), ttmSlot(periods, complete, percentCalc(n, d), main, at)))
         /\ Agrees(trace(provenance(q, ratioOf(n, d), entries), ttmSlot(periods, complete, ratioCalc(n, d), main, at)))
         /\ Agrees(trace(provenance(q, ratio4Of(n, d), entries), ttmSlot(periods, complete, ratio4Calc(n, d), main, at)))
         /\ Agrees(trace(provenance(q, perShareOf(n, d), entries), ttmSlot(periods, complete, perShareCalc(n, d), main, at)))
<1>1. Null \in {n, d} => percentOf(n, d) = Null /\ ratioOf(n, d) = Null /\ ratio4Of(n, d) = Null /\ perShareOf(n, d) = Null
  BY DEF percentOf, ratioOf, ratio4Of, perShareOf
<1>2. QED
  BY <1>1, YearAgrees, Values

(* A trailing year with a period that lacks a field has no sum of it.      *)
LEMMA SumMissing ==
  ASSUME NEW p, IsPeriods(p), NEW n, NEW m \in DOMAIN p, field(p[m].record, n) = Null
  PROVE  sumOf(p, n) = Null
<1> DEFINE a == [i \in DOMAIN p |-> IF p[i].record = Null THEN Null ELSE p[i].record[n]]
<1>1. a[m] = Null
  BY DEF field
<1>2. p # <<>>
  BY DEF IsPeriods
<1>3. total(a) = Null
  BY <1>1, MissingInTotal
<1>4. QED
  BY <1>2, <1>3 DEF sumOf, sumTrailingPeriods

(* A trailing year that is not filed with all fields has no sum of one of  *)
(* them: what the use case asks of the periods and what the trace asks of  *)
(* the sums is the same.                                                   *)
LEMMA FieldsMissing ==
  ASSUME NEW p, IsPeriods(p), NEW names, ~allFiled(p, names)
  PROVE  \E n \in names : sumOf(p, n) = Null
BY SumMissing DEF allFiled

-----------------------------------------------------------------------------
(* The traces of the resilience family.                                    *)

(* What getCurrentRatioProvenance, getQuickRatioProvenance and             *)
(* getCashRatioProvenance show are the values stored.                      *)
LEMMA LiquidityTold ==
  ASSUME NEW a
  PROVE  /\ Agrees(trace(getCurrentRatioProvenance(a), computeLiquidityRatio(a).currentRatio))
         /\ Agrees(trace(getQuickRatioProvenance(a), computeLiquidityRatio(a).quickRatio))
         /\ Agrees(trace(getCashRatioProvenance(a), computeLiquidityRatio(a).cashRatio))
BY SkippedAgrees, SameAgrees
DEF getCurrentRatioProvenance, getQuickRatioProvenance, getCashRatioProvenance, resolveLiquidityRatioProvenanceInputs,
    computeLiquidityRatio, onBalanceSheet, quarterBatch, Batch, slotsFrom, noQuarterBatch, periodSlots,
        tracedToBalanceSheet, traced, tracedFrom

(* What getDeRatioProvenance shows is the value stored.                    *)
LEMMA DeRatioTold == ASSUME NEW a PROVE Agrees(trace(getDeRatioProvenance(a), computeDeRatio(a).q))
BY SkippedAgrees, QuotientAgrees
DEF getDeRatioProvenance, computeDeRatio, onBalanceSheet, quarterBatch, Batch, slotsFrom, noQuarterBatch, periodSlots,
    traced, tracedFrom

(* What getDebtRatioProvenance shows is the value stored.                  *)
LEMMA DebtRatioTold == ASSUME NEW a PROVE Agrees(trace(getDebtRatioProvenance(a), computeDebtRatio(a).q))
BY SkippedAgrees, QuotientAgrees
DEF getDebtRatioProvenance, computeDebtRatio, onBalanceSheet, quarterBatch, Batch, slotsFrom, noQuarterBatch,
    periodSlots, tracedToBalanceSheet, traced, tracedFrom

(* What getCashToAssetsRatioProvenance shows is the value stored.          *)
LEMMA CashToAssetsRatioTold == ASSUME NEW a
  PROVE Agrees(trace(getCashToAssetsRatioProvenance(a), computeCashToAssetsRatio(a).q))
BY SkippedAgrees, QuotientAgrees
DEF getCashToAssetsRatioProvenance, computeCashToAssetsRatio, onBalanceSheet, quarterBatch, Batch, slotsFrom,
    noQuarterBatch, periodSlots, tracedToBalanceSheet, traced, tracedFrom

(* What getEquityRatioProvenance shows is the value stored.                *)
LEMMA EquityRatioTold == ASSUME NEW a PROVE Agrees(trace(getEquityRatioProvenance(a), computeEquityRatio(a).q))
BY SkippedAgrees, QuotientAgrees
DEF getEquityRatioProvenance, computeEquityRatio, onBalanceSheet, quarterBatch, Batch, slotsFrom, noQuarterBatch,
    periodSlots, tracedToBalanceSheet, traced, tracedFrom

(* What getTotalDebtToCapitalProvenance shows is the value stored.         *)
LEMMA TotalDebtToCapitalTold == ASSUME NEW a
  PROVE Agrees(trace(getTotalDebtToCapitalProvenance(a), computeTotalDebtToCapital(a).q))
BY SkippedAgrees, QuotientAgrees
DEF getTotalDebtToCapitalProvenance, computeTotalDebtToCapital, onBalanceSheet, quarterBatch, Batch, slotsFrom,
    noQuarterBatch, periodSlots, traced, tracedFrom

(* What getNetWorkingCapitalToAssetsProvenance shows is the value stored.  *)
LEMMA NetWorkingCapitalToAssetsTold ==
  ASSUME NEW a PROVE Agrees(trace(getNetWorkingCapitalToAssetsProvenance(a), computeNetWorkingCapitalToAssets(a).q))
BY SkippedAgrees, QuotientAgrees
DEF getNetWorkingCapitalToAssetsProvenance, computeNetWorkingCapitalToAssets, onBalanceSheet, quarterBatch, Batch,
    slotsFrom, noQuarterBatch, periodSlots,
    tracedToBalanceSheet, traced, tracedFrom

(* What getLongTermDebtToNetCurrentAssetsProvenance shows is the value     *)
(* stored.                                                                 *)
LEMMA LongTermDebtToNetCurrentAssetsTold ==
  ASSUME NEW a
  PROVE Agrees(trace(getLongTermDebtToNetCurrentAssetsProvenance(a), computeLongTermDebtToNetCurrentAssets(a).q))
BY SkippedAgrees, CalcAgrees
DEF getLongTermDebtToNetCurrentAssetsProvenance, computeLongTermDebtToNetCurrentAssets, onBalanceSheet, quarterBatch,
    Batch, slotsFrom,
    noQuarterBatch, periodSlots, tracedToBalanceSheet, traced, tracedFrom

(* What getCashPerShareProvenance shows is the value stored.               *)
LEMMA CashPerShareTold == ASSUME NEW a PROVE Agrees(trace(getCashPerShareProvenance(a), computeCashPerShare(a).q))
BY SkippedAgrees, CalcAgrees
DEF getCashPerShareProvenance, computeCashPerShare, Batch, slotsFrom, noQuarterBatch, traced, tracedFrom

(* What getInterestCoverageProvenance shows is the value stored.           *)
LEMMA InterestCoverageTold == ASSUME NEW a
  PROVE Agrees(trace(getInterestCoverageProvenance(a), computeInterestCoverage(a).ttm))
BY SkippedAgrees, YearAgrees, Values, EbitMissing, TrailingPeriods
DEF getInterestCoverageProvenance, computeInterestCoverage, Batch, slotsFrom, noQuarterBatch, traced, tracedFrom,
    sumTrailingPeriods, ratioOf

(* What getAltmanZScoreProvenance shows is the value stored.               *)
LEMMA AltmanZTold == ASSUME NEW a PROVE Agrees(trace(getAltmanZScoreProvenance(a), computeAltmanZScore(a).ttm))
<1> DEFINE r == resolveAltmanZScoreInputs(a)
<1>1. r # Null /\ ~r.complete => r.result.value = Null
  <2> SUFFICES ASSUME r # Null, ~r.complete PROVE r.result.value = Null
    OBVIOUS
  <2>1. r.complete = FALSE
    BY DEF resolveAltmanZScoreInputs, allFiled
  <2>2. r.result = scoreResult(altmanZ(r.balance, r.marketCap, r.periods, FALSE), "insufficient_history")
    BY <2>1 DEF resolveAltmanZScoreInputs
  <2>3. QED
    BY <2>2, AltmanZMissing, ScoreResultGood DEF Reasons
<1> HIDE DEF r
<1>2. QED
  BY <1>1, SkippedAgrees, ScoreAgrees
  DEF getAltmanZScoreProvenance, computeAltmanZScore, slotsFrom, noQuarterBatch, tracedFrom, r

(* What getAltmanZDoublePrimeScoreProvenance shows is the value stored.    *)
LEMMA ZDoublePrimeTold ==
  ASSUME NEW a PROVE Agrees(trace(getAltmanZDoublePrimeScoreProvenance(a), computeAltmanZDoublePrimeScore(a).ttm))
<1>1. ASSUME NEW b, NEW periods, IsPeriods(periods), ~allFiled(periods, {"profitBeforeTax", "financeCosts"})
      PROVE  zDoublePrime(b, periods) = Null
  BY <1>1, EbitMissing, ZDoublePrimeMissing DEF sumTrailingPeriods
<1>2. QED
  BY <1>1, SkippedAgrees, YearCalcAgrees, TrailingPeriods
  DEF getAltmanZDoublePrimeScoreProvenance, computeAltmanZDoublePrimeScore, Batch, slotsFrom, noQuarterBatch, traced,
      tracedFrom

(* The multiple of net debt that is stored is the one shown.               *)
LEMMA NetDebtSlotTold ==
  ASSUME NEW q, NEW entries, NEW netDebt, NEW ebitda, NEW income, NEW filed, NEW at
  PROVE  Agrees(trace(provenance(q, netDebtMultiple(netDebt, ebitda), entries), netDebtSlot(at, filed, income, netDebt, ebitda)))
<1> DEFINE complete == ebitda # Null
           multiple == netDebtMultiple(netDebt, ebitda)
           reason == because(multiple, determineNullReason(netDebt, ebitda))
           main == resolveKnowledgeDate({<<at, filed>>})
<1>1. ~complete => multiple = Null
  BY DEF netDebtMultiple
<1> HIDE DEF complete, multiple, reason, main
<1>2. Agrees(trace(provenance(q, multiple, entries), ttmSlot(income, complete, calc(multiple, reason), main, at)))
  BY <1>1, YearCalcAgrees
<1>3. QED
  BY <1>2 DEF netDebtSlot, complete, multiple, reason, main

(* What getNetDebtToEbitdaProvenance shows is the value stored.            *)
LEMMA NetDebtToEbitdaTold == ASSUME NEW a
  PROVE Agrees(trace(getNetDebtToEbitdaProvenance(a), computeNetDebtToEbitda(a).ttm))
BY NetDebtSlotTold, SkippedAgrees
DEF getNetDebtToEbitdaProvenance, computeNetDebtToEbitda, Batch, slotsFrom, noQuarterBatch, traced, tracedFrom

(* What getBankAssetQualityProvenance shows is the value stored.           *)
LEMMA BankAssetQualityTold ==
  ASSUME NEW metric \in {"bankNplRatio", "bankNplCoverageRatio"}, NEW a
  PROVE  Agrees(trace(getBankAssetQualityProvenance(metric, a), computeBankAssetQualityFamily(a)[metric]))
BY SkippedAgrees, SameAgrees
DEF getBankAssetQualityProvenance, computeBankAssetQualityFamily, bankBatch, noQuarterBatch

(* What getBankCapitalAdequacyProvenance shows is the value stored.        *)
LEMMA BankCapitalAdequacyTold ==
  ASSUME NEW metric \in {"bankCarRatio", "bankCet1Ratio", "bankTier1Ratio"}, NEW a
  PROVE  Agrees(trace(getBankCapitalAdequacyProvenance(metric, a), computeBankCapitalAdequacyFamily(a)[metric]))
BY SkippedAgrees, SameAgrees
DEF getBankCapitalAdequacyProvenance, computeBankCapitalAdequacyFamily, bankBatch, noQuarterBatch

(* What getFinancialLeverageDegreeProvenance and                           *)
(* getTotalLeverageDegreeProvenance show are the values stored.            *)
LEMMA LeverageDegreeTold ==
  ASSUME NEW a
  PROVE  /\ Agrees(trace(getFinancialLeverageDegreeProvenance(a), computeLeverageDegreeFamily(a).financialLeverageDegree))
         /\ Agrees(trace(getTotalLeverageDegreeProvenance(a), computeLeverageDegreeFamily(a).totalLeverageDegree))
<1> DEFINE r == resolveLeverageDegreeInputs(a)
<1> HIDE DEF r
<1>1. QED
  BY SkippedAgrees, SameAgrees
  DEF getFinancialLeverageDegreeProvenance, getTotalLeverageDegreeProvenance, computeLeverageDegreeFamily, slotsFrom,
      noQuarterBatch,
      leverageDegrees, tracedFrom, r

(* The cash flow ratios of a trailing year.                                *)
trailingCashFlowKeys == cashFlowKeys \ {"ocfMarginQ", "fcfConversionRateQ"}

(* Of an incomplete year every one of them is missing.                     *)
LEMMA CashFlowMissing ==
  ASSUME NEW b, NEW marketCap, NEW complete, ~complete, NEW years, NEW flows, NEW metric \in trailingCashFlowKeys
  PROVE  cashFlowValues(b, marketCap, cashFlowYear(complete, years, flows))[metric] = Null
<1> DEFINE year == cashFlowYear(complete, years, flows)
<1>1. year = [ocf |-> Null, capex |-> Null, revenue |-> Null, netIncome |-> Null, fcf |-> Null]
  BY DEF cashFlowYear
<1> HIDE DEF year
<1>2. ASSUME NEW n
      PROVE /\ multipleOfThousands(n, Null) = Null /\ percentOfPositive(n, Null) = Null
            /\ percentOf(n, Null) = Null /\ percentOf(Null, n) = Null
  BY DEF multipleOfThousands, percentOfPositive, percentOf
<1>3. metric \in {"evToOcf", "evToSales", "priceToOcf", "debtToFcf", "capexToOcfRatio", "croic", "ocfMargin", "fcfConversionRate"}
  BY DEF trailingCashFlowKeys, cashFlowKeys
<1> DEFINE values == cashFlowValues(b, marketCap, year)
<1>4. values.evToOcf = Null /\ values.evToSales = Null /\ values.priceToOcf = Null
  BY <1>1, <1>2 DEF cashFlowValues
<1>5. values.debtToFcf = Null /\ values.capexToOcfRatio = Null
  BY <1>1, <1>2 DEF cashFlowValues
<1>6. values.croic = Null /\ values.ocfMargin = Null /\ values.fcfConversionRate = Null
  BY <1>1, <1>2 DEF cashFlowValues
<1> HIDE DEF values
<1>7. values[metric] = Null
  BY <1>3, <1>4, <1>5, <1>6
<1>8. QED
  BY <1>7 DEF values, year

(* So what tracedCashFlow shows is what is stored.                         *)
LEMMA CashFlowValuationTold ==
  ASSUME NEW metric \in trailingCashFlowKeys, NEW parts, NEW a
  PROVE  Agrees(trace(tracedCashFlow(a, metric, parts), computeCashFlowValuationFamily(a)[metric]))
<1> DEFINE r == resolveCashFlowValuationInputs(a)
<1>1. r # Null => DOMAIN r.quarterValues = {"ocfMarginQ", "fcfConversionRateQ"}
  BY DEF resolveCashFlowValuationInputs, cashFlowInputsAt, cashFlowInputs, valuedCashFlow
<1>2. r # Null => r.values = cashFlowValues(r.balance, r.marketCap, cashFlowYear(r.complete, r.periods, r.flows))
  BY DEF resolveCashFlowValuationInputs, cashFlowInputsAt, cashFlowInputs, valuedCashFlow
<1> HIDE DEF r
<1>3. r # Null /\ ~r.complete => r.values[metric] = Null
  BY <1>2, CashFlowMissing
<1>4. QED
  BY <1>1, <1>3, SkippedAgrees, PeriodAgrees, Values
  DEF trailingCashFlowKeys, tracedCashFlow, tracedCashFlowOf, computeCashFlowValuationFamily, cashFlowSlots,
      anchoredCashFlowSlots, cashFlowSlot, noQuarterBatch, r

(* A part of the trailing decomposition is stored as it is shown, of a     *)
(* complete year.                                                          *)
LEMMA DupontTold ==
  ASSUME NEW part \in dupontParts, NEW a, NEW q, NEW entries, LET r == resolveDupontFamilyData(a) IN r # Null
  PROVE  LET r == resolveDupontFamilyData(a)
         IN Agrees(trace(provenance(q, IF r.complete THEN r.trailing[part].value ELSE Null, entries),
                         computeDupontFamily(a)[<<part, "ttm">>]))
<1> DEFINE r == resolveDupontFamilyData(a)
<1> HIDE DEF r
<1>1. QED
  BY YearAgrees DEF computeDupontFamily, dupontSlots, anchoredDupontSlots, dupontSlot, r

(* What getEquityMultiplierProvenance shows is the value stored.           *)
LEMMA EquityMultiplierTold == ASSUME NEW a
  PROVE Agrees(trace(getEquityMultiplierProvenance(a), computeDupontFamily(a)[<<"equityMultiplier", "ttm">>]))
BY DupontTold, SkippedAgrees
DEF getEquityMultiplierProvenance, computeDupontFamily, dupontSlots, noQuarterBatch, tracedFrom, dupontParts

(* What getDebtToFcfProvenance shows is the value stored.                  *)
LEMMA DebtToFcfTold == ASSUME NEW a
  PROVE Agrees(trace(getDebtToFcfProvenance(a), computeCashFlowValuationFamily(a)["debtToFcf"]))
BY CashFlowValuationTold DEF getDebtToFcfProvenance, trailingCashFlowKeys, cashFlowKeys

-----------------------------------------------------------------------------
(* The traces of the efficiency family.                                    *)

(* The metrics of the turnover family that have a trailing year.           *)
ttmKeys == turnoverKeys \union dayKeys \union revenueKeys

(* Days of a missing turnover are missing.                                 *)
LEMMA DaysMissing ==
  ASSUME NEW t, t.inventoryTurnover.value = Null, t.receivablesTurnover.value = Null, t.payablesTurnover.value = Null,
         NEW k \in dayKeys
  PROVE  daysOf(t, 1)[k].value = Null
<1>1. times(1, Null) = Null /\ toDays(Null) = Null
  BY DEF times, toDays
<1>2. ASSUME NEW reason PROVE daysCalc(Null, reason).value = Null
  BY <1>1, Values DEF daysCalc
<1>3. ASSUME NEW x, NEW y
      PROVE calculateCashConversionCycle(Null, x, y).value = Null /\ calculateOperatingCycle(Null, x).value = Null
  BY Values DEF calculateCashConversionCycle, calculateOperatingCycle, plus, minus
<1>4. QED
  BY <1>1, <1>2, <1>3
  DEF daysOf, dayKeys, calculateInventoryDays, calculateReceivablesDays, calculatePayablesDays

(* Of an incomplete year every metric of the turnover family is missing.   *)
LEMMA TtmMissing ==
  ASSUME NEW q, ~turnoverDataAt(q).complete, NEW k \in ttmKeys
  PROVE  turnoverDataAt(q).ttm[k].value = Null
<1> DEFINE r == turnoverDataAt(q)
           turnovers == yearlyTurnovers(r.periods, r.complete, r.average, r.balance)
           ofSales == ofRevenue(sumOf(r.periods, "operatingRevenue"), r.complete, r.averageCapital, r.balance)
<1>1. r.ttm = joined(withDays(turnovers, 1), ofSales)
  BY DEF turnoverDataAt, turnoverDataOver, turnoverData
<1>2. ~r.complete
  OBVIOUS
<1> HIDE DEF r
<1>3. turnovers = [j \in turnoverKeys |-> insufficientHistory]
  BY <1>2 DEF yearlyTurnovers, turnoverKeys
<1>4. DOMAIN ofSales = revenueKeys /\ \A j \in revenueKeys : ofSales[j].value = Null
  BY <1>2, Values DEF ofRevenue, whenKnown, revenueKeys
<1> HIDE DEF turnovers, ofSales
<1>5. DOMAIN daysOf(turnovers, 1) = dayKeys
  BY DEF daysOf, dayKeys
<1>6. \A j \in dayKeys : daysOf(turnovers, 1)[j].value = Null
  BY <1>3, DaysMissing, Values DEF turnoverKeys
<1>7. \A j \in turnoverKeys \union dayKeys : withDays(turnovers, 1)[j].value = Null
  BY <1>3, <1>5, <1>6, Values DEF withDays, joined
<1>8. DOMAIN withDays(turnovers, 1) = turnoverKeys \union dayKeys
  BY <1>3, <1>5 DEF withDays, joined
<1>9. r.ttm[k].value = Null
  BY <1>1, <1>4, <1>7, <1>8 DEF joined, ttmKeys
<1>10. QED
  BY <1>9 DEF r

(* So what is shown of a turnover is what is stored.                       *)
LEMMA TurnoverTold ==
  ASSUME NEW a, NEW metric \in ttmKeys, NEW entries
  PROVE  LET r == resolveTurnoverRatioFamilyData(a)
         IN r # Null => Agrees(trace(provenance(r.quarter, r.ttm[metric].value, entries),
                                     computeTurnoverRatioFamily(a)[<<metric, "ttm">>]))
<1> DEFINE r == resolveTurnoverRatioFamilyData(a)
<1>1. r # Null /\ ~r.complete => r.ttm[metric].value = Null
  BY TtmMissing DEF resolveTurnoverRatioFamilyData
<1>2. <<metric, "ttm">> \in turnoverSlots
  BY DEF ttmKeys, turnoverKeys, dayKeys, revenueKeys, turnoverSlots
<1> HIDE DEF r
<1>3. QED
  BY <1>1, <1>2, YearAgrees DEF computeTurnoverRatioFamily, slotsFrom, r

(* What getNetWorkingCapitalTurnoverProvenance shows is the value stored.  *)
LEMMA TracedTurnoverTold ==
  ASSUME NEW a, NEW metric \in ttmKeys, NEW flows, NEW names
  PROVE  /\ Agrees(trace(tracedTurnover(a, metric, flows, names), computeTurnoverRatioFamily(a)[<<metric, "ttm">>]))
         /\ Agrees(trace(tracedToRevenue(a, metric, names), computeTurnoverRatioFamily(a)[<<metric, "ttm">>]))
         /\ Agrees(trace(getNetWorkingCapitalTurnoverProvenance(a),
                         computeTurnoverRatioFamily(a)[<<"netWorkingCapitalTurnover", "ttm">>]))
<1>1. ASSUME NEW told, NEW m \in ttmKeys, resolveTurnoverRatioFamilyData(a) = Null
      PROVE  Agrees(trace(told, computeTurnoverRatioFamily(a)[<<m, "ttm">>]))
  <2>1. <<m, "ttm">> \in turnoverSlots
    BY DEF ttmKeys, turnoverKeys, dayKeys, revenueKeys, turnoverSlots
  <2>2. QED
    BY <1>1, <2>1, SkippedAgrees DEF computeTurnoverRatioFamily, slotsFrom, noQuarterBatch
<1>2. "netWorkingCapitalTurnover" \in ttmKeys
  BY DEF ttmKeys, revenueKeys
<1>3. Agrees(trace(tracedTurnover(a, metric, flows, names), computeTurnoverRatioFamily(a)[<<metric, "ttm">>]))
  BY <1>1, TurnoverTold DEF tracedTurnover, tracedFrom
<1>4. Agrees(trace(tracedToRevenue(a, metric, names), computeTurnoverRatioFamily(a)[<<metric, "ttm">>]))
  BY <1>1, TurnoverTold DEF tracedToRevenue, tracedFrom
<1>5. QED
  BY <1>1, <1>2, <1>3, <1>4, TurnoverTold DEF getNetWorkingCapitalTurnoverProvenance, tracedFrom

(* The same of a part that is missing from an incomplete year, shown       *)
(* whether or not it is complete.                                          *)
LEMMA DupontPartTold ==
  ASSUME NEW part \in dupontParts, NEW a, NEW entries,
         LET r == resolveDupontFamilyData(a) IN r # Null /\ ~r.complete => r.trailing[part].value = Null
  PROVE  LET r == resolveDupontFamilyData(a)
         IN Agrees(trace(IF r = Null THEN notFound ELSE provenance(r.quarter, r.trailing[part].value, entries),
                         computeDupontFamily(a)[<<part, "ttm">>]))
<1> DEFINE r == resolveDupontFamilyData(a)
<1>1. r # Null /\ ~r.complete => r.trailing[part].value = Null
  OBVIOUS
<1>2. <<part, "ttm">> \in dupontParts \X {"q", "ttm"}
  OBVIOUS
<1> HIDE DEF r
<1>3. CASE r = Null
  BY <1>2, <1>3, SkippedAgrees DEF computeDupontFamily, dupontSlots, noQuarterBatch, r
<1>4. CASE r # Null
  <2> DEFINE main == anchorOfFirst(r.quarter, <<r.balance, r.income>>)
  <2> HIDE DEF main
  <2>1. computeDupontFamily(a)[<<part, "ttm">>] = ttmSlot(r.periods, r.complete, r.trailing[part], main, r.quarter)
    BY <1>2, <1>4 DEF computeDupontFamily, dupontSlots, anchoredDupontSlots, dupontSlot, r, main
  <2>2. QED
    BY <1>1, <1>4, <2>1, YearAgrees DEF r
<1>5. QED
  BY <1>3, <1>4

(* What getAssetTurnoverProvenance shows is the value stored.              *)
LEMMA AssetTurnoverTold == ASSUME NEW a
  PROVE Agrees(trace(getAssetTurnoverProvenance(a), computeDupontFamily(a)[<<"assetTurnover", "ttm">>]))
<1> DEFINE r == resolveDupontFamilyData(a)
<1>1. r # Null /\ ~r.complete => r.trailing["assetTurnover"].value = Null
  <2>1. ASSUME NEW periods, NEW complete, NEW b, NEW assets, NEW equity, ~complete, NEW extended
        PROVE trailingDupont(yearlyDupont(periods, complete, b, assets, equity), complete, extended).assetTurnover.value = Null
    BY <2>1, Values DEF trailingDupont, yearlyDupont, dupontOf, dupontFrom
  <2>2. QED
    BY <2>1 DEF resolveDupontFamilyData, dupontDataAt, dupontDataOver, dupontData
<1>2. "assetTurnover" \in dupontParts
  BY DEF dupontParts
<1>3. QED
  BY <1>1, <1>2, DupontPartTold DEF getAssetTurnoverProvenance, tracedFrom

(* What getCapexToOcfRatioProvenance shows is the value stored.            *)
LEMMA CapexToOcfTold == ASSUME NEW a
  PROVE Agrees(trace(getCapexToOcfRatioProvenance(a), computeCashFlowValuationFamily(a)["capexToOcfRatio"]))
BY CashFlowValuationTold DEF getCapexToOcfRatioProvenance, trailingCashFlowKeys, cashFlowKeys

(* What getCapexToRevenueProvenance shows is the value stored.             *)
LEMMA CapexToRevenueTold == ASSUME NEW a
  PROVE Agrees(trace(getCapexToRevenueProvenance(a), computeCapexToRevenue(a).ttm))
<1>1. ASSUME NEW p, IsPeriods(p), NEW f, IsPeriods(f),
             ~capexAndRevenueFiled(p, f)
      PROVE  Null \in {absOf(sumOf(f, "capitalExpenditures")), sumOf(p, "operatingRevenue")}
  BY <1>1, FieldsMissing DEF absOf, capexAndRevenueFiled
<1>2. QED
  BY <1>1, SkippedAgrees, YearQuotientAgrees, TrailingPeriods
  DEF getCapexToRevenueProvenance, computeCapexToRevenue, Batch, slotsFrom, noQuarterBatch, traced, tracedFrom

-----------------------------------------------------------------------------
(* The traces of the profitability family and of the figures per share.    *)

(* A quotient of nothing is missing.                                       *)
LEMMA SumOverNothing ==
  ASSUME NEW d
  PROVE  percentOf(Null, d) = Null /\ perShareOf(Null, d) = Null /\ averagedYearCalc(Null, d).value = Null
BY Values DEF percentOf, perShareOf, averagedYearCalc

(* What getRoeProvenance shows is the value stored.                        *)
LEMMA RoeTold == ASSUME NEW a PROVE Agrees(trace(getRoeProvenance(a), computeRoe(a).ttm))
<1> DEFINE r == resolveRoeQuarterData(a)
<1>1. r # Null /\ ~r.complete => r.ttm.value = Null
  BY SumOverNothing DEF resolveRoeQuarterData, sumTrailingPeriods
<1> HIDE DEF r
<1>2. QED
  BY <1>1, YearAgrees, SkippedAgrees DEF getRoeProvenance, computeRoe, slotsFrom, noQuarterBatch, tracedFrom, r

(* What getRoaProvenance shows is the value stored.                        *)
LEMMA RoaTold == ASSUME NEW a PROVE Agrees(trace(getRoaProvenance(a), computeRoa(a).ttm))
<1> DEFINE r == resolveRoaData(a)
<1>1. r # Null /\ ~r.complete => r.ttm.value = Null
  BY SumOverNothing DEF resolveRoaData, sumTrailingPeriods
<1> HIDE DEF r
<1>2. QED
  BY <1>1, YearAgrees, SkippedAgrees DEF getRoaProvenance, computeRoa, slotsFrom, noQuarterBatch, tracedFrom, r

(* What getRoeWeighted5yProvenance shows is the value stored.              *)
LEMMA RoeWeighted5yTold == ASSUME NEW a PROVE Agrees(trace(getRoeWeighted5yProvenance(a), computeRoeWeighted5y(a).fy))
<1> DEFINE r == resolveRoeWeighted5yInputs(a)
<1> HIDE DEF r
<1>1. QED
  BY AnnualAgrees, SkippedAgrees
  DEF getRoeWeighted5yProvenance, computeRoeWeighted5y, slotsFrom, noQuarterBatch, tracedFrom, r

(* What tracedReturn shows of a return that an incomplete year does not    *)
(* have is what is stored.                                                 *)
LEMMA ReturnTold ==
  ASSUME NEW r, NEW names, r # Null /\ ~r.complete => r.ttm.value = Null
  PROVE  Agrees(trace(tracedReturn(r, names), returnSlots(r).ttm))
BY YearAgrees, SkippedAgrees DEF tracedReturn, returnSlots, noQuarterBatch

(* What getRoicProvenance shows is the value stored.                       *)
LEMMA RoicTold == ASSUME NEW a PROVE Agrees(trace(getRoicProvenance(a), computeRoic(a).ttm))
<1>1. resolveRoicData(a) # Null /\ ~resolveRoicData(a).complete => resolveRoicData(a).ttm.value = Null
  BY Values DEF resolveRoicData, returnOnCapital, sumTrailingPeriods, averageOf, averageAt
<1>2. QED
  BY <1>1, ReturnTold DEF getRoicProvenance, computeRoic

(* What getNissimPenmanRnoaProvenance shows is the value stored.           *)
LEMMA NissimPenmanRnoaTold == ASSUME NEW a
  PROVE Agrees(trace(getNissimPenmanRnoaProvenance(a), computeNissimPenmanRnoa(a).ttm))
<1> DEFINE r == resolveNissimPenmanRnoaData(a)
<1>1. r # Null /\ ~r.complete => r.ttm.value = Null
  BY Values DEF resolveNissimPenmanRnoaData, returnOnCapital, sumTrailingPeriods, averageOf, averageAt
<1>2. QED
  BY <1>1, ReturnTold DEF getNissimPenmanRnoaProvenance, computeNissimPenmanRnoa

(* What getCrociProvenance shows is the value stored.                      *)
LEMMA CrociTold == ASSUME NEW a PROVE Agrees(trace(getCrociProvenance(a), computeCroci(a).ttm))
<1> DEFINE r == resolveCrociData(a)
<1>1. r # Null /\ ~r.complete => r.ttm.value = Null
  BY Values DEF resolveCrociData, sumTrailingPeriods, sumOf, averageOf, averageAt
<1> HIDE DEF r
<1>2. QED
  BY <1>1, YearAgrees, SkippedAgrees DEF getCrociProvenance, computeCroci, slotsFrom, noQuarterBatch, tracedFrom, r

(* What getCroicProvenance shows is the value stored.                      *)
LEMMA CroicTold == ASSUME NEW a PROVE Agrees(trace(getCroicProvenance(a), computeCashFlowValuationFamily(a)["croic"]))
BY CashFlowValuationTold DEF getCroicProvenance, trailingCashFlowKeys, cashFlowKeys

(* What getEpsProvenance shows is the value stored.                        *)
LEMMA EpsTold == ASSUME NEW a PROVE Agrees(trace(getEpsProvenance(a), computeEps(a).ttm))
<1> DEFINE r == resolveEpsInputs(a)
<1>1. r # Null /\ ~r.complete => r.ttm.value = Null
  BY Values DEF resolveEpsInputs, sumTrailingPeriods
<1> HIDE DEF r
<1>2. QED
  BY <1>1, YearAgrees, SkippedAgrees DEF getEpsProvenance, computeEps, slotsFrom, noQuarterBatch, tracedFrom, r

(* What getPretaxIncomePerShareProvenance shows is the value stored.       *)
LEMMA PretaxIncomePerShareTold == ASSUME NEW a
  PROVE Agrees(trace(getPretaxIncomePerShareProvenance(a), computePretaxIncomePerShare(a).ttm))
<1> DEFINE r == resolvePretaxIncomePerShareInputs(a)
<1> HIDE DEF r
<1>1. QED
  BY SameAgrees, SkippedAgrees
  DEF getPretaxIncomePerShareProvenance, computePretaxIncomePerShare, slotsFrom, noQuarterBatch, tracedFrom, r

(* A total per share is stored as it is shown.                             *)
LEMMA PerShareTold ==
  ASSUME NEW q, NEW anchor, NEW amount, NEW shares, NEW periods, NEW amounts, NEW context, NEW annualAmount,
      NEW entries
  PROVE  Agrees(trace(provenance(q, perShareOf(total(amounts), shares), entries),
                      perShareSlots(q, anchor, amount, shares, periods, amounts, context, annualAmount).ttm))
<1> DEFINE sum == total(amounts)
           complete == sum # Null
<1>1. ~complete => perShareOf(sum, shares) = Null
  BY SumOverNothing
<1> HIDE DEF complete, sum
<1>2. Agrees(trace(provenance(q, perShareOf(sum, shares), entries),
                   ttmSlot(periods, complete, perShareCalc(sum, shares), anchor, q)))
  BY <1>1, YearAgrees, Values
<1>3. perShareSlots(q, anchor, amount, shares, periods, amounts, context, annualAmount).ttm
        = ttmSlot(periods, complete, perShareCalc(sum, shares), anchor, q)
  BY DEF perShareSlots, sum, complete
<1>4. QED
  BY <1>2, <1>3 DEF sum

(* What getRevenuePerShareProvenance shows is the value stored.            *)
LEMMA RevenuePerShareTold == ASSUME NEW a
  PROVE Agrees(trace(getRevenuePerShareProvenance(a), computeRevenuePerShare(a).ttm))
<1>1. ASSUME NEW p, IsPeriods(p)
      PROVE  sumOf(p, "operatingRevenue") = total([i \in DOMAIN p |-> field(p[i].record, "operatingRevenue")])
  <2>1. p # <<>>
    BY <1>1 DEF IsPeriods
  <2>2. QED
    BY <2>1 DEF sumOf, sumTrailingPeriods, field
<1>2. QED
  BY <1>1, PerShareTold, SkippedAgrees, TrailingPeriods
  DEF getRevenuePerShareProvenance, computeRevenuePerShare, Batch, slotsFrom, noQuarterBatch, traced, tracedFrom

(* What getIncomeStatementPerShareProvenance shows is the value stored.    *)
LEMMA IncomeStatementPerShareTold ==
  ASSUME NEW code \in perShareCodes, NEW a
  PROVE  Agrees(trace(getIncomeStatementPerShareProvenance(code, a), computeIncomeStatementPerShare(a)[<<code, "ttm">>]))
<1> DEFINE q == resolveQuarterOrLatest(a, {"incomeStatement"})
           row == filledRow(incomeStatement(q))
           periods == filledPeriods(q)
           context == resolveAnnualReportContext(q)
           annual == filledRow(field(context, "annual"))
           amounts == [i \in DOMAIN periods |-> amountOf(code, periods[i].record)]
           told == sharesAt(incomeStatement(q), q)
           entries == entriesOfPeriods(periods, shownFields(code)) \union {entry(q, "outstandingCommonShares", told)}
           slots == perShareSlots(q, anchorOf(q, row), amountOf(code, row), told, periods, amounts, context,
                                  amountOf(code, annual))
<1>1. q = Null => computeIncomeStatementPerShare(a)[<<code, "ttm">>] = skip("skipped_no_quarter")
  BY DEF computeIncomeStatementPerShare, slotsFrom, noQuarterBatch
<1>2. q # Null => computeIncomeStatementPerShare(a)[<<code, "ttm">>] = slots["ttm"]
  BY DEF computeIncomeStatementPerShare, slotsFrom
<1>3. q # Null => getIncomeStatementPerShareProvenance(code, a) = provenance(q, perShareOf(total(amounts), told), entries)
  BY DEF getIncomeStatementPerShareProvenance, traced, tracedFrom
<1> HIDE DEF q, row, periods, context, annual, amounts, told, entries
<1>4. Agrees(trace(provenance(q, perShareOf(total(amounts), told), entries), slots["ttm"]))
  BY PerShareTold
<1> HIDE DEF slots
<1>5. QED
  BY <1>1, <1>2, <1>3, <1>4, SkippedAgrees

(* So is an amount of a bank per share.                                    *)
LEMMA BankPerShareTold ==
  ASSUME NEW r, NEW codes, NEW code \in codes, NEW names, r # Null /\ ~r.complete => r.ttm[code].value = Null
  PROVE  Agrees(trace(tracedBankPerShare(r, code, names), bankPerShareBatch(r, codes)[<<code, "ttm">>]))
BY YearAgrees, SkippedAgrees DEF tracedBankPerShare, bankPerShareBatch, noQuarterBatch

(* What getBankIncomeWaterfallProvenance shows is the value stored.        *)
LEMMA BankIncomeWaterfallTold ==
  ASSUME NEW code \in waterfallCodes, NEW a
  PROVE  Agrees(trace(getBankIncomeWaterfallProvenance(code, a), computeBankIncomeWaterfall(a)[<<code, "ttm">>]))
<1> DEFINE r == resolveBankIncomeWaterfallData(a)
<1>1. r # Null /\ ~r.complete => r.ttm[code].value = Null
  BY Values DEF resolveBankIncomeWaterfallData, bankPerShare, bankPeriods, sumTrailingPeriods
<1> HIDE DEF r
<1>2. QED
  BY <1>1, BankPerShareTold DEF getBankIncomeWaterfallProvenance, computeBankIncomeWaterfall, r

(* What getBankOperatingExpenseBreakdownProvenance shows is the value      *)
(* stored.                                                                 *)
LEMMA BankOperatingExpenseTold ==
  ASSUME NEW code \in DOMAIN COMPONENTS, NEW a
  PROVE  Agrees(trace(getBankOperatingExpenseBreakdownProvenance(code, a),
                      computeBankOperatingExpenseBreakdown(a)[<<code, "ttm">>]))
<1> DEFINE r == resolveBankOperatingExpenseBreakdownData(a)
<1>1. r # Null /\ ~r.complete => r.ttm[code].value = Null
  BY Values DEF resolveBankOperatingExpenseBreakdownData, bankPerShare, bankPeriods, sumTrailingPeriods
<1> HIDE DEF r
<1>2. QED
  BY <1>1, BankPerShareTold DEF getBankOperatingExpenseBreakdownProvenance, computeBankOperatingExpenseBreakdown, r

(* What getGreenblattRocProvenance shows is the value stored.              *)
LEMMA GreenblattRocTold == ASSUME NEW a
  PROVE Agrees(trace(getGreenblattRocProvenance(a), computeGreenblattRoc(a).ttm))
<1> DEFINE r == resolveGreenblattRocInputs(a)
           q == resolveQuarterOrLatest(a, {"balanceSheet", "incomeStatement"})
           earnings == sumTrailingPeriods(resolveTrailingIncomeStatements(q).periods, ebit)
           value == percentOf(earnings, capitalOf(balanceSheet(q)))
<1>1. r # Null => r.result.value = value /\ r.complete = (earnings # Null)
  BY DEF resolveGreenblattRocInputs, sumTrailingPeriods, calc
<1>2. earnings = Null => value = Null
  <2> HIDE DEF earnings
  <2>1. QED
    BY SumOverNothing
<1> HIDE DEF r, q, earnings, value
<1>3. r # Null /\ ~r.complete => r.result.value = Null
  BY <1>1, <1>2
<1>4. QED
  BY <1>3, ScoreAgrees, SkippedAgrees
  DEF getGreenblattRocProvenance, computeGreenblattRoc, slotsFrom, noQuarterBatch, tracedFrom, r

(* A percentage that lacks a term in an incomplete year is stored as it is *)
(* shown.                                                                  *)
LEMMA KnownYearTold ==
  ASSUME NEW q, NEW n, NEW d, NEW entries, NEW periods, NEW complete, NEW main, NEW at,
      ~complete => n = Null \/ d = Null
  PROVE  Agrees(trace(provenance(q, percentOf(n, d), entries), ttmSlot(periods, complete, percentCalc(n, d), main, at)))
BY YearQuotientAgrees

(* What getNovyMarxGpToAssetsProvenance shows is the value stored.         *)
LEMMA NovyMarxTold == ASSUME NEW a
  PROVE Agrees(trace(getNovyMarxGpToAssetsProvenance(a), computeNovyMarxGpToAssets(a).ttm))
<1> DEFINE q == resolveQuarterOrLatest(a, {"balanceSheet", "incomeStatement"})
           assets == totalAssets(balanceSheet(q))
           main == mainAnchorOf(q, balanceSheet(q), incomeStatement(q))
           periods == resolveTrailingIncomeStatements(q).periods
           sum == sumOf(periods, "grossProfit")
           complete == sum # Null
           entries == entriesOf(q, balanceSheet(q), {"totalAssets"}) \union entriesOfPeriods(periods, {"grossProfit"})
<1>1. q = Null => computeNovyMarxGpToAssets(a).ttm = skip("skipped_no_quarter")
  BY DEF computeNovyMarxGpToAssets, Batch, slotsFrom, noQuarterBatch
<1>2. q # Null => computeNovyMarxGpToAssets(a).ttm = ttmSlot(periods, complete, percentCalc(sum, assets), main, q)
  BY DEF computeNovyMarxGpToAssets, Batch, slotsFrom
<1>3. q # Null => getNovyMarxGpToAssetsProvenance(a) = provenance(q, percentOf(sum, assets), entries)
  BY DEF getNovyMarxGpToAssetsProvenance, traced, tracedFrom
<1>4. ~complete => sum = Null
  OBVIOUS
<1> HIDE DEF q, assets, main, periods, sum, complete, entries
<1>5. QED
  BY <1>1, <1>2, <1>3, <1>4, KnownYearTold, SkippedAgrees

(* What getFamaFrenchOperatingProfitabilityProvenance shows is the value   *)
(* stored.                                                                 *)
LEMMA FamaFrenchTold == ASSUME NEW a
  PROVE Agrees(trace(getFamaFrenchOperatingProfitabilityProvenance(a), computeFamaFrenchOperatingProfitability(a).ttm))
<1> DEFINE q == resolveQuarterOrLatest(a, {"incomeStatement", "balanceSheet"})
           b == balanceSheet(q)
           filed == firstOf(<<reportDate(incomeStatement(q), q), reportDate(b, q)>>)
           main == resolveKnowledgeDate({<<q, filed>>})
           periods == resolveTrailingIncomeStatements(q).periods
           sum == sumTrailingPeriods(periods, operatingProfit)
           complete == Null \notin {sum, pickEquity(b)}
           entries == {equityEntry(q, b)} \union
                      entriesOfPeriods(periods, {"grossProfit", "sellingExpenses", "adminExpenses", "financeCosts"})
<1>1. q = Null => computeFamaFrenchOperatingProfitability(a).ttm = skip("skipped_no_quarter")
  BY DEF computeFamaFrenchOperatingProfitability, Batch, slotsFrom, noQuarterBatch, sumTrailingPeriods
<1>2. q # Null => computeFamaFrenchOperatingProfitability(a).ttm
                    = ttmSlot(periods, complete, percentCalc(sum, pickEquity(b)), main, q)
  BY DEF computeFamaFrenchOperatingProfitability, Batch, slotsFrom, sumTrailingPeriods
<1>3. q # Null => getFamaFrenchOperatingProfitabilityProvenance(a) = provenance(q, percentOf(sum, pickEquity(b)), entries)
  BY DEF getFamaFrenchOperatingProfitabilityProvenance, traced, tracedFrom, sumTrailingPeriods
<1>4. ~complete => sum = Null \/ pickEquity(b) = Null
  OBVIOUS
<1> HIDE DEF q, b, main, periods, sum, complete, entries
<1>5. QED
  BY <1>1, <1>2, <1>3, <1>4, KnownYearTold, SkippedAgrees

(* What getOneDollarTestProvenance shows is the value stored.              *)
LEMMA OneDollarTestTold == ASSUME NEW a PROVE Agrees(trace(getOneDollarTestProvenance(a), computeOneDollarTest(a).fy))
<1> DEFINE r == resolveOneDollarTestInputs(a)
<1> HIDE DEF r
<1>1. QED
  BY SameAgrees, SkippedAgrees
  DEF getOneDollarTestProvenance, computeOneDollarTest, slotsFrom, noQuarterBatch, tracedFrom, r

(* What getDupontTaxBurdenProvenance shows is the value stored.            *)
LEMMA DupontTaxBurdenTold == ASSUME NEW a
  PROVE Agrees(trace(getDupontTaxBurdenProvenance(a), computeDupontFamily(a)[<<"dupontTaxBurden", "ttm">>]))
<1> DEFINE r == resolveDupontFamilyData(a)
<1>1. r # Null /\ ~r.complete => r.trailing["dupontTaxBurden"].value = Null
  <2>1. ASSUME NEW year, NEW complete, NEW extended, ~extended, DOMAIN year = dupontParts
        PROVE trailingDupont(year, complete, extended).dupontTaxBurden.value = Null
    BY <2>1, Values DEF trailingDupont, whenKnown, dupontParts
  <2>2. r # Null /\ ~r.complete => ~r.extended
    BY DEF resolveDupontFamilyData, dupontDataAt, dupontDataOver, dupontData
  <2>3. r # Null => \E periods, b, assets, equity :
                       r.trailing = trailingDupont(yearlyDupont(periods, r.complete, b, assets, equity), r.complete, r.extended)
    BY DEF resolveDupontFamilyData, dupontDataAt, dupontDataOver, dupontData
  <2>4. QED
    BY <2>1, <2>2, <2>3, DupontDomains
<1>2. "dupontTaxBurden" \in dupontParts
  BY DEF dupontParts
<1>3. QED
  BY <1>1, <1>2, DupontPartTold DEF getDupontTaxBurdenProvenance, tracedFrom

-----------------------------------------------------------------------------
(* The operating expense ratio, whose trace adds up by component what the  *)
(* use case adds up by quarter.                                            *)

(* What the partial sums of a sequence are.                                *)
LEMMA PartialAt ==
  ASSUME NEW n \in Nat, NEW a, NEW f, Partial(a, n, f)
  PROVE  f[0] = 0 /\ \A i \in 1..n : f[i] = plus(f[i - 1], a[i])
BY DEF Partial

(* The terms of c are those of a and of b added up.                        *)
AddUp(n, a, b, c) ==
  /\ n \in Nat /\ Len(a) = n /\ Len(b) = n /\ Len(c) = n
  /\ \A i \in 1..n : a[i] \in Int /\ b[i] \in Int /\ c[i] = a[i] + b[i]

(* Then so is the total.                                                   *)
LEMMA TotalOfSums ==
  ASSUME NEW n, NEW a, NEW b, NEW c, AddUp(n, a, b, c)
  PROVE  total(a) \in Int /\ total(b) \in Int /\ total(c) = total(a) + total(b)
<1>1. /\ n \in Nat /\ Len(a) = n /\ Len(b) = n /\ Len(c) = n
      /\ \A i \in 1..n : a[i] \in Int /\ b[i] \in Int /\ c[i] = a[i] + b[i]
  BY DEF AddUp
<1>2. PICK f : Partial(a, n, f) /\ total(a) = f[n]
  BY <1>1, TotalUnfolds
<1>3. PICK g : Partial(b, n, g) /\ total(b) = g[n]
  BY <1>1, TotalUnfolds
<1>4. PICK h : Partial(c, n, h) /\ total(c) = h[n]
  BY <1>1, TotalUnfolds
<1>5. /\ f[0] = 0 /\ g[0] = 0 /\ h[0] = 0
      /\ \A i \in 1..n : f[i] = plus(f[i - 1], a[i]) /\ g[i] = plus(g[i - 1], b[i]) /\ h[i] = plus(h[i - 1], c[i])
  <2>1. f[0] = 0 /\ \A i \in 1..n : f[i] = plus(f[i - 1], a[i])
    BY ONLY <1>1, <1>2, PartialAt
  <2>2. g[0] = 0 /\ \A i \in 1..n : g[i] = plus(g[i - 1], b[i])
    BY ONLY <1>1, <1>3, PartialAt
  <2>3. h[0] = 0 /\ \A i \in 1..n : h[i] = plus(h[i - 1], c[i])
    BY ONLY <1>1, <1>4, PartialAt
  <2>4. QED
    BY <2>1, <2>2, <2>3
<1> DEFINE S == {k \in Nat : k <= n => f[k] \in Int /\ g[k] \in Int /\ h[k] = f[k] + g[k]}
<1>6. 0 \in S
  BY <1>5
<1>7. ASSUME NEW k \in Nat, k \in S PROVE k + 1 \in S
  <2> SUFFICES ASSUME k + 1 <= n PROVE f[k + 1] \in Int /\ g[k + 1] \in Int /\ h[k + 1] = f[k + 1] + g[k + 1]
    OBVIOUS
  <2>1. f[k] \in Int /\ g[k] \in Int /\ h[k] = f[k] + g[k]
    BY <1>1, <1>7
  <2>2. k + 1 \in 1..n /\ (k + 1) - 1 = k
    OBVIOUS
  <2>3. /\ f[k + 1] = plus(f[k], a[k + 1])
        /\ g[k + 1] = plus(g[k], b[k + 1])
        /\ h[k + 1] = plus(h[k], c[k + 1])
    BY <1>5, <2>2
  <2>4. a[k + 1] \in Int /\ b[k + 1] \in Int /\ c[k + 1] = a[k + 1] + b[k + 1]
    BY <1>1, <2>2
  <2>5. f[k] # Null /\ g[k] # Null /\ h[k] # Null /\ a[k + 1] # Null /\ b[k + 1] # Null /\ c[k + 1] # Null
    BY <2>1, <2>4, NullAssumption
  <2>6. f[k + 1] = f[k] + a[k + 1] /\ g[k + 1] = g[k] + b[k + 1] /\ h[k + 1] = h[k] + c[k + 1]
    BY <2>3, <2>5 DEF plus
  <2>7. f[k + 1] \in Int /\ g[k + 1] \in Int
    BY <2>1, <2>4, <2>6
  <2>8. h[k + 1] = (f[k] + g[k]) + (a[k + 1] + b[k + 1])
    BY <2>1, <2>4, <2>6
  <2>9. QED
    BY ONLY <2>1, <2>4, <2>6, <2>7, <2>8
<1>8. Nat \subseteq S
  BY <1>6, <1>7, Induction
<1>9. QED
  BY <1>1, <1>2, <1>3, <1>4, <1>8

(* The operating expenses of a trailing year are the selling expenses of   *)
(* the year and its administrative expenses.                               *)
LEMMA ExpensesAddUp ==
  ASSUME NEW p, IsPeriods(p), \A i \in 1..Len(p) : isFiled("incomeStatement", p[i].record),
         allFiled(p, {"sellingExpenses", "adminExpenses"})
  PROVE  sumTrailingPeriods(p, operatingExpense) = plus(sumOf(p, "sellingExpenses"), sumOf(p, "adminExpenses"))
<1> DEFINE n == Len(p)
           of(c) == [i \in 1..n |-> IF p[i].record = Null THEN Null ELSE p[i].record[c]]
           both == [i \in 1..n |-> IF p[i].record = Null THEN Null ELSE operatingExpense(p[i].record)]
<1>1. n \in Nat /\ DOMAIN p = 1..n /\ p # <<>>
  BY DEF IsPeriods
<1>2. ASSUME NEW i \in 1..n, NEW c \in {"sellingExpenses", "adminExpenses"}
      PROVE p[i].record # Null /\ p[i].record[c] \in Int /\ p[i].record[c] # Null
  <2>1. field(p[i].record, c) # Null
    BY <1>1, <1>2 DEF allFiled
  <2>2. p[i].record # Null /\ p[i].record[c] # Null
    BY <2>1 DEF field
  <2>3. c \in SizedColumns("incomeStatement")
    BY <1>2 DEF SizedColumns
  <2>4. p[i].record[c] \in Nullable
    BY <2>2, <2>3 DEF isFiled
  <2>5. QED
    BY <2>2, <2>4 DEF Nullable
<1>3. ASSUME NEW i \in 1..n
      PROVE  /\ of("sellingExpenses")[i] \in Int /\ of("adminExpenses")[i] \in Int
             /\ both[i] = of("sellingExpenses")[i] + of("adminExpenses")[i]
  BY <1>2 DEF operatingExpense, plus, field
<1>4. /\ sumTrailingPeriods(p, operatingExpense) = total(both)
      /\ sumOf(p, "sellingExpenses") = total(of("sellingExpenses"))
      /\ sumOf(p, "adminExpenses") = total(of("adminExpenses"))
  BY <1>1 DEF sumTrailingPeriods, sumOf
<1> DEFINE selling == of("sellingExpenses")
           admin == of("adminExpenses")
<1>5. Len(selling) = n /\ Len(admin) = n /\ Len(both) = n
  <2>1. selling = [i \in 1..n |-> selling[i]] /\ admin = [i \in 1..n |-> admin[i]] /\ both = [i \in 1..n |-> both[i]]
    OBVIOUS
  <2>2. n \in Nat
    BY <1>1
  <2> HIDE DEF n, both, selling, admin
  <2>3. QED
    BY <2>1, <2>2, SequenceOf
<1>6. \A i \in 1..n : selling[i] \in Int /\ admin[i] \in Int /\ both[i] = selling[i] + admin[i]
  BY <1>3
<1>7. sumOf(p, "sellingExpenses") = total(selling) /\ sumOf(p, "adminExpenses") = total(admin)
  BY <1>4
<1>8. sumTrailingPeriods(p, operatingExpense) = total(both)
  BY <1>4
<1> HIDE DEF n, both, selling, admin
<1>9. total(selling) \in Int /\ total(admin) \in Int /\ total(both) = total(selling) + total(admin)
  <2>1. AddUp(n, selling, admin, both)
    BY <1>1, <1>5, <1>6 DEF AddUp
  <2>2. QED
    BY <2>1, TotalOfSums
<1>10. sumTrailingPeriods(p, operatingExpense) = total(selling) + total(admin)
  BY <1>8, <1>9
<1>11. plus(sumOf(p, "sellingExpenses"), sumOf(p, "adminExpenses")) = total(selling) + total(admin)
  BY <1>7, <1>9, NullAssumption DEF plus
<1>12. QED
  BY <1>10, <1>11

(* What getOperatingExpenseRatioProvenance shows is the value stored.      *)
LEMMA OperatingExpenseRatioTold == ASSUME TypeOK, NEW a
  PROVE Agrees(trace(getOperatingExpenseRatioProvenance(a), computeOperatingExpenseRatio(a).ttm))
<1> DEFINE q == resolveQuarterOrLatest(a, {"incomeStatement"})
           periods == resolveTrailingIncomeStatements(q).periods
           main == anchorOf(q, incomeStatement(q))
           names == {"sellingExpenses", "adminExpenses", "operatingRevenue"}
           complete == allFiled(periods, names)
           revenue == sumOf(periods, "operatingRevenue")
           sum == sumTrailingPeriods(periods, operatingExpense)
           told == plus(sumOf(periods, "sellingExpenses"), sumOf(periods, "adminExpenses"))
           entries == entriesOfPeriods(periods, {"operatingRevenue", "sellingExpenses", "adminExpenses"})
<1>1. q = Null => computeOperatingExpenseRatio(a).ttm = skip("skipped_no_quarter")
  BY DEF computeOperatingExpenseRatio, Batch, slotsFrom, noQuarterBatch, sumTrailingPeriods
<1>2. q # Null => computeOperatingExpenseRatio(a).ttm = ttmSlot(periods, complete, percentCalc(sum, revenue), main, q)
  BY DEF computeOperatingExpenseRatio, Batch, slotsFrom, sumTrailingPeriods
<1>3. q # Null => getOperatingExpenseRatioProvenance(a) = provenance(q, percentOf(told, revenue), entries)
  BY DEF getOperatingExpenseRatioProvenance, traced, tracedFrom
<1>4. IsPeriods(periods) /\ \A i \in 1..Len(periods) : isFiled("incomeStatement", periods[i].record)
  BY IncomeRecords
<1>5. complete => sum = told
  <2> HIDE DEF periods
  <2>1. complete => allFiled(periods, {"sellingExpenses", "adminExpenses"})
    BY DEF allFiled
  <2>2. QED
    BY <1>4, <2>1, ExpensesAddUp
<1>6. ~complete => told = Null \/ revenue = Null
  <2> HIDE DEF periods
  <2>1. ~complete => \E n \in names : sumOf(periods, n) = Null
    BY <1>4, FieldsMissing
  <2>2. QED
    BY <2>1 DEF plus
<1> HIDE DEF q, periods, main, names, complete, revenue, sum, told, entries
<1>7. Agrees(trace(provenance(q, percentOf(told, revenue), entries), ttmSlot(periods, complete, percentCalc(sum, revenue), main, q)))
  <2>1. complete => percentCalc(sum, revenue).value = percentOf(told, revenue)
    BY <1>5, Values
  <2>2. ~complete => percentOf(told, revenue) = Null
    BY <1>6 DEF percentOf
  <2>3. QED
    BY <2>1, <2>2, YearAgrees
<1>8. QED
  BY <1>1, <1>2, <1>3, <1>7, SkippedAgrees

-----------------------------------------------------------------------------
(* The traces of the statement metrics.                                    *)

(* Every trace that is held to it agrees with the slot beside it.          *)
AllAgree(told) == \A m \in DOMAIN told \ (Exempted \union GuardedOtherwise) : Agrees(told[m])

(* Groups of traces that agree, joined, agree.                             *)
LEMMA JoinedAgree == ASSUME NEW f, NEW g, AllAgree(f), AllAgree(g) PROVE AllAgree(joined(f, g))
BY DEF AllAgree, joined

(* The traces of the resilience family show what is stored.                *)
LEMMA ResilienceTracesAgree == ASSUME NEW a \in Asked PROVE AllAgree(ResilienceTraces(a, StatementComputed[a]))
<1> DEFINE b == StatementComputed[a]
           told == ResilienceTraces(a, b)
<1>1. DOMAIN told = {"currentRatio", "quickRatio", "cashRatio", "deRatio", "debtRatio", "cashToAssetsRatio",
                     "equityRatio", "totalDebtToCapital", "netWorkingCapitalToAssets",
                     "longTermDebtToNetCurrentAssets", "cashPerShare", "interestCoverage", "altmanZScore",
                     "altmanZDoublePrimeScore", "zmijewskiScore", "ohlsonOScore", "netDebtToEbitda", "bankNplRatio",
                     "bankNplCoverageRatio", "bankCarRatio", "bankCet1Ratio", "bankTier1Ratio",
                     "financialLeverageDegree", "totalLeverageDegree", "debtToFcf", "equityMultiplier"}
  BY DEF ResilienceTraces
<1>2. /\ b.altmanZDoublePrimeScore = computeAltmanZDoublePrimeScore(a)
      /\ b.altmanZScore = computeAltmanZScore(a)
      /\ b.bankAssetQuality = computeBankAssetQualityFamily(a)
      /\ b.bankCapitalAdequacy = computeBankCapitalAdequacyFamily(a)
      /\ b.cashFlowValuation = computeCashFlowValuationFamily(a)
      /\ b.cashPerShare = computeCashPerShare(a)
      /\ b.cashToAssetsRatio = computeCashToAssetsRatio(a)
      /\ b.deRatio = computeDeRatio(a)
      /\ b.debtRatio = computeDebtRatio(a)
      /\ b.dupont = computeDupontFamily(a)
      /\ b.equityRatio = computeEquityRatio(a)
      /\ b.interestCoverage = computeInterestCoverage(a)
      /\ b.leverageDegree = computeLeverageDegreeFamily(a)
      /\ b.liquidityRatio = computeLiquidityRatio(a)
      /\ b.longTermDebtToNetCurrentAssets = computeLongTermDebtToNetCurrentAssets(a)
      /\ b.netDebtToEbitda = computeNetDebtToEbitda(a)
      /\ b.netWorkingCapitalToAssets = computeNetWorkingCapitalToAssets(a)
      /\ b.ohlsonOScore = computeOhlsonOScore(a)
      /\ b.totalDebtToCapital = computeTotalDebtToCapital(a)
      /\ b.zmijewskiScore = computeZmijewskiScore(a)
  BY DEF StatementComputed
<1> HIDE DEF b
<1>3. Agrees(told["currentRatio"])
  BY <1>2, LiquidityTold DEF ResilienceTraces
<1>4. Agrees(told["quickRatio"])
  BY <1>2, LiquidityTold DEF ResilienceTraces
<1>5. Agrees(told["cashRatio"])
  BY <1>2, LiquidityTold DEF ResilienceTraces
<1>6. Agrees(told["deRatio"])
  BY <1>2, DeRatioTold DEF ResilienceTraces
<1>7. Agrees(told["debtRatio"])
  BY <1>2, DebtRatioTold DEF ResilienceTraces
<1>8. Agrees(told["cashToAssetsRatio"])
  BY <1>2, CashToAssetsRatioTold DEF ResilienceTraces
<1>9. Agrees(told["equityRatio"])
  BY <1>2, EquityRatioTold DEF ResilienceTraces
<1>10. Agrees(told["totalDebtToCapital"])
  BY <1>2, TotalDebtToCapitalTold DEF ResilienceTraces
<1>11. Agrees(told["netWorkingCapitalToAssets"])
  BY <1>2, NetWorkingCapitalToAssetsTold DEF ResilienceTraces
<1>12. Agrees(told["longTermDebtToNetCurrentAssets"])
  BY <1>2, LongTermDebtToNetCurrentAssetsTold DEF ResilienceTraces
<1>13. Agrees(told["cashPerShare"])
  BY <1>2, CashPerShareTold DEF ResilienceTraces
<1>14. Agrees(told["interestCoverage"])
  BY <1>2, InterestCoverageTold DEF ResilienceTraces
<1>15. Agrees(told["altmanZScore"])
  BY <1>2, AltmanZTold DEF ResilienceTraces
<1>16. Agrees(told["altmanZDoublePrimeScore"])
  BY <1>2, ZDoublePrimeTold DEF ResilienceTraces
<1>17. Agrees(told["netDebtToEbitda"])
  BY <1>2, NetDebtToEbitdaTold DEF ResilienceTraces
<1>18. Agrees(told["bankNplRatio"])
  BY <1>2, BankAssetQualityTold DEF ResilienceTraces
<1>19. Agrees(told["bankNplCoverageRatio"])
  BY <1>2, BankAssetQualityTold DEF ResilienceTraces
<1>20. Agrees(told["bankCarRatio"])
  BY <1>2, BankCapitalAdequacyTold DEF ResilienceTraces
<1>21. Agrees(told["bankCet1Ratio"])
  BY <1>2, BankCapitalAdequacyTold DEF ResilienceTraces
<1>22. Agrees(told["bankTier1Ratio"])
  BY <1>2, BankCapitalAdequacyTold DEF ResilienceTraces
<1>23. Agrees(told["financialLeverageDegree"])
  BY <1>2, LeverageDegreeTold DEF ResilienceTraces
<1>24. Agrees(told["totalLeverageDegree"])
  BY <1>2, LeverageDegreeTold DEF ResilienceTraces
<1>25. Agrees(told["debtToFcf"])
  BY <1>2, DebtToFcfTold DEF ResilienceTraces
<1>26. Agrees(told["equityMultiplier"])
  BY <1>2, EquityMultiplierTold DEF ResilienceTraces
<1> HIDE DEF told
<1>27. AllAgree(told)
  BY <1>1, <1>3, <1>4, <1>5, <1>6, <1>7, <1>8, <1>9, <1>10, <1>11, <1>12, <1>13, <1>14, <1>15, <1>16, <1>17, <1>18,
     <1>19, <1>20, <1>21, <1>22, <1>23, <1>24, <1>25, <1>26 DEF AllAgree, Exempted, GuardedOtherwise
<1>28. QED
  BY <1>27 DEF told, b

(* So do those of the efficiency family.                                   *)
LEMMA EfficiencyTracesAgree == ASSUME TypeOK, NEW a \in Asked
  PROVE AllAgree(EfficiencyTraces(a, StatementComputed[a]))
<1> DEFINE b == StatementComputed[a]
           told == EfficiencyTraces(a, b)
<1>1. DOMAIN told = {"inventoryTurnover", "receivablesTurnover", "fixedAssetTurnover", "payablesTurnover",
                     "inventoryDays", "receivablesDays", "payablesDays", "cashConversionCycle", "operatingCycle",
                     "netWorkingCapitalTurnover", "inventoryToRevenueRatio", "receivablesToRevenueRatio",
                     "assetTurnover", "capexToOcfRatio", "operatingExpenseRatio", "capexToRevenue"}
  BY DEF EfficiencyTraces
<1>2. /\ b.capexToRevenue = computeCapexToRevenue(a)
      /\ b.cashFlowValuation = computeCashFlowValuationFamily(a)
      /\ b.dupont = computeDupontFamily(a)
      /\ b.operatingExpenseRatio = computeOperatingExpenseRatio(a)
      /\ b.turnover = computeTurnoverRatioFamily(a)
  BY DEF StatementComputed
<1> HIDE DEF b
<1>3. Agrees(told["inventoryTurnover"])
  <2>1. "inventoryTurnover" \in ttmKeys
    BY DEF ttmKeys, turnoverKeys, dayKeys, revenueKeys
  <2>2. QED
    BY <1>2, <2>1, TracedTurnoverTold DEF EfficiencyTraces, getInventoryTurnoverProvenance
<1>4. Agrees(told["receivablesTurnover"])
  <2>1. "receivablesTurnover" \in ttmKeys
    BY DEF ttmKeys, turnoverKeys, dayKeys, revenueKeys
  <2>2. QED
    BY <1>2, <2>1, TracedTurnoverTold DEF EfficiencyTraces, getReceivablesTurnoverProvenance
<1>5. Agrees(told["fixedAssetTurnover"])
  <2>1. "fixedAssetTurnover" \in ttmKeys
    BY DEF ttmKeys, turnoverKeys, dayKeys, revenueKeys
  <2>2. QED
    BY <1>2, <2>1, TracedTurnoverTold DEF EfficiencyTraces, getFixedAssetTurnoverProvenance
<1>6. Agrees(told["payablesTurnover"])
  <2>1. "payablesTurnover" \in ttmKeys
    BY DEF ttmKeys, turnoverKeys, dayKeys, revenueKeys
  <2>2. QED
    BY <1>2, <2>1, TracedTurnoverTold DEF EfficiencyTraces, getPayablesTurnoverProvenance
<1>7. Agrees(told["inventoryDays"])
  <2>1. "inventoryDays" \in ttmKeys
    BY DEF ttmKeys, turnoverKeys, dayKeys, revenueKeys
  <2>2. QED
    BY <1>2, <2>1, TracedTurnoverTold DEF EfficiencyTraces, getInventoryDaysProvenance
<1>8. Agrees(told["receivablesDays"])
  <2>1. "receivablesDays" \in ttmKeys
    BY DEF ttmKeys, turnoverKeys, dayKeys, revenueKeys
  <2>2. QED
    BY <1>2, <2>1, TracedTurnoverTold DEF EfficiencyTraces, getReceivablesDaysProvenance
<1>9. Agrees(told["payablesDays"])
  <2>1. "payablesDays" \in ttmKeys
    BY DEF ttmKeys, turnoverKeys, dayKeys, revenueKeys
  <2>2. QED
    BY <1>2, <2>1, TracedTurnoverTold DEF EfficiencyTraces, getPayablesDaysProvenance
<1>10. Agrees(told["cashConversionCycle"])
  <2>1. "cashConversionCycle" \in ttmKeys
    BY DEF ttmKeys, turnoverKeys, dayKeys, revenueKeys
  <2>2. QED
    BY <1>2, <2>1, TracedTurnoverTold DEF EfficiencyTraces, getCashConversionCycleProvenance
<1>11. Agrees(told["operatingCycle"])
  <2>1. "operatingCycle" \in ttmKeys
    BY DEF ttmKeys, turnoverKeys, dayKeys, revenueKeys
  <2>2. QED
    BY <1>2, <2>1, TracedTurnoverTold DEF EfficiencyTraces, getOperatingCycleProvenance
<1>12. Agrees(told["netWorkingCapitalTurnover"])
  <2>1. "netWorkingCapitalTurnover" \in ttmKeys
    BY DEF ttmKeys, turnoverKeys, dayKeys, revenueKeys
  <2>2. QED
    BY <1>2, <2>1, TracedTurnoverTold DEF EfficiencyTraces
<1>13. Agrees(told["inventoryToRevenueRatio"])
  <2>1. "inventoryToRevenueRatio" \in ttmKeys
    BY DEF ttmKeys, turnoverKeys, dayKeys, revenueKeys
  <2>2. QED
    BY <1>2, <2>1, TracedTurnoverTold DEF EfficiencyTraces, getInventoryToRevenueRatioProvenance
<1>14. Agrees(told["receivablesToRevenueRatio"])
  <2>1. "receivablesToRevenueRatio" \in ttmKeys
    BY DEF ttmKeys, turnoverKeys, dayKeys, revenueKeys
  <2>2. QED
    BY <1>2, <2>1, TracedTurnoverTold DEF EfficiencyTraces, getReceivablesToRevenueRatioProvenance
<1>15. Agrees(told["assetTurnover"])
  BY <1>2, AssetTurnoverTold DEF EfficiencyTraces
<1>16. Agrees(told["capexToOcfRatio"])
  BY <1>2, CapexToOcfTold DEF EfficiencyTraces
<1>17. Agrees(told["operatingExpenseRatio"])
  BY <1>2, OperatingExpenseRatioTold DEF EfficiencyTraces
<1>18. Agrees(told["capexToRevenue"])
  BY <1>2, CapexToRevenueTold DEF EfficiencyTraces
<1> HIDE DEF told
<1>19. AllAgree(told)
  BY <1>1, <1>3, <1>4, <1>5, <1>6, <1>7, <1>8, <1>9, <1>10, <1>11, <1>12, <1>13, <1>14, <1>15, <1>16, <1>17, <1>18
  DEF AllAgree, Exempted, GuardedOtherwise
<1>20. QED
  BY <1>19 DEF told, b

(* So do those of the profitability family.                                *)
LEMMA ProfitabilityTracesAgree == ASSUME NEW a \in Asked PROVE AllAgree(ProfitabilityTraces(a, StatementComputed[a]))
<1> DEFINE b == StatementComputed[a]
           told == ProfitabilityTraces(a, b)
<1>1. DOMAIN told = {"grossMargin", "operatingMargin", "netProfitMargin", "roe", "roa", "roeWeighted5y", "roic",
                     "nissimPenmanRnoa", "croci", "croic", "eps", "pretaxIncomePerShare", "revenuePerShare",
                     "greenblattRoc", "novyMarxGpToAssets", "famaFrenchOperatingProfitability",
                     "nonOperatingIncomeRatio", "oneDollarTest", "dupontEbitMargin", "dupontInterestBurden",
                     "dupontTaxBurden"}
  BY DEF ProfitabilityTraces
<1>2. /\ b.cashFlowValuation = computeCashFlowValuationFamily(a)
      /\ b.croci = computeCroci(a)
      /\ b.dupont = computeDupontFamily(a)
      /\ b.eps = computeEps(a)
      /\ b.famaFrench = computeFamaFrenchOperatingProfitability(a)
      /\ b.greenblattRoc = computeGreenblattRoc(a)
      /\ b.margins = computeMarginsFamily(a)
      /\ b.nissimPenmanRnoa = computeNissimPenmanRnoa(a)
      /\ b.nonOperatingIncomeRatio = computeNonOperatingIncomeRatio(a)
      /\ b.novyMarxGpToAssets = computeNovyMarxGpToAssets(a)
      /\ b.oneDollarTest = computeOneDollarTest(a)
      /\ b.pretaxIncomePerShare = computePretaxIncomePerShare(a)
      /\ b.revenuePerShare = computeRevenuePerShare(a)
      /\ b.roa = computeRoa(a)
      /\ b.roe = computeRoe(a)
      /\ b.roeWeighted5y = computeRoeWeighted5y(a)
      /\ b.roic = computeRoic(a)
  BY DEF StatementComputed
<1> HIDE DEF b
<1>3. Agrees(told["roe"])
  BY <1>2, RoeTold DEF ProfitabilityTraces
<1>4. Agrees(told["roa"])
  BY <1>2, RoaTold DEF ProfitabilityTraces
<1>5. Agrees(told["roeWeighted5y"])
  BY <1>2, RoeWeighted5yTold DEF ProfitabilityTraces
<1>6. Agrees(told["roic"])
  BY <1>2, RoicTold DEF ProfitabilityTraces
<1>7. Agrees(told["nissimPenmanRnoa"])
  BY <1>2, NissimPenmanRnoaTold DEF ProfitabilityTraces
<1>8. Agrees(told["croci"])
  BY <1>2, CrociTold DEF ProfitabilityTraces
<1>9. Agrees(told["croic"])
  BY <1>2, CroicTold DEF ProfitabilityTraces
<1>10. Agrees(told["eps"])
  BY <1>2, EpsTold DEF ProfitabilityTraces
<1>11. Agrees(told["pretaxIncomePerShare"])
  BY <1>2, PretaxIncomePerShareTold DEF ProfitabilityTraces
<1>12. Agrees(told["revenuePerShare"])
  BY <1>2, RevenuePerShareTold DEF ProfitabilityTraces
<1>13. Agrees(told["greenblattRoc"])
  BY <1>2, GreenblattRocTold DEF ProfitabilityTraces
<1>14. Agrees(told["novyMarxGpToAssets"])
  BY <1>2, NovyMarxTold DEF ProfitabilityTraces
<1>15. Agrees(told["famaFrenchOperatingProfitability"])
  BY <1>2, FamaFrenchTold DEF ProfitabilityTraces
<1>16. Agrees(told["oneDollarTest"])
  BY <1>2, OneDollarTestTold DEF ProfitabilityTraces
<1>17. Agrees(told["dupontTaxBurden"])
  BY <1>2, DupontTaxBurdenTold DEF ProfitabilityTraces
<1> HIDE DEF told
<1>18. AllAgree(told)
  BY <1>1, <1>3, <1>4, <1>5, <1>6, <1>7, <1>8, <1>9, <1>10, <1>11, <1>12, <1>13, <1>14, <1>15, <1>16, <1>17
  DEF AllAgree, Exempted, GuardedOtherwise
<1>19. QED
  BY <1>18 DEF told, b

(* So do those of the figures per share.                                   *)
LEMMA PerShareTracesAgree == ASSUME NEW a \in Asked PROVE AllAgree(PerShareTraces(a, StatementComputed[a]))
<1> DEFINE b == StatementComputed[a]
           ofIncome == [c \in perShareCodes |->
                          trace(getIncomeStatementPerShareProvenance(c, a), b.incomeStatementPerShare[<<c, "ttm">>])]
           ofBanks == [c \in waterfallCodes |->
                         trace(getBankIncomeWaterfallProvenance(c, a), b.bankIncomeWaterfall[<<c, "ttm">>])]
           ofExpenses == [c \in DOMAIN COMPONENTS |->
                            trace(getBankOperatingExpenseBreakdownProvenance(c, a), b.bankOperatingExpense[<<c, "ttm">>])]
<1>1. /\ b.incomeStatementPerShare = computeIncomeStatementPerShare(a)
      /\ b.bankIncomeWaterfall = computeBankIncomeWaterfall(a)
      /\ b.bankOperatingExpense = computeBankOperatingExpenseBreakdown(a)
  BY DEF StatementComputed
<1> HIDE DEF b
<1>2. AllAgree(ofIncome)
  BY <1>1, IncomeStatementPerShareTold DEF AllAgree
<1>3. AllAgree(ofBanks)
  BY <1>1, BankIncomeWaterfallTold DEF AllAgree
<1>4. AllAgree(ofExpenses)
  BY <1>1, BankOperatingExpenseTold DEF AllAgree
<1>5. PerShareTraces(a, b) = joined(ofIncome, joined(ofBanks, ofExpenses))
  BY DEF PerShareTraces
<1> HIDE DEF ofIncome, ofBanks, ofExpenses
<1>6. AllAgree(PerShareTraces(a, b))
  BY <1>2, <1>3, <1>4, <1>5, JoinedAgree
<1>7. QED
  BY <1>6 DEF b

(* So do all traces of the statement metrics.                              *)
LEMMA StatementTracesAgree ==
  ASSUME TypeOK, NEW a \in Asked
  PROVE  AllAgree(StatementTracedOf(a, StatementComputed[a]))
BY ResilienceTracesAgree, EfficiencyTracesAgree, ProfitabilityTracesAgree, PerShareTracesAgree, JoinedAgree
DEF StatementTracedOf

(* Filing leaves the traces and the slots as they are; recomputing writes  *)
(* both from the same tables.                                              *)
LEMMA StatementTracesStep ==
  ASSUME TypeOK, ProvenanceAgrees, [StatementNext]_catalogueVars
  PROVE  ProvenanceAgrees'
<1>1. CASE Recompute(StatementComputed, StatementTracedOf)
  <2>1. ASSUME NEW a \in Asked PROVE AllAgree(StatementTracedOf(a, StatementComputed[a]))
    BY StatementTracesAgree
  <2>2. traces' = [a \in Asked |-> StatementTracedOf(a, StatementComputed[a])]
    BY <1>1 DEF Recompute
  <2>3. \A a \in Asked : AllAgree(traces'[a])
    BY <2>1, <2>2
  <2>4. DOMAIN traces' = Asked
    BY <2>2
  <2>5. QED
    BY <2>3, <2>4 DEF ProvenanceAgrees, AllAgree
<1>2. CASE UNCHANGED traces
  BY <1>2 DEF ProvenanceAgrees
<1>3. FilingNext => UNCHANGED traces
  BY DEF FilingNext, File, Announce, CorrectPrice, changing
<1>4. UNCHANGED catalogueVars => UNCHANGED traces
  BY DEF catalogueVars
<1>5. QED
  BY <1>1, <1>2, <1>3, <1>4 DEF StatementNext

(* The value that a statement metric shows with its sources is the value   *)
(* stored, whatever is filed, missing or revised.                          *)
THEOREM StatementProvenanceAgrees == StatementSpec => []ProvenanceAgrees
<1>1. StatementInit => ProvenanceAgrees
  BY DEF StatementInit, FilingInit, ProvenanceAgrees
<1>2. TypeOK /\ ProvenanceAgrees /\ [StatementNext]_catalogueVars => ProvenanceAgrees'
  BY StatementTracesStep
<1>3. QED
  BY <1>1, <1>2, StatementTypes, PTL DEF StatementSpec

-----------------------------------------------------------------------------
(* The traces of the quality family.                                       *)

(* What getAccrualsRatioProvenance shows is the value stored.              *)
LEMMA AccrualsRatioTold == ASSUME NEW a
  PROVE Agrees(trace(getAccrualsRatioProvenance(a), computeAccrualsRatio(a).ttm))
<1> DEFINE r == resolveAccrualsRatioInputs(a)
           q == resolveQuarterOrLatest(a, {"balanceSheet", "incomeStatement", "cashFlowStatement"})
           sum == pairedSum(incomeOf(q), flowsOf(q), accrualsOf)
           value == percentOf(sum, assetsAvgTtm(resolveAverageBalances(q)))
<1>1. r # Null => r.ttm.value = value /\ r.complete = (sum # Null)
  BY Values DEF resolveAccrualsRatioInputs, pairedSum
<1>2. sum = Null => value = Null
  <2> HIDE DEF sum
  <2>1. QED
    BY SumOverNothing
<1> HIDE DEF r, sum, value
<1>3. r # Null /\ ~r.complete => r.ttm.value = Null
  BY <1>1, <1>2
<1>4. QED
  BY <1>3, YearAgrees, SkippedAgrees
  DEF getAccrualsRatioProvenance, computeAccrualsRatio, slotsFrom, noQuarterBatch, tracedFrom, r

(* A cash flow per share is stored as it is shown.                         *)
LEMMA CashFlowPerShareTold ==
  ASSUME NEW a, NEW metric \in cashFlowPerShareMetrics, NEW names
  PROVE  Agrees(trace(tracedPerShare(a, metric, names), computeCashFlowPerShare(a)[<<metric, "ttm">>]))
<1> DEFINE r == resolveCashFlowPerShareInputs(a)
<1>1. r # Null /\ ~r.complete => r.ttm[metric].value = Null
  BY Values DEF resolveCashFlowPerShareInputs, cashFlowPerShareMetrics, sumTrailingPeriods, sumOf
<1> HIDE DEF r
<1>2. QED
  BY <1>1, YearAgrees, SkippedAgrees
  DEF tracedPerShare, computeCashFlowPerShare, slotsFrom, noQuarterBatch, tracedFrom, r

(* So are the three that are traced.                                       *)
LEMMA CashFlowPerShareTraces == ASSUME NEW a
  PROVE  /\ Agrees(trace(getOcfPerShareProvenance(a), computeCashFlowPerShare(a)[<<"ocfPerShare", "ttm">>]))
         /\ Agrees(trace(getFcfPerShareProvenance(a), computeCashFlowPerShare(a)[<<"fcfPerShare", "ttm">>]))
         /\ Agrees(trace(getDepreciationAmortisationPerShareProvenance(a),
                         computeCashFlowPerShare(a)[<<"depreciationAmortisationPerShare", "ttm">>]))
<1>1. {"ocfPerShare", "fcfPerShare", "depreciationAmortisationPerShare"} = cashFlowPerShareMetrics
  BY DEF cashFlowPerShareMetrics
<1>2. QED
  BY <1>1, CashFlowPerShareTold
  DEF getOcfPerShareProvenance, getFcfPerShareProvenance, getDepreciationAmortisationPerShareProvenance

(* What getFcfConversionRateProvenance shows is the value stored.          *)
LEMMA FcfConversionRateTold == ASSUME NEW a
  PROVE Agrees(trace(getFcfConversionRateProvenance(a), computeCashFlowValuationFamily(a).fcfConversionRate))
BY CashFlowValuationTold DEF getFcfConversionRateProvenance, trailingCashFlowKeys, cashFlowKeys

(* What getOcfMarginProvenance shows is the value stored.                  *)
LEMMA OcfMarginTold == ASSUME NEW a
  PROVE Agrees(trace(getOcfMarginProvenance(a), computeCashFlowValuationFamily(a).ocfMargin))
BY CashFlowValuationTold DEF getOcfMarginProvenance, trailingCashFlowKeys, cashFlowKeys

(* A trailing year that is not filed with all three figures has no free    *)
(* cash flow margin: the use case asks the periods, the trace the sums.    *)
LEMMA FcfMarginMissing == ASSUME NEW q, ~fcfMarginFiled(q) PROVE fcfMarginOf(q).value = Null
<1> DEFINE p == incomeOf(q)
           of(income, flow) == IF income.operatingRevenue = Null THEN Null ELSE fcfOf(flow)
           a == [i \in DOMAIN p |->
                   IF p[i].record = Null \/ flowsOf(q)[i].record = Null THEN Null ELSE of(p[i].record, flowsOf(q)[i].record)]
           fcf == total(a)
<1>1. PICK m \in DOMAIN p : a[m] = Null
  BY DEF fcfMarginFiled, field, fcfOf, calculateFcf, plus
<1>2. IsPeriods(p)
  BY TrailingPeriods DEF incomeOf
<1>3. fcf = Null
  BY <1>1, <1>2, MissingInTotal
<1>4. fcfMarginOf(q) = percentCalc(fcf, IF fcf = Null THEN Null ELSE sumOf(p, "operatingRevenue"))
  BY DEF fcfMarginOf, pairedSum
<1> HIDE DEF fcf
<1>5. QED
  BY <1>3, <1>4, Values, SumOverNothing

(* What getFcfMarginProvenance shows is the value stored.                  *)
LEMMA FcfMarginTold == ASSUME NEW a PROVE Agrees(trace(getFcfMarginProvenance(a), computeFcfMargin(a).ttm))
BY FcfMarginMissing, YearAgrees, SkippedAgrees
DEF getFcfMarginProvenance, computeFcfMargin, Batch, slotsFrom, noQuarterBatch, traced, tracedFrom

(* What getOcfToNetIncomeProvenance shows is the value stored.             *)
LEMMA OcfToNetIncomeTold == ASSUME NEW a
  PROVE Agrees(trace(getOcfToNetIncomeProvenance(a), computeOcfToNetIncome(a).ttm))
<1>1. ASSUME NEW q, NEW s, NEW entries, NEW periods, NEW main
      PROVE  Agrees(trace(provenance(q, ratioOf(s[1], s[2]), entries), ttmSlot(periods, s[1] # Null, ratioCalc(s[1], s[2]), main, q)))
  <2> DEFINE complete == s[1] # Null
  <2>1. ~complete => Null \in {s[1], s[2]}
    OBVIOUS
  <2> HIDE DEF complete
  <2>2. Agrees(trace(provenance(q, ratioOf(s[1], s[2]), entries), ttmSlot(periods, complete, ratioCalc(s[1], s[2]), main, q)))
    BY <2>1, YearQuotientAgrees
  <2>3. QED
    BY <2>2 DEF complete
<1>2. QED
  BY <1>1, SkippedAgrees
  DEF getOcfToNetIncomeProvenance, computeOcfToNetIncome, Batch, slotsFrom, noQuarterBatch, traced, tracedFrom

(* What getOwnerEarningsProvenance shows is the value stored.              *)
LEMMA OwnerEarningsTold == ASSUME NEW a
  PROVE Agrees(trace(getOwnerEarningsProvenance(a), computeOwnerEarnings(a).ttm))
<1>1. ASSUME NEW q, NEW sum, NEW shares, NEW entries, NEW periods, NEW main
      PROVE  Agrees(trace(provenance(q, perShareOf(sum, shares), entries), ttmSlot(periods, sum # Null, perShareCalc(sum, shares), main, q)))
  <2> DEFINE complete == sum # Null
  <2>1. ~complete => Null \in {sum, shares}
    OBVIOUS
  <2> HIDE DEF complete
  <2>2. Agrees(trace(provenance(q, perShareOf(sum, shares), entries), ttmSlot(periods, complete, perShareCalc(sum, shares), main, q)))
    BY <2>1, YearQuotientAgrees
  <2>3. QED
    BY <2>2 DEF complete
<1>2. QED
  BY <1>1, SkippedAgrees
  DEF getOwnerEarningsProvenance, computeOwnerEarnings, Batch, slotsFrom, noQuarterBatch, traced, tracedFrom,
      pairedSum

(* What getConsecutiveProfitYearsProvenance shows is the value stored.     *)
LEMMA ConsecutiveProfitYearsTold == ASSUME NEW a
  PROVE Agrees(trace(getConsecutiveProfitYearsProvenance(a), computeConsecutiveProfitYears(a).fy))
BY CalcAgrees, SkippedAgrees
DEF getConsecutiveProfitYearsProvenance, computeConsecutiveProfitYears, Batch, slotsFrom, noQuarterBatch, traced,
    tracedFrom

(* What getPiotroskiFScoreProvenance shows is the value stored.            *)
LEMMA PiotroskiFScoreTold == ASSUME NEW a
  PROVE Agrees(trace(getPiotroskiFScoreProvenance(a), computePiotroskiFScore(a).q))
<1> DEFINE r == resolvePiotroskiFScoreSignals(a)
<1> HIDE DEF r
<1>1. QED
  BY SameAgrees, SkippedAgrees
  DEF getPiotroskiFScoreProvenance, computePiotroskiFScore, slotsFrom, noQuarterBatch, tracedFrom, r

-----------------------------------------------------------------------------
(* The traces of the growth family.                                        *)

(* What getRevenueGrowthRateProvenance shows is the value stored.          *)
LEMMA RevenueGrowthRateTold == ASSUME NEW a
  PROVE Agrees(trace(getRevenueGrowthRateProvenance(a), computeRevenueGrowthRate(a).q))
BY SameAgrees, SkippedAgrees
DEF getRevenueGrowthRateProvenance, tracedToIncome, tracedYoy, traced, tracedFrom, computeRevenueGrowthRate, Batch,
    slotsFrom,
    noQuarterBatch, yoySlots, yoyOf, trailing, sumTrailingPeriods, revenueOf, field

(* What getNetIncomeGrowthRateProvenance shows is the value stored.        *)
LEMMA NetIncomeGrowthRateTold == ASSUME NEW a
  PROVE Agrees(trace(getNetIncomeGrowthRateProvenance(a), computeNetIncomeGrowthRate(a).q))
<1>1. pickNetIncome(Null) = Null
  BY DEF pickNetIncome, field, orElse
<1>2. QED
  BY <1>1, SameAgrees, SkippedAgrees
  DEF getNetIncomeGrowthRateProvenance, tracedYoy, traced, tracedFrom, computeNetIncomeGrowthRate, Batch, slotsFrom,
      noQuarterBatch, yoySlots, yoyOf, trailing, sumTrailingPeriods

(* What getOperatingIncomeGrowthRateProvenance shows is the value stored.  *)
LEMMA OperatingIncomeGrowthRateTold == ASSUME NEW a
  PROVE Agrees(trace(getOperatingIncomeGrowthRateProvenance(a), computeOperatingIncomeGrowthRate(a).q))
BY SameAgrees, SkippedAgrees
DEF getOperatingIncomeGrowthRateProvenance, tracedToIncome, tracedYoy, traced, tracedFrom,
    computeOperatingIncomeGrowthRate,
    Batch, slotsFrom, noQuarterBatch, yoyOf

(* What getAssetGrowthProvenance shows is the value stored.                *)
LEMMA AssetGrowthTold == ASSUME NEW a PROVE Agrees(trace(getAssetGrowthProvenance(a), computeAssetGrowth(a).q))
BY SameAgrees, SkippedAgrees
DEF getAssetGrowthProvenance, tracedYoy, traced, tracedFrom, computeAssetGrowth, Batch, slotsFrom, noQuarterBatch,
    yoyOf

(* What getEquityGrowthRateProvenance shows is the value stored.           *)
LEMMA EquityGrowthRateTold == ASSUME NEW a
  PROVE Agrees(trace(getEquityGrowthRateProvenance(a), computeEquityGrowthRate(a).q))
BY SameAgrees, SkippedAgrees
DEF getEquityGrowthRateProvenance, tracedYoy, traced, tracedFrom, computeEquityGrowthRate, Batch, slotsFrom,
    noQuarterBatch,
    yoyOf

(* What getEpsGrowthRateProvenance shows is the value stored.              *)
LEMMA EpsGrowthRateTold == ASSUME NEW a PROVE Agrees(trace(getEpsGrowthRateProvenance(a), computeEpsGrowthRate(a).q))
<1> DEFINE r == resolveEpsGrowthRateInputs(a)
<1> HIDE DEF r
<1>1. QED
  BY SameAgrees, SkippedAgrees
  DEF getEpsGrowthRateProvenance, computeEpsGrowthRate, sidesSlot, slotsFrom, noQuarterBatch, tracedFrom, r

(* What getBvpsGrowthRateProvenance shows is the value stored.             *)
LEMMA BvpsGrowthRateTold == ASSUME NEW a
  PROVE Agrees(trace(getBvpsGrowthRateProvenance(a), computeBvpsGrowthRate(a).q))
<1> DEFINE r == resolveBvpsGrowthRateInputs(a)
<1> HIDE DEF r
<1>1. QED
  BY SameAgrees, SkippedAgrees
  DEF getBvpsGrowthRateProvenance, computeBvpsGrowthRate, sidesSlot, slotsFrom, noQuarterBatch, tracedFrom, r

(* What getEpsPriorYearProvenance shows is the value stored.               *)
LEMMA EpsPriorYearTold == ASSUME NEW a PROVE Agrees(trace(getEpsPriorYearProvenance(a), computeEpsPriorYear(a).q))
<1> DEFINE r == resolveEpsPriorYear(a)
<1> HIDE DEF r
<1>1. QED
  BY SameAgrees, SkippedAgrees
  DEF getEpsPriorYearProvenance, computeEpsPriorYear, sidesSlot, slotsFrom, noQuarterBatch, tracedFrom, r

(* What getEpsCagrProvenanceForYears shows is the value stored.            *)
LEMMA EpsCagrTold ==
  ASSUME NEW a, NEW years \in EPS_CAGR_YEARS
  PROVE  Agrees(trace(getEpsCagrProvenanceForYears(years, a), computeEpsCagrFamily(a)[years]))
BY CalcAgrees, SkippedAgrees
DEF getEpsCagrProvenanceForYears, tracedCagr, traced, tracedFrom, computeEpsCagrFamily, cagrSlots, Batch, slotsFrom,
    noQuarterBatch

(* What getRevenueCagrProvenanceForYears shows is the value stored.        *)
LEMMA RevenueCagrTold ==
  ASSUME NEW a, NEW years \in REVENUE_CAGR_YEARS
  PROVE  Agrees(trace(getRevenueCagrProvenanceForYears(years, a), computeRevenueCagrFamily(a)[years]))
BY CalcAgrees, SkippedAgrees
DEF getRevenueCagrProvenanceForYears, tracedCagr, traced, tracedFrom, computeRevenueCagrFamily, cagrSlots, Batch,
    slotsFrom,
    noQuarterBatch

(* What getEarningsToRecordHighProvenance shows is the value stored.       *)
LEMMA EarningsToRecordHighTold == ASSUME NEW a
  PROVE Agrees(trace(getEarningsToRecordHighProvenance(a), computeEarningsToRecordHigh(a).q))
<1> DEFINE r == resolveEarningsToRecordHighInputs(a)
<1> HIDE DEF r
<1>1. QED
  BY SameAgrees, SkippedAgrees
  DEF getEarningsToRecordHighProvenance, computeEarningsToRecordHigh, sidesSlot, slotsFrom, noQuarterBatch,
      tracedFrom, r

(* What getPriceToResearchRatioProvenance shows is the value stored.       *)
LEMMA PriceToResearchRatioTold == ASSUME NEW a
  PROVE Agrees(trace(getPriceToResearchRatioProvenance(a), computePriceToResearchRatio(a).ttm))
<1> DEFINE r == resolvePriceToResearchRatioInputs(a)
<1> HIDE DEF r
<1>1. QED
  BY SameAgrees, SkippedAgrees
  DEF getPriceToResearchRatioProvenance, computePriceToResearchRatio, slotsFrom, noQuarterBatch, tracedFrom, r

(* A percentage that is missing an input is missing.                       *)
LEMMA MissingIsNull == ASSUME NEW n, NEW d, percentCalc(n, d).nullReason = "missing_input"
  PROVE percentCalc(n, d).value = Null
BY ReasonsAssumption DEF percentCalc, calcOr, calc, because, Reasons

(* Research over revenue is stored as it is shown, of a complete year.     *)
LEMMA ResearchTold ==
  ASSUME NEW q, NEW entries, NEW year, year.nullReason = "missing_input" => year.value = Null, NEW periods, NEW main
  PROVE  Agrees(trace(provenance(q, year.value, entries), ttmSlot(periods, year.nullReason # "missing_input", year, main, q)))
<1> DEFINE complete == year.nullReason # "missing_input"
<1>1. ~complete => year.value = Null
  OBVIOUS
<1> HIDE DEF complete
<1>2. Agrees(trace(provenance(q, year.value, entries), ttmSlot(periods, complete, year, main, q)))
  BY <1>1, YearAgrees
<1>3. QED
  BY <1>2 DEF complete

(* What getRdIntensityProvenance shows is the value stored.                *)
LEMMA RdIntensityTold == ASSUME NEW a PROVE Agrees(trace(getRdIntensityProvenance(a), computeRdIntensity(a).ttm))
<1>1. ASSUME NEW q PROVE researchAndRevenue(q).nullReason = "missing_input" => researchAndRevenue(q).value = Null
  BY MissingIsNull DEF researchAndRevenue
<1>2. QED
  BY <1>1, ResearchTold, SkippedAgrees
  DEF getRdIntensityProvenance, computeRdIntensity, Batch, slotsFrom, noQuarterBatch, traced, tracedFrom

(* What getRuleOf40Provenance shows is the value stored.                   *)
LEMMA RuleOf40Told == ASSUME NEW a PROVE Agrees(trace(getRuleOf40Provenance(a), computeRuleOf40(a).ttm))
<1> DEFINE r == resolveRuleOf40Inputs(a)
<1>1. ASSUME NEW q, NEW income, NEW flows, NEW early, NEW revenue, NEW free, NEW prior
      PROVE  \/ ruleOf40Of(q, income, flows, early, revenue, free, prior).ttmComplete
             \/ ruleOf40Of(q, income, flows, early, revenue, free, prior).ttm.value = Null
  BY Values DEF ruleOf40Of
<1>2. r # Null /\ ~r.ttmComplete => r.ttm.value = Null
  <2>1. ASSUME NEW q PROVE ruleOf40At(q) # Null => ruleOf40At(q).ttmComplete \/ ruleOf40At(q).ttm.value = Null
    <3>1. ASSUME NEW p, NEW f, NEW early
          PROVE ruleOf40Over(q, p, f, early).ttmComplete \/ ruleOf40Over(q, p, f, early).ttm.value = Null
      BY <1>1 DEF ruleOf40Over, pairedWithCash
    <3>2. QED
      BY <3>1 DEF ruleOf40At
  <2>2. QED
    BY <2>1 DEF resolveRuleOf40Inputs
<1> HIDE DEF r
<1>3. QED
  BY <1>2, YearAgrees, SkippedAgrees
  DEF getRuleOf40Provenance, computeRuleOf40, slotsFrom, noQuarterBatch, tracedFrom, r

(* What getSgrProvenance shows is the value stored.                        *)
LEMMA SgrTold == ASSUME NEW a PROVE Agrees(trace(getSgrProvenance(a), computeSgr(a).ttm))
<1> DEFINE r == resolveSgrData(a)
<1>1. ASSUME NEW q, NEW balances, NEW income, NEW flows, NEW kept, NEW paid, NEW average
      PROVE  \/ sgrOf(q, balances, income, flows, kept, paid, average).ttmComplete
             \/ sgrOf(q, balances, income, flows, kept, paid, average).sgr.value = Null
  <2>1. sgrOf(q, balances, income, flows, kept, paid, average).sgr.value = sustained(percentOf(kept, average), payoutOf(kept, paid))
    BY Values DEF sgrOf
  <2>2. kept = Null => sustained(percentOf(kept, average), payoutOf(kept, paid)) = Null
    BY SumOverNothing DEF sustained
  <2>3. sgrOf(q, balances, income, flows, kept, paid, average).ttmComplete = (kept # Null)
    BY DEF sgrOf
  <2>4. QED
    BY <2>1, <2>2, <2>3
<1>2. r # Null /\ ~r.ttmComplete => r.sgr.value = Null
  <2>1. ASSUME NEW q PROVE sgrAt(q) # Null => sgrAt(q).ttmComplete \/ sgrAt(q).sgr.value = Null
    BY <1>1 DEF sgrAt, sgrOver, pairedWithDividends
  <2>2. QED
    BY <2>1 DEF resolveSgrData
<1> HIDE DEF r
<1>3. QED
  BY <1>2, YearAgrees, SkippedAgrees
  DEF getSgrProvenance, computeSgr, slotsFrom, noQuarterBatch, tracedFrom, averageBalanceEntries, r

(* What getSueProvenance shows is the value stored.                        *)
LEMMA SueTold == ASSUME NEW a PROVE Agrees(trace(getSueProvenance(a), computeSue(a).q))
<1> DEFINE r == resolveSueInputs(a)
<1> HIDE DEF r
<1>1. QED
  BY SameAgrees, SkippedAgrees DEF getSueProvenance, computeSue, sidesSlot, slotsFrom, noQuarterBatch, tracedFrom, r

(* What getThreeMarginsRisingProvenance shows is the value stored.         *)
LEMMA ThreeMarginsRisingTold == ASSUME NEW a
  PROVE Agrees(trace(getThreeMarginsRisingProvenance(a), computeThreeMarginsRising(a).q))
<1> DEFINE r == resolveThreeMarginsRisingInputs(a)
<1> HIDE DEF r
<1>1. QED
  BY SameAgrees, SkippedAgrees
  DEF getThreeMarginsRisingProvenance, computeThreeMarginsRising, slotsFrom, noQuarterBatch, tracedFrom, r

-----------------------------------------------------------------------------
(* The traces of the dividend family.                                      *)

(* What getShareholderYieldProvenance shows is the value stored.           *)
LEMMA ShareholderYieldTold == ASSUME NEW a
  PROVE Agrees(trace(getShareholderYieldProvenance(a), computeShareholderYield(a).ttm))
<1> DEFINE r == resolveShareholderYieldInputs(a)
<1> HIDE DEF r
<1>1. QED
  BY SameAgrees, SkippedAgrees
  DEF getShareholderYieldProvenance, computeShareholderYield, outflowSlot, noQuarterBatch, tracedFrom, r

(* What getCashDividendYieldProvenance shows is the value stored.          *)
LEMMA CashDividendYieldTold == ASSUME NEW a
  PROVE Agrees(trace(getCashDividendYieldProvenance(a), computeCashDividendYield(a).ttm))
<1> DEFINE r == resolveShareholderYieldInputs(a)
<1> HIDE DEF r
<1>1. QED
  BY SameAgrees, SkippedAgrees
  DEF getCashDividendYieldProvenance, computeCashDividendYield, outflowSlot, slotsFrom, noQuarterBatch, tracedFrom, r

(* What getDividendGrowthRateProvenanceForYears shows is the value stored. *)
LEMMA DividendGrowthRateTold ==
  ASSUME NEW a, NEW years \in DIVIDEND_GROWTH_RATE_YEARS
  PROVE  Agrees(trace(getDividendGrowthRateProvenanceForYears(years, a), computeDividendGrowthRateFamily(a)[years]))
BY CalcAgrees, SkippedAgrees
DEF getDividendGrowthRateProvenanceForYears, traced, tracedFrom, computeDividendGrowthRateFamily, Batch, slotsFrom,
    noQuarterBatch

(* What getChowderNumberProvenance shows is the value stored.              *)
LEMMA ChowderNumberTold == ASSUME NEW a PROVE Agrees(trace(getChowderNumberProvenance(a), computeChowderNumber(a).fy))
<1> DEFINE r == resolveChowderNumberInputs(a)
<1> HIDE DEF r
<1>1. QED
  BY SameAgrees, SkippedAgrees
  DEF getChowderNumberProvenance, computeChowderNumber, slotsFrom, noQuarterBatch, tracedFrom, r

(* What getConsecutiveDividendYearsProvenance shows is the value stored.   *)
LEMMA ConsecutiveDividendYearsTold == ASSUME NEW a
  PROVE Agrees(trace(getConsecutiveDividendYearsProvenance(a), computeConsecutiveDividendYears(a).fy))
BY CalcAgrees, SkippedAgrees
DEF getConsecutiveDividendYearsProvenance, computeConsecutiveDividendYears, Batch, slotsFrom, noQuarterBatch, traced,
    tracedFrom

(* What getDividendCoverageRatioProvenance shows is the value stored.      *)
LEMMA DividendCoverageRatioTold == ASSUME NEW a
  PROVE Agrees(trace(getDividendCoverageRatioProvenance(a), computeDividendCoverageRatio(a).ttm))
BY SameAgrees, SkippedAgrees
DEF getDividendCoverageRatioProvenance, computeDividendCoverageRatio, Batch, slotsFrom, noQuarterBatch, traced,
    tracedFrom

(* What getDividendPayoutRatioProvenance shows is the value stored.        *)
LEMMA DividendPayoutRatioTold == ASSUME NEW a
  PROVE Agrees(trace(getDividendPayoutRatioProvenance(a), computeDividendPayoutRatio(a).ttm))
<1> DEFINE r == resolveDividendPayoutRatioInputs(a)
<1>1. r # Null /\ ~r.ttmComplete => r.payoutRatioTtm.value = Null
  BY DEF resolveDividendPayoutRatioInputs, calc
<1> HIDE DEF r
<1>2. QED
  BY <1>1, YearAgrees, SkippedAgrees
  DEF getDividendPayoutRatioProvenance, computeDividendPayoutRatio, slotsFrom, noQuarterBatch, tracedFrom, r

(* What getDividendPerShareProvenance shows is the value stored.           *)
LEMMA DividendPerShareTold == ASSUME NEW a
  PROVE Agrees(trace(getDividendPerShareProvenance(a), computeDividendPerShare(a).ttm))
BY SameAgrees, SkippedAgrees
DEF getDividendPerShareProvenance, buildDividendWindowProvenance, computeDividendPerShare, Batch, slotsFrom,
    noQuarterBatch,
    traced, tracedFrom

(* What getShareCountChangeRateProvenance shows is the value stored.       *)
LEMMA ShareCountChangeRateTold == ASSUME NEW a
  PROVE Agrees(trace(getShareCountChangeRateProvenance(a), computeShareCountChangeRate(a).q))
<1> DEFINE r == resolveShareCountChangeRateInputs(a)
<1> HIDE DEF r
<1>1. QED
  BY SameAgrees, SkippedAgrees
  DEF getShareCountChangeRateProvenance, computeShareCountChangeRate, slotsFrom, noQuarterBatch, tracedFrom, r

(* No day is asked for: nothing is before the latest trading day.          *)
LEMMA NotBefore == ASSUME NEW day PROVE ~isBeforeLatestTradeDate(Null, day)
BY DEF isBeforeLatestTradeDate

(* What getLiveDividendPerShareProvenance shows is the value stored.       *)
LEMMA LiveDividendPerShareTold == Agrees(trace(getLiveDividendPerShareProvenance(Null), computeLiveDividendPerShare.eod))
BY NotBefore, DailyAgrees, SkippedAgrees
DEF getLiveDividendPerShareProvenance, buildDividendWindowProvenance, computeLiveDividendPerShare

(* What getDividendDistributionCountProvenance shows is the value stored.  *)
LEMMA DividendDistributionCountTold ==
  Agrees(trace(getDividendDistributionCountProvenance, computeDividendDistributionCount.ttm))
BY CalcAgrees, SkippedAgrees
DEF getDividendDistributionCountProvenance, computeDividendDistributionCount, noQuarterBatch

-----------------------------------------------------------------------------
(* The traces of the valuation family.                                     *)

(* What getMarketCapProvenance shows is the value stored.                  *)
LEMMA MarketCapTold == ASSUME NEW a PROVE Agrees(trace(getMarketCapProvenance(a), computeMarketCap(a).q))
BY CalcAgrees, SkippedAgrees
DEF getMarketCapProvenance, computeMarketCap, onAnnouncement, Batch, slotsFrom, noQuarterBatch, traced, tracedFrom

(* What getStockPriceProvenance shows is the value stored.                 *)
LEMMA StockPriceTold == ASSUME NEW a PROVE Agrees(trace(getStockPriceProvenance(a), computeStockPrice(a).q))
BY CalcAgrees, SkippedAgrees
DEF getStockPriceProvenance, computeStockPrice, onAnnouncement, closeAt, Batch, slotsFrom, noQuarterBatch, traced,
    tracedFrom

(* What getTobinsQProvenance shows is the value stored.                    *)
LEMMA TobinsQTold == ASSUME NEW a PROVE Agrees(trace(getTobinsQProvenance(a), computeTobinsQ(a).q))
BY CalcAgrees, SkippedAgrees
DEF getTobinsQProvenance, computeTobinsQ, Batch, slotsFrom, noQuarterBatch, traced, tracedFrom

(* What getBvpsProvenance shows is the value stored.                       *)
LEMMA BvpsTold == ASSUME NEW a PROVE Agrees(trace(getBvpsProvenance(a), computeBvps(a).q))
<1> DEFINE r == resolveBvpsInputs(a)
<1> HIDE DEF r
<1>1. QED
  BY SameAgrees, SkippedAgrees DEF getBvpsProvenance, computeBvps, slotsFrom, noQuarterBatch, tracedFrom, r

(* What getPbRatioProvenance shows is the value stored.                    *)
LEMMA PbRatioTold == ASSUME NEW a PROVE Agrees(trace(getPbRatioProvenance(a), computePbRatio(a).q))
<1> DEFINE r == resolvePbRatioInputs(a)
<1> HIDE DEF r
<1>1. QED
  BY SameAgrees, SkippedAgrees DEF getPbRatioProvenance, computePbRatio, slotsFrom, noQuarterBatch, tracedFrom, r

(* What getNcavProvenance shows is the value stored.                       *)
LEMMA NcavTold == ASSUME NEW a PROVE Agrees(trace(getNcavProvenance(a), computeNcav(a).q))
<1> DEFINE r == resolveNcavInputs(a)
<1> HIDE DEF r
<1>1. QED
  BY SameAgrees, SkippedAgrees DEF getNcavProvenance, computeNcav, slotsFrom, noQuarterBatch, tracedFrom, r

(* What getGrahamNumberProvenance shows is the value stored.               *)
LEMMA GrahamNumberTold == ASSUME NEW a PROVE Agrees(trace(getGrahamNumberProvenance(a), computeGrahamNumber(a).ttm))
<1> DEFINE r == resolveGrahamNumberInputs(a)
<1> HIDE DEF r
<1>1. QED
  BY SameAgrees, SkippedAgrees
  DEF getGrahamNumberProvenance, computeGrahamNumber, slotsFrom, noQuarterBatch, tracedFrom, r

(* What getPegRatioProvenance shows is the value stored.                   *)
LEMMA PegRatioTold == ASSUME NEW a PROVE Agrees(trace(getPegRatioProvenance(a), computePegRatio(a).ttm))
<1> DEFINE r == resolvePegRatioInputs(a)
<1> HIDE DEF r
<1>1. QED
  BY SameAgrees, SkippedAgrees DEF getPegRatioProvenance, computePegRatio, slotsFrom, noQuarterBatch, tracedFrom, r

(* Where a year's income is not complete there are no earnings per share.  *)
LEMMA NothingEarned == ASSUME NEW q, NEW at, ~earned(q) PROVE epsThousands(q, at) = Null
BY DEF earned, epsThousands, commonEarningsTtm, toCommonEarnings, minus, sumTrailingPeriods

(* So a ratio to earnings is stored as it is shown.                        *)
LEMMA PerEarningsTold ==
  ASSUME NEW r, r # Null /\ ~earned(r.quarter) => r.result.value = Null
  PROVE  Agrees(trace(perEarningsTrace(r), perEarningsSlot(r).ttm))
BY YearAgrees, SkippedAgrees DEF perEarningsTrace, perEarningsSlot, noQuarterBatch

(* What getPeRatioProvenance shows is the value stored.                    *)
LEMMA PeRatioTold == ASSUME NEW a PROVE Agrees(trace(getPeRatioProvenance(a), computePeRatio(a).ttm))
<1> DEFINE r == resolvePeRatioInputs(a)
<1>1. \A at : priceMultiple(at, Null) = Null
  BY DEF priceMultiple
<1>2. r # Null /\ ~earned(r.quarter) => r.result.value = Null
  BY <1>1, NothingEarned, Values DEF resolvePeRatioInputs, perEarnings
<1> HIDE DEF r
<1>3. QED
  BY <1>2, PerEarningsTold DEF getPeRatioProvenance, computePeRatio, r

(* What getEarningsYieldProvenance shows is the value stored.              *)
LEMMA EarningsYieldTold == ASSUME NEW a
  PROVE Agrees(trace(getEarningsYieldProvenance(a), computeEarningsYield(a).ttm))
<1> DEFINE r == resolveEarningsYieldInputs(a)
<1>1. \A at : yieldOnPrice(Null, at) = Null
  BY DEF yieldOnPrice
<1>2. r # Null /\ ~earned(r.quarter) => r.result.value = Null
  BY <1>1, NothingEarned, Values DEF resolveEarningsYieldInputs, perEarnings
<1> HIDE DEF r
<1>3. QED
  BY <1>2, PerEarningsTold DEF getEarningsYieldProvenance, computeEarningsYield, r

(* What getFcfYieldProvenance shows is the value stored.                   *)
LEMMA FcfYieldTold == ASSUME NEW a PROVE Agrees(trace(getFcfYieldProvenance(a), computeFcfYield(a).ttm))
<1> DEFINE r == resolveFcfYieldInputs(a)
           q == resolveQuarterOrLatest(a, {"cashFlowStatement"})
           at == valuedAt(q, cashFiled(q))
           fcf == fcfSum(yearCash(q))
<1>1. r # Null => /\ r.result.value = IF at.shares = Null \/ fcf = Null THEN Null ELSE yieldOnPrice(fcf, at)
                  /\ r.complete = (fcf # Null)
  BY DEF resolveFcfYieldInputs, calc
<1> HIDE DEF r, at, fcf
<1>2. r # Null /\ ~r.complete => r.result.value = Null
  BY <1>1
<1>3. QED
  BY <1>2, YearAgrees, SkippedAgrees
  DEF getFcfYieldProvenance, computeFcfYield, slotsFrom, noQuarterBatch, tracedFrom, r

(* A multiple of a sum is stored as it is shown: without the sum there is  *)
(* none.                                                                   *)
LEMMA MultipleTold ==
  ASSUME NEW q, NEW sum, NEW amount, NEW entries, NEW periods, NEW main
  PROVE  Agrees(trace(provenance(q, multipleCalc(sum, amount).value, entries),
                      ttmSlot(periods, sum # Null, multipleCalc(sum, amount), main, q)))
<1> DEFINE complete == sum # Null
           result == multipleCalc(sum, amount)
<1>1. ~complete => result.value = Null
  BY Values DEF multipleCalc
<1> HIDE DEF complete, result
<1>2. Agrees(trace(provenance(q, result.value, entries), ttmSlot(periods, complete, result, main, q)))
  BY <1>1, YearAgrees
<1>3. QED
  BY <1>2 DEF complete, result

(* What getPFcfProvenance shows is the value stored.                       *)
LEMMA PFcfTold == ASSUME NEW a PROVE Agrees(trace(getPFcfProvenance(a), computePFcf(a).ttm))
BY MultipleTold, SkippedAgrees
DEF getPFcfProvenance, computePFcf, Batch, slotsFrom, noQuarterBatch, traced, tracedFrom

(* What getPsrProvenance shows is the value stored.                        *)
LEMMA PsrTold == ASSUME NEW a PROVE Agrees(trace(getPsrProvenance(a), computePsr(a).ttm))
BY MultipleTold, SkippedAgrees DEF getPsrProvenance, computePsr, Batch, slotsFrom, noQuarterBatch, traced, tracedFrom

(* So is a multiple of the enterprise value.                               *)
LEMMA EvTold ==
  ASSUME NEW q, NEW filed, NEW periods, NEW sum, NEW entries
  PROVE  Agrees(trace(evTrace(q, filed, sum, entries), evSlot(q, filed, periods, sum).ttm))
BY MultipleTold DEF evTrace, evSlot

(* What getEvEbitdaProvenance shows is the value stored.                   *)
LEMMA EvEbitdaTold == ASSUME NEW a PROVE Agrees(trace(getEvEbitdaProvenance(a), computeEvEbitda(a).ttm))
BY EvTold, SkippedAgrees
DEF getEvEbitdaProvenance, computeEvEbitda, Batch, slotsFrom, noQuarterBatch, traced, tracedFrom

(* What getEvToEbitProvenance shows is the value stored.                   *)
LEMMA EvToEbitTold == ASSUME NEW a PROVE Agrees(trace(getEvToEbitProvenance(a), computeEvToEbit(a).ttm))
BY EvTold, SkippedAgrees
DEF getEvToEbitProvenance, computeEvToEbit, Batch, slotsFrom, noQuarterBatch, traced, tracedFrom

(* What getEvToFcfProvenance shows is the value stored.                    *)
LEMMA EvToFcfTold == ASSUME NEW a PROVE Agrees(trace(getEvToFcfProvenance(a), computeEvToFcf(a).ttm))
BY EvTold, SkippedAgrees
DEF getEvToFcfProvenance, computeEvToFcf, Batch, slotsFrom, noQuarterBatch, traced, tracedFrom

(* What getPriceToOcfProvenance shows is the value stored.                 *)
LEMMA PriceToOcfTold == ASSUME NEW a
  PROVE Agrees(trace(getPriceToOcfProvenance(a), computeCashFlowValuationFamily(a).priceToOcf))
BY CashFlowValuationTold DEF getPriceToOcfProvenance, trailingCashFlowKeys, cashFlowKeys

(* What getEvToOcfProvenance shows is the value stored.                    *)
LEMMA EvToOcfTold == ASSUME NEW a
  PROVE Agrees(trace(getEvToOcfProvenance(a), computeCashFlowValuationFamily(a).evToOcf))
BY CashFlowValuationTold DEF getEvToOcfProvenance, trailingCashFlowKeys, cashFlowKeys

(* What getEvToSalesProvenance shows is the value stored.                  *)
LEMMA EvToSalesTold == ASSUME NEW a
  PROVE Agrees(trace(getEvToSalesProvenance(a), computeCashFlowValuationFamily(a).evToSales))
BY CashFlowValuationTold DEF getEvToSalesProvenance, trailingCashFlowKeys, cashFlowKeys

(* What getGreenblattEarningsYieldProvenance shows is the value stored.    *)
LEMMA GreenblattEarningsYieldTold == ASSUME NEW a
  PROVE Agrees(trace(getGreenblattEarningsYieldProvenance(a), computeGreenblattEarningsYield(a).ttm))
<1> DEFINE r == resolveGreenblattEarningsYieldInputs(a)
           q == resolveQuarterOrLatest(a, {"balanceSheet", "incomeStatement"})
           ev == enterpriseValue(balanceSheet(q), valuedAt(q, filedBalance(q)).marketCap)
           sum == ebitSum(q)
<1>1. r # Null => /\ r.result.value = IF Null \in {sum, ev} THEN Null ELSE percentOfValue(sum, ev)
                  /\ r.complete = (sum # Null)
  BY DEF resolveGreenblattEarningsYieldInputs, calc
<1> HIDE DEF r, ev, sum
<1>2. r # Null /\ ~r.complete => r.result.value = Null
  BY <1>1
<1>3. QED
  BY <1>2, ScoreAgrees, SkippedAgrees
  DEF getGreenblattEarningsYieldProvenance, computeGreenblattEarningsYield, slotsFrom, noQuarterBatch, tracedFrom, r

-----------------------------------------------------------------------------
(* The traces of the latest day and of the latest month.                   *)

(* The three ways in which the latest day can be resolved.                 *)
LEMMA LiveStatus == ASSUME NEW sources
  PROVE resolveLivePerShare(sources).status \in {"ok", "no_trade_date", "no_quarter"}
BY DEF resolveLivePerShare, liveAt, liveFrom, liveSince, liveOnBasis, live

(* A live metric shows what is stored when both come from one resolution   *)
(* of the latest day.                                                      *)
LEMMA LiveAgrees ==
  ASSUME NEW of, of.status \in {"ok", "no_trade_date", "no_quarter"}, NEW v, NEW result, NEW entries,
      result.value = v,
         NEW told, told = IF of.status # "ok" \/ isBeforeLatestTradeDate(Null, of.tradeDate) THEN notFound
                          ELSE provenance(of.quarter, v, entries),
         NEW slots, of.status = "no_trade_date" => slots = [eod |-> skip("skipped_no_trade_date")],
         of.status = "no_quarter" => slots = [eod |-> skip("skipped_no_quarter")],
         of.status = "ok" => slots = [eod |-> dailySlot(of.tradeDate, result)]
  PROVE  Agrees(trace(told, slots.eod))
BY NotBefore, DailyAgrees, SkippedAgrees

(* What getLivePbRatioProvenance shows is the value stored.                *)
LEMMA LivePbRatioTold == Agrees(trace(getLivePbRatioProvenance(Null), computeLivePbRatio.eod))
<1> DEFINE of == resolveLivePerShare({"balanceSheet"})
<1> DEFINE result == livePbRatioOf(of)
<1>1. of.status \in {"ok", "no_trade_date", "no_quarter"}
  BY LiveStatus
<1> HIDE DEF of
<1>2. livePbRatioOf(of).value = pbOf(of)
  BY Values DEF livePbRatioOf
<1>3. /\ of.status = "no_trade_date" => computeLivePbRatio = [eod |-> skip("skipped_no_trade_date")]
      /\ of.status = "no_quarter" => computeLivePbRatio = [eod |-> skip("skipped_no_quarter")]
      /\ of.status = "ok" => computeLivePbRatio = [eod |-> dailySlot(of.tradeDate, livePbRatioOf(of))]
  BY DEF computeLivePbRatio, liveOr, of
<1> DEFINE entries == {liveClosePriceEntry(of)} \union livePerShareEntries(of, TRUE, FALSE)
<1>4. getLivePbRatioProvenance(Null) = IF of.status # "ok" \/ isBeforeLatestTradeDate(Null, of.tradeDate) THEN notFound
                                    ELSE provenance(of.quarter, pbOf(of), entries)
  BY DEF getLivePbRatioProvenance, liveTrace, of
<1> DEFINE value == pbOf(of)
           told == getLivePbRatioProvenance(Null)
           slots == computeLivePbRatio
<1> HIDE DEF entries, result, value, told, slots
<1>5. QED
  <2>1. /\ result.value = value
        /\ told = IF of.status # "ok" \/ isBeforeLatestTradeDate(Null, of.tradeDate) THEN notFound
                  ELSE provenance(of.quarter, value, entries)
        /\ of.status = "no_trade_date" => slots = [eod |-> skip("skipped_no_trade_date")]
        /\ of.status = "no_quarter" => slots = [eod |-> skip("skipped_no_quarter")]
        /\ of.status = "ok" => slots = [eod |-> dailySlot(of.tradeDate, result)]
    BY <1>2, <1>3, <1>4 DEF result, value, told, slots
  <2>2. Agrees(trace(told, slots.eod))
    BY <1>1, <2>1, LiveAgrees
  <2>3. QED
    BY <2>2 DEF told, slots

(* What getLivePeRatioProvenance shows is the value stored.                *)
LEMMA LivePeRatioTold == Agrees(trace(getLivePeRatioProvenance(Null), computeLivePeRatio.eod))
<1> DEFINE of == resolveLivePerShare({"incomeStatement"})
<1> DEFINE result == livePeRatioOf(of)
<1>1. of.status \in {"ok", "no_trade_date", "no_quarter"}
  BY LiveStatus
<1> HIDE DEF of
<1>2. livePeRatioOf(of).value = peOf(of)
  BY Values DEF livePeRatioOf
<1>3. /\ of.status = "no_trade_date" => computeLivePeRatio = [eod |-> skip("skipped_no_trade_date")]
      /\ of.status = "no_quarter" => computeLivePeRatio = [eod |-> skip("skipped_no_quarter")]
      /\ of.status = "ok" => computeLivePeRatio = [eod |-> dailySlot(of.tradeDate, livePeRatioOf(of))]
  BY DEF computeLivePeRatio, liveOr, of
<1> DEFINE entries == {liveClosePriceEntry(of)} \union livePerShareEntries(of, FALSE, TRUE)
<1>4. getLivePeRatioProvenance(Null) = IF of.status # "ok" \/ isBeforeLatestTradeDate(Null, of.tradeDate) THEN notFound
                                    ELSE provenance(of.quarter, peOf(of), entries)
  BY DEF getLivePeRatioProvenance, liveTrace, of
<1> DEFINE value == peOf(of)
           told == getLivePeRatioProvenance(Null)
           slots == computeLivePeRatio
<1> HIDE DEF entries, result, value, told, slots
<1>5. QED
  <2>1. /\ result.value = value
        /\ told = IF of.status # "ok" \/ isBeforeLatestTradeDate(Null, of.tradeDate) THEN notFound
                  ELSE provenance(of.quarter, value, entries)
        /\ of.status = "no_trade_date" => slots = [eod |-> skip("skipped_no_trade_date")]
        /\ of.status = "no_quarter" => slots = [eod |-> skip("skipped_no_quarter")]
        /\ of.status = "ok" => slots = [eod |-> dailySlot(of.tradeDate, result)]
    BY <1>2, <1>3, <1>4 DEF result, value, told, slots
  <2>2. Agrees(trace(told, slots.eod))
    BY <1>1, <2>1, LiveAgrees
  <2>3. QED
    BY <2>2 DEF told, slots

(* What getLiveGrahamNumberProvenance shows is the value stored.           *)
LEMMA LiveGrahamNumberTold == Agrees(trace(getLiveGrahamNumberProvenance(Null), computeLiveGrahamNumber.eod))
<1> DEFINE of == resolveLivePerShare({"balanceSheet", "incomeStatement"})
           result == calcOr(calculateLiveGrahamNumber(of), trailingReason(of.ttmComplete, Null \notin {of.epsTtm, of.bvps}))
<1>1. of.status \in {"ok", "no_trade_date", "no_quarter"}
  BY LiveStatus
<1> HIDE DEF of
<1>2. result.value = calculateLiveGrahamNumber(of)
  BY Values
<1>3. /\ of.status = "no_trade_date" => computeLiveGrahamNumber = [eod |-> skip("skipped_no_trade_date")]
      /\ of.status = "no_quarter" => computeLiveGrahamNumber = [eod |-> skip("skipped_no_quarter")]
      /\ of.status = "ok" => computeLiveGrahamNumber = [eod |-> dailySlot(of.tradeDate, result)]
  BY DEF computeLiveGrahamNumber, liveOr, of
<1> DEFINE entries == {liveClosePriceEntry(of)} \union livePerShareEntries(of, TRUE, TRUE)
<1>4. getLiveGrahamNumberProvenance(Null) = IF of.status # "ok" \/ isBeforeLatestTradeDate(Null, of.tradeDate) THEN notFound
                                    ELSE provenance(of.quarter, calculateLiveGrahamNumber(of), entries)
  BY DEF getLiveGrahamNumberProvenance, liveTrace, of
<1> DEFINE value == calculateLiveGrahamNumber(of)
           told == getLiveGrahamNumberProvenance(Null)
           slots == computeLiveGrahamNumber
<1> HIDE DEF entries, result, value, told, slots
<1>5. QED
  <2>1. /\ result.value = value
        /\ told = IF of.status # "ok" \/ isBeforeLatestTradeDate(Null, of.tradeDate) THEN notFound
                  ELSE provenance(of.quarter, value, entries)
        /\ of.status = "no_trade_date" => slots = [eod |-> skip("skipped_no_trade_date")]
        /\ of.status = "no_quarter" => slots = [eod |-> skip("skipped_no_quarter")]
        /\ of.status = "ok" => slots = [eod |-> dailySlot(of.tradeDate, result)]
    BY <1>2, <1>3, <1>4 DEF result, value, told, slots
  <2>2. Agrees(trace(told, slots.eod))
    BY <1>1, <2>1, LiveAgrees
  <2>3. QED
    BY <2>2 DEF told, slots

(* What getLivePegRatioProvenance shows is the value stored.               *)
LEMMA LivePegRatioTold == Agrees(trace(getLivePegRatioProvenance(Null), computeLivePegRatio.eod))
<1> DEFINE of == resolveLivePerShare({"incomeStatement"})
           given == overPegYears(of, LAMBDA current, prior : Null \notin {of.epsTtm, current, prior})
           result == calcOr(calculateLivePeg(of), trailingReason(of.ttmComplete, given))
<1>1. of.status \in {"ok", "no_trade_date", "no_quarter"}
  BY LiveStatus
<1> HIDE DEF of
<1>2. result.value = calculateLivePeg(of)
  BY Values
<1>3. /\ of.status = "no_trade_date" => computeLivePegRatio = [eod |-> skip("skipped_no_trade_date")]
      /\ of.status = "no_quarter" => computeLivePegRatio = [eod |-> skip("skipped_no_quarter")]
      /\ of.status = "ok" => computeLivePegRatio = [eod |-> dailySlot(of.tradeDate, result)]
  BY DEF computeLivePegRatio, liveOr, overPegYears, of
<1> DEFINE entries == {liveClosePriceEntry(of)} \union (livePerShareEntries(of, FALSE, TRUE) \union
                        annualEpsEntries({latestCompleteFiscalYearOf(of.quarter),
                                          latestCompleteFiscalYearOf(of.quarter) - PEG_GROWTH_YEARS}))
<1>4. getLivePegRatioProvenance(Null) = IF of.status # "ok" \/ isBeforeLatestTradeDate(Null, of.tradeDate) THEN notFound
                                    ELSE provenance(of.quarter, calculateLivePeg(of), entries)
  BY DEF getLivePegRatioProvenance, liveTrace, of
<1> DEFINE value == calculateLivePeg(of)
           told == getLivePegRatioProvenance(Null)
           slots == computeLivePegRatio
<1> HIDE DEF entries, result, value, told, slots
<1>5. QED
  <2>1. /\ result.value = value
        /\ told = IF of.status # "ok" \/ isBeforeLatestTradeDate(Null, of.tradeDate) THEN notFound
                  ELSE provenance(of.quarter, value, entries)
        /\ of.status = "no_trade_date" => slots = [eod |-> skip("skipped_no_trade_date")]
        /\ of.status = "no_quarter" => slots = [eod |-> skip("skipped_no_quarter")]
        /\ of.status = "ok" => slots = [eod |-> dailySlot(of.tradeDate, result)]
    BY <1>2, <1>3, <1>4 DEF result, value, told, slots
  <2>2. Agrees(trace(told, slots.eod))
    BY <1>1, <2>1, LiveAgrees
  <2>3. QED
    BY <2>2 DEF told, slots

(* What getLiveMarketCapProvenance shows is the value stored.              *)
LEMMA LiveMarketCapTold == Agrees(trace(getLiveMarketCapProvenance(Null), computeLiveMarketCap.eod))
<1> DEFINE of == resolveLiveMarketCap
<1> HIDE DEF of
<1>1. missingCalc(of.value).value = of.value
  BY Values
<1>2. QED
  BY <1>1, NotBefore, DailyAgrees, SkippedAgrees
  DEF getLiveMarketCapProvenance, tracedFrom, computeLiveMarketCap, liveMarketCapSlot, of

(* What getBetaProvenance shows is the value stored.                       *)
LEMMA BetaTold == Agrees(trace(getBetaProvenance(Null), computeBeta(Null)[HEADLINE_WINDOW]))
<1> DEFINE days == loadBetaOverlap(Null)
           base == Max(days)
           window(w) == calculateBetaWindow(days, base, BETA_WINDOW_CONFIGS[w])
<1>1. HEADLINE_WINDOW \in DOMAIN BETA_WINDOW_CONFIGS
  BY DEF HEADLINE_WINDOW, BETA_WINDOW_CONFIGS
<1>2. days = {} => computeBeta(Null)[HEADLINE_WINDOW] = skip("skipped_no_trade_date")
  BY <1>1 DEF computeBeta
<1>3. days # {} => computeBeta(Null)[HEADLINE_WINDOW]
                     = periodSlot(resolveDailyCadenceKnowledgeDate(base), base, HEADLINE_WINDOW, window(HEADLINE_WINDOW))
  BY <1>1 DEF computeBeta
<1> DEFINE entries == {entry(base, "close", prices[base]), entry(base, "indexClose", IndexCloses[base])}
                      \union {entry(base, w, window(w).value) : w \in DOMAIN BETA_WINDOW_CONFIGS}
<1>4. days # {} => getBetaProvenance(Null) = provenance(Null, window(HEADLINE_WINDOW).value, entries)
  BY DEF getBetaProvenance
<1> HIDE DEF days, base, window, entries
<1>5. QED
  BY <1>2, <1>3, <1>4, SameAgrees, SkippedAgrees

(* What getMarketRatioProvenanceFor shows is the value stored.             *)
LEMMA MarketRatioTold ==
  ASSUME NEW m \in {"exchangePeRatio", "exchangePbRatio", "dividendYield"}
  PROVE  Agrees(trace(getMarketRatioProvenanceFor(m, Null), computeMarketRatios(Null)[m]))
BY DailyAgrees, SkippedAgrees DEF getMarketRatioProvenanceFor, tracedFrom, computeMarketRatios

(* What getFiftyTwoWeekProvenance shows is the value stored.               *)
LEMMA FiftyTwoWeekTold ==
  ASSUME NEW m \in DOMAIN computeFiftyTwoWeek(Null)
  PROVE  Agrees(trace(getFiftyTwoWeekProvenance(m, Null), computeFiftyTwoWeek(Null)[m]))
<1> DEFINE r == resolveFiftyTwoWeek(Null)
<1> HIDE DEF r
<1>1. CASE r = Null
  BY <1>1, SkippedAgrees DEF computeFiftyTwoWeek, r
<1>2. CASE r # Null
  <2>1. m \in DOMAIN r.result
    BY <1>2 DEF computeFiftyTwoWeek, r
  <2>2. computeFiftyTwoWeek(Null)[m]
          = periodSlot(resolveDailyCadenceKnowledgeDate(r.tradeDate), r.tradeDate, "1Y", r.result[m])
    BY <1>2, <2>1 DEF computeFiftyTwoWeek, r
  <2>3. QED
    BY <1>2, <2>2, SameAgrees DEF getFiftyTwoWeekProvenance, tracedFrom, r
<1>3. QED
  BY <1>1, <1>2

(* The months are numbers.                                                 *)
LEMMA MonthsFound ==
  /\ Len(MonthlyRevenue) \in Nat /\ DOMAIN MonthlyRevenue = 1..Len(MonthlyRevenue)
  /\ \A i \in 1..Len(MonthlyRevenue) : MonthlyRevenue[i].month \in Int
<1>1. MonthlyRevenue \in Seq(Month)
  BY MonthlyRevenueAssumption DEF Month
<1>2. \A i \in 1..Len(MonthlyRevenue) : MonthlyRevenue[i] \in Month
  BY <1>1
<1>3. \A i \in 1..Len(MonthlyRevenue) : MonthlyRevenue[i].month \in Int
  BY <1>2 DEF Month
<1>4. QED
  BY <1>1, <1>3

(* The latest month, as the trace finds it by its name, is the last entry, *)
(* as the use case takes it.                                               *)
LEMMA LatestMonth ==
  ASSUME targetMonths(Null) # {}
  PROVE  monthAsOf(Null) # Null /\ targetMonths(monthAsOf(Null)) = targetMonths(Null)
<1> DEFINE n == Len(MonthlyRevenue)
           of(i) == MonthlyRevenue[i].month
           months == {of(i) : i \in DOMAIN MonthlyRevenue}
           last == of(n)
<1>1. n \in Nat /\ DOMAIN MonthlyRevenue = 1..n /\ \A i \in 1..n : of(i) \in Int
  BY MonthsFound
<1>2. n # 0 /\ targetMonths(Null) = {n}
  BY DEF targetMonths
<1>3. \A i \in 1..n : \A j \in 1..n : i < j => of(i) < of(j)
  BY <1>1, MonthsAssumption
<1>4. targetMonths(last) = {i \in 1..n : of(i) = last} \/ last = Null
  BY DEF targetMonths
<1>5. monthAsOf(Null) = IF months = {} THEN Null ELSE Max(months)
  <2>1. {m \in months : Null = Null \/ m <= Null} = months
    OBVIOUS
  <2>2. QED
    BY <2>1 DEF monthAsOf
<1>6. months = {of(i) : i \in 1..n}
  BY <1>1
<1> HIDE DEF n, of, months
<1>7. n \in 1..n
  BY <1>1, <1>2
<1>8. \A i \in 1..n : i # n => of(i) < last
  BY <1>1, <1>3, <1>7
<1>9. last \in Int /\ last \in months /\ months \subseteq Int
  BY <1>1, <1>6, <1>7
<1>10. \A m \in months : last >= m
  BY <1>1, <1>6, <1>8, <1>9
<1> HIDE DEF last
<1>11. Max(months) = last
  <2>1. \E x \in months : \A y \in months : x >= y
    BY <1>9, <1>10
  <2>2. Max(months) \in months /\ \A y \in months : Max(months) >= y
    BY <2>1 DEF Max
  <2> DEFINE top == Max(months)
  <2> HIDE DEF top
  <2>3. top \in Int /\ top >= last /\ last >= top
    BY <1>9, <1>10, <2>2 DEF top
  <2>4. QED
    BY <1>9, <2>3 DEF top
<1>12. monthAsOf(Null) = last /\ last # Null
  BY <1>5, <1>9, <1>11, NullAssumption
<1>13. {i \in 1..n : of(i) = last} = {n}
  <2>1. of(n) = last
    BY DEF last
  <2>2. \A i \in 1..n : of(i) \in Int
    BY <1>1
  <2>3. QED
    BY <1>7, <1>8, <1>9, <2>1, <2>2
<1>14. QED
  BY <1>2, <1>4, <1>12, <1>13

(* So both look at one window of months.                                   *)
LEMMA SameWindow ==
  ASSUME NEW months, resolveContiguousMonthWindow(Null, months) # Null
  PROVE  /\ monthAsOf(Null) # Null
         /\ resolveContiguousMonthWindow(monthAsOf(Null), months) = resolveContiguousMonthWindow(Null, months)
<1>1. targetMonths(Null) # {}
  BY DEF resolveContiguousMonthWindow
<1>2. monthAsOf(Null) # Null /\ targetMonths(monthAsOf(Null)) = targetMonths(Null)
  BY <1>1, LatestMonth
<1>3. QED
  BY <1>2 DEF resolveContiguousMonthWindow

(* What getSusProvenance shows is the value stored.                        *)
LEMMA SusTold == Agrees(trace(getSusProvenance(Null), computeSus(Null).sus))
<1> DEFINE r == resolveSusWindow(Null)
<1>1. r # Null => monthAsOf(Null) # Null /\ resolveSusWindow(monthAsOf(Null)) = r
  BY SameWindow DEF resolveSusWindow
<1> HIDE DEF r
<1>2. CASE r = Null
  BY <1>2, SkippedAgrees DEF computeSus, monthlySlot, r
<1>3. CASE r # Null
  <2> DEFINE result == calculateSus(revenuesOf(r.window))
  <2> HIDE DEF result
  <2>1. (IF r.isContiguous THEN result ELSE insufficientHistory).value = IF r.isContiguous THEN result.value ELSE Null
    BY Values
  <2>2. PICK entries : getSusProvenance(Null) = provenance(r.target.month, IF r.isContiguous THEN result.value ELSE Null, entries)
    BY <1>1, <1>3 DEF getSusProvenance, tracedMonths, result, r
  <2>3. PICK anchor : computeSus(Null).sus = periodSlot(anchor, r.target.month, "M", IF r.isContiguous THEN result ELSE insufficientHistory)
    BY <1>3 DEF computeSus, monthlySlot, result, r
  <2>4. QED
    BY <2>1, <2>2, <2>3, PeriodAgrees
<1>4. QED
  BY <1>2, <1>3

(* What getRevenueYoy3mProvenance shows is the value stored.               *)
LEMMA RevenueYoy3mTold == Agrees(trace(getRevenueYoy3mProvenance(Null), computeRevenueYoy3m(Null).revenueYoy3m))
<1> DEFINE r == resolveRevenueYoy3mWindow(Null)
<1>1. r # Null => monthAsOf(Null) # Null /\ resolveRevenueYoy3mWindow(monthAsOf(Null)) = r
  BY SameWindow DEF resolveRevenueYoy3mWindow
<1> HIDE DEF r
<1>2. CASE r = Null
  BY <1>2, SkippedAgrees DEF computeRevenueYoy3m, monthlySlot, r
<1>3. CASE r # Null
  <2> DEFINE result == calculateRevenueYoy3m(revenuesOf(r.window))
  <2> HIDE DEF result
  <2>1. (IF r.isContiguous THEN result ELSE insufficientHistory).value = IF r.isContiguous THEN result.value ELSE Null
    BY Values
  <2> DEFINE value == IF r.isContiguous THEN result.value ELSE Null
             entries == {entry(e.month, "currentMonthRevenue", e.revenue) :
                         e \in {r.window[i] : i \in (IF Len(r.window) = REVENUE_YOY_3M_WINDOW_MONTHS
                                                  THEN 1..REVENUE_YOY_3M_MONTHS \union
                                                       (Len(r.window) - REVENUE_YOY_3M_MONTHS + 1)..Len(r.window)
                                                  ELSE 1..Len(r.window))}}
  <2>2. getRevenueYoy3mProvenance(Null) = provenance(r.target.month, value, entries)
    BY <1>1, <1>3 DEF getRevenueYoy3mProvenance, tracedMonths, result, r
  <2> HIDE DEF entries
  <2>3. QED
    BY <1>3, <2>1, <2>2, PeriodAgrees DEF computeRevenueYoy3m, monthlySlot, result, r
<1>4. QED
  BY <1>2, <1>3

-----------------------------------------------------------------------------
(* The traces of the market metrics.                                       *)

(* b is a batch of the metrics of a quarter.                               *)
HoldsQuarter(a, b) == \A f \in DOMAIN OfAQuarter(a) : b[f] = OfAQuarter(a)[f]

(* The traces of the quality family show what is stored.                   *)
LEMMA QualityTracesAgree == ASSUME NEW a, NEW b, HoldsQuarter(a, b) PROVE AllAgree(QualityTraces(a, b))
<1> DEFINE told == QualityTraces(a, b)
<1>1. DOMAIN told = {"accrualsRatio", "ocfPerShare", "fcfPerShare", "depreciationAmortisationPerShare",
                     "fcfConversionRate", "ocfMargin", "fcfMargin", "ocfToNetIncome", "ownerEarnings",
                     "abnormalCapexRatio", "consecutiveProfitYears", "beneishMScore", "beneishAqi", "beneishDsri",
                     "piotroskiFScore"}
  BY DEF QualityTraces
<1>2. b.accrualsRatio = computeAccrualsRatio(a)
  <2>1. "accrualsRatio" \in DOMAIN OfAQuarter(a)
    BY DEF OfAQuarter
  <2>2. OfAQuarter(a)["accrualsRatio"] = computeAccrualsRatio(a)
    BY DEF OfAQuarter
  <2>3. QED
    BY <2>1, <2>2 DEF HoldsQuarter
<1>3. b.cashFlowPerShare = computeCashFlowPerShare(a)
  <2>1. "cashFlowPerShare" \in DOMAIN OfAQuarter(a)
    BY DEF OfAQuarter
  <2>2. OfAQuarter(a)["cashFlowPerShare"] = computeCashFlowPerShare(a)
    BY DEF OfAQuarter
  <2>3. QED
    BY <2>1, <2>2 DEF HoldsQuarter
<1>4. b.cashFlowValuation = computeCashFlowValuationFamily(a)
  <2>1. "cashFlowValuation" \in DOMAIN OfAQuarter(a)
    BY DEF OfAQuarter
  <2>2. OfAQuarter(a)["cashFlowValuation"] = computeCashFlowValuationFamily(a)
    BY DEF OfAQuarter
  <2>3. QED
    BY <2>1, <2>2 DEF HoldsQuarter
<1>5. b.consecutiveProfitYears = computeConsecutiveProfitYears(a)
  <2>1. "consecutiveProfitYears" \in DOMAIN OfAQuarter(a)
    BY DEF OfAQuarter
  <2>2. OfAQuarter(a)["consecutiveProfitYears"] = computeConsecutiveProfitYears(a)
    BY DEF OfAQuarter
  <2>3. QED
    BY <2>1, <2>2 DEF HoldsQuarter
<1>6. b.fcfMargin = computeFcfMargin(a)
  <2>1. "fcfMargin" \in DOMAIN OfAQuarter(a)
    BY DEF OfAQuarter
  <2>2. OfAQuarter(a)["fcfMargin"] = computeFcfMargin(a)
    BY DEF OfAQuarter
  <2>3. QED
    BY <2>1, <2>2 DEF HoldsQuarter
<1>7. b.ocfToNetIncome = computeOcfToNetIncome(a)
  <2>1. "ocfToNetIncome" \in DOMAIN OfAQuarter(a)
    BY DEF OfAQuarter
  <2>2. OfAQuarter(a)["ocfToNetIncome"] = computeOcfToNetIncome(a)
    BY DEF OfAQuarter
  <2>3. QED
    BY <2>1, <2>2 DEF HoldsQuarter
<1>8. b.ownerEarnings = computeOwnerEarnings(a)
  <2>1. "ownerEarnings" \in DOMAIN OfAQuarter(a)
    BY DEF OfAQuarter
  <2>2. OfAQuarter(a)["ownerEarnings"] = computeOwnerEarnings(a)
    BY DEF OfAQuarter
  <2>3. QED
    BY <2>1, <2>2 DEF HoldsQuarter
<1>9. b.piotroskiFScore = computePiotroskiFScore(a)
  <2>1. "piotroskiFScore" \in DOMAIN OfAQuarter(a)
    BY DEF OfAQuarter
  <2>2. OfAQuarter(a)["piotroskiFScore"] = computePiotroskiFScore(a)
    BY DEF OfAQuarter
  <2>3. QED
    BY <2>1, <2>2 DEF HoldsQuarter
<1>10. Agrees(told["accrualsRatio"])
  BY <1>2, AccrualsRatioTold DEF QualityTraces
<1>11. Agrees(told["ocfPerShare"])
  BY <1>3, CashFlowPerShareTraces DEF QualityTraces
<1>12. Agrees(told["fcfPerShare"])
  BY <1>3, CashFlowPerShareTraces DEF QualityTraces
<1>13. Agrees(told["depreciationAmortisationPerShare"])
  BY <1>3, CashFlowPerShareTraces DEF QualityTraces
<1>14. Agrees(told["fcfConversionRate"])
  BY <1>4, FcfConversionRateTold DEF QualityTraces
<1>15. Agrees(told["ocfMargin"])
  BY <1>4, OcfMarginTold DEF QualityTraces
<1>16. Agrees(told["fcfMargin"])
  BY <1>6, FcfMarginTold DEF QualityTraces
<1>17. Agrees(told["ocfToNetIncome"])
  BY <1>7, OcfToNetIncomeTold DEF QualityTraces
<1>18. Agrees(told["ownerEarnings"])
  BY <1>8, OwnerEarningsTold DEF QualityTraces
<1>19. Agrees(told["consecutiveProfitYears"])
  BY <1>5, ConsecutiveProfitYearsTold DEF QualityTraces
<1>20. Agrees(told["piotroskiFScore"])
  BY <1>9, PiotroskiFScoreTold DEF QualityTraces
<1> HIDE DEF told
<1>21. AllAgree(told)
  BY <1>1, <1>10, <1>11, <1>12, <1>13, <1>14, <1>15, <1>16, <1>17, <1>18, <1>19, <1>20
  DEF AllAgree, Exempted, GuardedOtherwise
<1>22. QED
  BY <1>21 DEF told

(* So do those of the growth family.                                       *)
LEMMA GrowthTracesAgree == ASSUME NEW a, NEW b, HoldsQuarter(a, b) PROVE AllAgree(GrowthTraces(a, b))
<1> DEFINE told == GrowthTraces(a, b)
<1>1. DOMAIN told = {"revenueGrowthRate", "operatingIncomeGrowthRate", "netIncomeGrowthRate", "assetGrowth",
                     "equityGrowthRate", "epsGrowthRate", "bvpsGrowthRate", "epsPriorYear", "earningsToRecordHigh",
                     "priceToResearchRatio", "rdIntensity", "ruleOf40", "sgr", "sue", "threeMarginsRising",
                     "epsCagr3y", "epsCagr5y", "epsCagr8y", "revenueCagr3y", "revenueCagr5y", "revenueCagr8y"}
  BY DEF GrowthTraces
<1>2. b.assetGrowth = computeAssetGrowth(a)
  <2>1. "assetGrowth" \in DOMAIN OfAQuarter(a)
    BY DEF OfAQuarter
  <2>2. OfAQuarter(a)["assetGrowth"] = computeAssetGrowth(a)
    BY DEF OfAQuarter
  <2>3. QED
    BY <2>1, <2>2 DEF HoldsQuarter
<1>3. b.bvpsGrowthRate = computeBvpsGrowthRate(a)
  <2>1. "bvpsGrowthRate" \in DOMAIN OfAQuarter(a)
    BY DEF OfAQuarter
  <2>2. OfAQuarter(a)["bvpsGrowthRate"] = computeBvpsGrowthRate(a)
    BY DEF OfAQuarter
  <2>3. QED
    BY <2>1, <2>2 DEF HoldsQuarter
<1>4. b.earningsToRecordHigh = computeEarningsToRecordHigh(a)
  <2>1. "earningsToRecordHigh" \in DOMAIN OfAQuarter(a)
    BY DEF OfAQuarter
  <2>2. OfAQuarter(a)["earningsToRecordHigh"] = computeEarningsToRecordHigh(a)
    BY DEF OfAQuarter
  <2>3. QED
    BY <2>1, <2>2 DEF HoldsQuarter
<1>5. b.epsCagr = computeEpsCagrFamily(a)
  <2>1. "epsCagr" \in DOMAIN OfAQuarter(a)
    BY DEF OfAQuarter
  <2>2. OfAQuarter(a)["epsCagr"] = computeEpsCagrFamily(a)
    BY DEF OfAQuarter
  <2>3. QED
    BY <2>1, <2>2 DEF HoldsQuarter
<1>6. b.epsGrowthRate = computeEpsGrowthRate(a)
  <2>1. "epsGrowthRate" \in DOMAIN OfAQuarter(a)
    BY DEF OfAQuarter
  <2>2. OfAQuarter(a)["epsGrowthRate"] = computeEpsGrowthRate(a)
    BY DEF OfAQuarter
  <2>3. QED
    BY <2>1, <2>2 DEF HoldsQuarter
<1>7. b.epsPriorYear = computeEpsPriorYear(a)
  <2>1. "epsPriorYear" \in DOMAIN OfAQuarter(a)
    BY DEF OfAQuarter
  <2>2. OfAQuarter(a)["epsPriorYear"] = computeEpsPriorYear(a)
    BY DEF OfAQuarter
  <2>3. QED
    BY <2>1, <2>2 DEF HoldsQuarter
<1>8. b.equityGrowthRate = computeEquityGrowthRate(a)
  <2>1. "equityGrowthRate" \in DOMAIN OfAQuarter(a)
    BY DEF OfAQuarter
  <2>2. OfAQuarter(a)["equityGrowthRate"] = computeEquityGrowthRate(a)
    BY DEF OfAQuarter
  <2>3. QED
    BY <2>1, <2>2 DEF HoldsQuarter
<1>9. b.netIncomeGrowthRate = computeNetIncomeGrowthRate(a)
  <2>1. "netIncomeGrowthRate" \in DOMAIN OfAQuarter(a)
    BY DEF OfAQuarter
  <2>2. OfAQuarter(a)["netIncomeGrowthRate"] = computeNetIncomeGrowthRate(a)
    BY DEF OfAQuarter
  <2>3. QED
    BY <2>1, <2>2 DEF HoldsQuarter
<1>10. b.operatingIncomeGrowthRate = computeOperatingIncomeGrowthRate(a)
  <2>1. "operatingIncomeGrowthRate" \in DOMAIN OfAQuarter(a)
    BY DEF OfAQuarter
  <2>2. OfAQuarter(a)["operatingIncomeGrowthRate"] = computeOperatingIncomeGrowthRate(a)
    BY DEF OfAQuarter
  <2>3. QED
    BY <2>1, <2>2 DEF HoldsQuarter
<1>11. b.priceToResearchRatio = computePriceToResearchRatio(a)
  <2>1. "priceToResearchRatio" \in DOMAIN OfAQuarter(a)
    BY DEF OfAQuarter
  <2>2. OfAQuarter(a)["priceToResearchRatio"] = computePriceToResearchRatio(a)
    BY DEF OfAQuarter
  <2>3. QED
    BY <2>1, <2>2 DEF HoldsQuarter
<1>12. b.rdIntensity = computeRdIntensity(a)
  <2>1. "rdIntensity" \in DOMAIN OfAQuarter(a)
    BY DEF OfAQuarter
  <2>2. OfAQuarter(a)["rdIntensity"] = computeRdIntensity(a)
    BY DEF OfAQuarter
  <2>3. QED
    BY <2>1, <2>2 DEF HoldsQuarter
<1>13. b.revenueCagr = computeRevenueCagrFamily(a)
  <2>1. "revenueCagr" \in DOMAIN OfAQuarter(a)
    BY DEF OfAQuarter
  <2>2. OfAQuarter(a)["revenueCagr"] = computeRevenueCagrFamily(a)
    BY DEF OfAQuarter
  <2>3. QED
    BY <2>1, <2>2 DEF HoldsQuarter
<1>14. b.revenueGrowthRate = computeRevenueGrowthRate(a)
  <2>1. "revenueGrowthRate" \in DOMAIN OfAQuarter(a)
    BY DEF OfAQuarter
  <2>2. OfAQuarter(a)["revenueGrowthRate"] = computeRevenueGrowthRate(a)
    BY DEF OfAQuarter
  <2>3. QED
    BY <2>1, <2>2 DEF HoldsQuarter
<1>15. b.ruleOf40 = computeRuleOf40(a)
  <2>1. "ruleOf40" \in DOMAIN OfAQuarter(a)
    BY DEF OfAQuarter
  <2>2. OfAQuarter(a)["ruleOf40"] = computeRuleOf40(a)
    BY DEF OfAQuarter
  <2>3. QED
    BY <2>1, <2>2 DEF HoldsQuarter
<1>16. b.sgr = computeSgr(a)
  <2>1. "sgr" \in DOMAIN OfAQuarter(a)
    BY DEF OfAQuarter
  <2>2. OfAQuarter(a)["sgr"] = computeSgr(a)
    BY DEF OfAQuarter
  <2>3. QED
    BY <2>1, <2>2 DEF HoldsQuarter
<1>17. b.sue = computeSue(a)
  <2>1. "sue" \in DOMAIN OfAQuarter(a)
    BY DEF OfAQuarter
  <2>2. OfAQuarter(a)["sue"] = computeSue(a)
    BY DEF OfAQuarter
  <2>3. QED
    BY <2>1, <2>2 DEF HoldsQuarter
<1>18. b.threeMarginsRising = computeThreeMarginsRising(a)
  <2>1. "threeMarginsRising" \in DOMAIN OfAQuarter(a)
    BY DEF OfAQuarter
  <2>2. OfAQuarter(a)["threeMarginsRising"] = computeThreeMarginsRising(a)
    BY DEF OfAQuarter
  <2>3. QED
    BY <2>1, <2>2 DEF HoldsQuarter
<1>19. Agrees(told["revenueGrowthRate"])
  BY <1>14, RevenueGrowthRateTold DEF GrowthTraces
<1>20. Agrees(told["operatingIncomeGrowthRate"])
  BY <1>10, OperatingIncomeGrowthRateTold DEF GrowthTraces
<1>21. Agrees(told["netIncomeGrowthRate"])
  BY <1>9, NetIncomeGrowthRateTold DEF GrowthTraces
<1>22. Agrees(told["assetGrowth"])
  BY <1>2, AssetGrowthTold DEF GrowthTraces
<1>23. Agrees(told["equityGrowthRate"])
  BY <1>8, EquityGrowthRateTold DEF GrowthTraces
<1>24. Agrees(told["epsGrowthRate"])
  BY <1>6, EpsGrowthRateTold DEF GrowthTraces
<1>25. Agrees(told["bvpsGrowthRate"])
  BY <1>3, BvpsGrowthRateTold DEF GrowthTraces
<1>26. Agrees(told["epsPriorYear"])
  BY <1>7, EpsPriorYearTold DEF GrowthTraces
<1>27. Agrees(told["earningsToRecordHigh"])
  BY <1>4, EarningsToRecordHighTold DEF GrowthTraces
<1>28. Agrees(told["priceToResearchRatio"])
  BY <1>11, PriceToResearchRatioTold DEF GrowthTraces
<1>29. Agrees(told["rdIntensity"])
  BY <1>12, RdIntensityTold DEF GrowthTraces
<1>30. Agrees(told["ruleOf40"])
  BY <1>15, RuleOf40Told DEF GrowthTraces
<1>31. Agrees(told["sgr"])
  BY <1>16, SgrTold DEF GrowthTraces
<1>32. Agrees(told["sue"])
  BY <1>17, SueTold DEF GrowthTraces
<1>33. Agrees(told["threeMarginsRising"])
  BY <1>18, ThreeMarginsRisingTold DEF GrowthTraces
<1>34. Agrees(told["epsCagr3y"])
  BY <1>5, EpsCagrTold DEF GrowthTraces, EPS_CAGR_YEARS
<1>35. Agrees(told["epsCagr5y"])
  BY <1>5, EpsCagrTold DEF GrowthTraces, EPS_CAGR_YEARS
<1>36. Agrees(told["epsCagr8y"])
  BY <1>5, EpsCagrTold DEF GrowthTraces, EPS_CAGR_YEARS
<1>37. Agrees(told["revenueCagr3y"])
  BY <1>13, RevenueCagrTold DEF GrowthTraces, REVENUE_CAGR_YEARS
<1>38. Agrees(told["revenueCagr5y"])
  BY <1>13, RevenueCagrTold DEF GrowthTraces, REVENUE_CAGR_YEARS
<1>39. Agrees(told["revenueCagr8y"])
  BY <1>13, RevenueCagrTold DEF GrowthTraces, REVENUE_CAGR_YEARS
<1> HIDE DEF told
<1>40. AllAgree(told)
  BY <1>1, <1>19, <1>20, <1>21, <1>22, <1>23, <1>24, <1>25, <1>26, <1>27, <1>28, <1>29, <1>30, <1>31, <1>32, <1>33,
     <1>34, <1>35, <1>36, <1>37, <1>38, <1>39 DEF AllAgree, Exempted, GuardedOtherwise
<1>41. QED
  BY <1>40 DEF told

(* So do those of the dividend family.                                     *)
LEMMA DividendTracesAgree == ASSUME NEW a, NEW b, HoldsQuarter(a, b) PROVE AllAgree(DividendTraces(a, b))
<1> DEFINE told == DividendTraces(a, b)
<1>1. DOMAIN told = {"buybackYield", "shareholderYield", "cashDividendYield", "chowderNumber",
                     "consecutiveDividendYears", "dividendCoverageRatio", "dividendPayoutRatio", "dividendPerShare",
                     "shareCountChangeRate", "dividendGrowthRate3y", "dividendGrowthRate5y", "dividendGrowthRate8y"}
  BY DEF DividendTraces
<1>2. b.cashDividendYield = computeCashDividendYield(a)
  <2>1. "cashDividendYield" \in DOMAIN OfAQuarter(a)
    BY DEF OfAQuarter
  <2>2. OfAQuarter(a)["cashDividendYield"] = computeCashDividendYield(a)
    BY DEF OfAQuarter
  <2>3. QED
    BY <2>1, <2>2 DEF HoldsQuarter
<1>3. b.chowderNumber = computeChowderNumber(a)
  <2>1. "chowderNumber" \in DOMAIN OfAQuarter(a)
    BY DEF OfAQuarter
  <2>2. OfAQuarter(a)["chowderNumber"] = computeChowderNumber(a)
    BY DEF OfAQuarter
  <2>3. QED
    BY <2>1, <2>2 DEF HoldsQuarter
<1>4. b.consecutiveDividendYears = computeConsecutiveDividendYears(a)
  <2>1. "consecutiveDividendYears" \in DOMAIN OfAQuarter(a)
    BY DEF OfAQuarter
  <2>2. OfAQuarter(a)["consecutiveDividendYears"] = computeConsecutiveDividendYears(a)
    BY DEF OfAQuarter
  <2>3. QED
    BY <2>1, <2>2 DEF HoldsQuarter
<1>5. b.dividendCoverageRatio = computeDividendCoverageRatio(a)
  <2>1. "dividendCoverageRatio" \in DOMAIN OfAQuarter(a)
    BY DEF OfAQuarter
  <2>2. OfAQuarter(a)["dividendCoverageRatio"] = computeDividendCoverageRatio(a)
    BY DEF OfAQuarter
  <2>3. QED
    BY <2>1, <2>2 DEF HoldsQuarter
<1>6. b.dividendGrowthRate = computeDividendGrowthRateFamily(a)
  <2>1. "dividendGrowthRate" \in DOMAIN OfAQuarter(a)
    BY DEF OfAQuarter
  <2>2. OfAQuarter(a)["dividendGrowthRate"] = computeDividendGrowthRateFamily(a)
    BY DEF OfAQuarter
  <2>3. QED
    BY <2>1, <2>2 DEF HoldsQuarter
<1>7. b.dividendPayoutRatio = computeDividendPayoutRatio(a)
  <2>1. "dividendPayoutRatio" \in DOMAIN OfAQuarter(a)
    BY DEF OfAQuarter
  <2>2. OfAQuarter(a)["dividendPayoutRatio"] = computeDividendPayoutRatio(a)
    BY DEF OfAQuarter
  <2>3. QED
    BY <2>1, <2>2 DEF HoldsQuarter
<1>8. b.dividendPerShare = computeDividendPerShare(a)
  <2>1. "dividendPerShare" \in DOMAIN OfAQuarter(a)
    BY DEF OfAQuarter
  <2>2. OfAQuarter(a)["dividendPerShare"] = computeDividendPerShare(a)
    BY DEF OfAQuarter
  <2>3. QED
    BY <2>1, <2>2 DEF HoldsQuarter
<1>9. b.shareCountChangeRate = computeShareCountChangeRate(a)
  <2>1. "shareCountChangeRate" \in DOMAIN OfAQuarter(a)
    BY DEF OfAQuarter
  <2>2. OfAQuarter(a)["shareCountChangeRate"] = computeShareCountChangeRate(a)
    BY DEF OfAQuarter
  <2>3. QED
    BY <2>1, <2>2 DEF HoldsQuarter
<1>10. b.shareholderYield = computeShareholderYield(a)
  <2>1. "shareholderYield" \in DOMAIN OfAQuarter(a)
    BY DEF OfAQuarter
  <2>2. OfAQuarter(a)["shareholderYield"] = computeShareholderYield(a)
    BY DEF OfAQuarter
  <2>3. QED
    BY <2>1, <2>2 DEF HoldsQuarter
<1>11. Agrees(told["shareholderYield"])
  BY <1>10, ShareholderYieldTold DEF DividendTraces
<1>12. Agrees(told["cashDividendYield"])
  BY <1>2, CashDividendYieldTold DEF DividendTraces
<1>13. Agrees(told["chowderNumber"])
  BY <1>3, ChowderNumberTold DEF DividendTraces
<1>14. Agrees(told["consecutiveDividendYears"])
  BY <1>4, ConsecutiveDividendYearsTold DEF DividendTraces
<1>15. Agrees(told["dividendCoverageRatio"])
  BY <1>5, DividendCoverageRatioTold DEF DividendTraces
<1>16. Agrees(told["dividendPayoutRatio"])
  BY <1>7, DividendPayoutRatioTold DEF DividendTraces
<1>17. Agrees(told["dividendPerShare"])
  BY <1>8, DividendPerShareTold DEF DividendTraces
<1>18. Agrees(told["shareCountChangeRate"])
  BY <1>9, ShareCountChangeRateTold DEF DividendTraces
<1>19. Agrees(told["dividendGrowthRate3y"])
  BY <1>6, DividendGrowthRateTold DEF DividendTraces, DIVIDEND_GROWTH_RATE_YEARS
<1>20. Agrees(told["dividendGrowthRate5y"])
  BY <1>6, DividendGrowthRateTold DEF DividendTraces, DIVIDEND_GROWTH_RATE_YEARS
<1>21. Agrees(told["dividendGrowthRate8y"])
  BY <1>6, DividendGrowthRateTold DEF DividendTraces, DIVIDEND_GROWTH_RATE_YEARS
<1> HIDE DEF told
<1>22. AllAgree(told)
  BY <1>1, <1>11, <1>12, <1>13, <1>14, <1>15, <1>16, <1>17, <1>18, <1>19, <1>20, <1>21
  DEF AllAgree, Exempted, GuardedOtherwise
<1>23. QED
  BY <1>22 DEF told

(* So do those of the valuation family.                                    *)
LEMMA ValuationTracesAgree == ASSUME NEW a, NEW b, HoldsQuarter(a, b) PROVE AllAgree(ValuationTraces(a, b))
<1> DEFINE told == ValuationTraces(a, b)
<1>1. DOMAIN told = {"marketCap", "stockPrice", "tobinsQ", "bvps", "pbRatio", "ncav", "peRatio", "earningsYield",
                     "grahamNumber", "pegRatio", "fcfYield", "pFcf", "psr", "priceToOcf", "evEbitda", "evToEbit",
                     "evToFcf", "evToOcf", "evToSales", "greenblattEarningsYield"}
  BY DEF ValuationTraces
<1>2. b.bvps = computeBvps(a)
  <2>1. "bvps" \in DOMAIN OfAQuarter(a)
    BY DEF OfAQuarter
  <2>2. OfAQuarter(a)["bvps"] = computeBvps(a)
    BY DEF OfAQuarter
  <2>3. QED
    BY <2>1, <2>2 DEF HoldsQuarter
<1>3. b.cashFlowValuation = computeCashFlowValuationFamily(a)
  <2>1. "cashFlowValuation" \in DOMAIN OfAQuarter(a)
    BY DEF OfAQuarter
  <2>2. OfAQuarter(a)["cashFlowValuation"] = computeCashFlowValuationFamily(a)
    BY DEF OfAQuarter
  <2>3. QED
    BY <2>1, <2>2 DEF HoldsQuarter
<1>4. b.earningsYield = computeEarningsYield(a)
  <2>1. "earningsYield" \in DOMAIN OfAQuarter(a)
    BY DEF OfAQuarter
  <2>2. OfAQuarter(a)["earningsYield"] = computeEarningsYield(a)
    BY DEF OfAQuarter
  <2>3. QED
    BY <2>1, <2>2 DEF HoldsQuarter
<1>5. b.evEbitda = computeEvEbitda(a)
  <2>1. "evEbitda" \in DOMAIN OfAQuarter(a)
    BY DEF OfAQuarter
  <2>2. OfAQuarter(a)["evEbitda"] = computeEvEbitda(a)
    BY DEF OfAQuarter
  <2>3. QED
    BY <2>1, <2>2 DEF HoldsQuarter
<1>6. b.evToEbit = computeEvToEbit(a)
  <2>1. "evToEbit" \in DOMAIN OfAQuarter(a)
    BY DEF OfAQuarter
  <2>2. OfAQuarter(a)["evToEbit"] = computeEvToEbit(a)
    BY DEF OfAQuarter
  <2>3. QED
    BY <2>1, <2>2 DEF HoldsQuarter
<1>7. b.evToFcf = computeEvToFcf(a)
  <2>1. "evToFcf" \in DOMAIN OfAQuarter(a)
    BY DEF OfAQuarter
  <2>2. OfAQuarter(a)["evToFcf"] = computeEvToFcf(a)
    BY DEF OfAQuarter
  <2>3. QED
    BY <2>1, <2>2 DEF HoldsQuarter
<1>8. b.fcfYield = computeFcfYield(a)
  <2>1. "fcfYield" \in DOMAIN OfAQuarter(a)
    BY DEF OfAQuarter
  <2>2. OfAQuarter(a)["fcfYield"] = computeFcfYield(a)
    BY DEF OfAQuarter
  <2>3. QED
    BY <2>1, <2>2 DEF HoldsQuarter
<1>9. b.grahamNumber = computeGrahamNumber(a)
  <2>1. "grahamNumber" \in DOMAIN OfAQuarter(a)
    BY DEF OfAQuarter
  <2>2. OfAQuarter(a)["grahamNumber"] = computeGrahamNumber(a)
    BY DEF OfAQuarter
  <2>3. QED
    BY <2>1, <2>2 DEF HoldsQuarter
<1>10. b.greenblattEarningsYield = computeGreenblattEarningsYield(a)
  <2>1. "greenblattEarningsYield" \in DOMAIN OfAQuarter(a)
    BY DEF OfAQuarter
  <2>2. OfAQuarter(a)["greenblattEarningsYield"] = computeGreenblattEarningsYield(a)
    BY DEF OfAQuarter
  <2>3. QED
    BY <2>1, <2>2 DEF HoldsQuarter
<1>11. b.marketCap = computeMarketCap(a)
  <2>1. "marketCap" \in DOMAIN OfAQuarter(a)
    BY DEF OfAQuarter
  <2>2. OfAQuarter(a)["marketCap"] = computeMarketCap(a)
    BY DEF OfAQuarter
  <2>3. QED
    BY <2>1, <2>2 DEF HoldsQuarter
<1>12. b.ncav = computeNcav(a)
  <2>1. "ncav" \in DOMAIN OfAQuarter(a)
    BY DEF OfAQuarter
  <2>2. OfAQuarter(a)["ncav"] = computeNcav(a)
    BY DEF OfAQuarter
  <2>3. QED
    BY <2>1, <2>2 DEF HoldsQuarter
<1>13. b.pFcf = computePFcf(a)
  <2>1. "pFcf" \in DOMAIN OfAQuarter(a)
    BY DEF OfAQuarter
  <2>2. OfAQuarter(a)["pFcf"] = computePFcf(a)
    BY DEF OfAQuarter
  <2>3. QED
    BY <2>1, <2>2 DEF HoldsQuarter
<1>14. b.pbRatio = computePbRatio(a)
  <2>1. "pbRatio" \in DOMAIN OfAQuarter(a)
    BY DEF OfAQuarter
  <2>2. OfAQuarter(a)["pbRatio"] = computePbRatio(a)
    BY DEF OfAQuarter
  <2>3. QED
    BY <2>1, <2>2 DEF HoldsQuarter
<1>15. b.peRatio = computePeRatio(a)
  <2>1. "peRatio" \in DOMAIN OfAQuarter(a)
    BY DEF OfAQuarter
  <2>2. OfAQuarter(a)["peRatio"] = computePeRatio(a)
    BY DEF OfAQuarter
  <2>3. QED
    BY <2>1, <2>2 DEF HoldsQuarter
<1>16. b.pegRatio = computePegRatio(a)
  <2>1. "pegRatio" \in DOMAIN OfAQuarter(a)
    BY DEF OfAQuarter
  <2>2. OfAQuarter(a)["pegRatio"] = computePegRatio(a)
    BY DEF OfAQuarter
  <2>3. QED
    BY <2>1, <2>2 DEF HoldsQuarter
<1>17. b.psr = computePsr(a)
  <2>1. "psr" \in DOMAIN OfAQuarter(a)
    BY DEF OfAQuarter
  <2>2. OfAQuarter(a)["psr"] = computePsr(a)
    BY DEF OfAQuarter
  <2>3. QED
    BY <2>1, <2>2 DEF HoldsQuarter
<1>18. b.stockPrice = computeStockPrice(a)
  <2>1. "stockPrice" \in DOMAIN OfAQuarter(a)
    BY DEF OfAQuarter
  <2>2. OfAQuarter(a)["stockPrice"] = computeStockPrice(a)
    BY DEF OfAQuarter
  <2>3. QED
    BY <2>1, <2>2 DEF HoldsQuarter
<1>19. b.tobinsQ = computeTobinsQ(a)
  <2>1. "tobinsQ" \in DOMAIN OfAQuarter(a)
    BY DEF OfAQuarter
  <2>2. OfAQuarter(a)["tobinsQ"] = computeTobinsQ(a)
    BY DEF OfAQuarter
  <2>3. QED
    BY <2>1, <2>2 DEF HoldsQuarter
<1>20. Agrees(told["marketCap"])
  BY <1>11, MarketCapTold DEF ValuationTraces
<1>21. Agrees(told["stockPrice"])
  BY <1>18, StockPriceTold DEF ValuationTraces
<1>22. Agrees(told["tobinsQ"])
  BY <1>19, TobinsQTold DEF ValuationTraces
<1>23. Agrees(told["bvps"])
  BY <1>2, BvpsTold DEF ValuationTraces
<1>24. Agrees(told["pbRatio"])
  BY <1>14, PbRatioTold DEF ValuationTraces
<1>25. Agrees(told["ncav"])
  BY <1>12, NcavTold DEF ValuationTraces
<1>26. Agrees(told["peRatio"])
  BY <1>15, PeRatioTold DEF ValuationTraces
<1>27. Agrees(told["earningsYield"])
  BY <1>4, EarningsYieldTold DEF ValuationTraces
<1>28. Agrees(told["grahamNumber"])
  BY <1>9, GrahamNumberTold DEF ValuationTraces
<1>29. Agrees(told["pegRatio"])
  BY <1>16, PegRatioTold DEF ValuationTraces
<1>30. Agrees(told["fcfYield"])
  BY <1>8, FcfYieldTold DEF ValuationTraces
<1>31. Agrees(told["pFcf"])
  BY <1>13, PFcfTold DEF ValuationTraces
<1>32. Agrees(told["psr"])
  BY <1>17, PsrTold DEF ValuationTraces
<1>33. Agrees(told["priceToOcf"])
  BY <1>3, PriceToOcfTold DEF ValuationTraces
<1>34. Agrees(told["evEbitda"])
  BY <1>5, EvEbitdaTold DEF ValuationTraces
<1>35. Agrees(told["evToEbit"])
  BY <1>6, EvToEbitTold DEF ValuationTraces
<1>36. Agrees(told["evToFcf"])
  BY <1>7, EvToFcfTold DEF ValuationTraces
<1>37. Agrees(told["evToOcf"])
  BY <1>3, EvToOcfTold DEF ValuationTraces
<1>38. Agrees(told["evToSales"])
  BY <1>3, EvToSalesTold DEF ValuationTraces
<1>39. Agrees(told["greenblattEarningsYield"])
  BY <1>10, GreenblattEarningsYieldTold DEF ValuationTraces
<1> HIDE DEF told
<1>40. AllAgree(told)
  BY <1>1, <1>20, <1>21, <1>22, <1>23, <1>24, <1>25, <1>26, <1>27, <1>28, <1>29, <1>30, <1>31, <1>32, <1>33, <1>34,
     <1>35, <1>36, <1>37, <1>38, <1>39 DEF AllAgree, Exempted, GuardedOtherwise
<1>41. QED
  BY <1>40 DEF told

(* And of those of the latest day and month.                               *)
HoldsLatest(b) == \A f \in DOMAIN OfTheLatest : b[f] = OfTheLatest[f]

(* So do those of the latest day and month.                                *)
LEMMA LiveTracesAgree == ASSUME NEW b, HoldsLatest(b) PROVE AllAgree(LiveTraces(b))
<1> DEFINE told == LiveTraces(b)
<1>1. DOMAIN told = {"beta", "livePbRatio", "livePeRatio", "liveGrahamNumber", "livePegRatio", "liveMarketCap",
                     "liveDividendPerShare", "dividendDistributionCount", "sus", "revenueYoy3m"}
  BY DEF LiveTraces
<1>2. b.beta = computeBeta(Null)
  BY DEF HoldsLatest, OfTheLatest
<1>3. Agrees(told["beta"])
  BY <1>2, BetaTold DEF LiveTraces
<1>4. b.livePbRatio = computeLivePbRatio
  BY DEF HoldsLatest, OfTheLatest
<1>5. Agrees(told["livePbRatio"])
  BY <1>4, LivePbRatioTold DEF LiveTraces
<1>6. b.livePeRatio = computeLivePeRatio
  BY DEF HoldsLatest, OfTheLatest
<1>7. Agrees(told["livePeRatio"])
  BY <1>6, LivePeRatioTold DEF LiveTraces
<1>8. b.liveGrahamNumber = computeLiveGrahamNumber
  BY DEF HoldsLatest, OfTheLatest
<1>9. Agrees(told["liveGrahamNumber"])
  BY <1>8, LiveGrahamNumberTold DEF LiveTraces
<1>10. b.livePegRatio = computeLivePegRatio
  BY DEF HoldsLatest, OfTheLatest
<1>11. Agrees(told["livePegRatio"])
  BY <1>10, LivePegRatioTold DEF LiveTraces
<1>12. b.liveMarketCap = computeLiveMarketCap
  BY DEF HoldsLatest, OfTheLatest
<1>13. Agrees(told["liveMarketCap"])
  BY <1>12, LiveMarketCapTold DEF LiveTraces
<1>14. b.liveDividendPerShare = computeLiveDividendPerShare
  BY DEF HoldsLatest, OfTheLatest
<1>15. Agrees(told["liveDividendPerShare"])
  BY <1>14, LiveDividendPerShareTold DEF LiveTraces
<1>16. b.dividendDistributionCount = computeDividendDistributionCount
  BY DEF HoldsLatest, OfTheLatest
<1>17. Agrees(told["dividendDistributionCount"])
  BY <1>16, DividendDistributionCountTold DEF LiveTraces
<1>18. b.sus = computeSus(Null)
  BY DEF HoldsLatest, OfTheLatest
<1>19. Agrees(told["sus"])
  BY <1>18, SusTold DEF LiveTraces
<1>20. b.revenueYoy3m = computeRevenueYoy3m(Null)
  BY DEF HoldsLatest, OfTheLatest
<1>21. Agrees(told["revenueYoy3m"])
  BY <1>20, RevenueYoy3mTold DEF LiveTraces
<1> HIDE DEF told
<1>22. AllAgree(told)
  BY <1>1, <1>3, <1>5, <1>7, <1>9, <1>11, <1>13, <1>15, <1>17, <1>19, <1>21 DEF AllAgree
<1>23. QED
  BY <1>22 DEF told

(* With the ratios the exchange publishes and the metrics of fifty-two     *)
(* weeks.                                                                  *)
LEMMA LatestTracesAgree == ASSUME NEW b, HoldsLatest(b) PROVE AllAgree(LatestTraces(b))
<1> DEFINE ratios == [m \in {"exchangePeRatio", "exchangePbRatio", "dividendYield"} |->
                        trace(getMarketRatioProvenanceFor(m, Null), b.marketRatios[m])]
           weeks == [m \in DOMAIN b.fiftyTwoWeek |-> trace(getFiftyTwoWeekProvenance(m, Null), b.fiftyTwoWeek[m])]
<1>1. b.marketRatios = computeMarketRatios(Null) /\ b.fiftyTwoWeek = computeFiftyTwoWeek(Null)
  BY DEF HoldsLatest, OfTheLatest
<1>2. AllAgree(ratios)
  BY <1>1, MarketRatioTold DEF AllAgree
<1>3. AllAgree(weeks)
  BY <1>1, FiftyTwoWeekTold DEF AllAgree
<1>4. LatestTraces(b) = joined(LiveTraces(b), joined(ratios, weeks))
  BY DEF LatestTraces
<1> HIDE DEF ratios, weeks
<1>5. QED
  BY <1>2, <1>3, <1>4, LiveTracesAgree, JoinedAgree

(* The metrics of the latest day are none of a quarter.                    *)
LEMMA LatestBesides == ASSUME NEW f \in DOMAIN OfTheLatest PROVE f \notin DOMAIN OfAQuarter(Null)
BY DEF OfTheLatest, OfAQuarter

(* So do all traces of the market metrics.                                 *)
LEMMA MarketTracesAgree ==
  ASSUME NEW a \in Asked
  PROVE  AllAgree(MarketTracedOf(a, MarketComputed[a]))
<1> DEFINE b == MarketComputed[a]
<1>1. HoldsQuarter(a, b)
  BY DEF HoldsQuarter, MarketComputed, joined
<1>2. a = Null => HoldsLatest(b)
  BY LatestBesides DEF HoldsLatest, MarketComputed, joined
<1> HIDE DEF b
<1>3. AllAgree(joined(joined(QualityTraces(a, b), GrowthTraces(a, b)), joined(DividendTraces(a, b), ValuationTraces(a, b))))
  BY <1>1, QualityTracesAgree, GrowthTracesAgree, DividendTracesAgree, ValuationTracesAgree, JoinedAgree
<1>4. AllAgree(MarketTracedOf(a, b))
  BY <1>2, <1>3, LatestTracesAgree, JoinedAgree DEF MarketTracedOf
<1>5. QED
  BY <1>4 DEF b

(* A report, an announcement and a price leave the traces and the slots as *)
(* they are; recomputing writes both from the same tables.                 *)
LEMMA MarketTracesStep ==
  ASSUME ProvenanceAgrees, [MarketNext]_catalogueVars
  PROVE  ProvenanceAgrees'
<1>1. CASE Recompute(MarketComputed, MarketTracedOf)
  <2>1. ASSUME NEW a \in Asked PROVE AllAgree(MarketTracedOf(a, MarketComputed[a]))
    BY MarketTracesAgree
  <2>2. traces' = [a \in Asked |-> MarketTracedOf(a, MarketComputed[a])]
    BY <1>1 DEF Recompute
  <2>3. \A a \in Asked : AllAgree(traces'[a])
    BY <2>1, <2>2
  <2>4. DOMAIN traces' = Asked
    BY <2>2
  <2>5. QED
    BY <2>3, <2>4 DEF ProvenanceAgrees, AllAgree
<1>2. CASE UNCHANGED traces
  BY <1>2 DEF ProvenanceAgrees
<1>3. FilingNext => UNCHANGED traces
  BY DEF FilingNext, File, Announce, CorrectPrice, changing
<1>4. UNCHANGED catalogueVars => UNCHANGED traces
  BY DEF catalogueVars
<1>5. QED
  BY <1>1, <1>2, <1>3, <1>4 DEF MarketNext

(* The value that a market metric shows with its sources is the value      *)
(* stored, whatever is filed, announced, priced or revised.                *)
THEOREM MarketProvenanceAgrees == MarketSpec => []ProvenanceAgrees
<1>1. MarketInit => ProvenanceAgrees
  BY DEF MarketInit, FilingInit, ProvenanceAgrees
<1>2. ProvenanceAgrees /\ [MarketNext]_catalogueVars => ProvenanceAgrees'
  BY MarketTracesStep
<1>3. QED
  BY <1>1, <1>2, PTL DEF MarketSpec
===============================================================================
