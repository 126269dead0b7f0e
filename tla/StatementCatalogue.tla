-------------------------- MODULE StatementCatalogue --------------------------
(***************************************************************************)
(* The resilience, efficiency and profitability metrics of one company     *)
(* whose filings change: what they are computed from is the statements.    *)
(***************************************************************************)
EXTENDS Resilience, Efficiency, Profitability, MetricCatalogue

\* Every use case of these groups, as pitMetrics.ts wires them.
StatementComputed ==
  [a \in Asked |->
    [liquidityRatio |-> computeLiquidityRatio(a), deRatio |-> computeDeRatio(a), debtRatio |-> computeDebtRatio(a),
     cashToAssetsRatio |-> computeCashToAssetsRatio(a), equityRatio |-> computeEquityRatio(a),
     totalDebtToCapital |-> computeTotalDebtToCapital(a), netWorkingCapitalToAssets |-> computeNetWorkingCapitalToAssets(a),
     longTermDebtToNetCurrentAssets |-> computeLongTermDebtToNetCurrentAssets(a), cashPerShare |-> computeCashPerShare(a),
     interestCoverage |-> computeInterestCoverage(a), altmanZScore |-> computeAltmanZScore(a),
     altmanZDoublePrimeScore |-> computeAltmanZDoublePrimeScore(a), zmijewskiScore |-> computeZmijewskiScore(a),
     ohlsonOScore |-> computeOhlsonOScore(a), netDebtToEbitda |-> computeNetDebtToEbitda(a),
     bankAssetQuality |-> computeBankAssetQualityFamily(a), bankCapitalAdequacy |-> computeBankCapitalAdequacyFamily(a),
     leverageDegree |-> computeLeverageDegreeFamily(a), cashFlowValuation |-> computeCashFlowValuationFamily(a),
     dupont |-> computeDupontFamily(a), turnover |-> computeTurnoverRatioFamily(a),
     operatingExpenseRatio |-> computeOperatingExpenseRatio(a), capexToRevenue |-> computeCapexToRevenue(a),
     margins |-> computeMarginsFamily(a), roe |-> computeRoe(a), roa |-> computeRoa(a), roeWeighted5y |-> computeRoeWeighted5y(a),
     roic |-> computeRoic(a), nissimPenmanRnoa |-> computeNissimPenmanRnoa(a), croci |-> computeCroci(a), eps |-> computeEps(a),
     pretaxIncomePerShare |-> computePretaxIncomePerShare(a), revenuePerShare |-> computeRevenuePerShare(a),
     incomeStatementPerShare |-> computeIncomeStatementPerShare(a), bankIncomeWaterfall |-> computeBankIncomeWaterfall(a),
     bankOperatingExpense |-> computeBankOperatingExpenseBreakdown(a), greenblattRoc |-> computeGreenblattRoc(a),
     novyMarxGpToAssets |-> computeNovyMarxGpToAssets(a), famaFrench |-> computeFamaFrenchOperatingProfitability(a),
     nonOperatingIncomeRatio |-> computeNonOperatingIncomeRatio(a), oneDollarTest |-> computeOneDollarTest(a)]]

\* What createProvenanceResolvers answers, beside the slot it is about.
ResilienceTraces(a, b) ==
  [currentRatio |-> trace(getCurrentRatioProvenance(a), b.liquidityRatio.currentRatio),
   quickRatio |-> trace(getQuickRatioProvenance(a), b.liquidityRatio.quickRatio),
   cashRatio |-> trace(getCashRatioProvenance(a), b.liquidityRatio.cashRatio),
   deRatio |-> trace(getDeRatioProvenance(a), b.deRatio.q),
   debtRatio |-> trace(getDebtRatioProvenance(a), b.debtRatio.q),
   cashToAssetsRatio |-> trace(getCashToAssetsRatioProvenance(a), b.cashToAssetsRatio.q),
   equityRatio |-> trace(getEquityRatioProvenance(a), b.equityRatio.q),
   totalDebtToCapital |-> trace(getTotalDebtToCapitalProvenance(a), b.totalDebtToCapital.q),
   netWorkingCapitalToAssets |-> trace(getNetWorkingCapitalToAssetsProvenance(a), b.netWorkingCapitalToAssets.q),
   longTermDebtToNetCurrentAssets |-> trace(getLongTermDebtToNetCurrentAssetsProvenance(a), b.longTermDebtToNetCurrentAssets.q),
   cashPerShare |-> trace(getCashPerShareProvenance(a), b.cashPerShare.q),
   interestCoverage |-> trace(getInterestCoverageProvenance(a), b.interestCoverage.ttm),
   altmanZScore |-> trace(getAltmanZScoreProvenance(a), b.altmanZScore.ttm),
   altmanZDoublePrimeScore |-> trace(getAltmanZDoublePrimeScoreProvenance(a), b.altmanZDoublePrimeScore.ttm),
   zmijewskiScore |-> trace(getZmijewskiScoreProvenance(a), b.zmijewskiScore.ttm),
   ohlsonOScore |-> trace(getOhlsonOScoreProvenance(a), b.ohlsonOScore.ttm),
   netDebtToEbitda |-> trace(getNetDebtToEbitdaProvenance(a), b.netDebtToEbitda.ttm),
   bankNplRatio |-> trace(getBankAssetQualityProvenance("bankNplRatio", a), b.bankAssetQuality.bankNplRatio),
   bankNplCoverageRatio |-> trace(getBankAssetQualityProvenance("bankNplCoverageRatio", a), b.bankAssetQuality.bankNplCoverageRatio),
   bankCarRatio |-> trace(getBankCapitalAdequacyProvenance("bankCarRatio", a), b.bankCapitalAdequacy.bankCarRatio),
   bankCet1Ratio |-> trace(getBankCapitalAdequacyProvenance("bankCet1Ratio", a), b.bankCapitalAdequacy.bankCet1Ratio),
   bankTier1Ratio |-> trace(getBankCapitalAdequacyProvenance("bankTier1Ratio", a), b.bankCapitalAdequacy.bankTier1Ratio),
   financialLeverageDegree |-> trace(getFinancialLeverageDegreeProvenance(a), b.leverageDegree.financialLeverageDegree),
   totalLeverageDegree |-> trace(getTotalLeverageDegreeProvenance(a), b.leverageDegree.totalLeverageDegree),
   debtToFcf |-> trace(getDebtToFcfProvenance(a), b.cashFlowValuation.debtToFcf),
   equityMultiplier |-> trace(getEquityMultiplierProvenance(a), b.dupont[<<"equityMultiplier", "ttm">>])]

EfficiencyTraces(a, b) ==
  LET year(metric) == b.turnover[<<metric, "ttm">>]
  IN [inventoryTurnover |-> trace(getInventoryTurnoverProvenance(a), year("inventoryTurnover")),
      receivablesTurnover |-> trace(getReceivablesTurnoverProvenance(a), year("receivablesTurnover")),
      fixedAssetTurnover |-> trace(getFixedAssetTurnoverProvenance(a), year("fixedAssetTurnover")),
      payablesTurnover |-> trace(getPayablesTurnoverProvenance(a), year("payablesTurnover")),
      inventoryDays |-> trace(getInventoryDaysProvenance(a), year("inventoryDays")),
      receivablesDays |-> trace(getReceivablesDaysProvenance(a), year("receivablesDays")),
      payablesDays |-> trace(getPayablesDaysProvenance(a), year("payablesDays")),
      cashConversionCycle |-> trace(getCashConversionCycleProvenance(a), year("cashConversionCycle")),
      operatingCycle |-> trace(getOperatingCycleProvenance(a), year("operatingCycle")),
      netWorkingCapitalTurnover |-> trace(getNetWorkingCapitalTurnoverProvenance(a), year("netWorkingCapitalTurnover")),
      inventoryToRevenueRatio |-> trace(getInventoryToRevenueRatioProvenance(a), year("inventoryToRevenueRatio")),
      receivablesToRevenueRatio |-> trace(getReceivablesToRevenueRatioProvenance(a), year("receivablesToRevenueRatio")),
      assetTurnover |-> trace(getAssetTurnoverProvenance(a), b.dupont[<<"assetTurnover", "ttm">>]),
      capexToOcfRatio |-> trace(getCapexToOcfRatioProvenance(a), b.cashFlowValuation.capexToOcfRatio),
      operatingExpenseRatio |-> trace(getOperatingExpenseRatioProvenance(a), b.operatingExpenseRatio.ttm),
      capexToRevenue |-> trace(getCapexToRevenueProvenance(a), b.capexToRevenue.ttm)]

ProfitabilityTraces(a, b) ==
  [grossMargin |-> trace(getGrossMarginProvenance(a), b.margins.grossMarginTtm),
   operatingMargin |-> trace(getOperatingMarginProvenance(a), b.margins.operatingMarginTtm),
   netProfitMargin |-> trace(getNetProfitMarginProvenance(a), b.dupont[<<"netProfitMargin", "ttm">>]),
   roe |-> trace(getRoeProvenance(a), b.roe.ttm), roa |-> trace(getRoaProvenance(a), b.roa.ttm),
   roeWeighted5y |-> trace(getRoeWeighted5yProvenance(a), b.roeWeighted5y.fy),
   roic |-> trace(getRoicProvenance(a), b.roic.ttm),
   nissimPenmanRnoa |-> trace(getNissimPenmanRnoaProvenance(a), b.nissimPenmanRnoa.ttm),
   croci |-> trace(getCrociProvenance(a), b.croci.ttm), croic |-> trace(getCroicProvenance(a), b.cashFlowValuation.croic),
   eps |-> trace(getEpsProvenance(a), b.eps.ttm),
   pretaxIncomePerShare |-> trace(getPretaxIncomePerShareProvenance(a), b.pretaxIncomePerShare.ttm),
   revenuePerShare |-> trace(getRevenuePerShareProvenance(a), b.revenuePerShare.ttm),
   greenblattRoc |-> trace(getGreenblattRocProvenance(a), b.greenblattRoc.ttm),
   novyMarxGpToAssets |-> trace(getNovyMarxGpToAssetsProvenance(a), b.novyMarxGpToAssets.ttm),
   famaFrenchOperatingProfitability |-> trace(getFamaFrenchOperatingProfitabilityProvenance(a), b.famaFrench.ttm),
   nonOperatingIncomeRatio |-> trace(getNonOperatingIncomeRatioProvenance(a), b.nonOperatingIncomeRatio.q),
   oneDollarTest |-> trace(getOneDollarTestProvenance(a), b.oneDollarTest.fy),
   dupontEbitMargin |-> trace(getDupontEbitMarginProvenance(a), b.dupont[<<"dupontEbitMargin", "ttm">>]),
   dupontInterestBurden |-> trace(getDupontInterestBurdenProvenance(a), b.dupont[<<"dupontInterestBurden", "ttm">>]),
   dupontTaxBurden |-> trace(getDupontTaxBurdenProvenance(a), b.dupont[<<"dupontTaxBurden", "ttm">>])]

PerShareTraces(a, b) ==
  joined([c \in perShareCodes |-> trace(getIncomeStatementPerShareProvenance(c, a), b.incomeStatementPerShare[<<c, "ttm">>])],
    joined([c \in waterfallCodes |-> trace(getBankIncomeWaterfallProvenance(c, a), b.bankIncomeWaterfall[<<c, "ttm">>])],
           [c \in DOMAIN COMPONENTS |->
              trace(getBankOperatingExpenseBreakdownProvenance(c, a), b.bankOperatingExpense[<<c, "ttm">>])]))

StatementTracedOf(a, b) ==
  joined(joined(ResilienceTraces(a, b), EfficiencyTraces(a, b)), joined(ProfitabilityTraces(a, b), PerShareTraces(a, b)))

StatementInit == FilingInit

StatementNext == FilingNext \/ Recompute(StatementComputed, StatementTracedOf)

StatementSpec == StatementInit /\ [][StatementNext]_catalogueVars

-----------------------------------------------------------------------------
(* Properties.                                                             *)

\* The slots of a trailing year that no earlier balance enters.
ofFlowsAlone(metric, key) ==
  CASE metric = "dupont" -> key[1] \in {"netProfitMargin", "dupontTaxBurden", "dupontInterestBurden", "dupontEbitMargin"} /\ key[2] = "ttm"
    [] metric = "cashFlowValuation" -> key \in {"ocfMargin", "fcfConversionRate", "capexToOcfRatio", "debtToFcf", "croic"}
    [] metric = "incomeStatementPerShare" -> key[2] = "ttm"
    [] OTHER -> /\ key = "ttm"
                /\ metric \in {"eps", "revenuePerShare", "operatingExpenseRatio", "capexToRevenue", "interestCoverage",
                               "netDebtToEbitda", "nonOperatingIncomeRatio", "novyMarxGpToAssets", "famaFrench", "greenblattRoc"}

originalOnly == \A t \in Tables : \A q \in Quarters : reports[t][q] \in {Null, Contents[t]["original"][q]}

\* A trailing year put together from halves equals the one put together from
\* quarters: when the missing quarter of a half is filed, with the figures the
\* cumulative statements already count, no value of flows alone changes.
HalvesAddUp ==
  [][recomputedFor({"filed"}) /\ originalOnly =>
       \A s \in {c \in changed : ofFlowsAlone(c.metric, c.key)} :
         LET old == before(s)
         IN /\ ~isComputationSkip(s.slot) /\ ~isComputationSkip(old)
            /\ s.slot.quarter = old.quarter
            /\ Null \notin {s.slot.value, old.value}
            => s.slot.value = old.value]_catalogueVars
=============================================================================
