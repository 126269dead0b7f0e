--------------------------- MODULE MarketCatalogue ---------------------------
(***************************************************************************)
(* The quality, growth, dividend and valuation metrics of one company      *)
(* whose filings and prices change: those compared with other quarters,    *)
(* with the market or with the dividends.                                  *)
(***************************************************************************)
EXTENDS Quality, Growth, Dividend, LiveValuation, MetricCatalogue

\* Every use case of these groups, as pitMetrics.ts wires them: those of
\* a quarter, and those of the latest day or month.
OfAQuarter(a) ==
  [accrualsRatio |-> computeAccrualsRatio(a), cashFlowPerShare |-> computeCashFlowPerShare(a), fcfMargin |-> computeFcfMargin(a),
   ocfToNetIncome |-> computeOcfToNetIncome(a), ownerEarnings |-> computeOwnerEarnings(a),
   abnormalCapexRatio |-> computeAbnormalCapexRatio(a), consecutiveProfitYears |-> computeConsecutiveProfitYears(a),
   beneishMScore |-> computeBeneishMScore(a), beneishAqi |-> computeBeneishAqi(a), beneishDsri |-> computeBeneishDsri(a),
   piotroskiFScore |-> computePiotroskiFScore(a), cashFlowValuation |-> computeCashFlowValuationFamily(a),
   revenueGrowthRate |-> computeRevenueGrowthRate(a), netIncomeGrowthRate |-> computeNetIncomeGrowthRate(a),
   operatingIncomeGrowthRate |-> computeOperatingIncomeGrowthRate(a), assetGrowth |-> computeAssetGrowth(a),
   equityGrowthRate |-> computeEquityGrowthRate(a), epsGrowthRate |-> computeEpsGrowthRate(a),
   bvpsGrowthRate |-> computeBvpsGrowthRate(a), epsPriorYear |-> computeEpsPriorYear(a), epsCagr |-> computeEpsCagrFamily(a),
   revenueCagr |-> computeRevenueCagrFamily(a), earningsToRecordHigh |-> computeEarningsToRecordHigh(a),
   priceToResearchRatio |-> computePriceToResearchRatio(a), rdIntensity |-> computeRdIntensity(a), ruleOf40 |-> computeRuleOf40(a),
   sgr |-> computeSgr(a), sue |-> computeSue(a), threeMarginsRising |-> computeThreeMarginsRising(a),
   buybackYield |-> computeBuybackYield(a), shareholderYield |-> computeShareholderYield(a),
   cashDividendYield |-> computeCashDividendYield(a), dividendGrowthRate |-> computeDividendGrowthRateFamily(a),
   chowderNumber |-> computeChowderNumber(a), consecutiveDividendYears |-> computeConsecutiveDividendYears(a),
   dividendCoverageRatio |-> computeDividendCoverageRatio(a), dividendPayoutRatio |-> computeDividendPayoutRatio(a),
   dividendPerShare |-> computeDividendPerShare(a), shareCountChangeRate |-> computeShareCountChangeRate(a),
   marketCap |-> computeMarketCap(a), stockPrice |-> computeStockPrice(a), tobinsQ |-> computeTobinsQ(a), bvps |-> computeBvps(a),
   pbRatio |-> computePbRatio(a), ncav |-> computeNcav(a), peRatio |-> computePeRatio(a), earningsYield |-> computeEarningsYield(a),
   grahamNumber |-> computeGrahamNumber(a), pegRatio |-> computePegRatio(a), fcfYield |-> computeFcfYield(a), pFcf |-> computePFcf(a),
   psr |-> computePsr(a), evEbitda |-> computeEvEbitda(a), evToEbit |-> computeEvToEbit(a), evToFcf |-> computeEvToFcf(a),
   greenblattEarningsYield |-> computeGreenblattEarningsYield(a)]

OfTheLatest ==
  [marketRatios |-> computeMarketRatios(Null), beta |-> computeBeta(Null), fiftyTwoWeek |-> computeFiftyTwoWeek(Null),
   livePbRatio |-> computeLivePbRatio, livePeRatio |-> computeLivePeRatio, liveGrahamNumber |-> computeLiveGrahamNumber,
   livePegRatio |-> computeLivePegRatio, liveMarketCap |-> computeLiveMarketCap,
   liveDividendPerShare |-> computeLiveDividendPerShare, dividendDistributionCount |-> computeDividendDistributionCount,
   sus |-> computeSus(Null), revenueYoy3m |-> computeRevenueYoy3m(Null)]

MarketComputed == [a \in Asked |-> IF a = Null THEN joined(OfAQuarter(a), OfTheLatest) ELSE OfAQuarter(a)]

\* What createProvenanceResolvers answers, beside the slot it is about.
QualityTraces(a, b) ==
  [accrualsRatio |-> trace(getAccrualsRatioProvenance(a), b.accrualsRatio.ttm),
   ocfPerShare |-> trace(getOcfPerShareProvenance(a), b.cashFlowPerShare[<<"ocfPerShare", "ttm">>]),
   fcfPerShare |-> trace(getFcfPerShareProvenance(a), b.cashFlowPerShare[<<"fcfPerShare", "ttm">>]),
   depreciationAmortisationPerShare |->
     trace(getDepreciationAmortisationPerShareProvenance(a), b.cashFlowPerShare[<<"depreciationAmortisationPerShare", "ttm">>]),
   fcfConversionRate |-> trace(getFcfConversionRateProvenance(a), b.cashFlowValuation.fcfConversionRate),
   ocfMargin |-> trace(getOcfMarginProvenance(a), b.cashFlowValuation.ocfMargin),
   fcfMargin |-> trace(getFcfMarginProvenance(a), b.fcfMargin.ttm),
   ocfToNetIncome |-> trace(getOcfToNetIncomeProvenance(a), b.ocfToNetIncome.ttm),
   ownerEarnings |-> trace(getOwnerEarningsProvenance(a), b.ownerEarnings.ttm),
   abnormalCapexRatio |-> trace(getAbnormalCapexRatioProvenance(a), b.abnormalCapexRatio.fy),
   consecutiveProfitYears |-> trace(getConsecutiveProfitYearsProvenance(a), b.consecutiveProfitYears.fy),
   beneishMScore |-> trace(getBeneishMScoreProvenance(a), b.beneishMScore.q),
   beneishAqi |-> trace(getBeneishAqiProvenance(a), b.beneishAqi.q),
   beneishDsri |-> trace(getBeneishDsriProvenance(a), b.beneishDsri.q),
   piotroskiFScore |-> trace(getPiotroskiFScoreProvenance(a), b.piotroskiFScore.q)]

GrowthTraces(a, b) ==
  [revenueGrowthRate |-> trace(getRevenueGrowthRateProvenance(a), b.revenueGrowthRate.q),
   operatingIncomeGrowthRate |-> trace(getOperatingIncomeGrowthRateProvenance(a), b.operatingIncomeGrowthRate.q),
   netIncomeGrowthRate |-> trace(getNetIncomeGrowthRateProvenance(a), b.netIncomeGrowthRate.q),
   assetGrowth |-> trace(getAssetGrowthProvenance(a), b.assetGrowth.q),
   equityGrowthRate |-> trace(getEquityGrowthRateProvenance(a), b.equityGrowthRate.q),
   epsGrowthRate |-> trace(getEpsGrowthRateProvenance(a), b.epsGrowthRate.q),
   bvpsGrowthRate |-> trace(getBvpsGrowthRateProvenance(a), b.bvpsGrowthRate.q),
   epsPriorYear |-> trace(getEpsPriorYearProvenance(a), b.epsPriorYear.q),
   earningsToRecordHigh |-> trace(getEarningsToRecordHighProvenance(a), b.earningsToRecordHigh.q),
   priceToResearchRatio |-> trace(getPriceToResearchRatioProvenance(a), b.priceToResearchRatio.ttm),
   rdIntensity |-> trace(getRdIntensityProvenance(a), b.rdIntensity.ttm),
   ruleOf40 |-> trace(getRuleOf40Provenance(a), b.ruleOf40.ttm), sgr |-> trace(getSgrProvenance(a), b.sgr.ttm),
   sue |-> trace(getSueProvenance(a), b.sue.q),
   threeMarginsRising |-> trace(getThreeMarginsRisingProvenance(a), b.threeMarginsRising.q),
   epsCagr3y |-> trace(getEpsCagrProvenanceForYears(3, a), b.epsCagr[3]),
   epsCagr5y |-> trace(getEpsCagrProvenanceForYears(5, a), b.epsCagr[5]),
   epsCagr8y |-> trace(getEpsCagrProvenanceForYears(8, a), b.epsCagr[8]),
   revenueCagr3y |-> trace(getRevenueCagrProvenanceForYears(3, a), b.revenueCagr[3]),
   revenueCagr5y |-> trace(getRevenueCagrProvenanceForYears(5, a), b.revenueCagr[5]),
   revenueCagr8y |-> trace(getRevenueCagrProvenanceForYears(8, a), b.revenueCagr[8])]

DividendTraces(a, b) ==
  [buybackYield |-> trace(getBuybackYieldProvenance(a), b.buybackYield.ttm),
   shareholderYield |-> trace(getShareholderYieldProvenance(a), b.shareholderYield.ttm),
   cashDividendYield |-> trace(getCashDividendYieldProvenance(a), b.cashDividendYield.ttm),
   chowderNumber |-> trace(getChowderNumberProvenance(a), b.chowderNumber.fy),
   consecutiveDividendYears |-> trace(getConsecutiveDividendYearsProvenance(a), b.consecutiveDividendYears.fy),
   dividendCoverageRatio |-> trace(getDividendCoverageRatioProvenance(a), b.dividendCoverageRatio.ttm),
   dividendPayoutRatio |-> trace(getDividendPayoutRatioProvenance(a), b.dividendPayoutRatio.ttm),
   dividendPerShare |-> trace(getDividendPerShareProvenance(a), b.dividendPerShare.ttm),
   shareCountChangeRate |-> trace(getShareCountChangeRateProvenance(a), b.shareCountChangeRate.q),
   dividendGrowthRate3y |-> trace(getDividendGrowthRateProvenanceForYears(3, a), b.dividendGrowthRate[3]),
   dividendGrowthRate5y |-> trace(getDividendGrowthRateProvenanceForYears(5, a), b.dividendGrowthRate[5]),
   dividendGrowthRate8y |-> trace(getDividendGrowthRateProvenanceForYears(8, a), b.dividendGrowthRate[8])]

ValuationTraces(a, b) ==
  [marketCap |-> trace(getMarketCapProvenance(a), b.marketCap.q), stockPrice |-> trace(getStockPriceProvenance(a), b.stockPrice.q),
   tobinsQ |-> trace(getTobinsQProvenance(a), b.tobinsQ.q), bvps |-> trace(getBvpsProvenance(a), b.bvps.q),
   pbRatio |-> trace(getPbRatioProvenance(a), b.pbRatio.q), ncav |-> trace(getNcavProvenance(a), b.ncav.q),
   peRatio |-> trace(getPeRatioProvenance(a), b.peRatio.ttm), earningsYield |-> trace(getEarningsYieldProvenance(a), b.earningsYield.ttm),
   grahamNumber |-> trace(getGrahamNumberProvenance(a), b.grahamNumber.ttm), pegRatio |-> trace(getPegRatioProvenance(a), b.pegRatio.ttm),
   fcfYield |-> trace(getFcfYieldProvenance(a), b.fcfYield.ttm), pFcf |-> trace(getPFcfProvenance(a), b.pFcf.ttm),
   psr |-> trace(getPsrProvenance(a), b.psr.ttm), priceToOcf |-> trace(getPriceToOcfProvenance(a), b.cashFlowValuation.priceToOcf),
   evEbitda |-> trace(getEvEbitdaProvenance(a), b.evEbitda.ttm), evToEbit |-> trace(getEvToEbitProvenance(a), b.evToEbit.ttm),
   evToFcf |-> trace(getEvToFcfProvenance(a), b.evToFcf.ttm), evToOcf |-> trace(getEvToOcfProvenance(a), b.cashFlowValuation.evToOcf),
   evToSales |-> trace(getEvToSalesProvenance(a), b.cashFlowValuation.evToSales),
   greenblattEarningsYield |-> trace(getGreenblattEarningsYieldProvenance(a), b.greenblattEarningsYield.ttm)]

LiveTraces(b) ==
  [beta |-> trace(getBetaProvenance(Null), b.beta[HEADLINE_WINDOW]),
   livePbRatio |-> trace(getLivePbRatioProvenance(Null), b.livePbRatio.eod),
   livePeRatio |-> trace(getLivePeRatioProvenance(Null), b.livePeRatio.eod),
   liveGrahamNumber |-> trace(getLiveGrahamNumberProvenance(Null), b.liveGrahamNumber.eod),
   livePegRatio |-> trace(getLivePegRatioProvenance(Null), b.livePegRatio.eod),
   liveMarketCap |-> trace(getLiveMarketCapProvenance(Null), b.liveMarketCap.eod),
   liveDividendPerShare |-> trace(getLiveDividendPerShareProvenance(Null), b.liveDividendPerShare.eod),
   dividendDistributionCount |-> trace(getDividendDistributionCountProvenance, b.dividendDistributionCount.ttm),
   sus |-> trace(getSusProvenance(Null), b.sus.sus),
   revenueYoy3m |-> trace(getRevenueYoy3mProvenance(Null), b.revenueYoy3m.revenueYoy3m)]

LatestTraces(b) ==
  joined(LiveTraces(b), joined(
    [m \in {"exchangePeRatio", "exchangePbRatio", "dividendYield"} |-> trace(getMarketRatioProvenanceFor(m, Null), b.marketRatios[m])],
    [m \in DOMAIN b.fiftyTwoWeek |-> trace(getFiftyTwoWeekProvenance(m, Null), b.fiftyTwoWeek[m])]))

MarketTracedOf(a, b) ==
  LET ofTheQuarter == joined(joined(QualityTraces(a, b), GrowthTraces(a, b)), joined(DividendTraces(a, b), ValuationTraces(a, b)))
  IN IF a = Null THEN joined(ofTheQuarter, LatestTraces(b)) ELSE ofTheQuarter

MarketInit == FilingInit

MarketNext == FilingNext \/ Recompute(MarketComputed, MarketTracedOf)

MarketSpec == MarketInit /\ [][MarketNext]_catalogueVars
=============================================================================
