------------------------------ MODULE Filings ------------------------------
(***************************************************************************)
(* What a use case reads: the statements one company has filed, the dates  *)
(* they were announced on, its shares and its prices, and the windows of   *)
(* quarters every metric is computed over.                                 *)
(*                                                                         *)
(* A quarter is the integer 4 * rocYear + season - 1.  A day is an integer *)
(* too: quarter q ends on day QuarterEnd(q).  A table holds at most one    *)
(* row per quarter.                                                        *)
(***************************************************************************)
EXTENDS MetricArithmetic, SequencesExt

CONSTANTS
  Quarters,  \* the quarters the tables have room for
  Tables,    \* names of the upstream tables
  ShareRows, \* [days on which a share count takes effect -> row]
  Valuations, \* [days -> the ratios the exchange publishes]
  ShareEvents, \* dividends, changes of the share count and issues, with their days
  PriceLevel \* exchange rate and deflators, or Null

VARIABLES
  reports,   \* [Tables -> [Quarters -> row or Null]]
  announced, \* [Quarters -> day or Null]
  industry,  \* "manufacturing", "service", "software" or "financial"
  prices     \* [days with a close above zero -> close]

ASSUME ShareEventsAssumption ==
  /\ IsFiniteSet(ShareEvents)
  /\ \A e \in ShareEvents :
       /\ "kind" \in DOMAIN e
       /\ e.kind = "shareChange" => "multiplier" \in DOMAIN e /\ e.multiplier \in Positive

filingVars == <<reports, announced, industry, prices>>

isFinancialIndustryCompany == industry = "financial"
isSoftwareOrCloudIndustryCompany == industry = "software"

-----------------------------------------------------------------------------
(* The calendar.                                                           *)

season(q) == (q % 4) + 1
rocYear(q) == q \div 4
QuarterEnd(q) == 10 * q + 9

\* Mutant of getPastNQuarters: the window ends a quarter late.
getPastNQuartersLate(q, n) == [i \in 1..n |-> q - n + i + 1]

\* Oldest first.
getPastNQuarters(q, n) == [i \in 1..n |-> q - n + i]

-----------------------------------------------------------------------------
(* The tables and their getters.  A getter answers Null without a row.     *)

Row(table, q) == IF q \in Quarters THEN reports[table][q] ELSE Null

\* Answered only with one of these fields.
withAny(row, required) == IF \A f \in required : field(row, f) = Null THEN Null ELSE row
RowWith(table, q, required) == withAny(Row(table, q), {required})

incomeStatement(q) == Row("incomeStatement", q)
balanceSheet(q) == Row("balanceSheet", q)
cashFlowStatement(q) == Row("cashFlowStatement", q)
insuranceIncomeStatement(q) == RowWith("insuranceIncomeStatement", q, "insuranceRevenue")
bankAssetQuality(q) == Row("bankAssetQuality", q)
bankCapitalAdequacy(q) == Row("bankCapitalAdequacy", q)
bankIncomeStatement(q) == RowWith("bankIncomeStatement", q, "netInterestIncome")

bankOperatingExpense(q) ==
  withAny(Row("bankIncomeStatement", q), {"employeeBenefits", "depreciationAmortisation", "otherGeneralAdministrative"})

getResearchAndDevelopmentExpense(q) == field(incomeStatement(q), "researchAndDevelopmentExpense")

cumulativeIncomeStatement(q) == Row("cumulativeIncomeStatement", q)
cumulativeCashFlowStatement(q) == Row("cumulativeCashFlowStatement", q)

\* The annual report is the fourth quarter's cumulative row taken from the document.
annualIncomeStatement(year) == Row("annualReport", 4 * year + 3)

reportDate(row, q) == IF row = Null THEN Null ELSE QuarterEnd(q)

\* The latest quarter or day.
latestOf(when) == IF when = {} THEN Null ELSE Max(when)

\* The field a resolver of the latest quarter asks for.
askedFor(table) ==
  CASE table = "insuranceIncomeStatement" -> {"insuranceRevenue"}
    [] table = "bankIncomeStatement" -> {"netInterestIncome"}
    [] table = "bankCapitalAdequacy" -> {"eligibleCapital"}
    [] OTHER -> {}

latestIn(table) ==
  latestOf({q \in Quarters : reports[table][q] # Null /\ \A f \in askedFor(table) : reports[table][q][f] # Null})

latestQuarterWith(source) ==
  orElse(latestIn(source), IF source = "cashFlowStatement" THEN latestIn("cumulativeCashFlowStatement") ELSE Null)

\* Null when one of them is missing.
earliestOf(quarters) == IF Null \in quarters THEN Null ELSE Min(quarters)
getLatestAvailableQuarter(sources) == earliestOf({latestQuarterWith(s) : s \in sources})

resolveQuarterOrLatest(query, sources) ==
  IF query # Null THEN query ELSE getLatestAvailableQuarter(sources)

bankQuarter(query, source) ==
  IF ~isFinancialIndustryCompany THEN Null ELSE IF query # Null THEN query ELSE latestQuarterWith(source)

\* A batch of a quarterly use case: the slots of the quarter, or a skip each.
slotsFrom(found, keys, Slots(_)) == IF found = Null THEN noQuarterBatch(keys) ELSE Slots(found)
Batch(query, sources, keys, Slots(_)) == slotsFrom(resolveQuarterOrLatest(query, sources), keys, Slots)

-----------------------------------------------------------------------------
(* When something was known.                                               *)

\* The announcement, or the end of the period the statement is about.
getPriceAnchorDate(q, date) ==
  IF q \in Quarters /\ announced[q] # Null THEN [date |-> announced[q], isFallback |-> FALSE]
  ELSE IF date # Null THEN [date |-> date, isFallback |-> TRUE]
  ELSE Null

\* The last of the days, or Null when one of them is missing.
lastAnchor(anchors) ==
  IF Null \in anchors THEN Null
  ELSE [date |-> Max({a.date : a \in anchors}), isFallback |-> \E a \in anchors : a.isFallback]

\* Mutant of resolveKnowledgeDate: only the latest of the quarters.
latestAnchor(points) == lastAnchor({getPriceAnchorDate(p[1], p[2]) : p \in {l \in points : \A o \in points : l[1] >= o[1]}})

\* points: pairs of a quarter and the report date of its row.
resolveKnowledgeDate(points) == lastAnchor({getPriceAnchorDate(p[1], p[2]) : p \in points})

\* The anchor of one statement, and that of the rows of several quarters.
anchorOf(q, row) == resolveKnowledgeDate({<<q, reportDate(row, q)>>})
anchorOver(qs, Get(_)) == resolveKnowledgeDate({<<q, reportDate(Get(q), q)>> : q \in qs})

resolveDailyCadenceKnowledgeDate(day) == [date |-> day, isFallback |-> FALSE]

\* A slot of a trade date.
dailySlot(tradeDate, result) ==
  periodSlot(resolveDailyCadenceKnowledgeDate(tradeDate), tradeDate, "EOD", result)

-----------------------------------------------------------------------------
(* The shape most use cases have.                                          *)

\* Slots of the quarter itself, from one statement.
quarterBatch(query, source, Get(_), Calc(_)) ==
  Batch(query, {source}, DOMAIN Calc(Null),
        LAMBDA q : periodSlots(anchorOf(q, Get(q)), q, "Q", Calc(Get(q))))

onBalanceSheet(query, Calc(_)) == quarterBatch(query, "balanceSheet", balanceSheet, Calc)

\* Where a value of the quarter comes from.
tracedFrom(found, Trace(_)) == IF found = Null THEN notFound ELSE Trace(found)
traced(query, sources, Trace(_)) ==
  tracedFrom(resolveQuarterOrLatest(query, sources), Trace)

tracedToBalanceSheet(query, Value(_), names) ==
  traced(query, {"balanceSheet"},
         LAMBDA q : provenance(q, Value(balanceSheet(q)), entriesOf(q, balanceSheet(q), names)))

-----------------------------------------------------------------------------
(* Prices and shares on a day.                                             *)

asOf(rows, day) == latestOf({d \in DOMAIN rows : d <= day})

closeOn(day) == IF day = Null THEN Null ELSE [closePrice |-> prices[day], tradeDate |-> day]
getStockPrice(day) == closeOn(asOf(prices, day))

dailyPrice(day) == IF day = Null THEN Null ELSE [tradeDate |-> day, close |-> prices[day]]
getLatestDailyPrice == dailyPrice(latestOf(DOMAIN prices))

\* Of the day or the latest before it; of the latest day without one.
valuationOn(day) == IF day = Null THEN Null ELSE [Valuations[day] EXCEPT !.tradeDate = day]
getDailyValuation(day) ==
  valuationOn(IF day = Null THEN latestOf(DOMAIN Valuations) ELSE asOf(Valuations, day))

shareRow(day) == IF day = Null THEN Null ELSE ShareRows[day]
getOutstandingCommonShares(day) == shareRow(asOf(ShareRows, day))

sharesAt(row, q) ==
  IF row = Null THEN Null ELSE field(getOutstandingCommonShares(QuarterEnd(q)), "outstandingCommonShares")

\* In dollars, where the statements are in thousands.
marketCapOf(price, shares) ==
  IF price = Null \/ shares = Null THEN Null
  ELSE [marketCap |-> price.closePrice * shares.outstandingCommonShares, tradeDate |-> price.tradeDate,
        closePrice |-> price.closePrice, outstandingCommonShares |-> shares.outstandingCommonShares]
getMarketCap(day) == marketCapOf(getStockPrice(day), getOutstandingCommonShares(day))

\* A positive float stays positive, however often it is divided: so does its
\* number of hundredths.
keptPositive(n) == IF n > 0 THEN n ELSE 1

\* Multipliers are in hundredths.  A stock dividend is in the declared share
\* count once it is registered.
shareChanges == {e \in ShareEvents : e.kind = "shareChange"}
multiplierOf(events) == FoldSet(LAMBDA e, m : keptPositive((m * e.multiplier) \div 100), 100, events)

getShareSplitFactor(from, to) ==
  multiplierOf({e \in shareChanges : e.registered # Null /\ from < e.registered /\ e.registered <= to})

getShareBasisEvents(basis, day) ==
  [basisMultiplier |-> multiplierOf({e \in shareChanges : e.date <= basis /\ (e.registered = Null \/ e.registered > basis)}),
   events |-> {[e EXCEPT !.recognizedAtBasis = e.declared # Null /\ e.declared <= basis] :
                 e \in {x \in ShareEvents : x.date > basis /\ (x.kind = "cashDividend" \/ x.date <= day)}}]

-----------------------------------------------------------------------------
(* A trailing year.  In the second and the fourth quarter, a half whose    *)
(* first quarter was never filed is taken from the cumulative statements.  *)

period(q, isHalf, record) == [quarter |-> q, isHalf |-> isHalf, record |-> record]

isSemiannual(odd, even) == incomeStatement(odd) = Null /\ incomeStatement(even) # Null

\* The halves of the trailing year that are semiannual, by their last quarter.
semiannualHalves(q) ==
  IF season(q) \notin {2, 4} THEN {} ELSE {even \in {q - 2, q} : isSemiannual(even - 1, even)}

resolveReportingBasis(q) == IF semiannualHalves(q) # {} THEN "semiannual" ELSE "quarters"

\* Mutant of subtractCumulative: the second half still holds the first.
subtractCumulativeNothing(later, earlier, zeroWhenNull) == later

subtractCumulative(later, earlier, zeroWhenNull) ==
  IF later = Null \/ earlier = Null THEN Null
  ELSE [f \in DOMAIN later |->
          IF f \in zeroWhenNull THEN orZero(later[f]) - orZero(earlier[f]) ELSE minus(later[f], earlier[f])]

\* cumulative: the table of the figures since the start of the year.
halfRecord(even, cumulative, zeroWhenNull) ==
  IF season(even) = 2 THEN Row(cumulative, even)
  ELSE subtractCumulative(Row(cumulative, even), Row(cumulative, even - 2), zeroWhenNull)

segmentUpTo(even, halves, single, cumulative, zeroWhenNull) ==
  IF even \in halves THEN <<period(even, TRUE, halfRecord(even, cumulative, zeroWhenNull))>>
  ELSE [i \in 1..2 |-> period(even - 2 + i, FALSE, Row(single, even - 2 + i))]

periodsOf(q, halves, single, cumulative, zeroWhenNull) ==
  [basis |-> IF halves = {} THEN "quarters" ELSE "semiannual",
   periods |-> segmentUpTo(q - 2, halves, single, cumulative, zeroWhenNull)
               \o segmentUpTo(q, halves, single, cumulative, zeroWhenNull)]

buildPeriods(q, single, cumulative, zeroWhenNull) ==
  periodsOf(q, semiannualHalves(q), single, cumulative, zeroWhenNull)

resolveTrailingIncomeStatements(q) == buildPeriods(q, "incomeStatement", "cumulativeIncomeStatement", {})

resolveTrailingCashFlowStatements(q) ==
  buildPeriods(q, "cashFlowStatement", "cumulativeCashFlowStatement", {"dividendsPaid"})

resolveCashFlowReportDate(q) ==
  IF cashFlowStatement(q) # Null THEN QuarterEnd(q)
  ELSE IF resolveReportingBasis(q) # "semiannual" THEN Null
  ELSE reportDate(cumulativeCashFlowStatement(q), q)

sumTrailingPeriods(periods, Pick(_)) ==
  IF periods = <<>> THEN Null
  ELSE total([i \in DOMAIN periods |-> IF periods[i].record = Null THEN Null ELSE Pick(periods[i].record)])

sumOf(periods, name) == sumTrailingPeriods(periods, LAMBDA r : r[name])

\* Every period was filed with every one of these fields.
allFiled(periods, names) == \A i \in DOMAIN periods : \A n \in names : field(periods[i].record, n) # Null

\* The points resolveKnowledgeDate takes for a sequence of periods.
pointsOf(periods) == {<<p.quarter, reportDate(p.record, p.quarter)>> : p \in {periods[i] : i \in DOMAIN periods}}

\* Mutant of entriesOfPeriods: the last period is not listed.
entriesOfPeriodsButLast(periods, names) ==
  UNION {entriesOf(periods[i].quarter, periods[i].record, names) : i \in 1..(Len(periods) - 1)}

entriesOfPeriods(periods, names) ==
  UNION {entriesOf(p.quarter, p.record, names) : p \in {periods[i] : i \in DOMAIN periods}}

netIncomeEntries(periods) == {netIncomeEntry(periods[i].quarter, periods[i].record) : i \in DOMAIN periods}

\* A trailing year is known once its last period is; an incomplete one is
\* written without a value on the day the quarter itself was known.
ttmSlot(periods, complete, result, mainAnchor, q) ==
  IF complete THEN periodSlot(resolveKnowledgeDate(pointsOf(periods)), q, "TTM", result)
  ELSE periodSlot(mainAnchor, q, "TTM", insufficientHistory)

-----------------------------------------------------------------------------
(* The five balances of a trailing year.                                   *)

pointsWithout(missing, q) ==
  IF season(q) \in {2, 4} /\ missing \subseteq {2, 4}
  THEN SelectSeq(<<1, 2, 3, 4, 5>>, LAMBDA i : i \notin missing)
  ELSE <<1, 2, 3, 4, 5>>
balancesOf(q, sheets) == [at |-> q, sheets |-> sheets, points |-> pointsWithout({i \in 1..5 : sheets[i] = Null}, q)]

\* Mutant of resolveAverageBalances: the balances run into the next quarter.
resolveAverageBalancesLate(q) ==
  [at |-> q, sheets |-> [i \in 1..5 |-> balanceSheet(q - 4 + i)], points |-> <<1, 2, 3, 4, 5>>]

resolveAverageBalances(q) == balancesOf(q, [i \in 1..5 |-> balanceSheet(q - 5 + i)])

averageAt(points, sheets, Pick(_)) ==
  averageBalance([i \in DOMAIN points |-> IF sheets[points[i]] = Null THEN Null ELSE Pick(sheets[points[i]])])
averageOf(balances, Pick(_), window) ==
  averageAt(IF window = "q" THEN <<4, 5>> ELSE balances.points, balances.sheets, Pick)

totalAssets(balance) == field(balance, "totalAssets")

equityAvgQ(balances) == averageOf(balances, pickEquity, "q")
equityAvgTtm(balances) == averageOf(balances, pickEquity, "ttm")
assetsAvgQ(balances) == averageOf(balances, totalAssets, "q")
assetsAvgTtm(balances) == averageOf(balances, totalAssets, "ttm")

-----------------------------------------------------------------------------
(* The fiscal year of a quarter: its own in the fourth quarter, otherwise  *)
(* the year before.                                                        *)

\* Preferred dividends come off the earnings of the common shares.
toCommonEarnings(netIncome, preferredDividendsTtm, window) ==
  minus(netIncome, IF window = "Q" THEN preferredDividendsTtm \div 4 ELSE preferredDividendsTtm)
toCommonEquity(equity, preferredClaim) == minus(equity, preferredClaim)

\* Earnings per share are in hundredths; below 0.1 nothing can be derived.
whenPositive(x) == IF x > 0 THEN x ELSE Null
deriveWeightedAverageShares(netIncome, basicEps) ==
  IF netIncome = Null \/ basicEps = Null \/ abs(basicEps) < 10 THEN Null
  ELSE whenPositive(rounded(100 * 1000 * netIncome, basicEps))

annualYear(q) == IF season(q) = 4 THEN rocYear(q) ELSE rocYear(q) - 1

contextOf(year, annual, shares) ==
  IF annual = Null THEN Null
  ELSE [annual |-> annual, year |-> year, quarter |-> 4 * year + 3,
        weightedShares |->
          deriveWeightedAverageShares(
            toCommonEarnings(pickNetIncome(annual), orZero(field(shares, "preferredDividendsTtmThousands")), "TTM"), annual.basicEps),
        anchor |-> anchorOf(4 * year + 3, annual)]

reportOf(year) == contextOf(year, annualIncomeStatement(year), getOutstandingCommonShares(QuarterEnd(4 * year + 3)))
resolveAnnualReportContext(q) == reportOf(annualYear(q))

annualNetIncome(annual) == orElse(field(annual, "netIncome"), field(annual, "netIncomeAttributableToParent"))

getPriorAnnualIncomeStatement(context) == IF context = Null THEN Null ELSE annualIncomeStatement(context.year - 1)

annualReportSlot(context, result) ==
  IF context = Null THEN skip("skipped_no_quarter")
  ELSE periodSlot(context.anchor, context.quarter, "FY", result)
=============================================================================
