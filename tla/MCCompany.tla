------------------------------ MODULE MCCompany ------------------------------
(***************************************************************************)
(* The figures of a small company.                                         *)
(***************************************************************************)
EXTENDS MetricArithmetic

\* Years 100 to 106.
FirstQuarter == 400
LastQuarter == 427
CompanyQuarters == FirstQuarter..LastQuarter

income(i) ==
  LET revenue == 90 + i + (i % 4)
      cost == 50 + (i % 3)
      expense == 20 + (i % 2)
      operating == revenue - cost - expense
      pretax == operating + 2
      tax == pretax \div 5
  IN [operatingRevenue |-> revenue, operatingCost |-> cost, grossProfit |-> revenue - cost,
      sellingExpenses |-> 8, adminExpenses |-> 7 + (i % 2), researchAndDevelopmentExpense |-> 4, expectedCreditLoss |-> 1,
      operatingExpense |-> expense, operatingIncome |-> operating, interestIncome |-> 2, otherIncome |-> 1,
      otherGainsLosses |-> 1, equityMethodIncome |-> 1, netOtherIncomeExpenses |-> 0, financeCosts |-> 3,
      profitBeforeTax |-> pretax, incomeTaxExpense |-> tax, netIncome |-> pretax - tax,
      netIncomeAttributableToParent |-> pretax - tax - 1]

balance(i) ==
  [totalAssets |-> 100 + i, totalLiabilities |-> 40 + (i % 5), currentAssets |-> 50 + (i % 4), currentLiabilities |-> 20 + (i % 3),
   inventory |-> 11 + (i % 2), longTermBorrowings |-> 8, propertyPlantEquipment |-> 30 + i, retainedEarnings |-> 10 + i,
   cashAndEquivalents |-> 9 + (i % 6), equityAttributableToParent |-> 55 + i, totalEquity |-> 58 + i,
   accountsPayable |-> 7 + (i % 3), accountsReceivable |-> 12 + (i % 5), bondsPayable |-> 4, shortTermBorrowings |-> 5 + (i % 2),
   preferredStockCapital |-> 0, shortTermNotesAndBillsPayable |-> 1, currentPortionOfLongTermLiabilities |-> 2,
   currentLeaseLiabilities |-> 1, noncurrentLeaseLiabilities |-> 2, netDefinedBenefitLiability |-> 3,
   goodwill |-> 2, intangibleAssets |-> 1]

cashFlow(i) ==
  [netCashFromOperatingActivities |-> 21 + (i % 4), capitalExpenditures |-> -(6 + (i % 3)), depreciation |-> 5 + (i % 2),
   amortization |-> 1, dividendsPaid |-> IF i % 4 = 2 THEN -8 ELSE 0, netCashFromInvestingActivities |-> -(7 + (i % 2)),
   netCashFromFinancingActivities |-> -5, netChangeInCash |-> 3,
   treasurySharesPurchased |-> IF i % 8 = 5 THEN -2 ELSE 0]

insurance(i) == [insuranceRevenue |-> 80 + i, insuranceServiceResult |-> 15 + (i % 3), netOperatingIncomeLoss |-> 12 + i]

bank(i) == [netInterestIncome |-> 40 + i, netNonInterestIncome |-> 20 + (i % 3), badDebtProvision |-> 3, profitBeforeTax |-> 30 + i,
            employeeBenefits |-> 10, depreciationAmortisation |-> 4, otherGeneralAdministrative |-> 6 + (i % 2)]

loanQuality(i) == [nonPerformingLoansRatio |-> 20 + (i % 3), coverageRatio |-> 100 + i]
capitalAdequacy(i) == [eligibleCapital |-> 14 + (i % 2), riskWeightedAssets |-> 100 + i,
                       ratioOrdinaryShareEquityToRwa |-> 9 + (i % 2), ratioTierICapitalToRwa |-> 11]

\* The year to date, over the quarters q - season + 1 to q.
yearToDate(row(_), i) ==
  LET add(n) == [f \in DOMAIN row(0) |-> row(i)[f] + (IF n > 1 THEN row(i - 1)[f] ELSE 0)
                   + (IF n > 2 THEN row(i - 2)[f] ELSE 0) + (IF n > 3 THEN row(i - 3)[f] ELSE 0)]
  IN add((i % 4) + 1)

annual(i) == [f \in DOMAIN income(0) \union {"basicEps"} |->
                IF f = "basicEps" THEN (3 * yearToDate(income, i).netIncomeAttributableToParent) \div 2 ELSE yearToDate(income, i)[f]]

original(table, i) ==
  CASE table = "incomeStatement" -> income(i) [] table = "balanceSheet" -> balance(i)
    [] table = "cashFlowStatement" -> cashFlow(i) [] table = "insuranceIncomeStatement" -> insurance(i)
    [] table = "bankIncomeStatement" -> bank(i) [] table = "bankAssetQuality" -> loanQuality(i)
    [] table = "bankCapitalAdequacy" -> capitalAdequacy(i)
    [] table = "cumulativeIncomeStatement" -> yearToDate(income, i)
    [] table = "cumulativeCashFlowStatement" -> yearToDate(cashFlow, i)
    [] table = "annualReport" -> annual(i)

Statements == {"incomeStatement", "balanceSheet", "cashFlowStatement"}
Yearly == {"cumulativeIncomeStatement", "cumulativeCashFlowStatement"}
BankTables == {"bankIncomeStatement", "bankAssetQuality", "bankCapitalAdequacy"}
CompanyTables == Statements \union Yearly \union BankTables \union {"insuranceIncomeStatement", "annualReport"}

\* A loss, or a sheet that is under water: what is owed stays, what is owned shrinks.
Shrinking == {"operatingRevenue", "grossProfit", "operatingIncome", "profitBeforeTax", "netIncome",
              "netIncomeAttributableToParent", "netCashFromOperatingActivities", "currentAssets",
              "equityAttributableToParent", "totalEquity", "retainedEarnings", "cashAndEquivalents"}

\* Two ways to leave half of the fields out.
Sparse == {"netIncomeAttributableToParent", "equityAttributableToParent", "financeCosts", "operatingIncome", "operatingCost",
           "inventory", "cashAndEquivalents", "capitalExpenditures", "depreciation", "currentLiabilities",
           "nonPerformingLoansRatio", "ratioTierICapitalToRwa", "riskWeightedAssets", "shortTermBorrowings",
           "researchAndDevelopmentExpense", "insuranceServiceResult", "netInterestIncome", "employeeBenefits",
           "propertyPlantEquipment", "basicEps"}

variant(v, row) ==
  CASE v = "original" -> row
    [] v = "corrected" -> [f \in DOMAIN row |-> row[f] + 1]
    [] v = "loss" -> [f \in DOMAIN row |-> IF f \in Shrinking THEN -row[f] ELSE row[f]]
    [] v = "sparse" -> [f \in DOMAIN row |-> IF f \in Sparse THEN Null ELSE row[f]]
    [] v = "scarce" -> [f \in DOMAIN row |-> IF f \in Sparse THEN row[f] ELSE Null]

Corrections == {"original", "corrected", "loss", "sparse", "scarce"}

CompanyContents ==
  [t \in CompanyTables |-> [v \in Corrections |-> [q \in CompanyQuarters |-> variant(v, original(t, q - FirstQuarter))]]]

-----------------------------------------------------------------------------
(* Histories.                                                              *)

\* Which quarters of a table a company that files everything has.
due(t) == IF t = "annualReport" THEN {q \in CompanyQuarters : q % 4 = 3}
          ELSE IF t = "bankCapitalAdequacy" THEN {q \in CompanyQuarters : q % 2 = 1} ELSE CompanyQuarters

since(day, missing) ==
  [t \in CompanyTables |-> [q \in CompanyQuarters |->
     IF q \in due(t) /\ q >= day /\ q \notin missing THEN CompanyContents[t]["original"][q] ELSE Null]]

Complete == since(FirstQuarter, {})
Recent == since(LastQuarter - 6, {})
Holes == since(FirstQuarter, {LastQuarter - 3, LastQuarter - 6})
Pending == since(FirstQuarter, {LastQuarter})
Half == [t \in CompanyTables |-> [q \in CompanyQuarters |->
           IF q \in due(t) /\ (q % 2 = 1 \/ t \notin Statements \/ q < LastQuarter - 8)
           THEN CompanyContents[t]["original"][q] ELSE Null]]

Uninsured == [Complete EXCEPT !["insuranceIncomeStatement"] = [q \in CompanyQuarters |-> Null]]

\* An insurer before its first insurance statement: its other statements have
\* no margins.
Insurer ==
  [t \in CompanyTables |-> [q \in CompanyQuarters |->
     IF q \notin due(t) \/ t = "insuranceIncomeStatement" THEN Null
     ELSE CompanyContents[t][IF t \in {"incomeStatement", "cumulativeIncomeStatement", "annualReport"} THEN "scarce" ELSE "original"][q]]]

AllAnnounced == [q \in CompanyQuarters |-> 10 * q + 13]
LateRecords == [q \in CompanyQuarters |-> IF q < LastQuarter - 2 THEN Null ELSE 10 * q + 13]
\* Two earlier quarters were announced after the last one, as a report that is
\* handed in again is.
OutOfOrder == [q \in CompanyQuarters |-> IF q \in {LastQuarter - 3, LastQuarter - 4} THEN 10 * LastQuarter + 14 ELSE 10 * q + 13]
NotYet == [AllAnnounced EXCEPT ![LastQuarter] = Null]

\* A close every five days, and on the days the last two quarters were announced.
FirstPrice == 10 * FirstQuarter
CompanyPrices ==
  [d \in {FirstPrice} \union {5 * k : k \in 814..857} \union {4273, 4283} |-> 10 + (d % 7)]
CompanyRepricings == {4273, 4275, 4283, 4285}

situation(history, known, kind, closes) == [reports |-> history, announced |-> known, industry |-> kind, prices |-> closes]

CompanySituations ==
  {situation(Complete, AllAnnounced, "manufacturing", CompanyPrices), situation(Complete, LateRecords, "software", CompanyPrices),
   situation(Complete, NotYet, "financial", CompanyPrices), situation(Uninsured, AllAnnounced, "financial", CompanyPrices),
   situation(Recent, NotYet, "manufacturing", CompanyPrices), situation(Holes, AllAnnounced, "software", CompanyPrices),
   situation(Pending, NotYet, "manufacturing", CompanyPrices), situation(Half, NotYet, "manufacturing", CompanyPrices),
   situation(Half, LateRecords, "financial", CompanyPrices), situation(Complete, NotYet, "service", <<>>),
   situation(Insurer, AllAnnounced, "financial", CompanyPrices),
   situation(Complete, OutOfOrder, "manufacturing", CompanyPrices), situation(Complete, OutOfOrder, "financial", CompanyPrices),
   situation(Half, OutOfOrder, "software", CompanyPrices)}

Reported == {LastQuarter, LastQuarter - 1, LastQuarter - 4}

CompanyRevisions ==
  {[tables |-> {t}, quarter |-> q, variant |-> v] : t \in Statements, q \in Reported, v \in Corrections}
  \union {[tables |-> {"insuranceIncomeStatement"}, quarter |-> q, variant |-> v] : q \in Reported, v \in {"original", "corrected", "sparse", "scarce"}}
  \union {[tables |-> {t}, quarter |-> q, variant |-> v] : t \in BankTables, q \in {LastQuarter, LastQuarter - 4}, v \in {"corrected", "sparse", "scarce"}}
  \union {[tables |-> Statements \union Yearly, quarter |-> q, variant |-> "original"] : q \in Reported \union {LastQuarter - 3, LastQuarter - 6, LastQuarter - 7}}
  \union {[tables |-> {"annualReport"}, quarter |-> q, variant |-> v] :
            q \in {r \in LastQuarter - 8..LastQuarter : r % 4 = 3}, v \in Corrections}

\* Of the last two quarters on time, of the last and of earlier ones later than the others.
CompanyAnnouncements ==
  {[quarter |-> q, day |-> 10 * q + 13] : q \in {LastQuarter, LastQuarter - 1}}
  \union {[quarter |-> q, day |-> 10 * LastQuarter + 15] : q \in {LastQuarter, LastQuarter - 3, LastQuarter - 4}}

CompanyAsked == {Null, LastQuarter, LastQuarter - 1}

-----------------------------------------------------------------------------
(* Shares, dividends and the market.                                       *)

CompanyShares == [d \in {FirstPrice, 4165} |->
  [outstandingCommonShares |-> IF d = FirstPrice THEN 33000 ELSE 66000, issuedShares |-> 67000, preferredShares |-> 500,
   treasuryShares |-> 500, preferredCapitalThousands |-> 5, preferredClaimThousands |-> 6, preferredDividendsTtmThousands |-> 4]]

shareEvent(kind, date, declared, registered, perShare, multiplier, newShares) ==
  [kind |-> kind, date |-> date, declared |-> declared, registered |-> registered, perShare |-> perShare, multiplier |-> multiplier,
   cashPerOldShare |-> 0, newShares |-> newShares, recognizedAtBasis |-> FALSE]

CompanyEvents ==
  {shareEvent("shareChange", 4150, 4140, 4165, Null, 200, Null), shareEvent("cashDividend", 4281, 4276, Null, 2000, Null, Null),
   shareEvent("cashDividend", 4284, 4282, Null, 1000, Null, Null), shareEvent("shareChange", 4282, 4270, Null, Null, 110, Null),
   shareEvent("issue", 4283, 4270, Null, Null, Null, 1000)}

dividend(year, ex, declared, earnings, reserve) ==
  [fiscalYear |-> year, exDate |-> ex, announced |-> declared, fromEarnings |-> earnings, fromReserve |-> reserve]

CompanyDividends ==
  {dividend(103, 4145, 4140, 60, 10), dividend(105, 4245, 4240, 80, Null), dividend(105, 4265, 4262, 20, 5),
   dividend(106, Null, 4284, 90, 0)}
CompanyFloor == 4235

CompanyMonths == [i \in 1..24 |-> [month |-> 403 + i, revenue |-> 30 + i + (i % 3), reportedOn |-> IF i = 24 THEN Null ELSE 10 * (404 + i) + 2]]

CompanyValuations == [d \in {10 * LastQuarter, 4283} |->
  [tradeDate |-> d, peRatio |-> 1500, pbRatio |-> 120, dividendYield |-> IF d = 4283 THEN 250 ELSE Null]]
CompanyPriceLevel == [usdTwd |-> 30, deflator |-> 105, deflatorBase |-> 100]
CompanyIndex == [d \in DOMAIN CompanyPrices \ {4270} |-> 100 + (d % 11)]
=============================================================================
