----------------------------- MODULE Efficiency -----------------------------
(***************************************************************************)
(* The metrics of application/metrics/efficiency and what each of them is  *)
(* traced to.                                                              *)
(***************************************************************************)
EXTENDS SharedFamilies

-----------------------------------------------------------------------------
(* Turnovers: a flow over the average of a balance, the days that go with  *)
(* it, and the cycles the days add up to.                                  *)

calculateInventoryTurnover(operatingCost, inventory) == ratioCalc(operatingCost, inventory)
calculateReceivablesTurnover(operatingRevenue, receivable) == ratioCalc(operatingRevenue, receivable)
calculateFixedAssetTurnover(operatingRevenue, ppe) == ratioCalc(operatingRevenue, ppe)
calculatePayablesTurnover(operatingCost, payable) == ratioCalc(operatingCost, payable)

daysCalc(turnover, reason) == calc(toDays(turnover), because(toDays(turnover), daysNullReason(turnover, reason)))
calculateInventoryDays(turnover, reason) == daysCalc(turnover, reason)
calculateReceivablesDays(turnover, reason) == daysCalc(turnover, reason)
calculatePayablesDays(turnover, reason) == daysCalc(turnover, reason)

calculateCashConversionCycle(inventoryDays, receivablesDays, payablesDays) ==
  LET value == minus(plus(inventoryDays, receivablesDays), payablesDays)
  IN calc(value, because(value, "missing_input"))

calculateOperatingCycle(inventoryDays, receivablesDays) ==
  LET value == plus(inventoryDays, receivablesDays) IN calc(value, because(value, "missing_input"))

netWorkingCapital(balance) == minus(field(balance, "currentAssets"), field(balance, "currentLiabilities"))

turnoverBalances == {"inventory", "accountsReceivable", "propertyPlantEquipment", "accountsPayable"}

\* A cost or a revenue over an average, for each of the four balances.
turnoversOf(cost, revenue, average, current) ==
  LET of(result, name) == withAverageDenominator(result, average[name], field(current, name))
  IN [inventoryTurnover |-> of(calculateInventoryTurnover(cost, average.inventory), "inventory"),
      receivablesTurnover |-> of(calculateReceivablesTurnover(revenue, average.accountsReceivable), "accountsReceivable"),
      fixedAssetTurnover |-> of(calculateFixedAssetTurnover(revenue, average.propertyPlantEquipment), "propertyPlantEquipment"),
      payablesTurnover |-> of(calculatePayablesTurnover(cost, average.accountsPayable), "accountsPayable")]

\* The days of a turnover per year; a quarter's turnover counts four times.
daysOf(turnovers, perYear) ==
  LET inventory == calculateInventoryDays(times(perYear, turnovers.inventoryTurnover.value), turnovers.inventoryTurnover.nullReason)
      receivables == calculateReceivablesDays(times(perYear, turnovers.receivablesTurnover.value), turnovers.receivablesTurnover.nullReason)
      payables == calculatePayablesDays(times(perYear, turnovers.payablesTurnover.value), turnovers.payablesTurnover.nullReason)
  IN [inventoryDays |-> inventory, receivablesDays |-> receivables, payablesDays |-> payables,
      cashConversionCycle |-> calculateCashConversionCycle(inventory.value, receivables.value, payables.value),
      operatingCycle |-> calculateOperatingCycle(inventory.value, receivables.value)]

withDays(turnovers, perYear) == joined(turnovers, daysOf(turnovers, perYear))

\* Without a complete trailing year there is no turnover, and so no days.
yearlyTurnovers(periods, complete, average, b) ==
  IF complete THEN turnoversOf(sumOf(periods, "operatingCost"), sumOf(periods, "operatingRevenue"), average, b)
  ELSE [k \in {"inventoryTurnover", "receivablesTurnover", "fixedAssetTurnover", "payablesTurnover"} |-> insufficientHistory]

netWorkingCapitalTurnover(revenue, average, b) ==
  calcOr(ratioOf(revenue, average),
         IF netWorkingCapital(b) = Null THEN "missing_input"
         ELSE IF average = Null THEN "insufficient_history" ELSE "zero_or_negative_denominator")

balanceToRevenue(balance, revenue) == calcOr(percentOf(balance, revenue), determineNullReason(balance, 0))

ofRevenue(revenue, complete, capital, b) ==
  [netWorkingCapitalTurnover |-> whenKnown(complete, netWorkingCapitalTurnover(revenue, capital, b)),
   inventoryToRevenueRatio |-> whenKnown(complete, balanceToRevenue(field(b, "inventory"), revenue)),
   receivablesToRevenueRatio |-> whenKnown(complete, balanceToRevenue(field(b, "accountsReceivable"), revenue))]

averageTurnoverBalances(balances, window) ==
  [name \in turnoverBalances |-> averageOf(balances, LAMBDA s : s[name], window)]

turnoverData(q, b, income, balances, average, capital, periods, complete) ==
  [quarter |-> q, balance |-> b, balances |-> balances, average |-> average, averageCapital |-> capital,
   filedOn |-> firstOf(<<reportDate(b, q), reportDate(income, q)>>), periods |-> periods, complete |-> complete,
   quarterly |-> withDays(turnoversOf(field(income, "operatingCost"), field(income, "operatingRevenue"),
                                      averageTurnoverBalances(balances, "q"), b), 4),
   ttm |-> joined(withDays(yearlyTurnovers(periods, complete, average, b), 1),
                  ofRevenue(sumOf(periods, "operatingRevenue"), complete, capital, b))]

turnoverDataOver(q, balances, periods) ==
  turnoverData(q, balanceSheet(q), incomeStatement(q), balances, averageTurnoverBalances(balances, "ttm"),
               averageOf(balances, netWorkingCapital, "ttm"), periods, allFiled(periods, {"operatingCost", "operatingRevenue"}))

turnoverDataAt(q) == turnoverDataOver(q, resolveAverageBalances(q), resolveTrailingIncomeStatements(q).periods)

resolveTurnoverRatioFamilyData(query) ==
  LET q == resolveQuarterOrLatest(query, {"balanceSheet", "incomeStatement"}) IN IF q = Null THEN Null ELSE turnoverDataAt(q)

turnoverSlots ==
  LET both == {"inventoryTurnover", "receivablesTurnover", "fixedAssetTurnover", "payablesTurnover", "inventoryDays",
               "receivablesDays", "payablesDays", "cashConversionCycle", "operatingCycle"}
  IN both \X {"q", "ttm"} \union
     {"netWorkingCapitalTurnover", "inventoryToRevenueRatio", "receivablesToRevenueRatio"} \X {"ttm"}

computeTurnoverRatioFamily(query) ==
  slotsFrom(resolveTurnoverRatioFamilyData(query), turnoverSlots, LAMBDA r :
    LET main == resolveKnowledgeDate({<<r.quarter, r.filedOn>>})
    IN [k \in turnoverSlots |->
          IF k[2] = "q" THEN periodSlot(main, r.quarter, "Q", r.quarterly[k[1]])
          ELSE ttmSlot(r.periods, r.complete, r.ttm[k[1]], main, r.quarter)])

ttmFlowEntries(r, flow) == entriesOfPeriods(r.periods, {flow})

\* A member of the family, from flows and averages of balances.
tracedTurnover(query, metric, flows, names) ==
  tracedFrom(resolveTurnoverRatioFamilyData(query), LAMBDA r :
    provenance(r.quarter, r.ttm[metric].value,
      UNION {ttmFlowEntries(r, f) : f \in flows}
      \union averageBalanceEntries(r.balances, LAMBDA at, b : entriesOf(at, b, names))
      \union {averagedDenominatorEntry(r.balances, n, r.average[n]) : n \in names}))

getInventoryTurnoverProvenance(query) == tracedTurnover(query, "inventoryTurnover", {"operatingCost"}, {"inventory"})
getReceivablesTurnoverProvenance(query) ==
  tracedTurnover(query, "receivablesTurnover", {"operatingRevenue"}, {"accountsReceivable"})
getFixedAssetTurnoverProvenance(query) ==
  tracedTurnover(query, "fixedAssetTurnover", {"operatingRevenue"}, {"propertyPlantEquipment"})
getPayablesTurnoverProvenance(query) == tracedTurnover(query, "payablesTurnover", {"operatingCost"}, {"accountsPayable"})
getInventoryDaysProvenance(query) == tracedTurnover(query, "inventoryDays", {"operatingCost"}, {"inventory"})
getReceivablesDaysProvenance(query) == tracedTurnover(query, "receivablesDays", {"operatingRevenue"}, {"accountsReceivable"})
getPayablesDaysProvenance(query) == tracedTurnover(query, "payablesDays", {"operatingCost"}, {"accountsPayable"})
getCashConversionCycleProvenance(query) ==
  tracedTurnover(query, "cashConversionCycle", {"operatingCost", "operatingRevenue"},
                 {"inventory", "accountsReceivable", "accountsPayable"})
getOperatingCycleProvenance(query) ==
  tracedTurnover(query, "operatingCycle", {"operatingCost", "operatingRevenue"}, {"inventory", "accountsReceivable"})

getNetWorkingCapitalTurnoverProvenance(query) ==
  tracedFrom(resolveTurnoverRatioFamilyData(query), LAMBDA r :
    provenance(r.quarter, r.ttm.netWorkingCapitalTurnover.value,
      ttmFlowEntries(r, "operatingRevenue")
      \union averageBalanceEntries(r.balances, LAMBDA at, b : entriesOf(at, b, {"currentAssets", "currentLiabilities"}))
      \union {averagedDenominatorEntry(r.balances, "netWorkingCapital", r.averageCapital)}))

\* The closing balance, not its average.
tracedToRevenue(query, metric, name) ==
  tracedFrom(resolveTurnoverRatioFamilyData(query), LAMBDA r :
    provenance(r.quarter, r.ttm[metric].value,
               entriesOf(r.quarter, r.balance, {name}) \union ttmFlowEntries(r, "operatingRevenue")))

getInventoryToRevenueRatioProvenance(query) == tracedToRevenue(query, "inventoryToRevenueRatio", "inventory")
getReceivablesToRevenueRatioProvenance(query) == tracedToRevenue(query, "receivablesToRevenueRatio", "accountsReceivable")

getAssetTurnoverProvenance(query) ==
  tracedFrom(resolveDupontFamilyData(query), LAMBDA r :
    provenance(r.quarter, r.trailing.assetTurnover.value,
      entriesOfPeriods(r.periods, {"operatingRevenue"})
      \union averageBalanceEntries(r.balances, LAMBDA at, b : entriesOf(at, b, {"totalAssets"}))
      \union {averagedDenominatorEntry(r.balances, "assets", assetsAvgTtm(r.balances))}))

getCapexToOcfRatioProvenance(query) == tracedCashFlow(query, "capexToOcfRatio", {"ocf", "capex"})

-----------------------------------------------------------------------------
(* Ratios of two flows.                                                    *)

operatingExpense(income) == plus(field(income, "sellingExpenses"), field(income, "adminExpenses"))

computeOperatingExpenseRatio(query) ==
  Batch(query, {"incomeStatement"}, {"q", "ttm"}, LAMBDA q :
    LET income == incomeStatement(q)
        main == anchorOf(q, income)
        periods == resolveTrailingIncomeStatements(q).periods
        complete == allFiled(periods, {"sellingExpenses", "adminExpenses", "operatingRevenue"})
        ttm == percentCalc(sumTrailingPeriods(periods, operatingExpense), sumOf(periods, "operatingRevenue"))
    IN [q |-> periodSlot(main, q, "Q", percentCalc(operatingExpense(income), field(income, "operatingRevenue"))),
        ttm |-> ttmSlot(periods, complete, ttm, main, q)])

getOperatingExpenseRatioProvenance(query) ==
  traced(query, {"incomeStatement"}, LAMBDA q :
    LET periods == resolveTrailingIncomeStatements(q).periods
        expense == plus(sumOf(periods, "sellingExpenses"), sumOf(periods, "adminExpenses"))
    IN provenance(q, percentOf(expense, sumOf(periods, "operatingRevenue")),
                  entriesOfPeriods(periods, {"operatingRevenue", "sellingExpenses", "adminExpenses"})))

absOf(x) == IF x = Null THEN Null ELSE abs(x)

capexAndRevenueFiled(periods, flows) == allFiled(periods, {"operatingRevenue"}) /\ allFiled(flows, {"capitalExpenditures"})

computeCapexToRevenue(query) ==
  Batch(query, {"incomeStatement", "cashFlowStatement"}, {"q", "ttm"}, LAMBDA q :
    LET income == incomeStatement(q)
        cashFlow == cashFlowStatement(q)
        main == resolveKnowledgeDate({<<q, firstOf(<<reportDate(income, q), reportDate(cashFlow, q)>>)>>})
        periods == resolveTrailingIncomeStatements(q).periods
        flows == resolveTrailingCashFlowStatements(q).periods
        ttm == percentCalc(absOf(sumOf(flows, "capitalExpenditures")), sumOf(periods, "operatingRevenue"))
    IN [q |-> periodSlot(main, q, "Q", percentCalc(absOf(field(cashFlow, "capitalExpenditures")), field(income, "operatingRevenue"))),
        ttm |-> ttmSlot(periods, capexAndRevenueFiled(periods, flows), ttm, main, q)])

getCapexToRevenueProvenance(query) ==
  traced(query, {"incomeStatement", "cashFlowStatement"}, LAMBDA q :
    LET periods == resolveTrailingIncomeStatements(q).periods
        flows == resolveTrailingCashFlowStatements(q).periods
    IN provenance(q, percentOf(absOf(sumOf(flows, "capitalExpenditures")), sumOf(periods, "operatingRevenue")),
                  entriesOfPeriods(periods, {"operatingRevenue"}) \union entriesOfPeriods(flows, {"capitalExpenditures"})))
=============================================================================
