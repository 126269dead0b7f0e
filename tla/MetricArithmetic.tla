-------------------------- MODULE MetricArithmetic --------------------------
(***************************************************************************)
(* What every metric is computed with: amounts that may be missing, the    *)
(* rounding helpers, the pickers of a statement, and the slots a use case  *)
(* hands to persistComputations.                                           *)
(*                                                                         *)
(* Amounts are integers.  A rounded value is the integer number of its     *)
(* last digit: toPercent and toRatio in hundredths, toRatio4 in            *)
(* ten-thousandths.  A statement is a function from field names to amounts *)
(* or Null; a statement that was never filed is Null itself.               *)
(***************************************************************************)
EXTENDS Integers, Sequences, FiniteSets

CONSTANT Null

ASSUME NullAssumption == Null \notin Int

\* A column that may be NULL, and a price or a multiplier.
Nullable == Int \union {Null}
Positive == Nat \ {0}

-----------------------------------------------------------------------------
(* Missing amounts: `a !== null && b !== null ? ... : null`.               *)

field(statement, name) == IF statement = Null THEN Null ELSE statement[name]

orElse(x, y) == IF x = Null THEN y ELSE x
orZero(x) == orElse(x, 0)

plus(x, y) == IF x = Null \/ y = Null THEN Null ELSE x + y
minus(x, y) == IF x = Null \/ y = Null THEN Null ELSE x - y
times(k, x) == IF x = Null THEN Null ELSE k * x

\* The sum of a sequence of amounts, Null as soon as one is missing.
total(amounts) ==
  LET upTo[i \in 0..Len(amounts)] == IF i = 0 THEN 0 ELSE plus(upTo[i - 1], amounts[i])
  IN upTo[Len(amounts)]

\* The first amount that is there: the chain `a ?? b ?? c`.
firstOf(amounts) ==
  LET there == {i \in DOMAIN amounts : amounts[i] # Null}
  IN IF there = {} THEN Null ELSE amounts[CHOOSE i \in there : \A j \in there : i <= j]

-----------------------------------------------------------------------------
(* numericHelpers.ts                                                       *)

\* Math.round(n / d): halves go up.  d # 0.
rounded(n, d) == IF d > 0 THEN (2 * n + d) \div (2 * d) ELSE (d - 2 * n) \div (-2 * d)

toPercent(n, d) == IF d = 0 THEN Null ELSE rounded(10000 * n, d)
toRatio(n, d) == IF d = 0 THEN Null ELSE rounded(100 * n, d)
toRatio4(n, d) == IF d = 0 THEN Null ELSE rounded(10000 * n, d)
toPerShare(thousands, shares) == IF shares = 0 THEN Null ELSE rounded(100 * 1000 * thousands, shares)
toMultipleFromThousands(amount, thousands) == IF thousands = 0 THEN Null ELSE rounded(amount, 10 * thousands)
toDays(turnover) == IF turnover = Null \/ turnover = 0 THEN Null ELSE rounded(365 * 100 * 100, turnover)

\* The same with amounts that may be missing.
percentOf(n, d) == IF n = Null \/ d = Null THEN Null ELSE toPercent(n, d)
ratioOf(n, d) == IF n = Null \/ d = Null THEN Null ELSE toRatio(n, d)
perShareOf(n, d) == IF n = Null \/ d = Null THEN Null ELSE toPerShare(n, d)

\* The mean of balances, halves away from zero; Null when one is missing.
meanOf(sum, n) ==
  IF n = 0 \/ sum = Null THEN Null
  ELSE IF sum >= 0 THEN (sum + n \div 2) \div n ELSE -((n \div 2 - sum) \div n)
averageBalance(values) == meanOf(total(values), Len(values))

abs(x) == IF x < 0 THEN -x ELSE x

determineNullReason(numerator, denominator) ==
  IF numerator = Null \/ denominator = Null THEN "missing_input" ELSE "zero_or_negative_denominator"

daysNullReason(turnover, turnoverNullReason) ==
  IF turnover = 0 THEN "zero_or_negative_denominator" ELSE orElse(turnoverNullReason, "missing_input")

\* CalcResult
calc(value, nullReason) == [value |-> value, nullReason |-> nullReason]

\* `value !== null ? null : reason`
because(value, reason) == IF value = Null THEN reason ELSE Null

calcOr(value, reason) == calc(value, because(value, reason))

insufficientHistory == calc(Null, "insufficient_history")
notApplicable == calc(Null, "not_applicable_industry")

\* A percentage or a ratio with the usual reason for its absence.
percentCalc(n, d) == calcOr(percentOf(n, d), determineNullReason(n, d))
ratioCalc(n, d) == calcOr(ratioOf(n, d), determineNullReason(n, d))

ratio4Of(n, d) == IF n = Null \/ d = Null THEN Null ELSE toRatio4(n, d)
ratio4Calc(n, d) == calcOr(ratio4Of(n, d), determineNullReason(n, d))

perShareCalc(n, d) == calcOr(perShareOf(n, d), determineNullReason(n, d))

\* The only reason a value like this is missing.
missingCalc(value) == calc(value, because(value, "missing_input"))

\* BigInt division drops the fraction.  d > 0.
truncated(n, d) == IF n >= 0 THEN n \div d ELSE -((-n) \div d)

calculateYoyGrowthRate(current, prior) ==
  calcOr(IF current = Null \/ prior = Null \/ prior = 0 THEN Null ELSE toPercent(current - prior, abs(prior)),
         determineNullReason(current, prior))

-----------------------------------------------------------------------------
(* pickers.ts                                                              *)

pickNetIncome(income) == orElse(field(income, "netIncomeAttributableToParent"), field(income, "netIncome"))

pickEquity(balance) == orElse(field(balance, "equityAttributableToParent"), field(balance, "totalEquity"))

\* Earnings before interest and tax.
ebit(income) == plus(field(income, "profitBeforeTax"), field(income, "financeCosts"))

DebtFields == {"shortTermBorrowings", "shortTermNotesAndBillsPayable",
               "currentPortionOfLongTermLiabilities", "bondsPayable", "longTermBorrowings"}

\* A part of the debt that is not reported counts as none.
interestBearingDebt(balance) ==
  IF balance = Null THEN Null
  ELSE orZero(balance.shortTermBorrowings) + orZero(balance.shortTermNotesAndBillsPayable)
       + orZero(balance.currentPortionOfLongTermLiabilities)
       + orZero(balance.bondsPayable) + orZero(balance.longTermBorrowings)

-----------------------------------------------------------------------------
(* computation.ts: a slot is a computation or a skip.                      *)

\* Two batches with different keys spread into one object: the @@ of TLC,
\* which the provers do not expand.
joined(f, g) == [k \in DOMAIN f \union DOMAIN g |-> IF k \in DOMAIN f THEN f[k] ELSE g[k]]

skip(action) == [action |-> action]
isComputationSkip(slot) == "action" \in DOMAIN slot

computation(anchor, quarter, period, value, nullReason) ==
  [quarter |-> quarter, period |-> period, value |-> value, nullReason |-> nullReason,
   knowledgeDate |-> anchor.date, isFallback |-> anchor.isFallback]

periodSlot(anchor, quarter, period, result) ==
  IF anchor = Null THEN skip("skipped_no_knowledge_date")
  ELSE computation(anchor, quarter, period, result.value, result.nullReason)

periodSlots(anchor, quarter, period, results) ==
  [k \in DOMAIN results |-> periodSlot(anchor, quarter, period, results[k])]

noQuarterBatch(keys) == [k \in keys |-> skip("skipped_no_quarter")]

-----------------------------------------------------------------------------
(* provenanceTypes.ts: where a value comes from.  An entry is the quarter, *)
(* the field and the amount shown.                                         *)

entry(quarter, name, amount) == [quarter |-> quarter, field |-> name, value |-> amount]
entriesOf(quarter, statement, names) == {entry(quarter, n, field(statement, n)) : n \in names}

\* The field a picked amount was taken from is shown with it.
equityEntry(quarter, balance) ==
  entry(quarter, IF field(balance, "equityAttributableToParent") # Null THEN "equityAttributableToParent"
                 ELSE "totalEquity", pickEquity(balance))
netIncomeEntry(quarter, income) ==
  entry(quarter, IF field(income, "netIncomeAttributableToParent") # Null THEN "netIncomeAttributableToParent"
                 ELSE "netIncome", pickNetIncome(income))

debtEntries(quarter, balance) == entriesOf(quarter, balance, DebtFields)

provenance(quarter, value, entries) ==
  [found |-> TRUE, quarter |-> quarter, value |-> value, entries |-> entries]
notFound == [found |-> FALSE, quarter |-> Null, value |-> Null, entries |-> {}]
=============================================================================
